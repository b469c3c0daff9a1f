------------------------- MODULE MCLiveness -------------------------
(***************************************************************************)
(* What must eventually happen, each component on a small instance, with   *)
(* the fairness of its goroutines.  Endings: what is cut, closed or        *)
(* revoked among the planes and sessions that carry traffic comes to an    *)
(* end.  Settling: the manager's and the connector's work settles.  Both   *)
(* are disjoint unions.                                                    *)
(***************************************************************************)
EXTENDS Naturals

CONSTANTS None, Gone

VARIABLES component, v1, v2, v3, v4, v5, v6, v7, v8, v9, v10, v11, v12, v13, v14, v15, v16

vars == <<component, v1, v2, v3, v4, v5, v6, v7, v8, v9, v10, v11, v12, v13, v14, v15, v16>>

HTTP ==
    INSTANCE HTTPProxy WITH Ids <- {"i"}, Ports <- {80}, Insts <- {1}, Conns <- {"c", "d"}, mu <- v1,
        proxies <- v2, idxPort <- v3, inst <- v4, conn <- v5, deleter <- v6, rules <- v7, busy <-
        v8, panicked <- v9
Relay ==
    INSTANCE HTTPRelay WITH Conns <- {"c"}, MaxSent <- 2, MaxRequests <- 1, conn <- v1, stats <- v2,
        report <- v3, collected <- v4, recorded <- v5
TCP ==
    INSTANCE Gatekeeper WITH Ids <- {"i"}, Ports <- {"p"}, Insts <- {1, 2}, Conns <- {"c", "d"}, mu <-
        v1, proxies <- v2, idxPort <- v3, appMap <- v4, inst <- v5, conn <- v6, rules <- v7, closed
        <- v8
Meter ==
    INSTANCE TrafficMeter WITH Conns <- {"c", "d"}, Planed <- {"c"}, MaxUnits <- 2, InsertFails <- TRUE,
        conn <- v1, plane <- v2, reporting <- v3, stats <- v4, flushing <- v5, rows <- v6, lost <-
        v7, relayed <- v8, loop <- v9, phase <- v10
SSH ==
    INSTANCE SSHGateway WITH Sessions <- {"s"}, Ups <- {1}, MaxOut <- 0, Busy <- {"s"}, conn <- v1, ups
        <- v2, audit <- v3, sess <- v4
DB ==
    INSTANCE DBGateway WITH Gens <- {1}, Clients <- {"c"}, Slots <- 1, Protocol <- "mysql", listener <-
        v1, closed <- v2, gen <- v3, sess <- v4, slots <- v5, allowed <- v6, deleter <- v7, closer
        <- v8
Terminals ==
    INSTANCE WebSSHSession WITH Tokens <- {"t"}, Keys <- {"k"}, Proxies <- {"p"}, NoKey <- None, status
        <- v1, proto <- v2, trusted <- v3, buried <- v4, saved <- v5, store <- v6, active <- v7,
        sess <- v8, pc <- v9, done <- v10, handles <- v11, audits <- v12, closer <- v13
Files ==
    INSTANCE FileSessions WITH Ids <- {"i"}, Users <- {"u"}, Reqs <- {"r", "s"}, PerUser <- 1, Total <-
        1, owner <- v1, items <- v2, stale <- v3, cancel <- v4, req <- v5, done <- v6, cut <- v7,
        active <- v8, pending <- v9, allowed <- v10, temp <- v11, dest <- v12
Desktops ==
    INSTANCE WebDesktopSession WITH Tokens <- {"t"}, Proxies <- {"p"}, status <- v1, store <- v2, active
        <- v3, sess <- v4, pc <- v5, listening <- v6, bridge <- v7, local <- v8, done <- v9, handles
        <- v10, audits <- v11, closer <- v12
Data ==
    INSTANCE WebDataSession WITH Tokens <- {"t"}, Reqs <- {"r", "s"}, Dialled <- {}, status <- v1,
        closer <- v2, pc <- v3, store <- v4, stale <- v5, client <- v6, handles <- v7, undo <- v8,
        mutex <- v9, req <- v10, audits <- v11
AI ==
    INSTANCE AIGateway WITH Requests <- {"p"}, Savers <- {"s"}, Targets <- {"a", "b"}, Limits <- {},
        Costs <- {1, 2}, Slots <- 1, MaxRuns <- 1, MaxAdmin <- 4, MaxFaults <- 0, key <- v1, limit
        <- v2, used <- v3, unknown <- v4, config <- v5, enabled <- v6, models <- v7, slots <- v8,
        req <- v9, save <- v10, spent <- v11, lost <- v12, high <- v13, runs <- v14, admin <- v15,
        faults <- v16

\* The variables that a component with k variables does not use.
Spare(k) ==
    /\ k < 5 => v5 = None
    /\ k < 6 => v6 = None
    /\ k < 7 => v7 = None
    /\ k < 8 => v8 = None
    /\ k < 9 => v9 = None
    /\ k < 10 => v10 = None
    /\ k < 11 => v11 = None
    /\ k < 12 => v12 = None
    /\ k < 13 => v13 = None
    /\ k < 14 => v14 = None
    /\ k < 15 => v15 = None
    /\ k < 16 => v16 = None
Keep(k) ==
    /\ k < 5 => UNCHANGED v5
    /\ k < 6 => UNCHANGED v6
    /\ k < 7 => UNCHANGED v7
    /\ k < 8 => UNCHANGED v8
    /\ k < 9 => UNCHANGED v9
    /\ k < 10 => UNCHANGED v10
    /\ k < 11 => UNCHANGED v11
    /\ k < 12 => UNCHANGED v12
    /\ k < 13 => UNCHANGED v13
    /\ k < 14 => UNCHANGED v14
    /\ k < 15 => UNCHANGED v15
    /\ k < 16 => UNCHANGED v16

EndingsInit ==
    \/ component = "http" /\ HTTP!Init /\ Spare(9)
    \/ component = "relay" /\ Relay!Init /\ Spare(5)
    \/ component = "tcp" /\ TCP!Init /\ Spare(8)
    \/ component = "meter" /\ Meter!Init /\ Spare(10)
    \/ component = "ssh" /\ SSH!Init /\ Spare(4)
    \/ component = "database" /\ DB!Init /\ Spare(8)
    \/ component = "terminals" /\ Terminals!Init /\ Spare(13)
    \/ component = "files" /\ Files!Init /\ Spare(12)
    \/ component = "desktops" /\ Desktops!Init /\ Spare(12)
    \/ component = "data" /\ Data!Init /\ Spare(11)
    \/ component = "ai" /\ AI!Init

EndingsNext ==
    /\ UNCHANGED component
    /\ \/ component = "http" /\ HTTP!Next /\ Keep(9)
       \/ component = "relay" /\ Relay!Next /\ Keep(5)
       \/ component = "tcp" /\ TCP!Next /\ Keep(8)
       \/ component = "meter" /\ Meter!Next /\ Keep(10)
       \/ component = "ssh" /\ SSH!Next /\ Keep(4)
       \/ component = "database" /\ DB!Next /\ Keep(8)
       \/ component = "terminals" /\ Terminals!Next /\ Keep(13)
       \/ component = "files" /\ Files!Next /\ Keep(12)
       \/ component = "desktops" /\ Desktops!Next /\ Keep(12)
       \/ component = "data" /\ Data!Next /\ Keep(11)
       \/ component = "ai" /\ AI!Next

(* The goroutines of the manager run.  A handler whose connection is open   *)
(* may last for ever (an idle client, a WebSocket, remote I/O); one whose   *)
(* connection is closed ends, provided the target answers.                  *)
HTTPFairness ==
    /\ WF_(HTTP!vars)(component = "http" /\ HTTP!Loop(1))
    /\ \A c \in {"c", "d"} : WF_(HTTP!vars)(component = "http" /\ HTTP!Finish(c))
    /\ WF_(HTTP!vars)(component = "http" /\ HTTP!Delete("i"))
    /\ WF_(Relay!vars)(component = "relay" /\ Relay!Handler("c"))
    /\ \A d \in {"up", "down"} : WF_(Relay!vars)(component = "relay" /\ Relay!CopyEnds("c", d))
    /\ WF_(Relay!vars)(component = "relay" /\ Relay!CopyUp("c"))
    /\ WF_(Relay!vars)(component = "relay" /\ Relay!CopyDown("c"))

(* The timer of a deletion expires and a closed channel is noticed; nothing *)
(* is assumed of the library's accept loop.  The meters' tickers tick and   *)
(* their flushes go on.                                                     *)
TCPFairness ==
    /\ WF_(TCP!vars)(component = "tcp" /\ TCP!Timeout("i"))
    /\ WF_(TCP!vars)(component = "tcp" /\ TCP!LoopDone("i"))
    /\ \A c \in {"c", "d"} :
         /\ WF_(Meter!vars)(component = "meter" /\ Meter!Tick(c))
         /\ WF_(Meter!vars)(component = "meter" /\ Meter!Flush(c))
         /\ WF_(Meter!vars)(component = "meter" /\ Meter!Add(c))
         /\ \A f \in Meter!Flushers :
              /\ WF_(Meter!vars)(component = "meter" /\ Meter!recordTraffic(c, f))
              /\ WF_(Meter!vars)(component = "meter" /\ Meter!RecordTraffic(c, f))
    /\ WF_(Meter!vars)(component = "meter" /\ Meter!flushAndReport)
    /\ WF_(Meter!vars)(component = "meter" /\ Meter!Report)
    /\ WF_(Meter!vars)(component = "meter" /\ Meter!TickFlush)
    /\ \A f \in Meter!Collectors : WF_(Meter!vars)(component = "meter" /\ Meter!CreateTrafficMetric(f))

(* The gateways' goroutines run, every blocking call of a negotiation has a *)
(* deadline and the policy ticker ticks; clients and targets owe nothing.   *)
GatewayFairness ==
    /\ WF_(SSH!vars)(component = "ssh" /\ SSH!handleConnection)
    /\ WF_(SSH!vars)(component = "ssh" /\ SSH!CloseAudit)
    /\ WF_(SSH!vars)(component = "ssh" /\ SSH!close)
    /\ WF_(SSH!vars)(component = "ssh" /\ SSH!Bridge("s"))
    /\ WF_(SSH!vars)(component = "ssh" /\ SSH!forwardTargetRequests("s"))
    /\ WF_(SSH!vars)(component = "ssh" /\ SSH!CopyOut("s"))
    /\ WF_(DB!vars)(component = "database" /\ DB!Loop(1))
    /\ WF_(DB!vars)(component = "database" /\ DB!Session("c"))
    /\ WF_(DB!vars)(component = "database" /\ DB!AfterFunc("c"))
    /\ WF_(DB!vars)(component = "database" /\ DB!PolicyTick("c"))
    /\ WF_(DB!vars)(component = "database" /\ DB!Deleted)
    /\ WF_(DB!vars)(component = "database" /\ DB!Closed)
    /\ WF_(AI!vars)(component = "ai" /\ AI!Watch("p"))
    /\ WF_(AI!vars)(component = "ai" /\ AI!TransportCloses("p"))
    /\ WF_(AI!vars)(component = "ai" /\ AI!Dial("p"))

(* The goroutine that serves a browser's session runs until it ends: the    *)
(* target answers or fails the handshake, the loop sees its cancelled       *)
(* context, a statement has a timeout, the session's mutex is released and  *)
(* handed on; a request that wrote the row goes on to close the sessions.   *)
SessionFairness ==
    /\ WF_(Terminals!vars)(component = "terminals" /\
         (Terminals!registerActive("t") \/ Terminals!OpenWebSSHStream("t") \/ Terminals!HandshakeFails("t")))
    /\ WF_(Terminals!vars)(component = "terminals" /\ Terminals!startWebSSHShell("t"))
    /\ WF_(Terminals!vars)(component = "terminals" /\
         (Terminals!TrustWebSSHHostKey("t") \/ Terminals!Authenticate("t")))
    /\ WF_(Terminals!vars)(component = "terminals" /\ Terminals!StopServing("t"))
    /\ WF_(Terminals!vars)(component = "terminals" /\ Terminals!closeByProxy("p"))
    /\ WF_(Terminals!vars)(component = "terminals" /\ Terminals!CancelAll("p"))
    /\ \A r \in {"r", "s"} :
         /\ WF_(Files!vars)(component = "files" /\ Files!Tick(r))
         /\ WF_(Files!vars)(component = "files" /\ Files!CloseTransport(r))
         /\ WF_(Files!vars)(component = "files" /\ Files!CallCancel(r))
         /\ WF_(Files!vars)(component = "files" /\ Files!Begin(r))
         /\ WF_(Files!vars)(component = "files" /\ Files!Unwind(r))
    /\ WF_(Desktops!vars)(component = "desktops" /\ Desktops!closeByProxy("p"))
    /\ WF_(Desktops!vars)(component = "desktops" /\ Desktops!CancelAll("p"))
    /\ WF_(Desktops!vars)(component = "desktops" /\ Desktops!Connection("t"))
    /\ WF_(Desktops!vars)(component = "desktops" /\ Desktops!StopServing("t"))
    /\ WF_(Desktops!vars)(component = "desktops" /\ Desktops!BridgeGivesUp("t"))
    /\ WF_(Desktops!vars)(component = "desktops" /\ Desktops!OpenWebDesktopStream("t"))
    /\ WF_(Desktops!vars)(component = "desktops" /\ Desktops!StopBridge("t"))
    /\ \A r \in {"r", "s"} :
         /\ WF_(Data!vars)(component = "data" /\
              (Data!ensureWebDataSessionActive(r) \/ Data!CheckClient(r) \/ Data!Use(r) \/ Data!execute(r)))
         /\ WF_(Data!vars)(component = "data" /\ Data!Lock(r))
         /\ WF_(Data!vars)(component = "data" /\ (Data!AuditClose(r) \/ Data!delete(r)))
    /\ WF_(Data!vars)(component = "data" /\ (Data!closeByProxy \/ Data!CloseAll))

EndingsSpec ==
    /\ EndingsInit /\ [][EndingsNext]_vars
    /\ HTTPFairness /\ TCPFairness /\ GatewayFairness /\ SessionFairness

(* What is cut ends, although its peers may be silent for ever: a WebSocket *)
(* relay and an SSH bridge whose client has left, a database session whose  *)
(* source is no longer admitted, a terminal and a desktop whose access is   *)
(* stopped, a transfer whose permission is withdrawn, an AI stream whose    *)
(* key is revoked.                                                          *)
CutSessionsEnd ==
    /\ (component = "relay" /\ Relay!ClientLeft("c")) ~> (component = "relay" => Relay!RelayOver("c"))
    /\ (component = "ssh" /\ SSH!BridgeIsCut("s")) ~> (component = "ssh" => SSH!BridgeIsOver("s"))
    /\ (component = "database" /\ DB!SessionRevoked("c")) ~> (component = "database" => DB!SessionGone("c"))
    /\ (component = "terminals" /\ Terminals!CutOff("t")) ~> (component = "terminals" => Terminals!Ended("t"))
    /\ \A r \in {"r", "s"} :
         (component = "files" /\ Files!TransferRevoked(r)) ~> (component = "files" => Files!TransferOver(r))
    /\ (component = "desktops" /\ Desktops!CutOff("t")) ~> (component = "desktops" => Desktops!Ended("t"))
    /\ (component = "desktops" /\ Desktops!Ended("t")) ~> (component = "desktops" => Desktops!BridgeIsOver("t"))
    /\ []<>(component = "ai" => AI!StreamIsEntitled("p"))

(* What has begun returns: the deletion of an access of each plane          *)
(* (entry/http, transport and dbgateway), a data workspace's request that   *)
(* waits for the session's mutex, and the counters of sessions that have    *)
(* closed reach the database.                                               *)
CallsReturn ==
    /\ (component = "http" /\ HTTP!Stopping("i")) ~> (component = "http" => HTTP!Deleted("i"))
    /\ (component = "tcp" /\ TCP!Deleting("i")) ~> (component = "tcp" => ~TCP!Deleting("i"))
    /\ (component = "database" /\ DB!Deleting(1)) ~> (component = "database" => ~DB!Deleting(1))
    /\ (component = "database" /\ DB!Closing(1)) ~> (component = "database" => ~DB!Closing(1))
    /\ \A r \in {"r", "s"} :
         (component = "data" /\ Data!RequestStarted(r)) ~> (component = "data" => Data!RequestOver(r))
    /\ (component = "meter" /\ Meter!AllClosed) ~> (component = "meter" => Meter!AllStored)

-----------------------------------------------------------------------------
(* ScanRange: networks of two-bit octets. *)
Networks == {<<<<1, 0>>, 2>>, <<<<2, 2>>, 3>>, <<<<3, 1>>, 4>>}

Registry ==
    INSTANCE ToolRegistry WITH Names <- {"n"}, Versions <- {"v"}, Sources <- {"a", "b"}, Calls <- {"c"},
        NoSource <- None, MaxGen <- 2, entry <- v1, registry <- v2, catalog <- v3, lock <- v4, mgr
        <- v5, call <- v6
Broker ==
    INSTANCE EventBroker WITH Clients <- {"c"}, Sessions <- {"s", "t"}, BufferSize <- 1, MaxID <- 3,
        nextID <- v1, subscribers <- v2, log <- v3, chan <- v4, client <- v5, written <- v6, may <-
        v7, revoked <- v8, panicked <- v9
Editor ==
    INSTANCE Assistance WITH Editors <- {"e"}, Requests <- {"p", "q"}, Lanes <- {1}, Revisions <- {1,
        2}, MaxLanes <- 1, MaxGen <- 1, assistants <- v1, stale <- v2, lane <- v3, req <- v4, gen <-
        v5, may <- v6
Database ==
    INSTANCE DaoTransactions WITH Users <- {"u"}, Readers <- {"r"}, Nested <- {}, Workers <- {"w"},
        Tasks <- {1}, Modes <- {"all"}, mode <- v1, mu <- v2, conn <- v3, at <- v4, writes <- v5,
        stored <- v6, cancelled <- v7, todo <- v8, task <- v9, outcome <- v10, answer <- v11
Task ==
    INSTANCE ScanTask WITH Tasks <- {1}, Scans <- {"s"}, MaxFaults <- 1, edge <- v1, task <- v2,
        reopened <- v3, create <- v4, expiry <- v5, sweep <- v6, report <- v7, conn <- v8, scan <-
        v9, pull <- v10, faults <- v11
Range ==
    INSTANCE ScanRange WITH OctetBits <- 2, Nets <- Networks, Ports <- <<1, 2>>, Workers <- {1, 2},
        QueueSize <- 1, net <- v1, cursor <- v2, ips <- v3, at <- v4, next <- v5, queue <- v6,
        closed <- v7, worker <- v8, alive <- v9, result <- v10
Presence ==
    INSTANCE EdgePresence WITH Conns <- {1, 2}, MaxEdits <- 0, MaxRestarts <- 1, online <- v1, addr <-
        v2, up <- v3, onCall <- v4, offCall <- v5, saw <- v6, beat <- v7, edit <- v8, overtaken <-
        v9, edits <- v10, restarts <- v11
Inventory ==
    INSTANCE DeviceInventory WITH Edges <- {"e"}, Machines <- {"m", "n"}, Addresses <- {"a", "b"}, Users
        <- {"u"}, MaxDevices <- 3, MaxChanges <- 3, MaxFaults <- 1, Readers <- FALSE, Return <-
        FALSE, machine <- v1, left <- v2, addrs <- v3, registered <- v4, shared <- v5, msg <- v6,
        dev <- v7, host <- v8, deleted <- v9, cascade <- v10, pending <- v11, shown <- v12, found <-
        v13, changes <- v14, faults <- v15
Client ==
    INSTANCE EdgeSupervisor WITH Servers <- {"s"}, Logins <- {"l"}, MayQuit <- FALSE, MaxSups <- 2,
        MaxEdges <- 1, MaxCommands <- 2, server <- v1, slot <- v2, sups <- v3, logins <- v4,
        keychain <- v5, config <- v6, saved <- v7, edges <- v8, online <- v9, main <- v10, popup <-
        v11, commands <- v12

SettlingInit ==
    \/ component = "registry" /\ Registry!Init /\ Spare(6)
    \/ component = "broker" /\ Broker!Init /\ Spare(9)
    \/ component = "editor" /\ Editor!Init /\ Spare(6)
    \/ component = "database" /\ Database!Init /\ Spare(11)
    \/ component = "task" /\ Task!Init /\ Spare(11)
    \/ component = "range" /\ Range!Init /\ Spare(10)
    \/ component = "presence" /\ Presence!Init /\ Spare(11)
    \/ component = "inventory" /\ Inventory!Init /\ Spare(15)
    \/ component = "client" /\ Client!Init /\ Spare(12)

SettlingNext ==
    /\ UNCHANGED component
    /\ \/ component = "registry" /\ Registry!Next /\ Keep(6)
       \/ component = "broker" /\ Broker!Next /\ Keep(9)
       \/ component = "editor" /\ Editor!Next /\ Keep(6)
       \/ component = "database" /\ Database!Next /\ Keep(11)
       \/ component = "task" /\ Task!Next /\ Keep(11)
       \/ component = "range" /\ Range!Next /\ Keep(10)
       \/ component = "presence" /\ Presence!Next /\ Keep(11)
       \/ component = "inventory" /\ Inventory!Next /\ Keep(15)
       \/ component = "client" /\ Client!Next /\ Keep(12)

(* Goroutines are scheduled, Go's mutex does not starve a waiter, and       *)
(* executors return; a write to a stalled client of the events may block    *)
(* for ever, and so may a model, but a cancelled generator returns.         *)
AgentFairness ==
    /\ \A s \in {"a", "b"} : SF_(Registry!vars)(component = "registry" /\ Registry!Manage(s))
    /\ WF_(Registry!vars)(component = "registry" /\ Registry!Release("c"))
    /\ WF_(Broker!vars)(component = "broker" /\ Broker!Handler("c"))
    /\ WF_(Broker!vars)(component = "broker" /\ Broker!Watcher("c"))
    /\ WF_(Broker!vars)(component = "broker" /\ Broker!ContextEnds("c"))
    /\ \A r \in {"p", "q"} :
         /\ WF_(Editor!vars)(component = "editor" /\ Editor!Step(r))
         /\ WF_(Editor!vars)(component = "editor" /\ Editor!GiveUp(r))

(* Functions given to a transaction return; the lock and the connection are *)
(* handed to everyone who waits (the queues of sync.RWMutex and             *)
(* database/sql are fair).                                                  *)
DatabaseFairness ==
    /\ \A p \in {"u", "w"} :
         /\ WF_(Database!vars)(component = "database" /\ Database!Begin(p))
         /\ WF_(Database!vars)(component = "database" /\ Database!Connected(p))
         /\ WF_(Database!vars)(component = "database" /\ Database!Exec(p))
    /\ WF_(Database!vars)(component = "database" /\ Database!UserStep("u"))
    /\ WF_(Database!vars)(component = "database" /\ Database!getDB("r"))
    /\ WF_(Database!vars)(component = "database" /\ Database!Query("r"))
    /\ WF_(Database!vars)(component = "database" /\ Database!WorkerStep("w"))
    /\ WF_(Database!vars)(component = "database" /\ Database!Return)

(* A sleeping timer wakes up and goes on to its statement; a probe ends at  *)
(* its deadline; a connector reports every minute, and its machine every    *)
(* hour and after a failure; the manager answers.  Nothing is promised of   *)
(* users, processes and managers of the desktop client.                     *)
ConnectorFairness ==
    /\ WF_(Task!vars)(component = "task" /\ Task!ExpireRead(1))
    /\ WF_(Task!vars)(component = "task" /\ Task!ExpireWrite(1))
    /\ WF_(Range!vars)(component = "range" /\ Range!getIPsFromNets)
    /\ WF_(Range!vars)(component = "range" /\ Range!Dispatch)
    /\ WF_(Range!vars)(component = "range" /\ Range!Return)
    /\ \A w \in {1, 2} :
         /\ WF_(Range!vars)(component = "range" /\ Range!Take(w))
         /\ WF_(Range!vars)(component = "range" /\ (Range!Silent(w) \/ Range!Answers(w)))
    /\ \A k \in {1, 2} :
         /\ WF_(Presence!vars)(component = "presence" /\ Presence!Report(k))
         /\ WF_(Presence!vars)(component = "presence" /\ Presence!updateEdgeHeartbeat(k))
         /\ WF_(Presence!vars)(component = "presence" /\ Presence!HeartbeatWrite(k))
    /\ WF_(Inventory!vars)(component = "inventory" /\ Inventory!loopReportDevice("e"))
    /\ WF_(Inventory!vars)(component = "inventory" /\ Inventory!reportDevice("e"))
    /\ WF_(Inventory!vars)(component = "inventory" /\ Inventory!repeatDeviceReport("e"))
    /\ \A d \in 1 .. 3 : WF_(Inventory!vars)(component = "inventory" /\ Inventory!DeleteDevice(d))
    /\ \A i \in {1, 2} :
         /\ WF_(Client!vars)(component = "client" /\ Client!RunLoop(i))
         /\ WF_(Client!vars)(component = "client" /\ Client!PollStatus(i))
    /\ WF_(Client!vars)(component = "client" /\ Client!FinishCommand)

SettlingSpec ==
    /\ SettlingInit /\ [][SettlingNext]_vars
    /\ AgentFairness /\ DatabaseFairness /\ ConnectorFairness

(* What waits is served, and what was asked for comes true once it is not   *)
(* taken back: a draining tool is unloaded and its manager returns          *)
(* (tool/registry.go), a client that left is unsubscribed                   *)
(* (runtime/events.go), a superseded suggestion ends (assistance), every    *)
(* transaction gets the connection (repo/dao), a scan task is closed and a  *)
(* scan returns (scanner.go), a connected connector is shown on line        *)
(* (frontierbound/oob.go), the inventory describes the machines             *)
(* (frontierbound/device.go), and the desktop client's process follows the  *)
(* user's intent (edge_supervisor.rs).                                      *)
WorkSettles ==
    /\ \A g \in {1, 2} :
         (component = "registry" /\ Registry!Draining(g)) ~> (component = "registry" => Registry!Unloaded(g))
    /\ \A s \in {"a", "b"} :
         (component = "registry" /\ Registry!Managing(s)) ~> (component = "registry" => Registry!ManagerReturned(s))
    /\ (component = "broker" /\ Broker!ClientGone("c")) ~> (component = "broker" => Broker!ClientRemoved("c"))
    /\ \A r \in {"p", "q"} :
         (component = "editor" /\ Editor!Superseded(r)) ~> (component = "editor" => Editor!RequestOver(r))
    /\ \A p \in {"u", "r", "w"} : <>(component = "database" => Database!CallerFinished(p))
    /\ (component = "task" /\ Task!TaskIsOpen(1)) ~> (component = "task" => Task!TaskSettled(1))
    /\ <>(component = "range" => Range!ScanReturned)
    /\ \A k \in {1, 2} :
         (component = "presence" /\ Presence!Connected(k)) ~> (component = "presence" => Presence!ShownOnline(k))
    /\ <>[](component = "inventory" => Inventory!InventorySettled("e"))
    /\ \A i \in {1, 2} :
         /\ <>[](component = "client" /\ Client!ToldToStop(i)) => <>[](component = "client" => Client!ProcessEnded(i))
         /\ <>[](component = "client" /\ Client!ToldToRun(i)) => []<>(component = "client" => Client!Retries(i))
    /\ <>[](component = "client" /\ Client!Paused) => <>[](component = "client" => Client!PauseDisplayed)
=============================================================================
