------------------------- MODULE MCEndpoints -------------------------
(***************************************************************************)
(* The two ends of an access, each component on small instances, as a      *)
(* disjoint union: the sessions users open in the browser, and the         *)
(* connectors with their devices, scans and desktop client.  A run chooses *)
(* the components it is about.                                             *)
(***************************************************************************)
EXTENDS Naturals, Sequences, TLC

CONSTANTS
    Components,   \* the components of a run
    None, Gone, Pair, Reqs

VARIABLES component, v1, v2, v3, v4, v5, v6, v7, v8, v9, v10, v11, v12, v13, v14, v15

vars == <<component, v1, v2, v3, v4, v5, v6, v7, v8, v9, v10, v11, v12, v13, v14, v15>>

(* Fingerprint: interfaces whose names sort differently as text and by      *)
(* number, a point-to-point one, a virtual one and loopback; three disks.   *)
Nic(i, t, n, k, p) == [id |-> i, text |-> t, number |-> n, kind |-> k, mac |-> k # "loopback", p2p |-> p]
Physical == {Nic(1, 1, 3, "physical", FALSE), Nic(2, 2, 1, "physical", FALSE), Nic(6, 3, 2, "physical", FALSE)}
Unusual == {Nic(1, 1, 2, "physical", FALSE), Nic(3, 3, 3, "physical", TRUE), Nic(4, 0, 0, "virtual", FALSE)}
Loopback == {Nic(1, 1, 2, "physical", FALSE), Nic(5, 4, 4, "loopback", FALSE)}
Drives == [name: {1, 2, 3}, serial: {0, 7, 8}, virtual: {FALSE}]
ThreeDrives == {d \in Drives : <<d.name, d.serial>> \in {<<1, 7>>, <<2, 8>>, <<3, 0>>}}

(* ScanRange: octets of two bits, every network but the whole address space. *)
Octets == 0 .. 3
Networks ==
    {<<ip, ones>> \in (Octets \X Octets) \X (1 .. 4) :
       /\ ones <= 2 => ip[2] = 0
       /\ ones = 1 => ip[1] % 2 = 0
       /\ ones = 3 => ip[2] % 2 = 0}
SmallNetworks == {n \in Networks : n[2] >= 2}

Terminals ==
    INSTANCE WebSSHSession WITH Tokens <- Pair, Keys <- {"k", "l"}, Proxies <- {"p"}, NoKey <- None,
        status <- v1, proto <- v2, trusted <- v3, buried <- v4, saved <- v5, store <- v6, active <-
        v7, sess <- v8, pc <- v9, done <- v10, handles <- v11, audits <- v12, closer <- v13
Files ==
    INSTANCE FileSessions WITH Ids <- {"i", "j"}, Users <- {"u"}, PerUser <- 1, Total <- 2, owner <- v1,
        items <- v2, stale <- v3, cancel <- v4, req <- v5, done <- v6, cut <- v7, active <- v8,
        pending <- v9, allowed <- v10, temp <- v11, dest <- v12
Uploads ==
    INSTANCE FileSessions WITH Ids <- {"i", "j"}, Users <- {"u"}, Reqs <- {"c", "d", "k", "l"},
        PerUser <- 2, Total <- 2, owner <- v1, items <- v2, stale <- v3, cancel <- v4, req <- v5,
        done <- v6, cut <- v7, active <- v8, pending <- v9, allowed <- v10, temp <- v11, dest <- v12
Desktops ==
    INSTANCE WebDesktopSession WITH Tokens <- Pair, Proxies <- {"p"}, status <- v1, store <- v2, active
        <- v3, sess <- v4, pc <- v5, listening <- v6, bridge <- v7, local <- v8, done <- v9, handles
        <- v10, audits <- v11, closer <- v12
Data ==
    INSTANCE WebDataSession WITH Tokens <- {"t"}, Dialled <- {}, status <- v1, closer <- v2, pc <- v3,
        store <- v4, stale <- v5, client <- v6, handles <- v7, undo <- v8, mutex <- v9, req <- v10,
        audits <- v11
Dials ==
    INSTANCE WebDataSession WITH Tokens <- {"x"}, Dialled <- {"x"}, status <- v1, closer <- v2, pc <-
        v3, store <- v4, stale <- v5, client <- v6, handles <- v7, undo <- v8, mutex <- v9, req <-
        v10, audits <- v11
Stores ==
    INSTANCE WebDataSession WITH Tokens <- Pair, Reqs <- {"r"}, Dialled <- {}, status <- v1, closer <-
        v2, pc <- v3, store <- v4, stale <- v5, client <- v6, handles <- v7, undo <- v8, mutex <-
        v9, req <- v10, audits <- v11
Audit ==
    INSTANCE AuditLog WITH Writers <- {"p", "q"}, Accesses <- {"x", "y"}, Me <- "me", Other <- "other",
        PageSize <- 1, MaxTime <- 2, MaxChanges <- 1, All <- None, table <- v1, log <- v2, clock <-
        v3, writer <- v4, live <- v5, visible <- v6, admin <- v7, reader <- v8, narrowed <- v9,
        changes <- v10
Shell ==
    INSTANCE ShellContext WITH Commands <- 2, MaxOutput <- 4, MaxNoise <- 1, MaxTime <- 1, SequenceLimit
        <- 1, BufferLimit <- 3, OutputLimit <- 2, RecordLimit <- 1, SharedLimit <- 1, Lifetime <- 1,
        shell <- v1, wire <- v2, s <- v3, clock <- v4, shared <- v5
History ==
    INSTANCE ShellContext WITH Commands <- 2, MaxOutput <- 1, MaxNoise <- 0, MaxTime <- 3, SequenceLimit
        <- 1, BufferLimit <- 3, OutputLimit <- 2, RecordLimit <- 2, SharedLimit <- 1, Lifetime <- 1,
        shell <- v1, wire <- v2, s <- v3, clock <- v4, shared <- v5
TwoTasks ==
    INSTANCE ScanTask WITH Tasks <- {1, 2}, Scans <- {"s"}, MaxFaults <- 1, edge <- v1, task <- v2,
        reopened <- v3, create <- v4, expiry <- v5, sweep <- v6, report <- v7, conn <- v8, scan <-
        v9, pull <- v10, faults <- v11
FaultyTask ==
    INSTANCE ScanTask WITH Tasks <- {1}, Scans <- Pair, MaxFaults <- 2, edge <- v1, task <- v2, reopened
        <- v3, create <- v4, expiry <- v5, sweep <- v6, report <- v7, conn <- v8, scan <- v9, pull
        <- v10, faults <- v11
Range ==
    INSTANCE ScanRange WITH OctetBits <- 2, Nets <- SmallNetworks, Ports <- <<1, 2>>, Workers <- {1, 2},
        QueueSize <- 2, net <- v1, cursor <- v2, ips <- v3, at <- v4, next <- v5, queue <- v6,
        closed <- v7, worker <- v8, alive <- v9, result <- v10
Hosts ==
    INSTANCE ScanRange WITH OctetBits <- 2, Nets <- Networks, Ports <- <<1>>, Workers <- {1}, QueueSize
        <- 1, net <- v1, cursor <- v2, ips <- v3, at <- v4, next <- v5, queue <- v6, closed <- v7,
        worker <- v8, alive <- v9, result <- v10
Presence ==
    INSTANCE EdgePresence WITH Conns <- {1, 2}, MaxEdits <- 2, MaxRestarts <- 1, online <- v1, addr <-
        v2, up <- v3, onCall <- v4, offCall <- v5, saw <- v6, beat <- v7, edit <- v8, overtaken <-
        v9, edits <- v10, restarts <- v11
Devices ==
    INSTANCE DeviceInventory WITH Edges <- {"e", "f"}, Machines <- Pair, Addresses <- {"a", "b"}, Users
        <- {"u"}, MaxDevices <- 3, MaxChanges <- 3, MaxFaults <- 0, Readers <- FALSE, Return <-
        TRUE, machine <- v1, left <- v2, addrs <- v3, registered <- v4, shared <- v5, msg <- v6, dev
        <- v7, host <- v8, deleted <- v9, cascade <- v10, pending <- v11, shown <- v12, found <-
        v13, changes <- v14, faults <- v15
Readers ==
    INSTANCE DeviceInventory WITH Edges <- {"e"}, Machines <- Pair, Addresses <- {"a", "b"}, Users <-
        {}, MaxDevices <- 2, MaxChanges <- 2, MaxFaults <- 0, Readers <- TRUE, Return <- TRUE,
        machine <- v1, left <- v2, addrs <- v3, registered <- v4, shared <- v5, msg <- v6, dev <-
        v7, host <- v8, deleted <- v9, cascade <- v10, pending <- v11, shown <- v12, found <- v13,
        changes <- v14, faults <- v15
NICs ==
    INSTANCE Fingerprint WITH OSes <- {"linux", "darwin"}, Nics <- Physical, Cpus <- {1}, Disks <- {},
        os <- v1, nics <- v2, cpus <- v3, disks <- v4, up <- v5, addrs <- v6, fp <- v7, ifs <- v8
Others ==
    INSTANCE Fingerprint WITH OSes <- {"linux", "darwin"}, Nics <- Unusual, Cpus <- {1}, Disks <- {}, os
        <- v1, nics <- v2, cpus <- v3, disks <- v4, up <- v5, addrs <- v6, fp <- v7, ifs <- v8
Disks ==
    INSTANCE Fingerprint WITH OSes <- {"linux"}, Nics <- Loopback, Cpus <- {1, 2}, Disks <- ThreeDrives,
        os <- v1, nics <- v2, cpus <- v3, disks <- v4, up <- v5, addrs <- v6, fp <- v7, ifs <- v8
Client ==
    INSTANCE EdgeSupervisor WITH Servers <- {"s", "t"}, Logins <- {"l"}, MayQuit <- TRUE, MaxEdges <- 1,
        MaxSups <- 2, MaxCommands <- 3, server <- v1, slot <- v2, sups <- v3, logins <- v4, keychain
        <- v5, config <- v6, saved <- v7, edges <- v8, online <- v9, main <- v10, popup <- v11,
        commands <- v12
Logins ==
    INSTANCE EdgeSupervisor WITH Servers <- {"s"}, Logins <- {"l", "m"}, MayQuit <- FALSE, MaxEdges <-
        2, MaxSups <- 2, MaxCommands <- 3, server <- v1, slot <- v2, sups <- v3, logins <- v4,
        keychain <- v5, config <- v6, saved <- v7, edges <- v8, online <- v9, main <- v10, popup <-
        v11, commands <- v12

\* The variables that a component with k variables does not use.
Spare(k) ==
    /\ k < 6 => v6 = None
    /\ k < 7 => v7 = None
    /\ k < 8 => v8 = None
    /\ k < 9 => v9 = None
    /\ k < 10 => v10 = None
    /\ k < 11 => v11 = None
    /\ k < 12 => v12 = None
    /\ k < 13 => v13 = None
    /\ k < 14 => v14 = None
    /\ k < 15 => v15 = None
Keep(k) ==
    /\ k < 6 => UNCHANGED v6
    /\ k < 7 => UNCHANGED v7
    /\ k < 8 => UNCHANGED v8
    /\ k < 9 => UNCHANGED v9
    /\ k < 10 => UNCHANGED v10
    /\ k < 11 => UNCHANGED v11
    /\ k < 12 => UNCHANGED v12
    /\ k < 13 => UNCHANGED v13
    /\ k < 14 => UNCHANGED v14
    /\ k < 15 => UNCHANGED v15

\* Two uploads, "k" and "l", have opened their connections on the two sessions
\* that "c" and "d" created.
Opened ==
    /\ v1 = [i \in {"i", "j"} |-> "u"] /\ v2 = {"i", "j"} /\ v3 = {}
    /\ v4 = [i \in {"i", "j"} |-> IF i = "i" THEN "k" ELSE "l"]
    /\ v5 = [r \in {"c", "d", "k", "l"} |->
                [at |-> IF r \in {"c", "d"} THEN "over" ELSE "open",
                 kind |-> IF r \in {"c", "d"} THEN "create" ELSE "upload",
                 id |-> IF r \in {"c", "k"} THEN "i" ELSE "j"]]
    /\ v6 = {"c", "d"} /\ v7 = {"c", "d"} /\ v8 = {"k", "l"} /\ v9 = {}
    /\ v10 = {"u"} /\ v11 = {} /\ v12 = None

Init ==
    /\ component \in Components
    /\ \/ component = "terminals" /\ Terminals!Init /\ Spare(13)
       \/ component = "files" /\ Files!Init /\ Spare(12)
       \/ component = "uploads" /\ Opened /\ Spare(12)
       \/ component = "desktops" /\ Desktops!Init /\ Spare(12)
       \/ component = "data" /\ Data!Init /\ Spare(11)
       \/ component = "dialled" /\ Dials!Init /\ Spare(11)
       \/ component = "stores" /\ Stores!Init /\ Spare(11)
       \/ component = "audit" /\ Audit!Init /\ Spare(10)
       \/ component = "shell" /\ Shell!Init /\ Spare(5)
       \/ component = "history" /\ History!Init /\ Spare(5)
       \/ component = "tasks" /\ TwoTasks!Init /\ Spare(11)
       \/ component = "faults" /\ FaultyTask!Init /\ Spare(11)
       \/ component = "range" /\ Range!Init /\ Spare(10)
       \/ component = "hosts" /\ Hosts!Init /\ Spare(10)
       \/ component = "presence" /\ Presence!Init /\ Spare(11)
       \/ component = "devices" /\ Devices!Init
       \/ component = "readers" /\ Readers!Init
       \/ component = "nics" /\ NICs!Init /\ Spare(8)
       \/ component = "others" /\ Others!Init /\ Spare(8)
       \/ component = "disks" /\ Disks!Init /\ Spare(8)
       \/ component = "desktop" /\ Client!Init /\ Spare(12)
       \/ component = "logins" /\ Logins!Init /\ Spare(12)

Next ==
    /\ UNCHANGED component
    /\ \/ component = "terminals" /\ Terminals!Next /\ Keep(13)
       \/ component = "files" /\ Files!Next /\ Keep(12)
       \/ component = "uploads" /\ Uploads!Next /\ Keep(12)
       \/ component = "desktops" /\ Desktops!Next /\ Keep(12)
       \/ component = "data" /\ Data!Next /\ Keep(11)
       \/ component = "dialled" /\ Dials!Next /\ Keep(11)
       \/ component = "stores" /\ Stores!Next /\ Keep(11)
       \/ component = "audit" /\ Audit!Next /\ Keep(10)
       \/ component = "shell" /\ Shell!Next /\ Keep(5)
       \/ component = "history" /\ History!Next /\ Keep(5)
       \/ component = "tasks" /\ TwoTasks!Next /\ Keep(11)
       \/ component = "faults" /\ FaultyTask!Next /\ Keep(11)
       \/ component = "range" /\ Range!Next /\ Keep(10)
       \/ component = "hosts" /\ Hosts!Next /\ Keep(10)
       \/ component = "presence" /\ Presence!Next /\ Keep(11)
       \/ component = "devices" /\ Devices!Next
       \/ component = "readers" /\ Readers!Next
       \/ component = "nics" /\ NICs!Next /\ Keep(8)
       \/ component = "others" /\ Others!Next /\ Keep(8)
       \/ component = "disks" /\ Disks!Next /\ Keep(8)
       \/ component = "desktop" /\ Client!Next /\ Keep(12)
       \/ component = "logins" /\ Logins!Next /\ Keep(12)

Spec == Init /\ [][Next]_vars

Symmetry == Permutations(Pair) \cup Permutations(Reqs)

-----------------------------------------------------------------------------
(* Every component keeps its types. *)
TypeOK ==
    /\ component = "terminals" => Terminals!TypeOK
    /\ component = "files" => Files!TypeOK
    /\ component = "uploads" => Uploads!TypeOK
    /\ component = "desktops" => Desktops!TypeOK
    /\ component = "data" => Data!TypeOK
    /\ component = "dialled" => Dials!TypeOK
    /\ component = "audit" => Audit!TypeOK
    /\ component = "shell" => Shell!TypeOK
    /\ component = "tasks" => TwoTasks!TypeOK
    /\ component = "faults" => FaultyTask!TypeOK
    /\ component = "range" => Range!TypeOK
    /\ component = "presence" => Presence!TypeOK
    /\ component = "devices" => Devices!TypeOK
    /\ component = "desktop" => Client!TypeOK

(* An access that was stopped or deleted is cut: once the request that did  *)
(* it has closed the sessions, no terminal and no desktop goes on, and a    *)
(* file request whose session is gone is cancelled (webssh_http.go,         *)
(* webdesktop_http.go, webssh_files_store.go: closeByProxy, remove).        *)
StoppedAccessIsCut ==
    /\ component = "terminals" => Terminals!StoppedAccessIsCut
    /\ component = "desktops" => Desktops!StoppedAccessIsCut
    /\ component = "files" => Files!RemovedSessionIsCancelled /\ Files!OneRequestPerSession
    /\ component = "uploads" => Uploads!RemovedSessionIsCancelled
    /\ component = "data" => Data!OrphanHandleIsPowerless
    /\ component = "dialled" => Dials!OrphanHandleIsPowerless
    /\ component = "stores" => Stores!OrphanHandleIsPowerless

(* A session that is over leaves nothing behind but its records: no         *)
(* password, client, table entry or handle, and one story in the audit log, *)
(* whichever way it ended.  A walk through a log that grows shows only what *)
(* the reader may see and skips nothing (web/audit_http.go); what is kept   *)
(* of a shell's output is that of the very command (web/webssh_context.go). *)
SessionsLeaveNothingBehind ==
    /\ component = "terminals" => Terminals!NothingLeftBehind /\ Terminals!AuditsBalance
    /\ component = "desktops" => Desktops!EveryAttemptAudited /\ Desktops!SecretsAreWiped
    /\ component = "data" => Data!NoClientLeftBehind
    /\ component = "dialled" => Dials!NoClientLeftBehind
    /\ component = "stores" => Stores!NoClientLeftBehind
    /\ component = "files" => Files!WithinLimits
    /\ component = "audit" =>
         /\ Audit!PageStaysInScope /\ Audit!TotalCoversPage
         /\ Audit!NothingIsSkipped /\ Audit!NamesOutliveTheAccess
    /\ component = "shell" => Shell!OutputIsTheCommands /\ Shell!NamesAreNotReused
    /\ component = "history" => History!SharedIsRecent

(* The manager's picture of a connector is one picture: one scan goroutine  *)
(* per task and a timer for every open task (frontierbound/task.go,         *)
(* scanner.go), the reachable hosts and services once each, one device per  *)
(* machine and one host relation per connector (frontierbound/device.go), a *)
(* known connection on line (frontierbound/oob.go), and one supervisor that *)
(* runs (edge_supervisor.rs).                                               *)
ConnectorsAreKnownOnce ==
    /\ component = "tasks" => TwoTasks!OneScanPerTask /\ TwoTasks!OpenTaskIsWatched
    /\ component = "faults" => FaultyTask!OneScanPerTask /\ FaultyTask!OpenTaskIsWatched
    /\ component = "range" => Range!ResultIsComplete
    /\ component = "hosts" => Hosts!HostsAreListed
    /\ component = "presence" => Presence!KnownConnectionIsOnline
    /\ component = "devices" =>
         /\ Devices!OneHostPerEdge /\ Devices!OneDevicePerFingerprint
         /\ Devices!RelationsHaveDevices
    /\ component = "nics" => NICs!ReportIsReachable
    /\ component = "others" => Others!ReportIsReachable
    /\ component = "desktop" => Client!OneSupervisorRuns
    /\ component = "logins" => Logins!OneSupervisorRuns /\ Logins!StoredTokenHasConfig

(* No step of a session starts a statement on a stopped access, ends one    *)
(* without its audit row (webdata_http.go), replaces an existing file, or   *)
(* leaves a temporary file behind unless the connection broke               *)
(* (sftpfiles/files.go).                                                    *)
SessionStepsAreSafe ==
    [][/\ component = "data" => Data!StartsOnlyActive /\ Data!StatementIsAudited
       /\ component = "dialled" => Dials!StartsOnlyActive /\ Dials!StatementIsAudited
       /\ component = "files" => Files!LeftoverOnlyAfterCut
       /\ component = "uploads" => Uploads!DestinationStays]_vars

(* No step shows a device on line against its heartbeat, however late the   *)
(* column is written (frontierbound/device.go), and none changes the        *)
(* fingerprint of the same hardware, whatever order the lists come in       *)
(* (utils/fingerprint.go).                                                  *)
MachinesAreRecognized ==
    [][/\ component = "readers" => Readers!ShownFollowsHeartbeat
       /\ component = "nics" => NICs!FingerprintStays
       /\ component = "others" => Others!FingerprintStays
       /\ component = "disks" => Disks!FingerprintStays]_vars
=============================================================================
