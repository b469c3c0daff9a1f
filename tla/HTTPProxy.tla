------------------------------- MODULE HTTPProxy -------------------------------
(***************************************************************************)
(* The listeners of HTTP accesses (entry/http/server.go) and the source    *)
(* filter they ask (entry/firewall).  An accept loop, the handlers of its  *)
(* connections and the requests that create and delete proxies share       *)
(* Server.mu and, per proxy, connectionMu.  What a handler does with a     *)
(* connection is HTTPRelay's subject; here it ends by itself or because    *)
(* its connection is closed, and takes Server.mu once to record traffic.   *)
(***************************************************************************)
EXTENDS Naturals, FiniteSets

CONSTANTS Ids, Ports, Insts, Conns, None

VARIABLES
    mu,        \* the deleter that holds Server.mu across its steps, or None
    proxies,   \* Server.proxies
    idxPort,   \* Server.proxiesIdxPort
    inst,      \* the httpProxy objects
    conn,      \* the client connections
    deleter,   \* the DeleteProxy call of each id
    rules,     \* ids whose firewall rules reject the clients
    busy,      \* ports another process listens on
    panicked   \* CreateProxy dereferenced a nil listener

vars == <<mu, proxies, idxPort, inst, conn, deleter, rules, busy, panicked>>

Inst == [id: Ids \cup {None}, port: Ports \cup {None}, stopping: BOOLEAN, listening: BOOLEAN,
         serve: {"none", "accepting", "got", "tracked", "ended"}, held: Conns \cup {None},
         tracked: SUBSET Conns, wg: 0..(Cardinality(Conns) + 1)]
Conn == [at: {"none", "queued", "accepted", "handling", "recording", "gone"},
         inst: Insts \cup {None}, open: BOOLEAN]
Deleter == [at: {"idle", "stopping", "waiting"}, inst: Insts \cup {None}, cut: SUBSET Conns,
            clean: BOOLEAN]
IdleDeleter == [at |-> "idle", inst |-> None, cut |-> {}, clean |-> FALSE]

Init ==
    /\ mu = None
    /\ proxies = [i \in Ids |-> None]
    /\ idxPort = [p \in Ports |-> None]
    /\ inst = [k \in Insts |-> [id |-> None, port |-> None, stopping |-> FALSE, listening |-> FALSE,
                                serve |-> "none", held |-> None, tracked |-> {}, wg |-> 0]]
    /\ conn = [c \in Conns |-> [at |-> "none", inst |-> None, open |-> FALSE]]
    /\ deleter = [i \in Ids |-> IdleDeleter]
    /\ rules = {}
    /\ busy = {}
    /\ panicked = FALSE

server == <<mu, proxies, idxPort>>
env == <<rules, busy, panicked>>
Listening(p) == \E k \in Insts : inst[k].listening /\ inst[k].port = p
Closed(cs) == [c \in Conns |-> IF c \in cs THEN [conn[c] EXCEPT !.open = FALSE] ELSE conn[c]]

(* ---- creation ---- *)

\* Server.CreateProxy, one critical section.  In the HTTPS branch the error of
\* tls.Listen is assigned to an err of the inner block, and the listener that
\* is then used is nil.
CreateProxy(i, p, k, https) ==
    /\ mu = None /\ ~panicked
    /\ proxies[i] = None
    /\ inst[k].serve = "none"
    /\ idxPort[p] \in {None, i}
    /\ IF p \in busy \/ Listening(p)
       THEN panicked' = https /\ UNCHANGED <<proxies, idxPort, inst>>
       ELSE /\ proxies' = [proxies EXCEPT ![i] = k]
            /\ idxPort' = [idxPort EXCEPT ![p] = i]
            /\ inst' = [inst EXCEPT ![k].id = i, ![k].port = p, ![k].listening = TRUE,
                                    ![k].serve = "accepting", ![k].wg = 1]
            /\ UNCHANGED panicked
    /\ UNCHANGED <<mu, conn, deleter, rules, busy>>

(* ---- the accept loop ---- *)

Dial(c, k) ==
    /\ conn[c].at = "none"
    /\ inst[k].listening
    /\ conn' = [conn EXCEPT ![c] = [at |-> "queued", inst |-> k, open |-> TRUE]]
    /\ UNCHANGED <<server, inst, deleter, env>>

Accept(k, c) ==
    /\ inst[k].serve = "accepting" /\ inst[k].listening
    /\ conn[c].at = "queued" /\ conn[c].inst = k
    /\ conn' = [conn EXCEPT ![c].at = "accepted"]
    /\ inst' = [inst EXCEPT ![k].serve = "got", ![k].held = c]
    /\ UNCHANGED <<server, deleter, env>>

\* Accept fails once the listener is closed, and the context is done by then.
serve(k) ==
    /\ inst[k].serve = "accepting" /\ ~inst[k].listening
    /\ inst' = [inst EXCEPT ![k].serve = "ended", ![k].wg = @ - 1]
    /\ UNCHANGED <<server, conn, deleter, env>>

\* Mutant of trackConnection: a connection is tracked after the server was stopped.
tracksAlways(k) ==
    LET c == inst[k].held
    IN  /\ inst[k].serve = "got"
        /\ inst' = [inst EXCEPT ![k].serve = "tracked", ![k].tracked = @ \cup {c},
                                       ![k].wg = @ + 1]
        /\ UNCHANGED <<server, conn, deleter, env>>

\* Under connectionMu: a proxy that is stopping takes no connection.
trackConnection(k) ==
    LET c == inst[k].held
    IN  /\ inst[k].serve = "got"
        /\ IF inst[k].stopping
           THEN /\ inst' = [inst EXCEPT ![k].serve = "ended", ![k].held = None, ![k].wg = @ - 1]
                /\ conn' = [conn EXCEPT ![c].open = FALSE, ![c].at = "gone"]
           ELSE /\ inst' = [inst EXCEPT ![k].serve = "tracked", ![k].tracked = @ \cup {c},
                                       ![k].wg = @ + 1]
                /\ UNCHANGED conn
        /\ UNCHANGED <<server, deleter, env>>

\* The filter is read under Server.mu; a rejected connection is released by
\* the loop itself, the others get a goroutine.
CheckAddr(k) ==
    LET c == inst[k].held
        rejected == inst[k].id \in rules
    IN  /\ inst[k].serve = "tracked"
        /\ mu = None
        /\ inst' = [inst EXCEPT ![k].serve = "accepting", ![k].held = None,
                                ![k].tracked = IF rejected THEN @ \ {c} ELSE @,
                                ![k].wg = IF rejected THEN @ - 1 ELSE @]
        /\ conn' = [conn EXCEPT ![c] = IF rejected
                      THEN [@ EXCEPT !.at = "gone", !.open = FALSE] ELSE [@ EXCEPT !.at = "handling"]]
        /\ UNCHANGED <<server, deleter, env>>

(* ---- the handlers ---- *)

\* The client is done, or its connection was closed under the handler.
handleConnection(c) ==
    /\ conn[c].at = "handling"
    /\ conn' = [conn EXCEPT ![c].at = "recording", ![c].open = FALSE]
    /\ UNCHANGED <<server, inst, deleter, env>>

\* recordTraffic takes Server.mu, releaseConnection takes connectionMu.
releaseConnection(c) ==
    /\ conn[c].at = "recording"
    /\ mu = None
    /\ conn' = [conn EXCEPT ![c].at = "gone"]
    /\ inst' = [inst EXCEPT ![conn[c].inst].tracked = @ \ {c}, ![conn[c].inst].wg = @ - 1]
    /\ UNCHANGED <<server, deleter, env>>

(* ---- deletion ---- *)

\* DeleteProxy takes Server.mu and stop() marks the proxy under connectionMu.
stop(i) ==
    LET k == proxies[i]
    IN  /\ mu = None
        /\ deleter[i].at = "idle" /\ k # None
        /\ mu' = i
        /\ inst' = [inst EXCEPT ![k].stopping = TRUE]
        /\ deleter' = [deleter EXCEPT ![i] = [at |-> "stopping", inst |-> k,
                                              cut |-> inst[k].tracked, clean |-> FALSE]]
        /\ UNCHANGED <<proxies, idxPort, conn, env>>

\* Mutant of CloseAll: the handlers are awaited under the lock they need.
waitsLocked(i) ==
    LET k == deleter[i].inst
    IN  /\ deleter[i].at = "stopping"
        /\ inst' = [inst EXCEPT ![k].listening = FALSE]
        /\ conn' = Closed(deleter[i].cut \cup {c \in Conns : conn[c].at = "queued" /\ conn[c].inst = k})
        /\ proxies' = [proxies EXCEPT ![i] = None]
        /\ idxPort' = [idxPort EXCEPT ![inst[k].port] = None]
        /\ deleter' = [deleter EXCEPT ![i].at = "waiting"]
        /\ UNCHANGED <<mu, env>>

\* stop() closes the listener and the connections it saw, DeleteProxy clears
\* the maps and releases Server.mu before it waits.
CloseAll(i) ==
    LET k == deleter[i].inst
    IN  /\ deleter[i].at = "stopping"
        /\ inst' = [inst EXCEPT ![k].listening = FALSE]
        /\ conn' = Closed(deleter[i].cut \cup {c \in Conns : conn[c].at = "queued" /\ conn[c].inst = k})
        /\ mu' = None
        /\ proxies' = [proxies EXCEPT ![i] = None]
        /\ idxPort' = [idxPort EXCEPT ![inst[k].port] = None]
        /\ deleter' = [deleter EXCEPT ![i].at = "waiting"]
        /\ UNCHANGED env

\* wg.Wait() returns.
DeleteProxy(i) ==
    /\ deleter[i].at = "waiting"
    /\ inst[deleter[i].inst].wg = 0
    /\ mu' = IF mu = i THEN None ELSE mu
    /\ deleter' = [deleter EXCEPT ![i].at = "idle", ![i].clean = TRUE]
    /\ UNCHANGED <<proxies, idxPort, inst, conn, env>>

\* Five seconds pass, or the caller's context ends.
GiveUp(i) ==
    /\ deleter[i].at = "waiting"
    /\ mu' = IF mu = i THEN None ELSE mu
    /\ deleter' = [deleter EXCEPT ![i].at = "idle", ![i].clean = FALSE]
    /\ UNCHANGED <<proxies, idxPort, inst, conn, env>>

(* ---- the environment ---- *)

Allow(i) == rules' = rules \cup {i} /\ UNCHANGED <<server, inst, conn, deleter, busy, panicked>>
Revoke(i) == rules' = rules \ {i} /\ UNCHANGED <<server, inst, conn, deleter, busy, panicked>>
OtherProcess(p) ==
    /\ p \in busy \/ ~Listening(p)
    /\ busy' = IF p \in busy THEN busy \ {p} ELSE busy \cup {p}
    /\ UNCHANGED <<server, inst, conn, deleter, rules, panicked>>

Loop(k) == (\E c \in Conns : Accept(k, c)) \/ serve(k) \/ trackConnection(k) \/ CheckAddr(k)
Handler(c) == handleConnection(c) \/ releaseConnection(c)
Delete(i) == CloseAll(i) \/ DeleteProxy(i)

Next ==
    \/ \E i \in Ids :
        \/ \E p \in Ports, k \in Insts, h \in BOOLEAN : CreateProxy(i, p, k, h)
        \/ stop(i) \/ Delete(i) \/ GiveUp(i) \/ Allow(i) \/ Revoke(i)
    \/ \E k \in Insts : Loop(k)
    \/ \E c \in Conns : Handler(c) \/ \E k \in Insts : Dial(c, k)
    \/ \E p \in Ports : OtherProcess(p)

Spec == Init /\ [][Next]_vars

\* What a handler whose connection is closed does, provided the target answers.
Finish(c) == ~conn[c].open /\ Handler(c)

(* ---- properties ---- *)

\* Every variable keeps its type.
TypeOK ==
    /\ mu \in Ids \cup {None}
    /\ proxies \in [Ids -> Insts \cup {None}]
    /\ idxPort \in [Ports -> Ids \cup {None}]
    /\ inst \in [Insts -> Inst]
    /\ conn \in [Conns -> Conn]
    /\ deleter \in [Ids -> Deleter]
    /\ rules \subseteq Ids
    /\ busy \subseteq Ports
    /\ panicked \in BOOLEAN

\* Once DeleteProxy has released the lock, no connection of the proxy is open
\* in a handler, whichever of accepting, tracking, filtering and stopping came
\* first.
StoppedProxyServesNobody ==
    \A k \in Insts : inst[k].stopping /\ ~inst[k].listening =>
        \A c \in Conns : conn[c].inst = k /\ conn[c].at \in {"handling", "recording"} => ~conn[c].open

\* A DeleteProxy that did not time out leaves no goroutine of the proxy behind.
CleanDeleteLeavesNothing ==
    \A i \in Ids : deleter[i].clean =>
        /\ inst[deleter[i].inst].serve = "ended"
        /\ \A c \in Conns : conn[c].inst = deleter[i].inst => conn[c].at \in {"queued", "gone"}

\* The two maps agree, and a proxy that is registered owns its listener and
\* its port alone.
MapsAgree ==
    mu = None =>
        /\ \A i \in Ids : proxies[i] # None =>
             inst[proxies[i]].listening /\ idxPort[inst[proxies[i]].port] = i
        /\ \A p \in Ports : idxPort[p] # None => proxies[idxPort[p]] # None
        /\ \A p \in Ports : Cardinality({k \in Insts : inst[k].listening /\ inst[k].port = p}) <= 1

\* DeleteProxy returns without its timeout when the targets answer.  The comment in DeleteProxy: the
\* handlers use the server's lock to record traffic, and waiting with the lock
\* held would always drag the shutdown to the timeout.
Stopping(i) == deleter[i].at = "stopping"
Deleted(i) == deleter[i].at = "idle"

================================================================================
