------------------------------- MODULE Gatekeeper -------------------------------
(***************************************************************************)
(* The TCP plane (entry/transport/gatekeeper.go): listeners are created    *)
(* and deleted under Gatekeeper.mu, DeleteProxy waits up to a second for   *)
(* the accept loop while it holds the lock, and the loop's postAccept hook *)
(* needs that lock to read the firewall.  The accept loop itself           *)
(* (rproxy.Proxy) is a library: it may run postAccept inside the loop and, *)
(* as the code's comments say, may keep looping after its listener closed. *)
(***************************************************************************)
EXTENDS Naturals, FiniteSets

CONSTANTS Ids, Ports, Insts, Conns, None

VARIABLES
    mu,        \* the deletion that holds Gatekeeper.mu, or None
    proxies,   \* Gatekeeper.proxies
    idxPort,   \* Gatekeeper.proxiesIdxPort
    appMap,    \* Gatekeeper.proxyAppMap, as the set of IDs it has
    inst,      \* the proxy objects, old ones included
    conn,      \* client connections
    rules,     \* the accesses whose firewall admits the clients
    closed     \* Gatekeeper.Close was called

vars == <<mu, proxies, idxPort, appMap, inst, conn, rules, closed>>

Inst == [id: Ids \cup {None}, port: Ports \cup {None}, listening: BOOLEAN,
         loop: {"none", "accepting", "exited"}]
Conn == [at: {"none", "queued", "accepted", "dialing", "writing", "relaying", "gone"},
         inst: Insts \cup {None}]

Init ==
    /\ mu = None
    /\ proxies = [i \in Ids |-> None]
    /\ idxPort = [p \in Ports |-> None]
    /\ appMap = {}
    /\ inst = [k \in Insts |-> [id |-> None, port |-> None, listening |-> FALSE, loop |-> "none"]]
    /\ conn = [c \in Conns |-> [at |-> "none", inst |-> None]]
    /\ rules = Ids
    /\ closed = FALSE

tables == <<mu, proxies, idxPort, appMap>>
InLoop(k) == {c \in Conns : conn[c].at = "accepted" /\ conn[c].inst = k}
Move(c, at) ==
    /\ conn' = [conn EXCEPT ![c].at = at]
    /\ UNCHANGED <<tables, inst, rules, closed>>

\* An ID that is served already is left alone; a port of another ID, or one the
\* operating system refuses, is an error.  Only an access with an application
\* has an entry in proxyAppMap.
CreateProxy(i, p, k) ==
    /\ mu = None /\ ~closed
    /\ inst[k].loop = "none" /\ \A j \in Insts : j < k => inst[j].loop # "none"
    /\ proxies[i] = None
    /\ idxPort[p] \in {None, i}
    /\ ~\E j \in Insts : inst[j].listening /\ inst[j].port = p
    /\ inst' = [inst EXCEPT ![k] = [id |-> i, port |-> p, listening |-> TRUE,
                                    loop |-> "accepting"]]
    /\ proxies' = [proxies EXCEPT ![i] = k]
    /\ idxPort' = [idxPort EXCEPT ![p] = i]
    /\ \E app \in BOOLEAN : appMap' = IF app THEN appMap \cup {i} ELSE appMap
    /\ UNCHANGED <<mu, conn, rules, closed>>

(* ---- rproxy ---- *)

Dial(c, k) ==
    /\ conn[c].at = "none" /\ inst[k].listening
    /\ conn' = [conn EXCEPT ![c] = [at |-> "queued", inst |-> k]]
    /\ UNCHANGED <<tables, inst, rules, closed>>

Accept(c) ==
    /\ conn[c].at = "queued"
    /\ LET k == conn[c].inst IN
         /\ inst[k].loop = "accepting" /\ InLoop(k) = {}
         /\ IF inst[k].listening THEN Move(c, "accepted") ELSE Move(c, "gone")

\* Accept fails once the listener is closed; the loop may notice or spin.
LoopExits(k) ==
    /\ inst[k].loop = "accepting" /\ ~inst[k].listening /\ InLoop(k) = {}
    /\ inst' = [inst EXCEPT ![k].loop = "exited"]
    /\ UNCHANGED <<tables, conn, rules, closed>>

\* The hook reads the firewall under the read lock.
postAccept(c) ==
    /\ conn[c].at = "accepted"
    /\ mu = None
    /\ Move(c, IF inst[conn[c].inst].id \in rules THEN "dialing" ELSE "gone")

proxyDial(c) ==
    /\ conn[c].at = "dialing"
    /\ \E ok \in BOOLEAN : Move(c, IF ok THEN "writing" ELSE "gone")

preWrite(c) ==
    /\ conn[c].at = "writing"
    /\ \E ok \in BOOLEAN : Move(c, IF ok THEN "relaying" ELSE "gone")

Hangup(c) ==
    /\ conn[c].at = "relaying"
    /\ Move(c, "gone")

(* ---- deletion ---- *)

\* DeleteProxy takes the lock, cancels the context and closes the listener ...
DeleteProxy(i) ==
    /\ mu = None /\ proxies[i] # None
    /\ mu' = i
    /\ inst' = [inst EXCEPT ![proxies[i]] = [@ EXCEPT !.listening = FALSE]]
    /\ UNCHANGED <<proxies, idxPort, appMap, conn, rules, closed>>

Forget(i) ==
    /\ mu' = None
    /\ proxies' = [proxies EXCEPT ![i] = None]
    /\ idxPort' = [idxPort EXCEPT ![inst[proxies[i]].port] = None]
    /\ appMap' = appMap \ {i}
    /\ UNCHANGED <<inst, conn, rules, closed>>

\* ... waits for the loop, still under the lock ...
LoopDone(i) ==
    /\ mu = i
    /\ inst[proxies[i]].loop = "exited"
    /\ Forget(i)

\* ... but not longer than a second.
Timeout(i) ==
    /\ mu = i
    /\ inst[proxies[i]].loop # "exited"
    /\ Forget(i)

\* Every listener is closed; the port index and the application map stay.
Close ==
    /\ mu = None /\ ~closed
    /\ closed' = TRUE
    /\ inst' = [k \in Insts |-> IF \E i \in Ids : proxies[i] = k
                                THEN [inst[k] EXCEPT !.listening = FALSE]
                                ELSE inst[k]]
    /\ proxies' = [i \in Ids |-> None]
    /\ UNCHANGED <<mu, idxPort, appMap, conn, rules>>

\* Firewall rules come and go.
SetRule(i) ==
    /\ rules' = IF i \in rules THEN rules \ {i} ELSE rules \cup {i}
    /\ UNCHANGED <<tables, inst, conn, closed>>

Next ==
    \/ \E i \in Ids, p \in Ports, k \in Insts : CreateProxy(i, p, k)
    \/ \E c \in Conns, k \in Insts : Dial(c, k)
    \/ \E c \in Conns : Accept(c) \/ postAccept(c) \/ proxyDial(c) \/ preWrite(c) \/ Hangup(c)
    \/ \E k \in Insts : LoopExits(k)
    \/ \E i \in Ids : DeleteProxy(i) \/ LoopDone(i) \/ Timeout(i) \/ SetRule(i)
    \/ Close

Spec == Init /\ [][Next]_vars

(* ---- properties ---- *)

\* Every variable keeps its type.
TypeOK ==
    /\ mu \in Ids \cup {None}
    /\ proxies \in [Ids -> Insts \cup {None}]
    /\ idxPort \in [Ports -> Ids \cup {None}]
    /\ appMap \in SUBSET Ids
    /\ inst \in [Insts -> Inst]
    /\ conn \in [Conns -> Conn]
    /\ rules \in SUBSET Ids
    /\ closed \in BOOLEAN

\* Whenever the lock is free, the sockets that listen are exactly those of the
\* served accesses, at the port the index has for them: a deletion that gave up
\* waiting leaves no listener behind, and nothing that would keep the port from
\* the next access.
ListenersAreServed ==
    mu = None /\ ~closed =>
        /\ {k \in Insts : inst[k].listening} = {proxies[i] : i \in Ids} \ {None}
        /\ \A i \in Ids : proxies[i] # None =>
              inst[proxies[i]].id = i /\ idxPort[inst[proxies[i]].port] = i
        /\ \A p \in Ports : idxPort[p] # None =>
              proxies[idxPort[p]] # None /\ inst[proxies[idxPort[p]]].port = p
        /\ appMap \subseteq {i \in Ids : proxies[i] # None}

\* A deletion gives the lock back although the loop it waits for is itself
\* waiting for that lock in postAccept.
Deleting(i) == mu = i
================================================================================
