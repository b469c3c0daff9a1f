------------------------------ MODULE EdgePresence ------------------------------
(***************************************************************************)
(* The online flag of a connector (frontierbound/oob.go).  The broker      *)
(* calls online and offline for every connection; reports carry            *)
(* heartbeats; an edit of the connector writes back the flag it has read   *)
(* (controlplane/edge.go, UpdateEdge).  The address of the current         *)
(* connection, which tells a stale offline call, is kept under a lock of   *)
(* its own and not together with the row.                                  *)
(***************************************************************************)
EXTENDS Naturals

CONSTANTS
    Conns,        \* connections of the connector, 1..n, in order; also their addresses
    MaxEdits,     \* edits of the connector
    MaxRestarts,  \* restarts of the manager
    None

VARIABLES
    online,     \* the row's flag
    addr,       \* edgeConnAddr
    up,         \* the connections that exist
    onCall,     \* the online call of each connection
    offCall,    \* the offline call of each connection
    saw,        \* ghost: the address that each offline call has looked at
    beat,       \* the heartbeat of a report of each connection
    edit,       \* UpdateEdge
    overtaken,  \* ghost: the flag was cleared by a call that had not seen a newer connection
    edits, restarts

vars == <<online, addr, up, onCall, offCall, saw, beat, edit, overtaken, edits, restarts>>

Init ==
    /\ online = FALSE /\ addr = None /\ up = {}
    /\ onCall = [k \in Conns |-> "none"]
    /\ offCall = [k \in Conns |-> "none"]
    /\ saw = [k \in Conns |-> None]
    /\ beat = [k \in Conns |-> "none"]
    /\ edit = None
    /\ overtaken = FALSE
    /\ edits = 0 /\ restarts = 0

UpdateEdgeOnlineStatus(to, older) ==
    /\ online' = to
    /\ overtaken' = (~to /\ (older \/ (overtaken /\ ~online)))

\* The broker: a connection comes up, an older one may not have been missed yet.
\* The offline call of a connection follows its online call.
Connect(k) ==
    /\ onCall[k] = "none" /\ \A j \in Conns : j < k => onCall[j] # "none"
    /\ up' = up \cup {k}
    /\ onCall' = [onCall EXCEPT ![k] = "due"]
    /\ UNCHANGED <<online, addr, offCall, saw, beat, edit, overtaken, edits, restarts>>

Disconnect(k) ==
    /\ k \in up
    /\ up' = up \ {k}
    /\ offCall' = [offCall EXCEPT ![k] = "due"]
    /\ UNCHANGED <<online, addr, onCall, saw, beat, edit, overtaken, edits, restarts>>

----------------------------------------------------------------------------
\* online: the flag, the address, the heartbeat.
Online(k) ==
    /\ onCall[k] = "due"
    /\ UpdateEdgeOnlineStatus(TRUE, FALSE)
    /\ onCall' = [onCall EXCEPT ![k] = "set"]
    /\ UNCHANGED <<addr, up, offCall, saw, beat, edit, edits, restarts>>

rememberEdgeConn(k) ==
    /\ onCall[k] = "set"
    /\ addr' = k
    /\ onCall' = [onCall EXCEPT ![k] = "done"]
    /\ beat' = [beat EXCEPT ![k] = IF @ = "none" THEN "due" ELSE @]
    /\ UNCHANGED <<online, up, offCall, saw, edit, overtaken, edits, restarts>>

\* offline: the address is looked at ...
shouldApplyEdgeOffline(k) == addr = None \/ addr = k

Offline(k) ==
    /\ offCall[k] = "due" /\ onCall[k] = "done"
    /\ offCall' = [offCall EXCEPT ![k] = IF shouldApplyEdgeOffline(k) THEN "apply" ELSE "done"]
    /\ saw' = [saw EXCEPT ![k] = addr]
    /\ UNCHANGED <<online, addr, up, onCall, beat, edit, overtaken, edits, restarts>>

\* ... then the flag is cleared, although the address may have changed ...
OfflineWrite(k) ==
    /\ offCall[k] = "apply"
    /\ UpdateEdgeOnlineStatus(FALSE, saw[k] \in {None, k})
    /\ offCall' = [offCall EXCEPT ![k] = "forget"]
    /\ UNCHANGED <<addr, up, onCall, saw, beat, edit, edits, restarts>>

\* ... and the address is forgotten if it is still this one.
forgetEdgeConn(k) ==
    /\ offCall[k] = "forget"
    /\ addr' = IF addr = k THEN None ELSE addr
    /\ offCall' = [offCall EXCEPT ![k] = "done"]
    /\ UNCHANGED <<online, up, onCall, saw, beat, edit, overtaken, edits, restarts>>

\* A report arrives over a connection; its heartbeat reads the row ...
Report(k) ==
    /\ k \in up /\ beat[k] = "none"
    /\ beat' = [beat EXCEPT ![k] = "due"]
    /\ UNCHANGED <<online, addr, up, onCall, offCall, saw, edit, overtaken, edits, restarts>>

updateEdgeHeartbeat(k) ==
    /\ beat[k] = "due"
    /\ beat' = [beat EXCEPT ![k] = IF online THEN "none" ELSE "set"]
    /\ UNCHANGED <<online, addr, up, onCall, offCall, saw, edit, overtaken, edits, restarts>>

\* Mutant of HeartbeatWrite: a late heartbeat does not bring the connector back.
onlyTouchesTime(k) ==
    /\ beat[k] = "set"
    /\ beat' = [beat EXCEPT ![k] = "none"]
    /\ UNCHANGED <<online, addr, up, onCall, offCall, saw, edit, overtaken, edits, restarts>>

\* ... and sets a flag that was not set, over a connection that may be gone.
HeartbeatWrite(k) ==
    /\ beat[k] = "set"
    /\ UpdateEdgeOnlineStatus(TRUE, FALSE)
    /\ beat' = [beat EXCEPT ![k] = "none"]
    /\ UNCHANGED <<addr, up, onCall, offCall, saw, edit, edits, restarts>>

----------------------------------------------------------------------------
\* UpdateEdge reads the row and writes it back as a whole.
UpdateEdge ==
    /\ edit = None /\ edits < MaxEdits
    /\ edit' = online
    /\ edits' = edits + 1
    /\ UNCHANGED <<online, addr, up, onCall, offCall, saw, beat, overtaken, restarts>>

UpdateEdgeWrite ==
    /\ edit # None
    /\ UpdateEdgeOnlineStatus(edit, TRUE)
    /\ edit' = None
    /\ UNCHANGED <<addr, up, onCall, offCall, saw, beat, edits, restarts>>

\* The manager restarts: calls under way are lost, the addresses are forgotten.
Restart ==
    LET Lost(call) == [k \in Conns |-> IF call[k] \in {"none", "due"} THEN call[k] ELSE "done"] IN
    /\ restarts < MaxRestarts
    /\ restarts' = restarts + 1
    /\ onCall' = Lost(onCall) /\ offCall' = Lost(offCall)
    /\ beat' = [k \in Conns |-> "none"]
    /\ addr' = None /\ edit' = None
    /\ UNCHANGED <<online, up, saw, overtaken, edits>>

Next ==
    \/ \E k \in Conns :
         \/ Connect(k) \/ Disconnect(k) \/ Online(k) \/ rememberEdgeConn(k)
         \/ Offline(k) \/ OfflineWrite(k) \/ forgetEdgeConn(k)
         \/ Report(k) \/ updateEdgeHeartbeat(k) \/ HeartbeatWrite(k)
    \/ UpdateEdge \/ UpdateEdgeWrite \/ Restart

Spec == Init /\ [][Next]_vars

----------------------------------------------------------------------------
TypeOK ==
    /\ online \in BOOLEAN /\ addr \in Conns \cup {None} /\ up \subseteq Conns
    /\ onCall \in [Conns -> {"none", "due", "set", "done"}]
    /\ offCall \in [Conns -> {"none", "due", "apply", "forget", "done"}]
    /\ saw \in [Conns -> Conns \cup {None}]
    /\ beat \in [Conns -> {"none", "due", "set"}]
    /\ edit \in BOOLEAN \cup {None}
    /\ overtaken \in BOOLEAN
    /\ edits \in 0..MaxEdits /\ restarts \in 0..MaxRestarts

\* The offline call of an older connection does not take a connector off line whose
\* current connection is known (shouldApplyEdgeOffline, forgetEdgeConn): the flag is
\* only lost to a call that looked before the connection was known and wrote after.
KnownConnectionIsOnline ==
    \A k \in up : addr = k /\ onCall[k] = "done" /\ ~overtaken => online

\* What such a call has done is repaired: a connector that stays connected is shown
\* on line again by its next report (updateEdgeHeartbeat).
Connected(k) == k \in up
ShownOnline(k) == online \/ k \notin up

=============================================================================
