--------------------------- MODULE SessionContract ---------------------------
(***************************************************************************)
(* What the agent store promises its users, with no versions, steps,       *)
(* requests or faults: a session is open or archived and is occupied by at *)
(* most one turn; a turn is started once, in a free open session, and      *)
(* finished once; a session is archived only while it is free.             *)
(***************************************************************************)
CONSTANTS Sessions, Turns, NoTurn

VARIABLES
    status,    \* [Sessions -> "none", "active" or "archived"]
    occupant,  \* [Sessions -> the unfinished turn, or NoTurn]
    phase      \* [Turns -> "fresh", "open" or "finished"]

vars == <<status, occupant, phase>>

Init ==
    /\ status = [s \in Sessions |-> "none"]
    /\ occupant = [s \in Sessions |-> NoTurn]
    /\ phase = [t \in Turns |-> "fresh"]

Create(s) ==
    /\ status[s] = "none"
    /\ status' = [status EXCEPT ![s] = "active"]
    /\ UNCHANGED <<occupant, phase>>

Start(s, t) ==
    /\ status[s] = "active" /\ occupant[s] = NoTurn
    /\ phase[t] = "fresh"
    /\ occupant' = [occupant EXCEPT ![s] = t]
    /\ phase' = [phase EXCEPT ![t] = "open"]
    /\ UNCHANGED status

Finish(s, t) ==
    /\ occupant[s] = t
    /\ phase[t] = "open"
    /\ occupant' = [occupant EXCEPT ![s] = NoTurn]
    /\ phase' = [phase EXCEPT ![t] = "finished"]
    /\ UNCHANGED status

Archive(s) ==
    /\ status[s] # "none" /\ occupant[s] = NoTurn
    /\ status' = [status EXCEPT ![s] = "archived"]
    /\ UNCHANGED <<occupant, phase>>

Next ==
    \E s \in Sessions :
       \/ Create(s)
       \/ Archive(s)
       \/ \E t \in Turns : Start(s, t) \/ Finish(s, t)

Spec == Init /\ [][Next]_vars

=============================================================================
