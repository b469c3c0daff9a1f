------------------------- MODULE AgentRuntimeTheorems -------------------------
(***************************************************************************)
(* What holds of a turn's life in every behaviour of AgentRuntime, from    *)
(* the steps that AgentRuntimeProofs and AgentRuntimeTurns prove.          *)
(***************************************************************************)
EXTENDS AgentRuntimeProofs, AgentRuntimeTurns

(* The steps of a turn are completed in order, and until the first fault a *)
(* turn is driven or parked on a step that waits, in every reachable state. *)
THEOREM TurnsInvariance == Spec => []TurnsInv
<1>1. Init => TurnsInv
  BY InitTurns
<1>2. IInv /\ TurnsInv /\ [Next]_vars => TurnsInv'
  BY NextTurns
<1>3. QED
  BY <1>1, <1>2, Invariance, PTL DEF Spec

(* A turn completes only when every step of it, model and tool, completed: *)
(* Loop.run returns an error, and the deferred function fails the turn, on *)
(* every path on which a step does not complete.                           *)
THEOREM CleanCompletion == Spec => []CompletedTurnIsClean
<1>1. TurnsInv => CompletedTurnIsClean
  BY Zenon DEF TurnsInv, StepsInv, StoredStepsOK, AllCompleted,
               CompletedTurnIsClean
<1>2. QED
  BY <1>1, TurnsInvariance, PTL

(* While no request was cancelled and the manager did not stop, a queued   *)
(* or running turn has a request driving it: each error path of the loop   *)
(* ends the turn before its request returns.                               *)
THEOREM DrivenWhileCalm == Spec => []RunningTurnIsDriven
<1>1. TurnsInv => RunningTurnIsDriven
  BY Zenon DEF TurnsInv, CalmInv, RunningTurnIsDriven
<1>2. QED
  BY <1>1, TurnsInvariance, PTL

(* A finished turn is history: no request drives it any more, and a        *)
(* request changes no other turn, so its row, its steps and its messages   *)
(* never change again.                                                     *)
THEOREM FinishedFrozen == Spec => FinishedTurnFrozen
<1>1. ASSUME IInv, [Next]_vars, NEW u \in Turns,
             turn[u].status \in TerminalStatus
      PROVE  SameTurn(u)
  <2>1. turn[u].status # "none" /\ ~IsOpen(u)
    BY <1>1 DEF TerminalStatus, IsOpen, OpenStatus
  <2>2. ASSUME NEW r \in Requests, RequestStep(r)
        PROVE  SameTurn(u)
    <3>1. u # req[r].turn
      BY Zenon, <1>1, <2>1, DrivenOpen, TurnsAssumption
    <3>2. QED
      BY Zenon, <1>1, <2>1, <2>2, <3>1, OwnTurnTouched
  <2>3. CASE UNCHANGED <<turn, steps, unpaired>>
    BY Zenon, <2>3 DEF SameTurn
  <2>4. CASE \/ \E s \in Sessions : CreateSession(s) \/ CloseConnection(s)
             \/ \E r \in Requests : Begin(r) \/ Disconnect(r)
             \/ \E a \in Approvals : Lapse(a)
             \/ Crash
             \/ UNCHANGED vars
    <3>1. UNCHANGED <<turn, steps, unpaired>>
      BY Zenon, <2>4 DEF CreateSession, CloseConnection, Begin, BeginTurn,
         BeginArchive, BeginResolve, Disconnect, Lapse, Crash, vars, stored
    <3>2. QED
      BY <2>3, <3>1
  <2>5. QED
    BY Zenon, <1>1, <2>2, <2>4 DEF Next
<1>2. IInv /\ [Next]_vars =>
        [\A t \in Turns : turn[t].status \in TerminalStatus =>
            /\ turn'[t] = turn[t]
            /\ steps'[t] = steps[t]
            /\ unpaired'[t] = unpaired[t]]_vars
  BY Zenon, <1>1 DEF SameTurn
<1>3. QED
  BY <1>2, Invariance, PTL DEF Spec, FinishedTurnFrozen

(* The runtime and its store implement SessionContract: a session is       *)
(* occupied by at most one turn, a turn starts once and finishes once, and *)
(* ArchiveSession never archives a session under an unfinished turn,       *)
(* whatever requests interleave, are cancelled or die with the manager.    *)
THEOREM Refinement == Spec => ImplementsContract
<1>1. Init => Contract!Init
  <2> SUFFICES ASSUME Init
               PROVE  Contract!Init
    OBVIOUS
  <2>1. \A s \in Sessions : /\ session[s].status = "none"
                            /\ session[s].active = NoTurn
    BY DEF Init, StoreInit
  <2>2. \A t \in Turns : SessionPhase(t) = "fresh"
    BY PhaseFacts DEF Init, StoreInit
  <2>3. QED
    BY <2>1, <2>2 DEF Contract!Init
<1>2. IInv /\ [Next]_vars => [Contract!Next]_(Contract!vars)
  <2> SUFFICES ASSUME IInv, [Next]_vars
               PROVE  [Contract!Next]_(Contract!vars)
    OBVIOUS
  <2>1. ASSUME NEW s \in Sessions, CreateSession(s)
        PROVE  [Contract!Next]_(Contract!vars)
    BY Zenon, <2>1, CreateContract
  <2>2. ASSUME NEW r \in Requests, RequestStep(r)
        PROVE  [Contract!Next]_(Contract!vars)
    BY Zenon, <2>2, RequestContract
  <2>3. CASE \/ \E s \in Sessions : CloseConnection(s)
             \/ \E r \in Requests : Begin(r) \/ Disconnect(r)
             \/ \E a \in Approvals : Lapse(a)
             \/ Crash
             \/ UNCHANGED vars
    <3>1. UNCHANGED <<session, turn>>
      BY Zenon, <2>3 DEF CloseConnection, Begin, BeginTurn, BeginArchive,
         BeginResolve, Disconnect, Lapse, Crash, vars, stored
    <3>2. QED
      BY Zenon, <3>1, PhaseKept, ContractStutter
  <2>4. QED
    BY Zenon, <2>1, <2>2, <2>3 DEF Next
<1>3. QED
  BY <1>1, <1>2, Invariance, PTL DEF Spec, ImplementsContract, Contract!Spec

=============================================================================
