-------------------------- MODULE AgentRuntimeProofs --------------------------
(***************************************************************************)
(* Machine-checked proofs about AgentRuntime, for every set of sessions,   *)
(* turns, approvals and requests and every bound.                          *)
(***************************************************************************)
EXTENDS AgentRuntimeInv

-----------------------------------------------------------------------------
(* Facts about the data.                                                   *)

(* One run is within the bound.                                            *)
LEMMA OneRun == 1 <= 1
OBVIOUS

-----------------------------------------------------------------------------
(* Steps that leave sessions, turns and approvals alone.                   *)

(* No step appeared, and none of their tools started.                      *)
NothingRan ==
    /\ steps' \in [Turns -> Seq(Step)]
    /\ \A t \in Turns :
          /\ Len(steps'[t]) = Len(steps[t])
          /\ \A i \in 1..Len(steps[t]) :
                /\ steps'[t][i].runs = steps[t][i].runs
                /\ steps'[t][i].kind = steps[t][i].kind

(* What holds of a request keeps holding of it.                            *)
LEMMA QuietRequest ==
    ASSUME TypeOK, ApprovalsOK, NothingRan,
           session' = session, turn' = turn, approval' = approval,
           NEW q \in Request, RequestOK(q)
    PROVE  RequestOK(q)'
<1>1. q.turn # NoTurn => DrivenTurnOK(q)'
  BY DEF RequestOK, DrivenTurnOK
<1>2. q.pc \in {"execute", "askApproval"} => FreshCallOK(q)'
  <2> SUFFICES ASSUME q.pc \in {"execute", "askApproval"}
               PROVE  FreshCallOK(q)'
    OBVIOUS
  <2>1. q.turn \in Turns
    BY DEF RequestOK, FreeLabels, Request
  <2>2. QED
    BY <2>1 DEF RequestOK, FreshCallOK, NothingRan, Names
<1>3. q.pc \in DecidedLabels => DecidedApprovalOK(q)'
  <2> SUFFICES ASSUME q.pc \in DecidedLabels
               PROVE  DecidedApprovalOK(q)'
    OBVIOUS
  <2>1. DecidedApprovalOK(q) /\ q.approval \in Approvals
    BY DEF RequestOK
  <2>2. ASSUME q.pc \in ConsumedLabels
        PROVE  steps'[q.turn][q.step].runs = 0
    <3>1. q.turn # NoTurn
      BY <2>2 DEF RequestOK, ConsumedLabels, FreeLabels
    <3>2. q.turn \in Turns /\ q.step \in 1..Len(steps[q.turn])
      BY <2>1, <3>1 DEF DecidedApprovalOK, Names, ApprovalsOK
    <3>3. QED
      BY <2>1, <2>2, <3>2 DEF DecidedApprovalOK, NothingRan
  <2>3. QED
    BY <2>1, <2>2 DEF DecidedApprovalOK, Names
<1>4. q.pc = "archive" => ArchiveOK(q)'
  BY DEF RequestOK, ArchiveOK
<1>5. QED
  BY <1>1, <1>2, <1>3, <1>4 DEF RequestOK

(* A request's next record is typed, well placed, drives no other turn and *)
(* acts on no other approval than before.                                  *)
Continues(r, q) ==
    /\ q \in Request
    /\ RequestOK(q)
    /\ q.turn \in {NoTurn, req[r].turn}
    /\ q.pc \in DecidedLabels =>
          req[r].pc \in DecidedLabels /\ q.approval = req[r].approval

(* The same without a claim on where it comes from: no other request       *)
(* drives its turn or acts on its approval.                                *)
Placed(r, q) ==
    /\ q \in Request
    /\ RequestOK(q)
    /\ \A p \in Requests \ {r} :
          /\ q.turn # NoTurn => req[p].turn # q.turn
          /\ q.pc \in DecidedLabels /\ req[p].pc \in DecidedLabels =>
                req[p].approval # q.approval

(* A record that continues a request collides with no other request.       *)
LEMMA ContinuesPlaced ==
    ASSUME Exclusive, NEW r \in Requests, NEW q, Continues(r, q)
    PROVE  Placed(r, q)
BY DEF Exclusive, Continues, Placed

(* Replacing one request by such a record keeps the requests exclusive.    *)
LEMMA ExclusiveStep ==
    ASSUME TypeOK, Exclusive, NEW r \in Requests, NEW q, q \in Request,
           \A p \in Requests \ {r} :
              /\ q.turn # NoTurn => req[p].turn # q.turn
              /\ q.pc \in DecidedLabels /\ req[p].pc \in DecidedLabels =>
                    req[p].approval # q.approval,
           req' = [req EXCEPT ![r] = q]
    PROVE  Exclusive' /\ req' \in [Requests -> Request]
<1>1. req' \in [Requests -> Request]
  BY DEF TypeOK
<1>2. \A p \in Requests : req'[p] = IF p = r THEN q ELSE req[p]
  BY DEF TypeOK
<1>3. Exclusive'
  BY <1>2 DEF Exclusive
<1>4. QED
  BY <1>1, <1>3

(* What steps and approvals say of each other is kept with them.           *)
LEMMA SettledKept ==
    ASSUME ExecutionFollowsApproval, ApprovalsOK, UNCHANGED <<steps, approval>>
    PROVE  ExecutionFollowsApproval' /\ ApprovalsOK'
<1>1. ExecutionFollowsApproval'
  BY DEF ExecutionFollowsApproval, Gated
<1>2. ApprovalsOK'
  BY DEF ApprovalsOK, Names
<1>3. QED
  BY <1>1, <1>2

(* Approvals that keep their steps stay in order when those steps exist    *)
(* and start no tool ahead of them.                                        *)
LEMMA ApprovalsKept ==
    ASSUME ApprovalsOK,
           \A a \in Approvals :
              /\ approval'[a].turn = approval[a].turn
              /\ approval'[a].step = approval[a].step
              /\ approval'[a].status = "none" <=> approval[a].status = "none",
           \A a \in Approvals : approval[a].status # "none" =>
              /\ approval[a].step \in 1..Len(steps'[approval[a].turn])
              /\ approval'[a].status # "consumed" =>
                    steps'[approval[a].turn][approval[a].step].runs = 0
    PROVE  ApprovalsOK'
<1>1. \A b \in Approvals : \A t, i : Names(b, t, i)' <=> Names(b, t, i)
  BY Zenon DEF Names
<1>2. \A a \in Approvals : approval[a].status # "none" =>
         /\ approval[a].turn \in Turns
         /\ \A b \in Approvals \ {a} :
               ~Names(b, approval[a].turn, approval[a].step)
  BY Zenon DEF ApprovalsOK
<1>3. ASSUME NEW a \in Approvals, approval'[a].status # "none",
             NEW t, t = approval'[a].turn, NEW i, i = approval'[a].step
      PROVE  /\ t \in Turns
             /\ i \in 1..Len(steps'[t])
             /\ \A b \in Approvals \ {a} : ~Names(b, t, i)'
             /\ approval'[a].status # "consumed" => steps'[t][i].runs = 0
  <2>1. approval[a].status # "none" /\ t = approval[a].turn
        /\ i = approval[a].step
    BY Zenon, <1>3
  <2>2. t \in Turns /\ \A b \in Approvals \ {a} : ~Names(b, t, i)
    BY Zenon, <1>2, <2>1
  <2>3. /\ i \in 1..Len(steps'[t])
        /\ approval'[a].status # "consumed" => steps'[t][i].runs = 0
    BY Zenon, <2>1
  <2>4. QED
    BY Zenon, <1>1, <2>2, <2>3
<1>4. QED
  BY Zenon, <1>3 DEF ApprovalsOK

(* A step that leaves sessions, turns and approvals alone, starts no tool  *)
(* and continues one request preserves the invariant.                      *)
LEMMA QuietStep ==
    ASSUME IInv, NothingRan, NEW r \in Requests, NEW q,
           Placed(r, q), req' = [req EXCEPT ![r] = q],
           session' = session, turn' = turn, approval' = approval,
           unpaired' \in [Turns -> Int], connected' \in [Sessions -> BOOLEAN],
           faults' \in Nat
    PROVE  IInv'
<1>1. Exclusive' /\ req' \in [Requests -> Request]
  BY Zenon, ExclusiveStep DEF IInv, Placed
<1>2. TypeOK'
  BY <1>1 DEF IInv, TypeOK, StoreTypeOK, NothingRan
<1>3. ActiveTurnLock'
  BY DEF IInv, ActiveTurnLock, IsOpen
<1>4. ExecutionFollowsApproval'
  <2> SUFFICES ASSUME NEW t \in Turns, NEW i \in 1..Len(steps'[t])
               PROVE  /\ steps'[t][i].runs <= 1
                      /\ Gated(t, i)' /\ steps'[t][i].runs = 1 =>
                            \E a \in Approvals :
                               /\ approval'[a].status = "consumed"
                               /\ approval'[a].turn = t
                               /\ approval'[a].step = i
    BY DEF ExecutionFollowsApproval
  <2>1. i \in 1..Len(steps[t])
    BY DEF NothingRan
  <2>2. steps'[t][i].runs = steps[t][i].runs /\ Gated(t, i)' = Gated(t, i)
    BY Zenon, <2>1 DEF NothingRan, Gated
  <2>3. QED
    BY <2>1, <2>2 DEF IInv, ExecutionFollowsApproval
<1>5. ApprovalsOK'
  BY Zenon DEF IInv, ApprovalsOK, NothingRan, Names
<1>6. RequestsOK'
  <2> SUFFICES ASSUME NEW p \in Requests
               PROVE  RequestOK(req[p])'
    BY DEF RequestsOK
  <2>1. req'[p] \in Request /\ RequestOK(req'[p])
    <3>1. req'[p] = IF p = r THEN q ELSE req[p]
      BY DEF IInv, TypeOK
    <3>2. QED
      BY <3>1 DEF IInv, RequestsOK, Placed, TypeOK
  <2>2. QED
    BY <2>1, QuietRequest DEF IInv
<1>7. QED
  BY <1>1, <1>2, <1>3, <1>4, <1>5, <1>6 DEF IInv

(* A step that changes nothing but one request.                            *)
LEMMA TakeStep ==
    ASSUME IInv, NEW r \in Requests, NEW q, Placed(r, q),
           req' = [req EXCEPT ![r] = q], UNCHANGED <<stored, env>>
    PROVE  IInv'
<1>1. NothingRan
  BY DEF IInv, TypeOK, StoreTypeOK, NothingRan, stored
<1>2. QED
  BY Zenon, <1>1, QuietStep DEF IInv, TypeOK, StoreTypeOK, stored, env

(* A step that only moves one request on.                                  *)
LEMMA ControlStep ==
    ASSUME IInv, NEW r \in Requests, NEW q, Continues(r, q),
           req' = [req EXCEPT ![r] = q], UNCHANGED <<stored, env>>
    PROVE  IInv'
BY Zenon, ContinuesPlaced, TakeStep DEF IInv

(* A step that changes one step's status and one request.                  *)
LEMMA StatusStep ==
    ASSUME IInv, NEW r \in Requests, NEW q, Continues(r, q),
           req' = [req EXCEPT ![r] = q],
           NEW t \in Turns, NEW i \in Nat, NEW to \in StepStatus,
           TransitionStep(t, i, to),
           UNCHANGED <<session, turn, approval, unpaired, env>>
    PROVE  IInv'
<1>1. NothingRan
  <2>1. steps[t] \in Seq(Step)
    BY DEF IInv, TypeOK, StoreTypeOK
  <2>2. steps' = [steps EXCEPT ![t] = [steps[t] EXCEPT ![i].status = to]]
    BY DEF TransitionStep
  <2>3. QED
    BY <2>1, <2>2, StepStatusUpdate DEF IInv, TypeOK, StoreTypeOK, NothingRan
<1>2. QED
  BY Zenon, <1>1, ContinuesPlaced, QuietStep DEF IInv, TypeOK, StoreTypeOK, env

(* A step that adds n to the calls without a result, and changes one       *)
(* request.                                                                *)
LEMMA MessageStep ==
    ASSUME IInv, NEW r \in Requests, NEW q, Continues(r, q),
           req' = [req EXCEPT ![r] = q],
           unpaired' \in [Turns -> Int],
           UNCHANGED <<session, turn, steps, approval, env>>
    PROVE  IInv'
<1>1. NothingRan
  BY DEF IInv, TypeOK, StoreTypeOK, NothingRan
<1>2. QED
  BY Zenon, <1>1, ContinuesPlaced, QuietStep DEF IInv, TypeOK, StoreTypeOK, env

-----------------------------------------------------------------------------
(* Where a request may continue.                                           *)

(* Labels whose only condition is that the request drives a running turn.  *)
PlainLabels ==
    RunLabels \ (ConsumedLabels \cup CallLabels \cup {"askApproval"})

(* A request may always return.                                            *)
LEMMA ContinueReturn ==
    ASSUME NEW r \in Requests
    PROVE  Continues(r, NoRequest)
BY IdleRequest DEF Continues, RequestOK, FreeLabels, CallLabels,
   DecidedLabels, ConsumedLabels

(* The driver of a running turn may go to any label of the running turn    *)
(* that asks nothing more of the approvals and steps.                      *)
LEMMA ContinueRun ==
    ASSUME IInv, NEW r \in Requests, req[r].pc \in RunLabels,
           NEW q \in Request,
           q.pc \in RunLabels \ (ConsumedLabels \cup {"execute", "askApproval"}),
           q.turn = req[r].turn, q.ver = req[r].ver,
           q.turn # NoTurn \/ q.pc = "deferred",
           q.pc \in CallLabels => q.calls # <<>>
    PROVE  Continues(r, q)
<1>1. RequestOK(req[r])
  BY DEF IInv, RequestsOK
<1>2. q.pc \notin FreeLabels \cup DecidedLabels \cup ParkedLabels
                  \cup {"execute", "askApproval", "decide", "archive", "runTurn"}
  BY DEF RunLabels, FreeLabels, DecidedLabels, ConsumedLabels, ParkedLabels
<1>3. q.turn # NoTurn => DrivenTurnOK(q)
  BY <1>1, <1>2 DEF RequestOK, DrivenTurnOK
<1>4. RequestOK(q)
  BY <1>2, <1>3 DEF RequestOK
<1>5. QED
  BY <1>2, <1>4 DEF Continues

(* In particular to a label with no further condition.                     *)
LEMMA ContinuePlain ==
    ASSUME IInv, NEW r \in Requests, NEW l \in PlainLabels,
           req[r].pc \in RunLabels, req[r].turn # NoTurn \/ l = "deferred"
    PROVE  Continues(r, [req[r] EXCEPT !.pc = l])
<1> DEFINE q == [req[r] EXCEPT !.pc = l]
<1>1. req[r] \in Request
  BY DEF IInv, TypeOK
<1>2. l \in RunLabels \ (ConsumedLabels \cup CallLabels \cup {"askApproval"})
  BY DEF PlainLabels
<1>3. /\ q \in Request /\ q.pc = l
      /\ q.turn = req[r].turn /\ q.ver = req[r].ver
  BY <1>1, <1>2 DEF Request, RunLabels
<1>4. "execute" \in CallLabels
  BY DEF CallLabels
<1>5. QED
  <2> HIDE DEF q
  <2>1. Continues(r, q)
    BY <1>2, <1>3, <1>4, ContinueRun
  <2> QED BY <2>1 DEF q

(* Returning without touching the store: error returns of the handlers.    *)
LEMMA ReturnStep ==
    ASSUME IInv, NEW r \in Requests, Return(r), UNCHANGED <<stored, env>>
    PROVE  IInv'
BY Zenon, ContinueReturn, ControlStep DEF Return

(* Going on to a plain label without touching the store.                   *)
LEMMA GotoStep ==
    ASSUME IInv, NEW r \in Requests, NEW l \in PlainLabels,
           req[r].pc \in RunLabels \ {"deferred"}, Goto(r, l),
           UNCHANGED <<stored, env>>
    PROVE  IInv'
<1>1. req[r].turn # NoTurn
  BY Driver, TurnsAssumption
<1>2. req' = [req EXCEPT ![r] = [req[r] EXCEPT !.pc = l]]
  BY DEF Goto
<1>3. QED
  BY Zenon, <1>1, <1>2, ContinuePlain, ControlStep

(* Changing the status of the step at hand, then going on.                 *)
LEMMA StatusGotoStep ==
    ASSUME IInv, NEW r \in Requests, NEW l \in PlainLabels,
           req[r].pc \in RunLabels \ {"deferred"}, Goto(r, l),
           NEW to \in StepStatus,
           TransitionStep(req[r].turn, req[r].step, to),
           UNCHANGED <<session, turn, approval, unpaired, env>>
    PROVE  IInv'
<1>1. req[r].turn \in Turns /\ req[r].turn # NoTurn
  BY Driver, TurnsAssumption
<1>2. req[r].step \in Nat
  BY DEF IInv, TypeOK, Request
<1>3. req' = [req EXCEPT ![r] = [req[r] EXCEPT !.pc = l]]
  BY DEF Goto
<1>4. QED
  BY Zenon, <1>1, <1>2, <1>3, ContinuePlain, StatusStep

-----------------------------------------------------------------------------
(* The quiet actions.                                                      *)

(* A RunTurn request arrives.                                              *)
LEMMA BeginTurnStep ==
    ASSUME IInv, NEW r \in Requests, NEW s \in Sessions, BeginTurn(r, s)
    PROVE  IInv'
<1> DEFINE q == [req[r] EXCEPT !.pc = "startTurn", !.session = s]
<1>1. req[r] \in Request /\ RequestOK(req[r])
  BY DEF IInv, TypeOK, RequestsOK
<1>2. q \in Request /\ q.pc = "startTurn" /\ q.turn = NoTurn
  BY Zenon, <1>1 DEF BeginTurn, At, Request, RequestOK, FreeLabels, Labels
<1>3. req' = [req EXCEPT ![r] = q]
  BY Zenon DEF BeginTurn
<1>4. Continues(r, q)
  <2> HIDE DEF q
  <2> QED BY <1>2 DEF Continues, RequestOK, FreeLabels, CallLabels,
                      DecidedLabels, ConsumedLabels
<1>5. QED
  <2> HIDE DEF q
  <2> QED BY Zenon, <1>3, <1>4, ControlStep DEF BeginTurn

(* An ArchiveSession request reads the session's version.                  *)
LEMMA BeginArchiveStep ==
    ASSUME IInv, NEW r \in Requests, NEW s \in Sessions, BeginArchive(r, s)
    PROVE  IInv'
<1> DEFINE v == session[s].version
           q == [req[r] EXCEPT !.pc = "archive", !.session = s, !.ver = v]
<1>1. req[r] \in Request /\ RequestOK(req[r])
  BY DEF IInv, TypeOK, RequestsOK
<1>2. v \in Nat
  BY DEF IInv, TypeOK, StoreTypeOK, Session
<1>3. /\ q \in Request /\ q.pc = "archive" /\ q.turn = NoTurn
      /\ q.session = s /\ q.ver = v
  <2> HIDE DEF v
  <2> QED BY ZenonT(60), <1>1, <1>2
             DEF BeginArchive, At, Request, RequestOK, FreeLabels,
                            Labels
<1>4. req' = [req EXCEPT ![r] = q]
  BY Zenon DEF BeginArchive
<1>5. ArchiveOK(q)
  <2> HIDE DEF q
  <2> QED BY <1>2, <1>3 DEF ArchiveOK, BeginArchive
<1>6. Continues(r, q)
  <2> HIDE DEF q
  <2> QED BY <1>3, <1>5 DEF Continues, RequestOK, FreeLabels, CallLabels,
                            DecidedLabels, ConsumedLabels
<1>7. QED
  <2> HIDE DEF q
  <2> QED BY Zenon, <1>4, <1>6, ControlStep DEF BeginArchive

(* Labels the proofs below move between.                                   *)
LEMMA LabelFacts ==
    /\ {"prompt", "history", "model", "modelStep", "generate", "modelDone",
        "answer", "complete", "waitStep", "waitTurn", "failStep",
        "failApproved", "failTurn", "deferred", "executingApproved",
        "approvedDone", "approvedMessage"} \subseteq PlainLabels
    /\ PlainLabels \subseteq RunLabels
    /\ CallLabels \cup {"askApproval", "resumeStep", "executeApproved"}
         \subseteq RunLabels
BY DEF PlainLabels, RunLabels, Labels, FreeLabels, ParkedLabels, CallLabels,
       ConsumedLabels

(* The user's message is persisted and the history restored, or failTurn.  *)
LEMMA PromptAndHistory ==
    ASSUME IInv, NEW r \in Requests, AppendPrompt(r) \/ RestoreHistory(r)
    PROVE  IInv'
<1>1. CASE AppendPrompt(r)
  BY <1>1, LabelFacts, GotoStep DEF AppendPrompt, At, Fail
<1>2. CASE RestoreHistory(r) /\ ~Live(r)
  BY <1>2, LabelFacts, GotoStep DEF RestoreHistory, At, Fail
<1>3. CASE RestoreHistory(r) /\ Live(r)
  <2> DEFINE q == [req[r] EXCEPT !.pc = "model", !.used = 0]
  <2>1. req[r] \in Request /\ req[r].turn # NoTurn /\ req[r].pc \in RunLabels
    BY <1>3, LabelFacts, Driver, TurnsAssumption
       DEF IInv, TypeOK, RestoreHistory, At
  <2>2. /\ q \in Request /\ q.pc = "model"
        /\ q.turn = req[r].turn /\ q.ver = req[r].ver
    BY ZenonT(60), <2>1 DEF Request, Labels
  <2>3. req' = [req EXCEPT ![r] = q] /\ UNCHANGED <<stored, env>>
    BY Zenon, <1>3 DEF RestoreHistory
  <2>4. Continues(r, q)
    <3> HIDE DEF q
    <3> QED BY <2>1, <2>2, LabelFacts, ContinueRun DEF PlainLabels, CallLabels
  <2>5. QED
    <3> HIDE DEF q
    <3> QED BY Zenon, <2>3, <2>4, ControlStep
<1>4. QED
  BY <1>1, <1>2, <1>3

(* The loop test passes, or the deferred function is reached.              *)
LEMMA PrepareStep ==
    ASSUME IInv, NEW r \in Requests, PrepareModelStep(r)
    PROVE  IInv'
<1>1. CASE Abort(r)
  BY <1>1, LabelFacts, GotoStep DEF PrepareModelStep, At, Abort
<1>2. CASE req' = [req EXCEPT ![r].pc = "modelStep", ![r].used = @ + 1]
  <2> DEFINE n == req[r].used + 1
             q == [req[r] EXCEPT !.pc = "modelStep", !.used = n]
  <2>1. req[r] \in Request /\ req[r].turn # NoTurn /\ req[r].pc \in RunLabels
    BY LabelFacts, Driver, TurnsAssumption
       DEF IInv, TypeOK, PrepareModelStep, At
  <2>2. n \in Nat
    BY <2>1 DEF Request
  <2>3. /\ q \in Request /\ q.pc = "modelStep"
        /\ q.turn = req[r].turn /\ q.ver = req[r].ver
    <3> HIDE DEF n
    <3> QED BY Zenon, <2>1, <2>2 DEF Request, Labels
  <2>4. req' = [req EXCEPT ![r] = q] /\ UNCHANGED <<stored, env>>
    BY Zenon, <1>2 DEF PrepareModelStep
  <2>5. Continues(r, q)
    <3> HIDE DEF q
    <3> QED BY <2>1, <2>3, LabelFacts, ContinueRun DEF PlainLabels, CallLabels
  <2>6. QED
    <3> HIDE DEF q
    <3> QED BY Zenon, <2>4, <2>5, ControlStep
<1>3. QED
  BY <1>1, <1>2 DEF PrepareModelStep

(* The provider answers with calls, or fails.                              *)
LEMMA GenerateStep ==
    ASSUME IInv, NEW r \in Requests, Generate(r)
    PROVE  IInv'
<1>1. CASE Goto(r, "failStep") \/ Abort(r)
  BY <1>1, LabelFacts, GotoStep DEF Generate, At, Abort
<1>2. ASSUME NEW calls \in Responses,
             req' = [req EXCEPT ![r].pc = "modelDone", ![r].calls = calls]
      PROVE  IInv'
  <2> DEFINE q == [req[r] EXCEPT !.pc = "modelDone", !.calls = calls]
  <2>1. req[r] \in Request /\ req[r].turn # NoTurn /\ req[r].pc \in RunLabels
    BY LabelFacts, Driver, TurnsAssumption DEF IInv, TypeOK, Generate, At
  <2>2. calls \in Seq(CallKind)
    <3>1. PICK n \in 0..MaxCalls : calls \in [1..n -> CallKind]
      BY DEF Responses
    <3>2. n \in Nat
      BY BoundsAssumption
    <3>3. QED
      BY <3>1, <3>2, SeqDef
  <2>3. /\ q \in Request /\ q.pc = "modelDone"
        /\ q.turn = req[r].turn /\ q.ver = req[r].ver
    BY Zenon, <2>1, <2>2 DEF Request, Labels
  <2>4. req' = [req EXCEPT ![r] = q] /\ UNCHANGED <<stored, env>>
    BY Zenon, <1>2 DEF Generate
  <2>5. Continues(r, q)
    <3> HIDE DEF q
    <3> QED BY <2>1, <2>3, LabelFacts, ContinueRun DEF PlainLabels, CallLabels
  <2>6. QED
    <3> HIDE DEF q
    <3> QED BY Zenon, <2>4, <2>5, ControlStep
<1>3. QED
  BY <1>1, <1>2 DEF Generate

(* The step statuses the requests ask for.                                 *)
LEMMA StepStatusFacts ==
    {"running", "waiting", "completed", "cancelled", "failed"}
      \subseteq StepStatus
BY DEF StepStatus, TerminalStatus

(* The model step completes.                                               *)
LEMMA CompleteModelStepStep ==
    ASSUME IInv, NEW r \in Requests, CompleteModelStep(r)
    PROVE  IInv'
<1>1. req[r].pc = "modelDone"
  BY DEF CompleteModelStep, At
<1>2. CASE /\ TransitionStep(req[r].turn, req[r].step, "completed")
           /\ Goto(r, "answer")
  BY <1>1, <1>2, LabelFacts, StepStatusFacts, StatusGotoStep
     DEF CompleteModelStep
<1>3. CASE Abort(r) /\ UNCHANGED steps
  BY <1>1, <1>3, LabelFacts, GotoStep DEF CompleteModelStep, Abort, stored
<1>4. QED
  BY <1>2, <1>3 DEF CompleteModelStep

(* The assistant's message is persisted with its calls.                    *)
LEMMA AppendAnswerStep ==
    ASSUME IInv, NEW r \in Requests, AppendAnswer(r)
    PROVE  IInv'
<1> DEFINE n == Len(req[r].calls)
           l == IF n = 0 THEN "complete" ELSE "call"
           q == [req[r] EXCEPT !.pc = l]
<1>1. req[r].pc = "answer"
  BY DEF AppendAnswer, At
<1>2. CASE Abort(r) /\ UNCHANGED unpaired
  BY <1>1, <1>2, LabelFacts, GotoStep DEF AppendAnswer, Abort, stored
<1>3. CASE /\ unpaired' = [unpaired EXCEPT ![req[r].turn] = @ + n]
           /\ Goto(r, l)
  <2>1. req[r] \in Request /\ req[r].turn \in Turns /\ req[r].pc \in RunLabels
    BY <1>1, LabelFacts, Driver DEF IInv, TypeOK
  <2>2. n \in Nat /\ (n # 0 => req[r].calls # <<>>)
    BY <2>1 DEF Request
  <2>3. unpaired' \in [Turns -> Int]
    <3> HIDE DEF n
    <3> QED BY <1>3, <2>1, <2>2 DEF IInv, TypeOK, StoreTypeOK
  <2>4. l \in {"complete", "call"} /\ (l = "call" => req[r].calls # <<>>)
    BY <2>2
  <2>5. /\ q \in Request /\ q.pc = l /\ q.calls = req[r].calls
        /\ q.turn = req[r].turn /\ q.ver = req[r].ver
    <3> HIDE DEF l
    <3> QED BY <2>1, <2>4 DEF Request, Labels
  <2>6. Continues(r, q)
    <3> HIDE DEF q, l
    <3>1. q.pc \in RunLabels \ (ConsumedLabels \cup {"execute", "askApproval"})
      BY <2>4, <2>5, LabelFacts DEF ConsumedLabels, CallLabels
    <3> QED BY <2>1, <2>4, <2>5, <3>1, TurnsAssumption, ContinueRun
               DEF CallLabels
  <2>7. req' = [req EXCEPT ![r] = q]
    BY <1>3 DEF Goto
  <2>8. QED
    <3> HIDE DEF q
    <3> QED BY Zenon, <2>3, <2>6, <2>7, MessageStep DEF AppendAnswer
<1>4. QED
  BY <1>2, <1>3 DEF AppendAnswer

(* A tool returns its result or an error.                                  *)
LEMMA ToolReturnsStep ==
    ASSUME IInv, NEW r \in Requests, ToolReturns(r)
    PROVE  IInv'
<1>1. req[r].pc = "executing" /\ UNCHANGED <<stored, env>>
  BY DEF ToolReturns, At
<1>2. CASE Goto(r, "failStep")
  BY <1>1, <1>2, LabelFacts, GotoStep DEF CallLabels
<1>3. CASE Goto(r, "toolDone")
  <2> DEFINE q == [req[r] EXCEPT !.pc = "toolDone"]
  <2>1. /\ req[r] \in Request /\ req[r].turn # NoTurn
        /\ req[r].pc \in RunLabels /\ req[r].calls # <<>>
    BY Zenon, <1>1, LabelFacts, Driver, TurnsAssumption
       DEF IInv, TypeOK, RequestsOK, RequestOK, CallLabels
  <2>2. /\ q \in Request /\ q.pc = "toolDone" /\ q.calls = req[r].calls
        /\ q.turn = req[r].turn /\ q.ver = req[r].ver
    BY <2>1 DEF Request, Labels
  <2>3. Continues(r, q)
    <3> HIDE DEF q
    <3> QED BY <2>1, <2>2, LabelFacts, ContinueRun
               DEF CallLabels, ConsumedLabels
  <2>4. req' = [req EXCEPT ![r] = q]
    BY <1>3 DEF Goto
  <2>5. QED
    <3> HIDE DEF q
    <3> QED BY ZenonT(60), <1>1, <2>3, <2>4, ControlStep
<1>4. QED
  BY <1>2, <1>3 DEF ToolReturns

(* The tool step completes; its call is still at hand.                     *)
LEMMA CompleteToolStepStep ==
    ASSUME IInv, NEW r \in Requests, CompleteToolStep(r)
    PROVE  IInv'
<1>1. req[r].pc = "toolDone"
  BY DEF CompleteToolStep, At
<1>2. CASE Abort(r) /\ UNCHANGED steps
  BY <1>1, <1>2, LabelFacts, GotoStep
     DEF CompleteToolStep, Abort, stored, CallLabels
<1>3. CASE /\ TransitionStep(req[r].turn, req[r].step, "completed")
           /\ Goto(r, "toolMessage")
  <2> DEFINE q == [req[r] EXCEPT !.pc = "toolMessage"]
  <2>1. /\ req[r] \in Request /\ req[r].turn \in Turns
        /\ req[r].pc \in RunLabels /\ req[r].calls # <<>>
    BY <1>1, LabelFacts, Driver
       DEF IInv, TypeOK, RequestsOK, RequestOK, CallLabels
  <2>2. /\ q \in Request /\ q.pc = "toolMessage" /\ q.calls = req[r].calls
        /\ q.turn = req[r].turn /\ q.ver = req[r].ver
    BY <2>1 DEF Request, Labels
  <2>3. Continues(r, q)
    <3> HIDE DEF q
    <3> QED BY <2>1, <2>2, LabelFacts, TurnsAssumption, ContinueRun
               DEF CallLabels, ConsumedLabels
  <2>4. req' = [req EXCEPT ![r] = q] /\ req[r].step \in Nat
    BY <1>3, <2>1 DEF Goto, Request
  <2>5. QED
    <3> HIDE DEF q
    <3> QED BY ZenonT(60), <1>3, <2>1, <2>3, <2>4, StepStatusFacts, StatusStep
               DEF CompleteToolStep
<1>4. QED
  BY <1>2, <1>3 DEF CompleteToolStep

(* The tool's result is persisted and the next call taken up.              *)
LEMMA AppendToolMessageStep ==
    ASSUME IInv, NEW r \in Requests, AppendToolMessage(r)
    PROVE  IInv'
<1> DEFINE rest == Tail(req[r].calls)
           l == IF rest = <<>> THEN "model" ELSE "call"
           q == [req[r] EXCEPT !.calls = rest, !.pc = l]
<1>1. req[r].pc = "toolMessage"
  BY DEF AppendToolMessage, At
<1>2. CASE Abort(r) /\ UNCHANGED unpaired
  BY <1>1, <1>2, LabelFacts, GotoStep
     DEF AppendToolMessage, Abort, stored, CallLabels
<1>3. CASE /\ unpaired' = [unpaired EXCEPT ![req[r].turn] = @ - 1]
           /\ req' = [req EXCEPT ![r].calls = rest, ![r].pc = l]
  <2>1. /\ req[r] \in Request /\ req[r].turn \in Turns
        /\ req[r].pc \in RunLabels /\ req[r].calls # <<>>
    BY Zenon, <1>1, LabelFacts, Driver
       DEF IInv, TypeOK, RequestsOK, RequestOK, CallLabels
  <2>2. rest \in Seq(CallKind)
    BY <2>1, HeadTailProperties DEF Request
  <2>3. unpaired' \in [Turns -> Int]
    BY <1>3, <2>1 DEF IInv, TypeOK, StoreTypeOK
  <2>4. l \in {"model", "call"} /\ (l = "call" => rest # <<>>)
    OBVIOUS
  <2>5. /\ q \in Request /\ q.pc = l /\ q.calls = rest
        /\ q.turn = req[r].turn /\ q.ver = req[r].ver
    <3> HIDE DEF l, rest
    <3> QED BY ZenonT(60), <2>1, <2>2, <2>4 DEF Request, Labels
  <2>6. Continues(r, q)
    <3> HIDE DEF q, l, rest
    <3>1. q.pc \in RunLabels \ (ConsumedLabels \cup {"execute", "askApproval"})
      BY <2>4, <2>5, LabelFacts DEF ConsumedLabels, CallLabels
    <3> QED BY <2>1, <2>4, <2>5, <3>1, TurnsAssumption, ContinueRun
               DEF CallLabels
  <2>7. req' = [req EXCEPT ![r] = q]
    <3> HIDE DEF l, rest
    <3> QED BY Zenon, <1>3
  <2>8. QED
    <3> HIDE DEF q
    <3> QED BY ZenonT(60), <2>3, <2>6, <2>7, MessageStep DEF AppendToolMessage
<1>4. QED
  BY Zenon, <1>2, <1>3 DEF AppendToolMessage

(* The step of a gated call is parked.                                     *)
LEMMA WaitStepApprovalStep ==
    ASSUME IInv, NEW r \in Requests, WaitStepApproval(r)
    PROVE  IInv'
<1>1. req[r].pc = "waitStep"
  BY DEF WaitStepApproval, At
<1>2. CASE /\ TransitionStep(req[r].turn, req[r].step, "waiting")
           /\ Goto(r, "waitTurn")
  BY <1>1, <1>2, LabelFacts, StepStatusFacts, StatusGotoStep
     DEF WaitStepApproval
<1>3. CASE Abort(r) /\ UNCHANGED steps
  BY Zenon, <1>1, <1>3, LabelFacts, GotoStep
     DEF WaitStepApproval, Abort, stored
<1>4. QED
  BY <1>2, <1>3 DEF WaitStepApproval

(* A failed step is recorded on the way to the end of the turn.            *)
LEMMA FailStepStep ==
    ASSUME IInv, NEW r \in Requests, FailStep(r)
    PROVE  IInv'
<1> DEFINE l == IF At(r, "failStep") THEN "deferred" ELSE "failTurn"
<1>1. req[r].pc \in {"failStep", "failApproved"} /\ Goto(r, l)
  BY DEF FailStep, At, Abort, Fail
<1>2. l \in PlainLabels /\ req[r].pc \in RunLabels \ {"deferred"}
  BY Zenon, <1>1, LabelFacts
<1>3. CASE TransitionStep(req[r].turn, req[r].step, "failed")
  <2> HIDE DEF l
  <2> QED BY Zenon, <1>1, <1>2, <1>3, StepStatusFacts, StatusGotoStep
             DEF FailStep
<1>4. CASE steps' = steps
  <2> HIDE DEF l
  <2> QED BY <1>1, <1>2, <1>4, GotoStep DEF FailStep, stored
<1>5. QED
  BY Zenon, <1>3, <1>4 DEF FailStep, TransitionStep

(* An approved tool returns its result or an error.                        *)
LEMMA ApprovedToolReturnsStep ==
    ASSUME IInv, NEW r \in Requests, ApprovedToolReturns(r)
    PROVE  IInv'
BY LabelFacts, GotoStep DEF ApprovedToolReturns, At

(* The approved step completes.                                            *)
LEMMA CompleteApprovedStepStep ==
    ASSUME IInv, NEW r \in Requests, CompleteApprovedStep(r)
    PROVE  IInv'
<1>1. req[r].pc = "approvedDone"
  BY DEF CompleteApprovedStep, At
<1>2. CASE /\ TransitionStep(req[r].turn, req[r].step, "completed")
           /\ Goto(r, "approvedMessage")
  BY Zenon, <1>1, <1>2, LabelFacts, StepStatusFacts, StatusGotoStep
     DEF CompleteApprovedStep
<1>3. CASE Fail(r) /\ UNCHANGED steps
  BY <1>1, <1>3, LabelFacts, GotoStep DEF CompleteApprovedStep, Fail, stored
<1>4. QED
  BY <1>2, <1>3 DEF CompleteApprovedStep

(* The approved tool's result is persisted and the loop rejoined.          *)
LEMMA AppendApprovedMessageStep ==
    ASSUME IInv, NEW r \in Requests, AppendApprovedMessage(r)
    PROVE  IInv'
<1>1. req[r].pc = "approvedMessage"
  BY DEF AppendApprovedMessage, At
<1>2. CASE Fail(r) /\ UNCHANGED unpaired
  BY <1>1, <1>2, LabelFacts, GotoStep DEF AppendApprovedMessage, Fail, stored
<1>3. CASE /\ unpaired' = [unpaired EXCEPT ![req[r].turn] = @ - 1]
           /\ Goto(r, "history")
  <2>1. req[r].turn \in Turns /\ req[r].pc \in RunLabels
    BY <1>1, LabelFacts, Driver
  <2>2. unpaired' \in [Turns -> Int]
    BY <1>3, <2>1 DEF IInv, TypeOK, StoreTypeOK
  <2>3. Continues(r, [req[r] EXCEPT !.pc = "history"])
    BY <2>1, LabelFacts, TurnsAssumption, ContinuePlain
  <2>4. req' = [req EXCEPT ![r] = [req[r] EXCEPT !.pc = "history"]]
    BY <1>3 DEF Goto
  <2>5. QED
    BY Zenon, <2>2, <2>3, <2>4, MessageStep DEF AppendApprovedMessage
<1>4. QED
  BY <1>2, <1>3 DEF AppendApprovedMessage

(* Losing the turn after a failed AppendStep.                              *)
LEMMA LoseTurnStep ==
    ASSUME IInv, NEW r \in Requests, LoseTurn(r), UNCHANGED <<stored, env>>
    PROVE  IInv'
<1> DEFINE q == [req[r] EXCEPT !.pc = "deferred", !.turn = NoTurn, !.ver = 0]
<1>1. req[r] \in Request
  BY DEF IInv, TypeOK
<1>2. q \in Request /\ q.pc = "deferred" /\ q.turn = NoTurn
  BY Zenon, <1>1 DEF Request, Labels
<1>3. Continues(r, q)
  <2> HIDE DEF q
  <2> QED BY <1>2 DEF Continues, RequestOK, FreeLabels, CallLabels,
                      DecidedLabels, ConsumedLabels
<1>4. req' = [req EXCEPT ![r] = q]
  BY Zenon DEF LoseTurn
<1>5. QED
  <2> HIDE DEF q
  <2> QED BY Zenon, <1>3, <1>4, ControlStep

(* The call needs an approval: nothing ran yet, nobody was asked.          *)
LEMMA AskStep ==
    ASSUME IInv, NEW r \in Requests, req[r].pc = "execute",
           Goto(r, "askApproval"), UNCHANGED <<stored, env>>
    PROVE  IInv'
<1> DEFINE q == [req[r] EXCEPT !.pc = "askApproval"]
<1>1. /\ req[r] \in Request /\ RequestOK(req[r]) /\ req[r].turn # NoTurn
      /\ req[r].pc \in RunLabels
  BY LabelFacts, Driver, TurnsAssumption
     DEF IInv, TypeOK, RequestsOK, CallLabels
<1>2. /\ q \in Request /\ q.pc = "askApproval"
      /\ q.turn = req[r].turn /\ q.ver = req[r].ver /\ q.step = req[r].step
  BY Zenon, <1>1 DEF Request, Labels
<1>3. DrivenTurnOK(q)
  <2> HIDE DEF q
  <2> QED BY Zenon, <1>1, <1>2
             DEF RequestOK, DrivenTurnOK, RunLabels, ParkedLabels
<1>4. FreshCallOK(q)
  <2> HIDE DEF q
  <2> QED BY <1>1, <1>2 DEF RequestOK, FreshCallOK
<1>5. Continues(r, q)
  <2> HIDE DEF q
  <2>1. RequestOK(q)
    BY <1>1, <1>2, <1>3, <1>4
       DEF RequestOK, FreeLabels, CallLabels, DecidedLabels, ConsumedLabels
  <2>2. QED
    BY Zenon, <1>2, <2>1 DEF Continues, DecidedLabels, ConsumedLabels
<1>6. req' = [req EXCEPT ![r] = q]
  BY DEF Goto
<1>7. QED
  <2> HIDE DEF q
  <2> QED BY Zenon, <1>5, <1>6, ControlStep

(* The approved step runs again; its approval is consumed.                 *)
LEMMA ResumeStepStep ==
    ASSUME IInv, NEW r \in Requests, ResumeStep(r)
    PROVE  IInv'
<1> DEFINE q == [req[r] EXCEPT !.pc = "executeApproved"]
<1>1. req[r].pc = "resumeStep"
  BY DEF ResumeStep, At
<1>2. CASE Return(r) /\ UNCHANGED steps
  BY <1>2, ReturnStep DEF ResumeStep, stored
<1>3. CASE /\ TransitionStep(req[r].turn, req[r].step, "running")
           /\ Goto(r, "executeApproved")
  <2>1. /\ req[r] \in Request /\ RequestOK(req[r]) /\ req[r].turn \in Turns
        /\ req[r].pc \in RunLabels /\ req[r].step \in Nat
    BY <1>1, LabelFacts, Driver DEF IInv, TypeOK, RequestsOK, Request
  <2>2. /\ q \in Request /\ q.pc = "executeApproved"
        /\ q.turn = req[r].turn /\ q.ver = req[r].ver /\ q.step = req[r].step
        /\ q.approval = req[r].approval
    BY Zenon, <2>1 DEF Request, Labels
  <2>3. DrivenTurnOK(q)
    <3> HIDE DEF q
    <3> QED BY Zenon, <1>1, <2>1, <2>2, TurnsAssumption
               DEF RequestOK, DrivenTurnOK, ParkedLabels
  <2>4. DecidedApprovalOK(q)
    <3> HIDE DEF q
    <3> QED BY Zenon, <1>1, <2>1, <2>2
               DEF RequestOK, DecidedApprovalOK, DecidedLabels, ConsumedLabels
  <2>5. RequestOK(q)
    <3> HIDE DEF q
    <3> QED BY <1>1, <2>1, <2>2, <2>3, <2>4, TurnsAssumption
               DEF RequestOK, FreeLabels, CallLabels, DecidedLabels,
                   ConsumedLabels
  <2>6. Continues(r, q)
    <3> HIDE DEF q
    <3> QED BY <1>1, <2>2, <2>5 DEF Continues, DecidedLabels, ConsumedLabels
  <2>7. req' = [req EXCEPT ![r] = q]
    BY <1>3 DEF Goto
  <2>8. QED
    <3> HIDE DEF q
    <3> QED BY ZenonT(60), <1>3, <2>1, <2>6, <2>7, StepStatusFacts, StatusStep
               DEF ResumeStep
<1>4. QED
  BY Zenon, <1>2, <1>3 DEF ResumeStep

(* A denied step is cancelled; the request goes on to cancel its turn.     *)
LEMMA CancelStepStep ==
    ASSUME IInv, NEW r \in Requests, CancelStep(r)
    PROVE  IInv'
<1> DEFINE q == [req[r] EXCEPT !.pc = "cancelTurn"]
<1>1. req[r].pc = "cancelStep"
  BY DEF CancelStep, At
<1>2. CASE Return(r) /\ UNCHANGED steps
  BY <1>2, ReturnStep DEF CancelStep, stored
<1>3. CASE /\ TransitionStep(req[r].turn, req[r].step, "cancelled")
           /\ Goto(r, "cancelTurn")
  <2>1. /\ req[r] \in Request /\ RequestOK(req[r]) /\ req[r].turn # NoTurn
        /\ req[r].turn \in Turns /\ req[r].step \in Nat
    BY Zenon, <1>1 DEF IInv, TypeOK, RequestsOK, RequestOK, Request, FreeLabels
  <2>2. /\ q \in Request /\ q.pc = "cancelTurn"
        /\ q.turn = req[r].turn /\ q.ver = req[r].ver /\ q.step = req[r].step
        /\ q.approval = req[r].approval
    BY Zenon, <2>1 DEF Request, Labels
  <2>3. DrivenTurnOK(q)
    <3> HIDE DEF q
    <3> QED BY Zenon, <1>1, <2>1, <2>2
               DEF RequestOK, DrivenTurnOK, ParkedLabels, RunLabels
  <2>4. DecidedApprovalOK(q)
    <3> HIDE DEF q
    <3> QED BY Zenon, <1>1, <2>1, <2>2
               DEF RequestOK, DecidedApprovalOK, DecidedLabels, ConsumedLabels
  <2>5. RequestOK(q)
    <3> HIDE DEF q
    <3> QED BY <1>1, <2>1, <2>2, <2>3, <2>4
               DEF RequestOK, FreeLabels, CallLabels, DecidedLabels,
                   ConsumedLabels
  <2>6. Continues(r, q)
    <3> HIDE DEF q
    <3> QED BY <1>1, <2>2, <2>5 DEF Continues, DecidedLabels, ConsumedLabels
  <2>7. req' = [req EXCEPT ![r] = q]
    BY <1>3 DEF Goto
  <2>8. QED
    <3> HIDE DEF q
    <3> QED BY Zenon, <1>3, <2>1, <2>6, <2>7, StepStatusFacts, StatusStep
               DEF CancelStep
<1>4. QED
  BY <1>2, <1>3 DEF CancelStep

(* The browser goes away.                                                  *)
LEMMA DisconnectStep ==
    ASSUME IInv, NEW r \in Requests, Disconnect(r)
    PROVE  IInv'
<1> DEFINE q == [req[r] EXCEPT !.ctx = "cancelled"]
<1>1. req[r] \in Request /\ RequestOK(req[r])
  BY DEF IInv, TypeOK, RequestsOK
<1>2. /\ q \in Request /\ q.pc = req[r].pc /\ q.session = req[r].session
      /\ q.turn = req[r].turn /\ q.ver = req[r].ver /\ q.step = req[r].step
      /\ q.approval = req[r].approval /\ q.calls = req[r].calls
  BY <1>1 DEF Request
<1>3. RequestOK(q)
  <2> HIDE DEF q
  <2> QED BY ZenonT(60), <1>1, <1>2 DEF RequestOK, DrivenTurnOK, FreshCallOK,
                            DecidedApprovalOK, ArchiveOK
<1>4. Placed(r, q)
  <2> HIDE DEF q
  <2>1. Continues(r, q)
    BY <1>2, <1>3 DEF Continues
  <2>2. QED
    BY <2>1, ContinuesPlaced DEF IInv
<1>5. req' = [req EXCEPT ![r] = q] /\ faults' \in Nat /\ NothingRan
  BY DEF Disconnect, IInv, TypeOK, StoreTypeOK, NothingRan, stored
<1>6. QED
  <2> HIDE DEF q
  <2> QED BY Zenon, <1>4, <1>5, QuietStep
             DEF Disconnect, IInv, TypeOK, StoreTypeOK, stored

(* A decision arrives; it does not touch the turn yet.                     *)
LEMMA BeginResolveStep ==
    ASSUME IInv, NEW r \in Requests, NEW a \in Approvals,
           NEW approve \in BOOLEAN, BeginResolve(r, a, approve)
    PROVE  IInv'
<1> DEFINE s == turn[approval[a].turn].session
           q == [req[r] EXCEPT !.pc = "decide", !.approval = a,
                               !.approve = approve, !.session = s]
<1>1. req[r] \in Request /\ RequestOK(req[r]) /\ req[r].pc = "idle"
  BY DEF IInv, TypeOK, RequestsOK, BeginResolve, At
<1>2. approval[a].status = "pending"
  BY DEF BeginResolve
<1>3. s \in Sessions
  <2>1. approval[a].turn \in Turns
    BY <1>2 DEF IInv, ApprovalsOK
  <2>2. QED
    BY Zenon, <2>1 DEF IInv, TypeOK, StoreTypeOK, Turn
<1>4. q \in Request /\ q.pc = "decide" /\ q.turn = NoTurn /\ q.approval = a
  <2> HIDE DEF s
  <2> QED BY ZenonT(60), <1>1, <1>3 DEF Request, RequestOK, FreeLabels, Labels
<1>5. Continues(r, q)
  <2> HIDE DEF q
  <2> QED BY <1>2, <1>4 DEF Continues, RequestOK, FreeLabels, CallLabels,
                            DecidedLabels, ConsumedLabels
<1>6. req' = [req EXCEPT ![r] = q]
  BY Zenon DEF BeginResolve
<1>7. QED
  <2> HIDE DEF q
  <2> QED BY Zenon, <1>5, <1>6, ControlStep DEF BeginResolve

(* A request that decided takes the waiting turn: nobody else drives it,   *)
(* for such a request would act on an approval of the same step.           *)
LEMMA TakeTurnStep ==
    ASSUME IInv, NEW r \in Requests,
           \/ req[r].pc = "resume" /\ TakeTurn(r, "consume")
           \/ req[r].pc = "deny" /\ TakeTurn(r, "cancelStep"),
           Awaits(req[r].approval), UNCHANGED <<stored, env>>
    PROVE  IInv'
<1> DEFINE a == req[r].approval
           t == approval[a].turn
           i == approval[a].step
           v == turn[t].version
           l == IF req[r].pc = "resume" THEN "consume" ELSE "cancelStep"
           q == [req[r] EXCEPT !.pc = l, !.turn = t, !.ver = v, !.step = i]
<1>1. /\ req[r] \in Request /\ RequestOK(req[r])
      /\ req[r].pc \in DecidedLabels
  BY Zenon DEF IInv, TypeOK, RequestsOK, DecidedLabels
<1>2. /\ a \in Approvals
      /\ approval[a].status \notin {"none", "pending"}
  BY Zenon, <1>1 DEF RequestOK, DecidedApprovalOK
<1>3. t \in Turns /\ t # NoTurn /\ i \in Nat /\ Names(a, t, i)
  BY ZenonT(60), <1>2, TurnsAssumption
     DEF IInv, ApprovalsOK, TypeOK, StoreTypeOK, Approval, Names
<1>4. v \in Nat /\ turn[t].status = "waiting" /\ turn[t].activeStep = i
  BY Zenon, <1>3 DEF IInv, TypeOK, StoreTypeOK, Turn, Awaits
<1>5. l \in {"consume", "cancelStep"}
  OBVIOUS
<1>6. /\ q \in Request /\ q.pc = l /\ q.turn = t /\ q.ver = v /\ q.step = i
      /\ q.approval = a
  <2> HIDE DEF a, t, v, i, l
  <2>1. a = req[r].approval
    BY DEF a
  <2> QED BY ZenonT(60), <1>1, <1>3, <1>4, <1>5, <2>1 DEF Request, Labels
<1>7. RequestOK(q)
  <2>1. DrivenTurnOK(q)
    <3> HIDE DEF q, l
    <3> QED BY ZenonT(60), <1>4, <1>5, <1>6
               DEF DrivenTurnOK, RunLabels, ParkedLabels
  <2>2. DecidedApprovalOK(q)
    <3> HIDE DEF q, l
    <3> QED BY Zenon, <1>2, <1>3, <1>5, <1>6
               DEF DecidedApprovalOK, ConsumedLabels
  <2>3. QED
    <3> HIDE DEF q, l
    <3> QED BY <1>2, <1>3, <1>5, <1>6, <2>1, <2>2
               DEF RequestOK, FreeLabels, CallLabels
<1>8. ASSUME NEW p \in Requests \ {r}
      PROVE  /\ req[p].turn # t
             /\ req[p].pc \in DecidedLabels => req[p].approval # a
  <2>1. req[p].pc \in DecidedLabels => req[p].approval # a
    BY Zenon, <1>1 DEF IInv, Exclusive
  <2>2. ASSUME req[p].turn = t
        PROVE  FALSE
    <3>1. RequestOK(req[p]) /\ DrivenTurnOK(req[p]) /\ req[p] \in Request
      BY Zenon, <1>3, <2>2 DEF IInv, TypeOK, RequestsOK, RequestOK
    <3>2. req[p].pc \in ParkedLabels /\ req[p].step = i
      BY ZenonT(60), <1>3, <1>4, <2>2, <3>1
         DEF DrivenTurnOK, RequestOK, Request, RunLabels
    <3>3. req[p].pc \in DecidedLabels
      BY <3>2 DEF ParkedLabels, DecidedLabels, ConsumedLabels
    <3>4. req[p].approval \in Approvals /\ Names(req[p].approval, t, i)
      BY Zenon, <1>3, <2>2, <3>1, <3>2, <3>3 DEF RequestOK, DecidedApprovalOK
    <3>5. QED
      BY ZenonT(60), <1>2, <1>3, <2>1, <3>3, <3>4 DEF IInv, ApprovalsOK, Names
  <2>3. QED
    BY Zenon, <2>1, <2>2
<1>9. Placed(r, q)
  <2> HIDE DEF q, t, a
  <2> QED BY <1>6, <1>7, <1>8 DEF Placed
<1>10. req' = [req EXCEPT ![r] = q]
  BY Zenon DEF TakeTurn
<1>11. QED
  <2> HIDE DEF q
  <2> QED BY ZenonT(60), <1>9, <1>10, TakeStep

-----------------------------------------------------------------------------
(* Steps that change a turn.                                               *)

(* A request is unaffected by a step on a turn it does not drive; archived *)
(* versions are only overtaken.                                            *)
LEMMA OtherRequest ==
    ASSUME TypeOK, ApprovalsOK, NEW q \in Request, RequestOK(q),
           approval' = approval,
           q.turn \in Turns => /\ turn'[q.turn] = turn[q.turn]
                               /\ steps'[q.turn] = steps[q.turn],
           \A s \in Sessions :
              \/ session'[s] = session[s]
              \/ session[s].status = "none"
              \/ /\ session'[s].status # "none"
                 /\ session[s].version \in Nat
                 /\ session'[s].version = session[s].version + 1
    PROVE  RequestOK(q)'
<1>0. q.turn # NoTurn => q.turn \in Turns
  BY Zenon DEF Request
<1>1. q.turn # NoTurn => DrivenTurnOK(q)'
  BY Zenon, <1>0 DEF RequestOK, DrivenTurnOK
<1>2. q.pc \in {"execute", "askApproval"} => FreshCallOK(q)'
  BY Zenon, <1>0 DEF RequestOK, FreshCallOK, Names, FreeLabels
<1>3. q.pc \in DecidedLabels => DecidedApprovalOK(q)'
  BY Zenon, <1>0
     DEF RequestOK, DecidedApprovalOK, Names, ConsumedLabels, FreeLabels
<1>4. q.pc = "archive" => ArchiveOK(q)'
  <2> SUFFICES ASSUME q.pc = "archive"
               PROVE  ArchiveOK(q)'
    BY Zenon
  <2>1. ArchiveOK(q) /\ q.session \in Sessions /\ q.ver \in Nat
    BY Zenon DEF RequestOK, Request
  <2>2. CASE session'[q.session] = session[q.session]
    BY Zenon, <2>1, <2>2 DEF ArchiveOK
  <2>3. CASE /\ session'[q.session].status # "none"
             /\ session[q.session].version \in Nat
             /\ session'[q.session].version = session[q.session].version + 1
    BY <2>1, <2>3 DEF ArchiveOK
  <2>4. CASE session[q.session].status = "none"
    BY Zenon, <2>1, <2>4 DEF ArchiveOK
  <2>5. QED
    BY <2>1, <2>2, <2>3, <2>4
<1>5. QED
  BY <1>1, <1>2, <1>3, <1>4 DEF RequestOK

(* The driver of an open turn moves it, and returns or keeps driving it.   *)
LEMMA TransitionStepInv ==
    ASSUME IInv, NEW r \in Requests, NEW t \in Turns, req[r].turn = t,
           NEW to \in TurnStatus \ {"none"}, IsOpen(t), TransitionTurn(t, to),
           NEW q \in Request, req' = [req EXCEPT ![r] = q], RequestOK(q)',
           q.turn \in {NoTurn, t},
           q.pc \in DecidedLabels =>
              req[r].pc \in DecidedLabels /\ q.approval = req[r].approval,
           UNCHANGED <<steps, approval, unpaired, env>>
    PROVE  IInv'
<1> DEFINE s == turn[t].session
<1>1. /\ turn' \in [Turns -> Turn]
      /\ session' \in [Sessions -> Session]
      /\ turn'[t].status = to
      /\ turn'[t].session = s
      /\ \A u \in Turns \ {t} : turn'[u] = turn[u]
      /\ \A z \in Sessions \ {s} : session'[z] = session[z]
      /\ s \in Sessions
      /\ to \notin TerminalStatus => session'[s] = session[s]
      /\ to \in TerminalStatus =>
            /\ session'[s].active = NoTurn
            /\ session'[s].status = session[s].status
            /\ session'[s].version = session[s].version + 1
  BY Zenon, TransitionTurnRows
<1>2. session[s].active = t /\ session[s].status = "active"
  <2>1. ActiveTurnLock /\ t # NoTurn
    BY TurnsAssumption DEF IInv
  <2>2. QED
    BY <1>1, <2>1 DEF ActiveTurnLock
<1>3. Exclusive' /\ req' \in [Requests -> Request]
  BY ZenonT(60), ExclusiveStep DEF IInv, Exclusive
<1>4. TypeOK'
  BY Zenon, <1>1, <1>3 DEF IInv, TypeOK, StoreTypeOK, env
<1>5. ActiveTurnLock'
  <2>1. ASSUME NEW u \in Turns, IsOpen(u)'
        PROVE  session'[turn'[u].session].active = u
    <3>1. CASE u = t
      <4>1. to \notin TerminalStatus
        BY ZenonT(60), <1>1, <2>1, <3>1 DEF IsOpen, OpenStatus, TerminalStatus
      <4>2. QED
        BY <1>1, <1>2, <3>1, <4>1
    <3>2. CASE u # t
      <4>1. turn'[u] = turn[u] /\ IsOpen(u)
        BY <1>1, <2>1, <3>2 DEF IsOpen
      <4>2. session[turn[u].session].active = u /\ turn[u].session \in Sessions
        BY Zenon, <4>1 DEF IInv, ActiveTurnLock, TypeOK, StoreTypeOK, Turn
      <4>3. turn[u].session # s
        BY Zenon, <1>2, <3>2, <4>2
      <4>4. QED
        <5> HIDE DEF s
        <5> QED BY ZenonT(60), <1>1, <4>1, <4>2, <4>3
    <3>3. QED
      BY Zenon, <3>1, <3>2
  <2>2. ASSUME NEW z \in Sessions, session'[z].active # NoTurn
        PROVE  /\ session'[z].status = "active"
               /\ IsOpen(session[z].active)'
               /\ turn'[session'[z].active].session = z
    <3>1. CASE z = s
      <4>1. to \notin TerminalStatus /\ session'[z] = session[z]
        <5> HIDE DEF s
        <5> QED BY Zenon, <1>1, <2>2, <3>1
      <4>2. to \in OpenStatus
        BY Zenon, <4>1 DEF TurnStatus
      <4>3. QED
        <5> HIDE DEF s
        <5> QED BY Zenon, <1>1, <1>2, <3>1, <4>1, <4>2 DEF IsOpen
    <3>2. CASE z # s
      <4>1. session'[z] = session[z]
        <5> HIDE DEF s
        <5> QED BY Zenon, <1>1, <3>2
      <4>2. /\ session[z].status = "active"
            /\ session[z].active \in Turns
            /\ IsOpen(session[z].active)
            /\ turn[session[z].active].session = z
        BY SMTT(60), <2>2, <4>1
           DEF IInv, ActiveTurnLock, TypeOK, StoreTypeOK, Session
      <4>3. session[z].active # t
        BY Zenon, <3>2, <4>2
      <4>4. QED
        <5> HIDE DEF s
        <5> QED BY SMTT(60), <1>1, <4>1, <4>2, <4>3 DEF IsOpen
    <3>3. QED
      BY Zenon, <3>1, <3>2
  <2>3. QED
    BY Zenon, <2>1, <2>2 DEF ActiveTurnLock
<1>6. ExecutionFollowsApproval'
  BY ZenonT(60) DEF IInv, ExecutionFollowsApproval, Gated
<1>7. ApprovalsOK'
  BY DEF IInv, ApprovalsOK, Names
<1>8. RequestsOK'
  <2> SUFFICES ASSUME NEW p \in Requests
               PROVE  RequestOK(req[p])'
    BY DEF RequestsOK
  <2>1. CASE p = r
    <3>1. req'[p] = q
      BY <2>1 DEF IInv, TypeOK
    <3>2. QED
      BY ZenonT(60), <3>1
         DEF RequestOK, DrivenTurnOK, FreshCallOK, DecidedApprovalOK,
                  ArchiveOK, Names
  <2>2. CASE p # r
    <3>1. /\ req'[p] \in Request /\ RequestOK(req'[p])
          /\ req'[p].turn # t
      <4>1. req'[p] = req[p]
        BY Zenon, <2>2 DEF IInv, TypeOK
      <4>2. QED
        BY Zenon, <2>2, <4>1, TurnsAssumption
           DEF IInv, TypeOK, RequestsOK, Exclusive
    <3>2. \A z \in Sessions :
              \/ session'[z] = session[z]
              \/ /\ session'[z].status # "none"
                 /\ session[z].version \in Nat
                 /\ session'[z].version = session[z].version + 1
      <4> HIDE DEF s
      <4> QED BY Zenon, <1>1, <1>2 DEF IInv, TypeOK, StoreTypeOK, Session
    <3>3. QED
      BY Zenon, <1>1, <3>1, <3>2, OtherRequest DEF IInv
  <2>3. QED
    BY <2>1, <2>2
<1>9. QED
  BY Zenon, <1>3, <1>4, <1>5, <1>6, <1>7, <1>8 DEF IInv

(* The driver moves its turn to a new status and returns.                  *)
LEMMA TransitionReturn ==
    ASSUME IInv, NEW r \in Requests, req[r].turn # NoTurn,
           NEW to \in TurnStatus \ {"none"},
           TransitionTurn(req[r].turn, to), Return(r),
           UNCHANGED <<steps, approval, unpaired, env>>
    PROVE  IInv'
<1>1. RequestOK(NoRequest)'
  BY Zenon, IdleRequest DEF RequestOK, FreeLabels, CallLabels, DecidedLabels,
                     ConsumedLabels
<1>2. req' = [req EXCEPT ![r] = NoRequest]
  BY DEF Return
<1>3. NoRequest.pc \notin DecidedLabels
  BY IdleRequest DEF DecidedLabels, ConsumedLabels
<1>4. QED
  BY Zenon, <1>1, <1>2, <1>3, IdleRequest, DrivenOpen, TransitionStepInv

(* The turn completes, or the deferred function is reached.                *)
LEMMA CompleteTurnStep ==
    ASSUME IInv, NEW r \in Requests, CompleteTurn(r)
    PROVE  IInv'
<1>1. CASE Abort(r) /\ UNCHANGED <<turn, session>>
  BY <1>1, LabelFacts, GotoStep DEF CompleteTurn, At, Abort, stored
<1>2. CASE /\ CanTransitionTurn(req[r].turn, req[r].ver, "completed")
           /\ TransitionTurn(req[r].turn, "completed")
           /\ Return(r)
  BY Zenon, <1>2, TurnStatusFacts, TransitionReturn
     DEF CompleteTurn, CanTransitionTurn
<1>3. QED
  BY Zenon, <1>1, <1>2 DEF CompleteTurn

(* The turn is parked for its approval.                                    *)
LEMMA WaitTurnApprovalStep ==
    ASSUME IInv, NEW r \in Requests, WaitTurnApproval(r)
    PROVE  IInv'
<1>1. CASE Abort(r) /\ UNCHANGED <<turn, session>>
  BY Zenon, <1>1, LabelFacts, GotoStep
     DEF WaitTurnApproval, At, Abort, stored
<1>2. CASE /\ CanTransitionTurn(req[r].turn, req[r].ver, "waiting")
           /\ TransitionTurn(req[r].turn, "waiting")
           /\ Return(r)
  BY <1>2, TurnStatusFacts, TransitionReturn
     DEF WaitTurnApproval, CanTransitionTurn
<1>3. QED
  BY Zenon, <1>1, <1>2 DEF WaitTurnApproval

(* failTurn, the deferred function and a denial end the turn.              *)
LEMMA EndTurnStep ==
    ASSUME IInv, NEW r \in Requests,
           failTurn(r) \/ DeferredFail(r) \/ CancelTurn(r)
    PROVE  IInv'
<1>1. PICK to \in {"failed", "cancelled"} :
         /\ \/ /\ CanTransitionTurn(req[r].turn, req[r].ver, to)
               /\ TransitionTurn(req[r].turn, to)
            \/ UNCHANGED <<turn, session>>
         /\ Return(r)
         /\ UNCHANGED <<steps, approval, unpaired, env>>
  BY DEF failTurn, DeferredFail, CancelTurn
<1>2. CASE UNCHANGED <<turn, session>>
  BY Zenon, <1>1, <1>2, ReturnStep DEF stored
<1>3. CASE /\ CanTransitionTurn(req[r].turn, req[r].ver, to)
           /\ TransitionTurn(req[r].turn, to)
  BY <1>1, <1>3, TurnStatusFacts, TransitionReturn DEF CanTransitionTurn
<1>4. QED
  BY Zenon, <1>1, <1>2, <1>3

(* queued -> running: the request goes on with the new version.            *)
LEMMA RunTurnStep ==
    ASSUME IInv, NEW r \in Requests, RunTurn(r)
    PROVE  IInv'
<1>0. PICK t, v : t = req[r].turn /\ v = req[r].ver + 1
  OBVIOUS
<1>1. CASE Return(r) /\ UNCHANGED <<turn, session>>
  BY <1>1, ReturnStep DEF RunTurn, stored
<1>2. CASE /\ CanTransitionTurn(t, req[r].ver, "running")
           /\ TransitionTurn(t, "running")
           /\ req' = [req EXCEPT ![r].pc = "prompt", ![r].ver = @ + 1]
  <2>1. /\ req[r] \in Request /\ t \in Turns /\ IsOpen(t)
        /\ req[r].ver = turn[t].version /\ t # NoTurn
    BY Zenon, <1>0, <1>2, DrivenOpen DEF CanTransitionTurn
  <2>2. v \in Nat
    BY <1>0, <2>1 DEF Request
  <2>3. PICK q : q = [req[r] EXCEPT !.pc = "prompt", !.ver = v]
    OBVIOUS
  <2>4. q \in Request /\ q.pc = "prompt" /\ q.turn = t /\ q.ver = v
    BY ZenonT(60), <1>0, <2>1, <2>2, <2>3 DEF Request, Labels
  <2>5. turn'[t].status = "running" /\ turn'[t].version = v
    BY Zenon, <1>0, <1>2, <2>1, TurnStatusFacts, TransitionTurnRows
  <2>6. RequestOK(q)'
    BY <2>1, <2>4, <2>5
       DEF RequestOK, DrivenTurnOK, FreeLabels, CallLabels,
           ParkedLabels, DecidedLabels, ConsumedLabels
  <2>7. req' = [req EXCEPT ![r] = q]
    BY Zenon, <1>0, <1>2, <2>3
  <2>8. q.pc \notin DecidedLabels
    BY <2>4 DEF DecidedLabels, ConsumedLabels
  <2>9. UNCHANGED <<steps, approval, unpaired, env>>
    BY DEF RunTurn
  <2>10. QED
    BY ZenonT(60), <1>0, <1>2, <2>1, <2>4, <2>6, <2>7, <2>8, <2>9,
       TurnStatusFacts,
       TransitionStepInv
<1>3. QED
  BY <1>0, <1>1, <1>2 DEF RunTurn

(* waiting -> running by the request that consumed the approval.           *)
LEMMA ResumeTurnStep ==
    ASSUME IInv, NEW r \in Requests, ResumeTurn(r)
    PROVE  IInv'
<1>0. PICK t, v : t = req[r].turn /\ v = req[r].ver + 1
  OBVIOUS
<1>1. CASE Return(r) /\ UNCHANGED <<turn, session>>
  BY <1>1, ReturnStep DEF ResumeTurn, stored
<1>2. CASE /\ CanTransitionTurn(t, req[r].ver, "running")
           /\ TransitionTurn(t, "running")
           /\ req' = [req EXCEPT ![r].pc = "resumeStep", ![r].ver = @ + 1]
  <2>0. req[r].pc = "resumeTurn" /\ UNCHANGED <<steps, approval, unpaired, env>>
    BY DEF ResumeTurn, At
  <2>1. /\ req[r] \in Request /\ t \in Turns /\ IsOpen(t) /\ RequestOK(req[r])
        /\ req[r].ver = turn[t].version /\ t # NoTurn
    BY Zenon, <1>0, <1>2, DrivenOpen DEF CanTransitionTurn
  <2>2. v \in Nat
    BY <1>0, <2>1 DEF Request
  <2>3. PICK q : q = [req[r] EXCEPT !.pc = "resumeStep", !.ver = v]
    OBVIOUS
  <2>4. /\ q \in Request /\ q.pc = "resumeStep" /\ q.turn = t /\ q.ver = v
        /\ q.step = req[r].step /\ q.approval = req[r].approval
    BY ZenonT(60), <1>0, <2>1, <2>2, <2>3 DEF Request, Labels
  <2>5. turn'[t].status = "running" /\ turn'[t].version = v
    BY <1>0, <1>2, <2>1, TurnStatusFacts, TransitionTurnRows
  <2>6. /\ q.approval \in Approvals /\ approval[q.approval].status # "none"
        /\ DecidedApprovalOK(req[r])
    BY ZenonT(60), <2>0, <2>1, <2>4
       DEF RequestOK, DecidedLabels, ConsumedLabels
  <2>7. DecidedApprovalOK(q)'
    BY Zenon, <1>0, <2>0, <2>4, <2>6 DEF DecidedApprovalOK, ConsumedLabels, Names
  <2>8. RequestOK(q)'
    BY Zenon, <2>0, <2>1, <2>4, <2>5, <2>6, <2>7
       DEF RequestOK, DrivenTurnOK, FreeLabels, CallLabels,
           ParkedLabels, DecidedLabels, ConsumedLabels
  <2>9. req' = [req EXCEPT ![r] = q]
    BY Zenon, <1>0, <1>2, <2>3
  <2>10. req[r].pc \in DecidedLabels
    BY <2>0 DEF DecidedLabels, ConsumedLabels
  <2>11. QED
    BY ZenonT(60), <1>0, <1>2, <2>0, <2>1, <2>4, <2>8, <2>9, <2>10,
       TurnStatusFacts,
       TransitionStepInv
<1>3. QED
  BY <1>0, <1>1, <1>2 DEF ResumeTurn
-----------------------------------------------------------------------------
(* Steps that append a step to a turn.                                     *)

(* The driver of a turn appends a step and goes on driving it.             *)
LEMMA AppendStepInv ==
    ASSUME IInv, NEW r \in Requests, NEW t \in Turns, req[r].turn = t,
           NEW kind \in {"model"} \cup CallKind, AppendStep(t, kind),
           NEW q \in Request, req' = [req EXCEPT ![r] = q], RequestOK(q)',
           q.turn = t, q.pc \notin DecidedLabels,
           UNCHANGED <<session, approval, unpaired, env>>
    PROVE  IInv'
<1>0. PICK n : n = Len(steps[t])
  BY ZenonT(60)
<1>1. /\ turn' \in [Turns -> Turn]
      /\ steps' \in [Turns -> Seq(Step)]
      /\ turn'[t].status = turn[t].status
      /\ turn'[t].session = turn[t].session
      /\ \A u \in Turns \ {t} : turn'[u] = turn[u] /\ steps'[u] = steps[u]
      /\ n \in Nat
      /\ Len(steps'[t]) = n + 1
      /\ \A i \in 1..n : steps'[t][i] = steps[t][i]
      /\ steps'[t][n + 1].runs = 0
  BY <1>0, AppendStepRows
<1>2. Exclusive' /\ req' \in [Requests -> Request]
  BY ZenonT(60), ExclusiveStep, TurnsAssumption DEF IInv, Exclusive
<1>3. TypeOK'
  BY Zenon, <1>1, <1>2 DEF IInv, TypeOK, StoreTypeOK, env
<1>4. ActiveTurnLock'
  <2>1. \A u \in Turns : /\ turn'[u].status = turn[u].status
                         /\ turn'[u].session = turn[u].session
    BY Zenon, <1>1
  <2>2. \A s \in Sessions : session[s].active # NoTurn =>
           session[s].active \in Turns
    BY Zenon DEF IInv, TypeOK, StoreTypeOK, Session
  <2>3. QED
    BY ZenonT(60), <2>1, <2>2 DEF IInv, ActiveTurnLock, IsOpen
<1>5. ExecutionFollowsApproval'
  <2> SUFFICES ASSUME NEW u \in Turns, NEW i \in 1..Len(steps'[u])
               PROVE  /\ steps'[u][i].runs <= 1
                      /\ Gated(u, i)' /\ steps'[u][i].runs = 1 =>
                            \E a \in Approvals :
                               /\ approval'[a].status = "consumed"
                               /\ approval'[a].turn = u
                               /\ approval'[a].step = i
    BY Zenon DEF ExecutionFollowsApproval
  <2>1. CASE u = t /\ i = n + 1
    BY SMTT(60), <1>1, <2>1
  <2>2. CASE ~(u = t /\ i = n + 1)
    <3>1. i \in 1..Len(steps[u]) /\ steps'[u][i] = steps[u][i]
      BY SMTT(60), <1>0, <1>1, <2>2
    <3>2. ExecutionFollowsApproval
      BY DEF IInv
    <3>3. QED
      BY SMTT(60), <3>1, <3>2 DEF ExecutionFollowsApproval, Gated
  <2>3. QED
    BY Zenon, <2>1, <2>2
<1>6. ApprovalsOK'
  <2>1. \A u \in Turns : \A i \in 1..Len(steps[u]) :
           i \in 1..Len(steps'[u]) /\ steps'[u][i] = steps[u][i]
    BY <1>0, <1>1
  <2>2. QED
    BY ZenonT(60), <2>1 DEF IInv, ApprovalsOK, Names
<1>7. RequestsOK'
  <2> SUFFICES ASSUME NEW p \in Requests
               PROVE  RequestOK(req[p])'
    BY DEF RequestsOK
  <2>1. CASE p = r
    <3>1. req'[p] = q
      BY <2>1 DEF IInv, TypeOK
    <3>2. QED
      BY ZenonT(60), <3>1
         DEF RequestOK, DrivenTurnOK, FreshCallOK, DecidedApprovalOK,
                  ArchiveOK, Names
  <2>2. CASE p # r
    <3>1. /\ req'[p] \in Request /\ RequestOK(req'[p])
          /\ req'[p].turn # t
      <4>1. req'[p] = req[p]
        BY <2>2 DEF IInv, TypeOK
      <4>2. QED
        BY Zenon, <2>2, <4>1, TurnsAssumption
           DEF IInv, TypeOK, RequestsOK, Exclusive
    <3>2. QED
      BY ZenonT(60), <1>1, <3>1, OtherRequest DEF IInv
  <2>3. QED
    BY <2>1, <2>2
<1>8. QED
  BY <1>2, <1>3, <1>4, <1>5, <1>6, <1>7 DEF IInv

(* The step a model or tool call gets is new: no approval names it.        *)
LEMMA NewStepUnnamed ==
    ASSUME IInv, NEW t \in Turns, NEW a \in Approvals
    PROVE  ~Names(a, t, Len(steps[t]) + 1)
<1> SUFFICES ASSUME Names(a, t, Len(steps[t]) + 1)
             PROVE  FALSE
  BY Zenon
<1>1. Len(steps[t]) + 1 \in 1..Len(steps[t])
  BY DEF IInv, ApprovalsOK, Names
<1>2. Len(steps[t]) \in Nat
  BY DEF IInv, TypeOK, StoreTypeOK
<1>3. QED
  BY <1>1, <1>2

(* A model step is appended, or the caller lost its turn.                  *)
LEMMA AppendModelStepStep ==
    ASSUME IInv, NEW r \in Requests, AppendModelStep(r)
    PROVE  IInv'
<1>0. PICK t, v, i : /\ t = req[r].turn /\ v = req[r].ver + 1
                     /\ i = Len(steps[t]) + 1
  OBVIOUS
<1>1. CASE LoseTurn(r) /\ UNCHANGED <<turn, steps>>
  BY <1>1, LoseTurnStep DEF AppendModelStep, stored
<1>2. CASE /\ CanAppendStep(t, req[r].ver)
           /\ AppendStep(t, "model")
           /\ req' = [req EXCEPT ![r].pc = "generate", ![r].ver = v,
                                 ![r].step = i]
  <2>1. /\ req[r] \in Request /\ t \in Turns
        /\ req[r].ver = turn[t].version /\ t # NoTurn
        /\ DrivenTurnOK(req[r]) /\ req[r].pc = "modelStep"
    BY Zenon, <1>0, <1>2, DrivenOpen
       DEF CanAppendStep, RequestOK, AppendModelStep, At
  <2>2. v \in Nat /\ i \in Nat
    BY <1>0, <2>1 DEF Request, IInv, TypeOK, StoreTypeOK
  <2>3. PICK q \in Request :
           /\ q.pc = "generate" /\ q.turn = t /\ q.ver = v /\ q.step = i
           /\ q.calls = req[r].calls
           /\ req' = [req EXCEPT ![r] = q]
    <3> DEFINE x == [req[r] EXCEPT !.pc = "generate", !.ver = v, !.step = i]
    <3>1. x \in Request
      BY Zenon, <2>1, <2>2 DEF Request, Labels
    <3>2. x.pc = "generate" /\ x.ver = v /\ x.step = i
      BY <2>1 DEF Request
    <3>3. x.turn = req[r].turn /\ x.calls = req[r].calls
      BY <2>1 DEF Request
    <3>4. req' = [req EXCEPT ![r] = x]
      BY ZenonT(60), <1>2 DEF IInv, TypeOK
    <3>5. QED
      <4> HIDE DEF x
      <4> QED BY Zenon, <1>0, <3>1, <3>2, <3>3, <3>4
  <2>5. turn[t].status = "running"
    BY Zenon, <1>0, <2>1, LabelFacts DEF DrivenTurnOK
  <2>6. turn'[t].status = "running" /\ turn'[t].version = v
    BY <1>0, <1>2, <2>1, <2>5, AppendStepRows
  <2>7. RequestOK(q)'
    BY Zenon, <2>1, <2>3, <2>6
       DEF RequestOK, DrivenTurnOK, FreeLabels, CallLabels,
           ParkedLabels, DecidedLabels, ConsumedLabels
  <2>9. /\ q.pc \notin DecidedLabels
        /\ UNCHANGED <<session, approval, unpaired, env>>
    BY <2>3 DEF DecidedLabels, ConsumedLabels, AppendModelStep
  <2>10. QED
    BY ZenonT(60), <1>0, <1>2, <2>1, <2>3, <2>7, <2>9, AppendStepInv
<1>3. QED
  BY <1>0, <1>1, <1>2 DEF AppendModelStep

(* A tool call gets a fresh step, or the call is refused.                  *)
LEMMA AppendToolStepStep ==
    ASSUME IInv, NEW r \in Requests, AppendToolStep(r)
    PROVE  IInv'
<1>0. PICK t, v, i, kind : /\ t = req[r].turn /\ v = req[r].ver + 1
                           /\ i = Len(steps[t]) + 1
                           /\ kind = Head(req[r].calls)
  OBVIOUS
<1>1. CASE LoseTurn(r) /\ UNCHANGED <<turn, steps>>
  BY <1>1, LoseTurnStep DEF AppendToolStep, stored
<1>2. CASE Abort(r) /\ UNCHANGED <<turn, steps>>
  BY <1>2, LabelFacts, GotoStep
     DEF AppendToolStep, At, Abort, stored, CallLabels
<1>3. CASE /\ CanAppendStep(t, req[r].ver)
           /\ AppendStep(t, kind)
           /\ req' = [req EXCEPT ![r].pc = "execute", ![r].ver = v,
                                 ![r].step = i]
  <2>1. /\ req[r] \in Request /\ t \in Turns
        /\ req[r].ver = turn[t].version /\ t # NoTurn
        /\ DrivenTurnOK(req[r]) /\ req[r].pc = "call"
    BY Zenon, <1>0, <1>3, DrivenOpen
       DEF CanAppendStep, RequestOK, AppendToolStep, At
  <2>2. v \in Nat /\ i \in Nat
    BY <1>0, <2>1 DEF Request, IInv, TypeOK, StoreTypeOK
  <2>3. PICK q \in Request :
           /\ q.pc = "execute" /\ q.turn = t /\ q.ver = v /\ q.step = i
           /\ q.calls = req[r].calls
           /\ req' = [req EXCEPT ![r] = q]
    <3> DEFINE x == [req[r] EXCEPT !.pc = "execute", !.ver = v, !.step = i]
    <3>1. x \in Request
      BY Zenon, <2>1, <2>2 DEF Request, Labels
    <3>2. x.pc = "execute" /\ x.ver = v /\ x.step = i
      BY <2>1 DEF Request
    <3>3. x.turn = req[r].turn /\ x.calls = req[r].calls
      BY <2>1 DEF Request
    <3>4. req' = [req EXCEPT ![r] = x]
      BY ZenonT(60), <1>3 DEF IInv, TypeOK
    <3>5. QED
      <4> HIDE DEF x
      <4> QED BY Zenon, <1>0, <3>1, <3>2, <3>3, <3>4
  <2>5. req[r].calls # <<>> /\ req[r].calls \in Seq(CallKind)
    BY Zenon, <2>1, DrivenOpen, <1>0 DEF RequestOK, CallLabels, Request
  <2>6. kind \in CallKind
    BY Zenon, <1>0, <2>5, HeadTailProperties
  <2>7. turn[t].status = "running"
    BY Zenon, <1>0, <2>1, LabelFacts DEF DrivenTurnOK, CallLabels
  <2>8. /\ turn'[t].status = "running" /\ turn'[t].version = v
        /\ i \in 1..Len(steps'[t])
        /\ steps'[t][i].runs = 0 /\ steps'[t][i].kind = kind
    <3>1. /\ turn'[t].status = turn[t].status
          /\ turn'[t].version = turn[t].version + 1
          /\ Len(steps[t]) \in Nat
          /\ Len(steps'[t]) = Len(steps[t]) + 1
          /\ steps'[t][Len(steps[t]) + 1].kind = kind
          /\ steps'[t][Len(steps[t]) + 1].runs = 0
      BY Zenon, <1>3, <2>1, <2>6, AppendStepRows
    <3>2. i \in 1..Len(steps'[t])
      <4> DEFINE n == Len(steps[t])
      <4>1. n \in Nat /\ i = n + 1 /\ Len(steps'[t]) = n + 1
        BY Zenon, <1>0, <3>1
      <4>2. QED
        <5> HIDE DEF n
        <5> QED BY SMTT(60), <4>1
    <3>3. QED
      BY Zenon, <1>0, <2>1, <2>7, <3>1, <3>2
  <2>9. /\ q.pc \notin DecidedLabels
        /\ UNCHANGED <<session, approval, unpaired, env>>
    BY <2>3 DEF DecidedLabels, ConsumedLabels, AppendToolStep
  <2>10. FreshCallOK(q)'
    <3>1. \A a \in Approvals : ~Names(a, t, i)
      BY <1>0, <2>1, NewStepUnnamed
    <3>2. QED
      BY ZenonT(60), <1>0, <2>3, <2>8, <2>9, <3>1 DEF FreshCallOK, Names
  <2>11. RequestOK(q)'
    BY ZenonT(60), <2>1, <2>3, <2>5, <2>8, <2>10
       DEF RequestOK, DrivenTurnOK, FreeLabels,
           ParkedLabels, DecidedLabels, ConsumedLabels
  <2>13. QED
    BY ZenonT(60), <1>0, <1>3, <2>1, <2>3, <2>6, <2>9, <2>11, AppendStepInv
<1>4. QED
  BY <1>0, <1>1, <1>2, <1>3 DEF AppendToolStep
-----------------------------------------------------------------------------
(* Steps that start a turn or change a session.                            *)

(* A free session gets a fresh turn, driven by the request that started it.*)
LEMMA RunStartTurnStep ==
    ASSUME IInv, NEW r \in Requests, RunStartTurn(r)
    PROVE  IInv'
<1>1. CASE Return(r) /\ UNCHANGED <<turn, session>>
  BY Zenon, <1>1, ReturnStep DEF RunStartTurn, stored
<1>2. ASSUME NEW t \in UnusedTurns, NEW s, s = req[r].session,
             CanStartTurn(s), StartTurn(s, t),
             req' = [req EXCEPT ![r].pc = "runTurn", ![r].turn = t,
                                ![r].ver = 1]
      PROVE  IInv'
  <2>1. /\ req[r] \in Request /\ s \in Sessions /\ t \in Turns
        /\ turn[t].status = "none"
        /\ UNCHANGED <<steps, approval, unpaired, env>>
    BY ZenonT(60), <1>2 DEF IInv, TypeOK, Request, UnusedTurns, RunStartTurn
  <2>2. /\ turn' \in [Turns -> Turn]
        /\ session' \in [Sessions -> Session]
        /\ turn'[t].status = "queued"
        /\ turn'[t].session = s
        /\ turn'[t].version = 1
        /\ \A u \in Turns \ {t} : turn'[u] = turn[u]
        /\ \A z \in Sessions \ {s} : session'[z] = session[z]
        /\ session'[s].active = t
        /\ session'[s].status = "active"
        /\ session[s].version \in Nat
        /\ session'[s].version = session[s].version + 1
    BY <1>2, <2>1, StartTurnRows DEF IInv, CanStartTurn
  <2>3. PICK q \in Request :
           /\ q.pc = "runTurn" /\ q.turn = t /\ q.ver = 1
           /\ req' = [req EXCEPT ![r] = q]
    <3> DEFINE x == [req[r] EXCEPT !.pc = "runTurn", !.turn = t, !.ver = 1]
    <3>1. x \in Request
      BY ZenonT(60), <2>1 DEF Request, Labels
    <3>2. x.pc = "runTurn" /\ x.turn = t /\ x.ver = 1
      BY <2>1 DEF Request
    <3>3. req' = [req EXCEPT ![r] = x]
      BY Zenon, <1>2 DEF IInv, TypeOK
    <3>4. QED
      <4> HIDE DEF x
      <4> QED BY Zenon, <3>1, <3>2, <3>3
  <2>4. \A p \in Requests : req[p].turn # t
    BY <2>1, DrivenOpen, TurnsAssumption DEF IsOpen, OpenStatus
  <2>5. q.pc \notin DecidedLabels
    BY <2>3 DEF DecidedLabels, ConsumedLabels
  <2>6. Exclusive' /\ req' \in [Requests -> Request]
    BY ZenonT(60), <2>3, <2>4, <2>5, ExclusiveStep DEF IInv
  <2>7. TypeOK'
    BY Zenon, <2>1, <2>2, <2>6 DEF IInv, TypeOK, StoreTypeOK, env
  <2>8. ActiveTurnLock'
    <3>1. ASSUME NEW u \in Turns, IsOpen(u)'
          PROVE  session'[turn'[u].session].active = u
      <4>1. CASE u = t
        BY Zenon, <2>2, <4>1
      <4>2. CASE u # t
        <5>1. turn'[u] = turn[u] /\ IsOpen(u)
          BY Zenon, <2>2, <3>1, <4>2 DEF IsOpen
        <5>2. /\ session[turn[u].session].active = u
              /\ turn[u].session \in Sessions
          BY Zenon, <5>1 DEF IInv, ActiveTurnLock, TypeOK, StoreTypeOK, Turn
        <5>3. turn[u].session # s
          BY Zenon, <1>2, <5>2, TurnsAssumption DEF CanStartTurn
        <5>4. QED
          BY Zenon, <2>2, <5>1, <5>2, <5>3
      <4>3. QED
        BY Zenon, <4>1, <4>2
    <3>2. ASSUME NEW z \in Sessions, session'[z].active # NoTurn
          PROVE  /\ session'[z].status = "active"
                 /\ IsOpen(session[z].active)'
                 /\ turn'[session'[z].active].session = z
      <4>1. CASE z = s
        BY Zenon, <2>2, <4>1 DEF IsOpen, OpenStatus
      <4>2. CASE z # s
        <5>1. session'[z] = session[z]
          BY Zenon, <2>2, <4>2
        <5>2. /\ session[z].status = "active"
              /\ session[z].active \in Turns
              /\ IsOpen(session[z].active)
              /\ turn[session[z].active].session = z
          BY SMTT(60), <3>2, <5>1
             DEF IInv, ActiveTurnLock, TypeOK, StoreTypeOK, Session
        <5>3. session[z].active # t
          BY <2>1, <5>2 DEF IsOpen, OpenStatus
        <5>4. QED
          BY ZenonT(60), <2>2, <5>1, <5>2, <5>3 DEF IsOpen
      <4>3. QED
        BY Zenon, <4>1, <4>2
    <3>3. QED
      BY Zenon, <3>1, <3>2 DEF ActiveTurnLock
  <2>9. ExecutionFollowsApproval' /\ ApprovalsOK'
    BY <2>1, SettledKept DEF IInv
  <2>10. RequestOK(q)'
    BY Zenon, <2>1, <2>2, <2>3, TurnsAssumption
       DEF RequestOK, DrivenTurnOK, FreeLabels, CallLabels, RunLabels,
           ParkedLabels, DecidedLabels, ConsumedLabels
  <2>11. RequestsOK'
    <3> SUFFICES ASSUME NEW p \in Requests
                 PROVE  RequestOK(req[p])'
      BY DEF RequestsOK
    <3>1. CASE p = r
      <4>1. req'[p] = q
        BY <2>3, <3>1 DEF IInv, TypeOK
      <4>2. QED
        BY ZenonT(60), <2>10, <4>1 DEF RequestOK, DrivenTurnOK, FreshCallOK,
                           DecidedApprovalOK, ArchiveOK, Names
    <3>2. CASE p # r
      <4>1. req'[p] = req[p]
        BY Zenon, <2>3, <3>2 DEF IInv, TypeOK
      <4>2. /\ req'[p] \in Request /\ RequestOK(req'[p])
            /\ req'[p].turn # t
        BY Zenon, <2>4, <4>1 DEF IInv, TypeOK, RequestsOK
      <4>3. QED
        BY Zenon, <2>1, <2>2, <4>2, OtherRequest DEF IInv
    <3>3. QED
      BY <3>1, <3>2
  <2>12. QED
    BY Zenon, <2>6, <2>7, <2>8, <2>9, <2>11 DEF IInv
<1>3. QED
  BY Zenon, <1>1, <1>2 DEF RunStartTurn

(* Changing one session that no turn occupies, while requests only return. *)
LEMMA SessionStep ==
    ASSUME IInv, NEW s \in Sessions,
           session' \in [Sessions -> Session],
           \A z \in Sessions \ {s} : session'[z] = session[z],
           session[s].active = NoTurn, session'[s].active = NoTurn,
           session'[s].status # "none",
           \/ session[s].status = "none"
           \/ session'[s].version = session[s].version + 1,
           connected' \in [Sessions -> BOOLEAN],
           \/ req' = req
           \/ \E r \in Requests : Return(r),
           UNCHANGED <<turn, steps, approval, unpaired, faults>>
    PROVE  IInv'
<1>1. /\ req' \in [Requests -> Request]
      /\ \A p \in Requests : req'[p] = req[p] \/ req'[p] = NoRequest
  BY Zenon, IdleRequest DEF IInv, TypeOK, Return
<1>2. TypeOK'
  BY Zenon, <1>1 DEF IInv, TypeOK, StoreTypeOK
<1>3. ActiveTurnLock'
  <2>1. ASSUME NEW u \in Turns, IsOpen(u)'
        PROVE  session'[turn'[u].session].active = u
    <3>1. /\ session[turn[u].session].active = u
          /\ turn[u].session \in Sessions
      BY Zenon, <2>1
         DEF IInv, ActiveTurnLock, TypeOK, StoreTypeOK, Turn, IsOpen
    <3>2. turn[u].session # s
      BY <3>1, TurnsAssumption
    <3>3. QED
      BY ZenonT(60), <3>1, <3>2
  <2>2. ASSUME NEW z \in Sessions, session'[z].active # NoTurn
        PROVE  /\ session'[z].status = "active"
               /\ IsOpen(session[z].active)'
               /\ turn'[session'[z].active].session = z
    <3>1. session'[z] = session[z]
      BY <2>2
    <3>2. QED
      BY ZenonT(60), <2>2, <3>1 DEF IInv, ActiveTurnLock, IsOpen
  <2>3. QED
    BY <2>1, <2>2 DEF ActiveTurnLock
<1>4. ExecutionFollowsApproval' /\ ApprovalsOK'
  BY SettledKept DEF IInv
<1>5. RequestOK(NoRequest)
  BY ZenonT(60), IdleRequest
     DEF RequestOK, FreeLabels, CallLabels, DecidedLabels,
                     ConsumedLabels
<1>6. RequestsOK'
  <2> SUFFICES ASSUME NEW p \in Requests
               PROVE  RequestOK(req[p])'
    BY Zenon DEF RequestsOK
  <2>1. req'[p] \in Request /\ RequestOK(req'[p])
    BY Zenon, <1>1, <1>5 DEF IInv, RequestsOK
  <2>2. \A z \in Sessions :
           \/ session'[z] = session[z]
           \/ session[z].status = "none"
           \/ /\ session'[z].status # "none"
              /\ session[z].version \in Nat
              /\ session'[z].version = session[z].version + 1
    BY Zenon DEF IInv, TypeOK, StoreTypeOK, Session
  <2>3. QED
    BY ZenonT(60), <2>1, <2>2, OtherRequest DEF IInv
<1>7. Exclusive'
  <2>1. NoRequest.turn = NoTurn /\ NoRequest.pc \notin DecidedLabels
    BY Zenon, IdleRequest DEF DecidedLabels, ConsumedLabels
  <2>2. QED
    BY SMTT(60), <1>1, <2>1 DEF IInv, Exclusive
<1>8. QED
  BY Zenon, <1>2, <1>3, <1>4, <1>6, <1>7 DEF IInv

(* The archiving request's version is current, so no turn has started.     *)
LEMMA ArchiveSessionStep ==
    ASSUME IInv, NEW r \in Requests, ArchiveSession(r)
    PROVE  IInv'
<1>0. PICK s : s = req[r].session
  OBVIOUS
<1>1. CASE UNCHANGED session
  BY Zenon, <1>1, ReturnStep DEF ArchiveSession, stored
<1>2. CASE /\ session[s].version = req[r].ver
           /\ session' = [session EXCEPT ![s].status = "archived",
                                         ![s].version = @ + 1]
  <2>1. /\ s \in Sessions /\ session[s] \in Session
        /\ session \in [Sessions -> Session]
    BY Zenon, <1>0 DEF IInv, TypeOK, StoreTypeOK, Request
  <2>2. RequestOK(req[r]) /\ req[r].pc = "archive"
    BY DEF ArchiveSession, At, IInv, RequestsOK
  <2>3. session[s].active = NoTurn
    BY <1>0, <1>2, <2>2 DEF RequestOK, ArchiveOK
  <2> DEFINE v == session[s].version + 1
             y == [session[s] EXCEPT !.status = "archived", !.version = v]
  <2>4. v \in Nat
    BY <2>1 DEF Session
  <2>5. y \in Session
    <3> HIDE DEF v
    <3> QED BY Zenon, <2>1, <2>4 DEF Session, SessionStatus
  <2>6. y.active = NoTurn /\ y.status = "archived" /\ y.version = v
    <3> HIDE DEF v
    <3> QED BY <2>1, <2>3 DEF Session
  <2>7. session' = [session EXCEPT ![s] = y]
    BY Zenon, <1>2
  <2>8. /\ session' \in [Sessions -> Session] /\ session'[s] = y
        /\ \A z \in Sessions \ {s} : session'[z] = session[z]
    <3> HIDE DEF y
    <3> QED BY <2>1, <2>5, <2>7
  <2>9. /\ connected' \in [Sessions -> BOOLEAN] /\ Return(r)
        /\ UNCHANGED <<turn, steps, approval, unpaired, faults>>
    BY Zenon DEF ArchiveSession, env, IInv, TypeOK
  <2>10. QED
    <3> HIDE DEF y
    <3> QED BY Zenon, <2>1, <2>3, <2>6, <2>8, <2>9, SessionStep
<1>3. QED
  BY <1>0, <1>1, <1>2 DEF ArchiveSession

(* A created session is empty.                                             *)
LEMMA CreateSessionStep ==
    ASSUME IInv, NEW s \in Sessions, CreateSession(s)
    PROVE  IInv'
<1> DEFINE y == [status |-> "active", active |-> NoTurn, version |-> 1]
<1>1. session \in [Sessions -> Session]
  BY DEF IInv, TypeOK, StoreTypeOK
<1>2. y \in Session /\ y.active = NoTurn /\ y.status = "active"
  BY DEF Session, SessionStatus
<1>3. session[s].active = NoTurn
  BY Zenon DEF IInv, ActiveTurnLock, CreateSession
<1>4. session' = [session EXCEPT ![s] = y]
  BY DEF CreateSession
<1>5. /\ session' \in [Sessions -> Session] /\ session'[s] = y
      /\ \A z \in Sessions \ {s} : session'[z] = session[z]
  <2> HIDE DEF y
  <2> QED BY Zenon, <1>1, <1>2, <1>4
<1>6. connected' \in [Sessions -> BOOLEAN]
  BY DEF CreateSession, IInv, TypeOK
<1>7. QED
  <2> HIDE DEF y
  <2> QED BY Zenon, <1>2, <1>3, <1>5, <1>6, SessionStep DEF CreateSession
-----------------------------------------------------------------------------
(* Steps that change an approval.                                          *)

(* A persisted approval moves on: it stays with its step, is never pending *)
(* again, and once consumed stays consumed.                                *)
MovesOn(a) ==
    /\ approval' \in [Approvals -> Approval]
    /\ \A b \in Approvals \ {a} : approval'[b] = approval[b]
    /\ approval[a].status # "none" /\ approval'[a].status # "none"
    /\ approval'[a].turn = approval[a].turn
    /\ approval'[a].step = approval[a].step
    /\ approval[a].status # "pending" => approval'[a].status # "pending"
    /\ approval[a].status = "consumed" => approval'[a].status = "consumed"

(* What such a step keeps, whatever it does to the requests.               *)
LEMMA MovesOnKeeps ==
    ASSUME IInv, NEW a \in Approvals, MovesOn(a),
           UNCHANGED <<session, turn, steps, unpaired, env>>
    PROVE  /\ StoreTypeOK' /\ ActiveTurnLock'
           /\ ExecutionFollowsApproval' /\ ApprovalsOK'
           /\ \A q \in Request : RequestOK(q) => RequestOK(q)'
<1>1. StoreTypeOK' /\ ActiveTurnLock'
  BY DEF IInv, TypeOK, StoreTypeOK, MovesOn, ActiveTurnLock, IsOpen
<1>2. \A b \in Approvals : /\ approval'[b].turn = approval[b].turn
                           /\ approval'[b].step = approval[b].step
                           /\ approval'[b].status = "none" <=>
                                 approval[b].status = "none"
                           /\ approval[b].status # "pending" =>
                                 approval'[b].status # "pending"
                           /\ approval[b].status = "consumed" =>
                                 approval'[b].status = "consumed"
  BY ZenonT(60) DEF MovesOn
<1>3. ExecutionFollowsApproval'
  <2>1. ExecutionFollowsApproval
    BY DEF IInv
  <2> SUFFICES ASSUME NEW t \in Turns, NEW i \in 1..Len(steps[t])
               PROVE  /\ steps[t][i].runs <= 1
                      /\ Gated(t, i) /\ steps[t][i].runs = 1 =>
                            \E b \in Approvals :
                               /\ approval'[b].status = "consumed"
                               /\ approval'[b].turn = t
                               /\ approval'[b].step = i
    BY Zenon DEF ExecutionFollowsApproval, Gated
  <2>2. steps[t][i].runs <= 1
    BY <2>1 DEF ExecutionFollowsApproval
  <2>3. ASSUME Gated(t, i), steps[t][i].runs = 1
        PROVE  \E b \in Approvals : /\ approval'[b].status = "consumed"
                                    /\ approval'[b].turn = t
                                    /\ approval'[b].step = i
    <3>1. PICK b \in Approvals : /\ approval[b].status = "consumed"
                                 /\ approval[b].turn = t
                                 /\ approval[b].step = i
      BY ZenonT(60), <2>1, <2>3 DEF ExecutionFollowsApproval
    <3>2. QED
      BY ZenonT(60), <1>2, <3>1
  <2>4. QED
    BY Zenon, <2>2, <2>3
<1>4. \A b \in Approvals : \A t, i : Names(b, t, i)' <=> Names(b, t, i)
  BY Zenon, <1>2 DEF Names
<1>5. ApprovalsOK'
  <2>1. ApprovalsOK
    BY Zenon DEF IInv
  <2>2. \A b \in Approvals : approval[b].status # "none" =>
           /\ approval[b].step \in 1..Len(steps[approval[b].turn])
           /\ approval[b].status # "consumed" =>
                 steps[approval[b].turn][approval[b].step].runs = 0
    BY Zenon, <2>1 DEF ApprovalsOK
  <2>3. QED
    BY Zenon, <1>2, <2>1, <2>2, ApprovalsKept
<1>6. ASSUME NEW q \in Request, RequestOK(q)
      PROVE  RequestOK(q)'
  <2>1. q.turn # NoTurn => DrivenTurnOK(q)'
    BY ZenonT(60), <1>6 DEF RequestOK, DrivenTurnOK
  <2>2. q.pc \in {"execute", "askApproval"} => FreshCallOK(q)'
    BY Zenon, <1>4, <1>6 DEF RequestOK, FreshCallOK
  <2>3. q.pc \in DecidedLabels => DecidedApprovalOK(q)'
    BY ZenonT(60), <1>2, <1>4, <1>6 DEF RequestOK, DecidedApprovalOK
  <2>4. q.pc = "archive" => ArchiveOK(q)'
    BY Zenon, <1>6 DEF RequestOK, ArchiveOK
  <2>5. QED
    BY ZenonT(60), <1>2, <1>6, <2>1, <2>2, <2>3, <2>4 DEF RequestOK
<1>7. QED
  BY Zenon, <1>1, <1>3, <1>5, <1>6

(* The approval moves on and one request continues.                        *)
LEMMA ApprovalStep ==
    ASSUME IInv, NEW a \in Approvals, MovesOn(a), NEW r \in Requests,
           NEW q \in Request, req' = [req EXCEPT ![r] = q], RequestOK(q)',
           \A p \in Requests \ {r} :
              /\ q.turn # NoTurn => req[p].turn # q.turn
              /\ q.pc \in DecidedLabels /\ req[p].pc \in DecidedLabels =>
                    req[p].approval # q.approval,
           UNCHANGED <<session, turn, steps, unpaired, env>>
    PROVE  IInv'
<1>1. Exclusive' /\ req' \in [Requests -> Request]
  BY Zenon, ExclusiveStep DEF IInv
<1>2. /\ StoreTypeOK' /\ ActiveTurnLock'
      /\ ExecutionFollowsApproval' /\ ApprovalsOK'
      /\ \A x \in Request : RequestOK(x) => RequestOK(x)'
  BY Zenon, MovesOnKeeps
<1>3. TypeOK'
  BY Zenon, <1>1, <1>2 DEF IInv, TypeOK, env
<1>4. RequestsOK'
  <2> SUFFICES ASSUME NEW p \in Requests
               PROVE  RequestOK(req[p])'
    BY DEF RequestsOK
  <2>1. CASE p = r
    <3>1. req'[p] = q
      BY <2>1 DEF IInv, TypeOK
    <3>2. QED
      BY ZenonT(60), <3>1
         DEF RequestOK, DrivenTurnOK, FreshCallOK, DecidedApprovalOK,
                  ArchiveOK, Names
  <2>2. CASE p # r
    <3>1. req'[p] \in Request /\ RequestOK(req'[p])
      BY Zenon, <2>2 DEF IInv, TypeOK, RequestsOK
    <3>2. QED
      BY <1>2, <3>1
  <2>3. QED
    BY <2>1, <2>2
<1>5. QED
  BY <1>1, <1>2, <1>3, <1>4 DEF IInv

(* SetApproval moves the approval on, to a status it may move to.          *)
LEMMA SetApprovalMovesOn ==
    ASSUME TypeOK, NEW a \in Approvals,
           NEW to \in ApprovalStatus \ {"none", "pending"},
           approval[a].status \notin {"none", "consumed"}, SetApproval(a, to)
    PROVE  MovesOn(a) /\ approval'[a].status = to
<1> DEFINE x == [approval[a] EXCEPT !.status = to]
<1>1. approval[a] \in Approval /\ approval \in [Approvals -> Approval]
  BY DEF TypeOK, StoreTypeOK
<1>2. /\ x \in Approval /\ x.status = to
      /\ x.turn = approval[a].turn /\ x.step = approval[a].step
  BY <1>1 DEF Approval
<1>3. approval' = [approval EXCEPT ![a] = x]
  BY DEF SetApproval
<1>4. QED
  <2> HIDE DEF x
  <2> QED BY <1>1, <1>2, <1>3 DEF MovesOn

(* ExpiresAt passes.                                                       *)
LEMMA LapseStep ==
    ASSUME IInv, NEW a \in Approvals, Lapse(a)
    PROVE  IInv'
<1>1. MovesOn(a)
  <2> DEFINE x == [approval[a] EXCEPT !.lapsed = TRUE]
  <2>1. approval[a] \in Approval /\ approval \in [Approvals -> Approval]
    BY DEF IInv, TypeOK, StoreTypeOK
  <2>2. /\ x \in Approval /\ x.status = approval[a].status
        /\ x.turn = approval[a].turn /\ x.step = approval[a].step
    BY Zenon, <2>1 DEF Approval
  <2>3. approval' = [approval EXCEPT ![a] = x] /\ approval[a].status # "none"
    BY DEF Lapse
  <2>4. QED
    <3> HIDE DEF x
    <3> QED BY Zenon, <2>1, <2>2, <2>3 DEF MovesOn
<1>2. /\ UNCHANGED <<session, turn, steps, unpaired, env>> /\ req' = req
  BY DEF Lapse
<1>3. /\ StoreTypeOK' /\ ActiveTurnLock'
      /\ ExecutionFollowsApproval' /\ ApprovalsOK'
      /\ \A x \in Request : RequestOK(x) => RequestOK(x)'
  BY Zenon, <1>1, <1>2, MovesOnKeeps
<1>4. TypeOK' /\ Exclusive'
  BY Zenon, <1>2, <1>3 DEF IInv, TypeOK, env, Exclusive
<1>5. RequestsOK'
  <2> SUFFICES ASSUME NEW p \in Requests
               PROVE  RequestOK(req[p])'
    BY DEF RequestsOK
  <2>1. req'[p] \in Request /\ RequestOK(req'[p])
    BY Zenon, <1>2 DEF IInv, TypeOK, RequestsOK
  <2>2. QED
    BY <1>3, <2>1
<1>6. QED
  BY Zenon, <1>3, <1>4, <1>5 DEF IInv

(* A pending approval is decided; no other request acts on it yet.         *)
LEMMA DecideStep ==
    ASSUME IInv, NEW r \in Requests, Decide(r)
    PROVE  IInv'
<1>0. PICK a, d, l : /\ a = req[r].approval
                     /\ d = Decision(a, req[r].approve)
                     /\ l = IF d = "approved" THEN "resume" ELSE "deny"
  OBVIOUS
<1>1. CASE Return(r) /\ UNCHANGED approval
  BY ZenonT(60), <1>1, ReturnStep DEF Decide, stored
<1>2. CASE approval[a].status = "pending" /\ SetApproval(a, d) /\ Goto(r, l)
  <2>1. /\ req[r] \in Request /\ RequestOK(req[r]) /\ req[r].pc = "decide"
        /\ UNCHANGED <<session, turn, steps, unpaired, env>>
    BY ZenonT(60) DEF Decide, At, IInv, TypeOK, RequestsOK
  <2>2. a \in Approvals /\ req[r].turn = NoTurn
    BY Zenon, <1>0, <2>1 DEF RequestOK, FreeLabels
  <2>3. d \in ApprovalStatus \ {"none", "pending"} /\ l \in {"resume", "deny"}
    BY Zenon, <1>0 DEF Decision, ApprovalStatus
  <2>4. MovesOn(a) /\ approval'[a].status = d
    BY <1>2, <2>2, <2>3, SetApprovalMovesOn DEF IInv
  <2>5. PICK q \in Request : /\ q.pc = l /\ q.turn = NoTurn /\ q.approval = a
                             /\ req' = [req EXCEPT ![r] = q]
    <3> DEFINE x == [req[r] EXCEPT !.pc = l]
    <3>1. l \in Labels
      BY <2>3 DEF Labels
    <3>2. x \in Request /\ x.pc = l /\ x.turn = NoTurn /\ x.approval = a
      BY <1>0, <2>1, <2>2, <3>1 DEF Request
    <3>3. req' = [req EXCEPT ![r] = x]
      BY <1>2 DEF Goto
    <3>4. QED
      <4> HIDE DEF x
      <4> QED BY ZenonT(60), <3>2, <3>3
  <2>6. RequestOK(q)'
    BY ZenonT(60), <2>2, <2>3, <2>4, <2>5
       DEF RequestOK, FreeLabels, CallLabels, DecidedLabels, ConsumedLabels,
           DecidedApprovalOK
  <2>7. ASSUME NEW p \in Requests \ {r}, req[p].pc \in DecidedLabels
        PROVE  req[p].approval # a
    BY ZenonT(60), <1>2, <2>7
       DEF IInv, RequestsOK, RequestOK, DecidedApprovalOK
  <2>8. QED
    BY ZenonT(60), <2>1, <2>2, <2>4, <2>5, <2>6, <2>7, ApprovalStep
<1>3. QED
  BY <1>0, <1>1, <1>2 DEF Decide

(* The granted approval is used up by the one request that acts on it.     *)
LEMMA ConsumeStep ==
    ASSUME IInv, NEW r \in Requests, Consume(r)
    PROVE  IInv'
<1>0. PICK a : a = req[r].approval
  OBVIOUS
<1>1. CASE Return(r) /\ UNCHANGED approval
  BY <1>1, ReturnStep DEF Consume, stored
<1>2. CASE Granted(a) /\ SetApproval(a, "consumed") /\ Goto(r, "resumeTurn")
  <2>1. /\ req[r] \in Request /\ RequestOK(req[r]) /\ req[r].pc = "consume"
        /\ UNCHANGED <<session, turn, steps, unpaired, env>>
    BY DEF Consume, At, IInv, TypeOK, RequestsOK
  <2>2. /\ a \in Approvals /\ req[r].turn # NoTurn /\ DrivenTurnOK(req[r])
        /\ Names(a, req[r].turn, req[r].step)
    BY ZenonT(60), <1>0, <2>1
       DEF RequestOK, FreeLabels, DecidedLabels, DecidedApprovalOK
  <2>3. MovesOn(a) /\ approval'[a].status = "consumed"
    BY Zenon, <1>2, <2>2, SetApprovalMovesOn DEF IInv, Granted, ApprovalStatus
  <2>4. PICK q \in Request :
           /\ q.pc = "resumeTurn" /\ q.approval = a /\ q.turn = req[r].turn
           /\ q.ver = req[r].ver /\ q.step = req[r].step
           /\ req' = [req EXCEPT ![r] = q]
    <3> DEFINE x == [req[r] EXCEPT !.pc = "resumeTurn"]
    <3>1. /\ x \in Request /\ x.pc = "resumeTurn" /\ x.turn = req[r].turn
          /\ x.ver = req[r].ver /\ x.step = req[r].step /\ x.approval = a
      BY <1>0, <2>1 DEF Request, Labels
    <3>2. req' = [req EXCEPT ![r] = x]
      BY <1>2 DEF Goto
    <3>3. QED
      <4> HIDE DEF x
      <4> QED BY ZenonT(60), <3>1, <3>2
  <2>5. DrivenTurnOK(q)'
    BY Zenon, <2>1, <2>2, <2>4 DEF DrivenTurnOK, ParkedLabels, RunLabels
  <2>6. steps[q.turn][q.step].runs = 0
    BY ZenonT(60), <1>2, <2>2, <2>4 DEF IInv, ApprovalsOK, Names, Granted
  <2>7. DecidedApprovalOK(q)'
    BY ZenonT(60), <2>1, <2>2, <2>3, <2>4, <2>6
       DEF DecidedApprovalOK, Names, MovesOn
  <2>8. RequestOK(q)'
    BY ZenonT(60), <2>2, <2>3, <2>4, <2>5, <2>7
       DEF RequestOK, FreeLabels, CallLabels, DecidedLabels, ConsumedLabels
  <2>9. ASSUME NEW p \in Requests \ {r}
        PROVE  /\ req[p].turn # q.turn
               /\ req[p].pc \in DecidedLabels => req[p].approval # a
    BY ZenonT(60), <1>0, <2>1, <2>2, <2>4 DEF IInv, Exclusive, DecidedLabels
  <2>10. QED
    BY ZenonT(60), <2>1, <2>2, <2>3, <2>4, <2>8, <2>9, ApprovalStep
<1>3. QED
  BY <1>0, <1>1, <1>2 DEF Consume

(* An unused approval is persisted for a step nobody was asked about.      *)
LEMMA AskApprovalStep ==
    ASSUME IInv, NEW r \in Requests, AskApproval(r)
    PROVE  IInv'
<1>1. CASE Abort(r) /\ UNCHANGED approval
  BY Zenon, <1>1, LabelFacts, GotoStep DEF AskApproval, At, Abort, stored
<1>2. ASSUME NEW a \in UnusedApprovals, NEW t, NEW i,
             t = req[r].turn, i = req[r].step,
             RequestApproval(a, t, i), Goto(r, "waitStep")
      PROVE  IInv'
  <2>1. /\ req[r] \in Request /\ RequestOK(req[r])
        /\ req[r].pc = "askApproval" /\ a \in Approvals
        /\ approval[a].status = "none"
        /\ approval \in [Approvals -> Approval]
        /\ UNCHANGED <<session, turn, steps, unpaired, env>>
    BY DEF AskApproval, At, IInv, TypeOK, StoreTypeOK, RequestsOK,
           UnusedApprovals
  <2>2. /\ t \in Turns /\ t # NoTurn /\ i \in Nat
        /\ i \in 1..Len(steps[t]) /\ steps[t][i].runs = 0
        /\ \A b \in Approvals : ~Names(b, t, i)
    BY ZenonT(60), <1>2, <2>1 DEF RequestOK, FreeLabels, FreshCallOK, Request
  <2>3. /\ approval' \in [Approvals -> Approval]
        /\ \A b \in Approvals \ {a} : approval'[b] = approval[b]
        /\ approval'[a].status = "pending"
        /\ approval'[a].turn = t /\ approval'[a].step = i
    <3> DEFINE x == [status |-> "pending", turn |-> t, step |-> i,
                     lapsed |-> FALSE]
    <3>1. /\ x \in Approval /\ x.status = "pending"
          /\ x.turn = t /\ x.step = i
      BY Zenon, <2>2 DEF Approval, ApprovalStatus
    <3>2. approval' = [approval EXCEPT ![a] = x]
      BY <1>2 DEF RequestApproval
    <3>3. QED
      <4> HIDE DEF x
      <4> QED BY Zenon, <2>1, <3>1, <3>2
  <2>4. PICK q \in Request :
           /\ q.pc = "waitStep" /\ q.turn = t /\ q.ver = req[r].ver
           /\ req' = [req EXCEPT ![r] = q]
    <3> DEFINE x == [req[r] EXCEPT !.pc = "waitStep"]
    <3>1. /\ x \in Request /\ x.pc = "waitStep" /\ x.turn = t
          /\ x.ver = req[r].ver
      BY <1>2, <2>1 DEF Request, Labels
    <3>2. req' = [req EXCEPT ![r] = x]
      BY <1>2 DEF Goto
    <3>3. QED
      <4> HIDE DEF x
      <4> QED BY Zenon, <3>1, <3>2
  <2>5. q.pc \notin DecidedLabels
    BY <2>4 DEF DecidedLabels, ConsumedLabels
  <2>6. \A p \in Requests \ {r} : req[p].turn # t
    BY ZenonT(60), <1>2, <2>2 DEF IInv, Exclusive
  <2>7. Exclusive' /\ req' \in [Requests -> Request]
    BY ZenonT(60), <2>4, <2>5, <2>6, ExclusiveStep DEF IInv
  <2>8. TypeOK'
    BY Zenon, <2>1, <2>3, <2>7 DEF IInv, TypeOK, StoreTypeOK, env
  <2>9. ActiveTurnLock'
    BY ZenonT(60), <2>1 DEF IInv, ActiveTurnLock, IsOpen
  <2>10. ExecutionFollowsApproval'
    <3> SUFFICES ASSUME NEW u \in Turns, NEW j \in 1..Len(steps[u])
                 PROVE  /\ steps[u][j].runs <= 1
                        /\ Gated(u, j) /\ steps[u][j].runs = 1 =>
                              \E b \in Approvals :
                                 /\ approval'[b].status = "consumed"
                                 /\ approval'[b].turn = u
                                 /\ approval'[b].step = j
      BY ZenonT(60), <2>1 DEF ExecutionFollowsApproval, Gated
    <3>1. /\ steps[u][j].runs <= 1
          /\ Gated(u, j) /\ steps[u][j].runs = 1 =>
                \E b \in Approvals : /\ approval[b].status = "consumed"
                                     /\ approval[b].turn = u
                                     /\ approval[b].step = j
      BY Zenon DEF IInv, ExecutionFollowsApproval
    <3>2. \A b \in Approvals : approval[b].status = "consumed" =>
             approval'[b] = approval[b]
      BY Zenon, <2>1, <2>3
    <3>3. QED
      BY ZenonT(60), <3>1, <3>2
  <2>11. ApprovalsOK'
    <3> SUFFICES ASSUME NEW b \in Approvals, approval'[b].status # "none",
                        NEW u, NEW j, u = approval'[b].turn,
                        j = approval'[b].step
                 PROVE  /\ u \in Turns /\ j \in 1..Len(steps[u])
                        /\ \A c \in Approvals \ {b} : ~Names(c, u, j)'
                        /\ approval'[b].status # "consumed" =>
                              steps[u][j].runs = 0
      BY ZenonT(60), <2>1 DEF ApprovalsOK
    <3>1. CASE b = a
      BY Zenon, <2>2, <2>3, <3>1 DEF Names
    <3>2. CASE b # a
      <4>1. /\ approval[b].status # "none"
            /\ u = approval[b].turn /\ j = approval[b].step
        BY <2>3, <3>2
      <4>2. /\ u \in Turns /\ j \in 1..Len(steps[u])
            /\ \A c \in Approvals \ {b} : ~Names(c, u, j)
            /\ approval[b].status # "consumed" => steps[u][j].runs = 0
        BY ZenonT(60), <4>1 DEF IInv, ApprovalsOK
      <4>3. ~(u = t /\ j = i)
        BY <2>2, <4>1 DEF Names
      <4>4. QED
        BY Zenon, <2>3, <3>2, <4>2, <4>3 DEF Names
    <3>3. QED
      BY Zenon, <3>1, <3>2
  <2>12. RequestOK(q)'
    <3>1. DrivenTurnOK(q)'
      BY ZenonT(60), <1>2, <2>1, <2>2, <2>4, LabelFacts
         DEF RequestOK, DrivenTurnOK, ParkedLabels
    <3>2. QED
      BY ZenonT(60), <2>2, <2>4, <2>5, <3>1
         DEF RequestOK, FreeLabels, CallLabels
  <2>13. ASSUME NEW x \in Request, RequestOK(x), x.turn # t
         PROVE  RequestOK(x)'
    <3>1. x.turn # NoTurn => DrivenTurnOK(x)'
      BY ZenonT(60), <2>1, <2>13 DEF RequestOK, DrivenTurnOK
    <3>2. x.pc \in {"execute", "askApproval"} => FreshCallOK(x)'
      BY ZenonT(60), <2>1, <2>3, <2>13 DEF RequestOK, FreshCallOK, Names
    <3>3. x.pc \in DecidedLabels => DecidedApprovalOK(x)'
      BY ZenonT(60), <2>1, <2>3, <2>13 DEF RequestOK, DecidedApprovalOK, Names
    <3>4. x.pc = "archive" => ArchiveOK(x)'
      BY ZenonT(60), <2>1, <2>13 DEF RequestOK, ArchiveOK
    <3>5. QED
      BY ZenonT(60), <2>1, <2>3, <2>13, <3>1, <3>2, <3>3, <3>4 DEF RequestOK
  <2>14. RequestsOK'
    <3> SUFFICES ASSUME NEW p \in Requests
                 PROVE  RequestOK(req[p])'
      BY DEF RequestsOK
    <3>1. CASE p = r
      <4>1. req'[p] = q
        BY Zenon, <2>4, <3>1 DEF IInv, TypeOK
      <4>2. QED
        BY Zenon, <2>12, <4>1 DEF RequestOK, DrivenTurnOK, FreshCallOK,
                           DecidedApprovalOK, ArchiveOK, Names
    <3>2. CASE p # r
      <4>1. /\ req'[p] \in Request /\ RequestOK(req'[p])
            /\ req'[p].turn # t
        BY Zenon, <2>4, <2>6, <3>2 DEF IInv, TypeOK, RequestsOK
      <4>2. QED
        BY Zenon, <2>13, <4>1
    <3>3. QED
      BY <3>1, <3>2
  <2>15. QED
    BY Zenon, <2>7, <2>8, <2>9, <2>10, <2>11, <2>14 DEF IInv
<1>3. QED
  BY Zenon, <1>1, <1>2 DEF AskApproval
-----------------------------------------------------------------------------
(* Steps that start a tool.                                                *)

(* The driver of a turn starts the tool of a step that has not run, which  *)
(* needs no approval or whose approval is consumed.                        *)
LEMMA StartToolInv ==
    ASSUME IInv, NEW r \in Requests, NEW t \in Turns, req[r].turn = t,
           NEW i \in 1..Len(steps[t]), steps[t][i].runs = 0, StartTool(t, i),
           \A a \in Approvals :
              Names(a, t, i) => approval[a].status = "consumed",
           \/ ~Gated(t, i)
           \/ \E a \in Approvals : Names(a, t, i),
           NEW q \in Request, req' = [req EXCEPT ![r] = q], RequestOK(q),
           q.turn = t,
           q.pc \in PlainLabels \cup {"executing"},
           UNCHANGED <<session, turn, approval, unpaired, env>>
    PROVE  IInv'
<1>0. q.pc \notin DecidedLabels \cup {"execute", "askApproval"}
  BY DEF PlainLabels, RunLabels, FreeLabels, ParkedLabels, DecidedLabels,
         ConsumedLabels, CallLabels
<1>1. /\ steps' \in [Turns -> Seq(Step)]
      /\ \A u \in Turns \ {t} : steps'[u] = steps[u]
      /\ Len(steps'[t]) = Len(steps[t])
      /\ \A j \in 1..Len(steps[t]) :
            /\ steps'[t][j].kind = steps[t][j].kind
            /\ steps'[t][j].runs = IF j = i THEN 1 ELSE steps[t][j].runs
  <2> DEFINE f == [steps[t] EXCEPT ![i].runs = @ + 1]
  <2>1. steps[t] \in Seq(Step) /\ steps \in [Turns -> Seq(Step)]
    BY Zenon DEF IInv, TypeOK, StoreTypeOK
  <2>2. /\ f \in Seq(Step) /\ Len(f) = Len(steps[t])
        /\ \A j \in 1..Len(steps[t]) :
              /\ f[j].kind = steps[t][j].kind
              /\ f[j].runs = IF j = i THEN 1 ELSE steps[t][j].runs
    BY <2>1, StepRunsUpdate
  <2>3. steps' = [steps EXCEPT ![t] = f]
    BY DEF StartTool
  <2>4. QED
    <3> HIDE DEF f
    <3> QED BY ZenonT(60), <2>1, <2>2, <2>3
<1>2. Exclusive' /\ req' \in [Requests -> Request]
  BY ZenonT(60), <1>0, ExclusiveStep, TurnsAssumption DEF IInv, Exclusive
<1>3. TypeOK'
  BY ZenonT(60), <1>1, <1>2 DEF IInv, TypeOK, StoreTypeOK, env
<1>4. ActiveTurnLock'
  BY ZenonT(60) DEF IInv, ActiveTurnLock, IsOpen
<1>5. ExecutionFollowsApproval'
  <2> SUFFICES ASSUME NEW u \in Turns, NEW j \in 1..Len(steps'[u])
               PROVE  /\ steps'[u][j].runs <= 1
                      /\ Gated(u, j)' /\ steps'[u][j].runs = 1 =>
                            \E a \in Approvals :
                               /\ approval'[a].status = "consumed"
                               /\ approval'[a].turn = u
                               /\ approval'[a].step = j
    BY Zenon DEF ExecutionFollowsApproval
  <2>1. j \in 1..Len(steps[u]) /\ (Gated(u, j)' <=> Gated(u, j))
    BY Zenon, <1>1 DEF Gated
  <2>2. CASE u = t /\ j = i
    <3>1. steps'[u][j].runs = 1
      BY Zenon, <1>1, <2>1, <2>2
    <3>2. Gated(u, j) =>
             \E a \in Approvals : /\ approval'[a].status = "consumed"
                                  /\ approval'[a].turn = u
                                  /\ approval'[a].step = j
      BY ZenonT(60), <2>2 DEF Names
    <3>3. steps'[u][j].runs <= 1
      BY Zenon, <3>1, OneRun
    <3>4. QED
      BY Zenon, <2>1, <3>2, <3>3
  <2>3. CASE ~(u = t /\ j = i)
    <3>1. steps'[u][j].runs = steps[u][j].runs
      BY ZenonT(60), <1>1, <2>1, <2>3
    <3>2. /\ steps[u][j].runs <= 1
          /\ Gated(u, j) /\ steps[u][j].runs = 1 =>
                \E a \in Approvals : /\ approval[a].status = "consumed"
                                     /\ approval[a].turn = u
                                     /\ approval[a].step = j
      BY ZenonT(60), <2>1 DEF IInv, ExecutionFollowsApproval
    <3>3. QED
      BY Zenon, <2>1, <3>1, <3>2
  <2>4. QED
    BY ZenonT(60), <2>2, <2>3
<1>6. ApprovalsOK'
  <2>1. ApprovalsOK
    BY Zenon DEF IInv
  <2>2. ASSUME NEW a \in Approvals, approval[a].status # "none",
               NEW u, u = approval[a].turn, NEW j, j = approval[a].step
        PROVE  /\ j \in 1..Len(steps'[u])
               /\ approval[a].status # "consumed" => steps'[u][j].runs = 0
    <3>1. /\ u \in Turns /\ j \in 1..Len(steps[u])
          /\ approval[a].status # "consumed" => steps[u][j].runs = 0
      BY Zenon, <2>1, <2>2 DEF ApprovalsOK
    <3>2. u = t /\ j = i => approval[a].status = "consumed"
      BY ZenonT(60), <2>2 DEF Names
    <3>3. QED
      BY ZenonT(60), <1>1, <3>1, <3>2
  <2>3. \A a \in Approvals : approval'[a] = approval[a]
    OBVIOUS
  <2>4. \A a \in Approvals : approval[a].status # "none" =>
           /\ approval[a].step \in 1..Len(steps'[approval[a].turn])
           /\ approval[a].status # "consumed" =>
                 steps'[approval[a].turn][approval[a].step].runs = 0
    BY ZenonT(60), <2>2
  <2>5. QED
    BY Zenon, <2>1, <2>3, <2>4, ApprovalsKept
<1>7. RequestsOK'
  <2> SUFFICES ASSUME NEW p \in Requests
               PROVE  RequestOK(req[p])'
    BY Zenon DEF RequestsOK
  <2>1. CASE p = r
    <3>1. req'[p] = q
      BY ZenonT(60), <2>1 DEF IInv, TypeOK
    <3>2. QED
      BY ZenonT(60), <1>0, <3>1 DEF RequestOK, DrivenTurnOK, ArchiveOK
  <2>2. CASE p # r
    <3>1. /\ req'[p] \in Request /\ RequestOK(req'[p])
          /\ req'[p].turn # t
      BY ZenonT(60), <2>2, TurnsAssumption
         DEF IInv, TypeOK, RequestsOK, Exclusive
    <3>2. QED
      BY ZenonT(60), <1>1, <3>1, OtherRequest DEF IInv
  <2>3. QED
    BY Zenon, <2>1, <2>2
<1>8. QED
  BY Zenon, <1>2, <1>3, <1>4, <1>5, <1>6, <1>7 DEF IInv

(* Policy starts the tool, asks for an approval or refuses the call.       *)
LEMMA ExecuteStep ==
    ASSUME IInv, NEW r \in Requests, Execute(r)
    PROVE  IInv'
<1>0. PICK t, i : t = req[r].turn /\ i = req[r].step
  OBVIOUS
<1>1. req[r].pc = "execute"
  BY ZenonT(60) DEF Execute, At
<1>2. CASE (Goto(r, "failStep") \/ Abort(r)) /\ UNCHANGED steps
  BY ZenonT(60), <1>1, <1>2, LabelFacts, GotoStep
     DEF Execute, Abort, stored, CallLabels
<1>3. CASE Goto(r, "askApproval") /\ UNCHANGED steps
  BY Zenon, <1>1, <1>3, AskStep DEF Execute, stored
<1>4. CASE /\ Head(req[r].calls) = "auto" /\ StartTool(t, i)
           /\ Goto(r, "executing")
  <2>1. /\ req[r] \in Request /\ RequestOK(req[r])
        /\ UNCHANGED <<session, turn, approval, unpaired, env>>
    BY DEF Execute, IInv, TypeOK, RequestsOK
  <2>2. t \in Turns /\ t # NoTurn /\ DrivenTurnOK(req[r])
    BY ZenonT(60), <1>0, <1>1, <2>1 DEF RequestOK, FreeLabels, Request
  <2>3. /\ i \in 1..Len(steps[t]) /\ steps[t][i].runs = 0 /\ ~Gated(t, i)
        /\ \A a \in Approvals : ~Names(a, t, i)
        /\ req[r].calls # <<>>
    BY ZenonT(60), <1>0, <1>1, <1>4, <2>1
       DEF RequestOK, FreshCallOK, Gated, CallLabels
  <2>4. PICK q \in Request :
           /\ q.pc = "executing" /\ q.turn = t /\ q.ver = req[r].ver
           /\ q.calls = req[r].calls
           /\ req' = [req EXCEPT ![r] = q]
    <3> DEFINE x == [req[r] EXCEPT !.pc = "executing"]
    <3>1. /\ x \in Request /\ x.pc = "executing" /\ x.turn = t
          /\ x.ver = req[r].ver /\ x.calls = req[r].calls
      BY <1>0, <2>1 DEF Request, Labels
    <3>2. req' = [req EXCEPT ![r] = x]
      BY <1>4 DEF Goto
    <3>3. QED
      <4> HIDE DEF x
      <4> QED BY ZenonT(60), <3>1, <3>2
  <2>5. RequestOK(q)
    <3>1. turn[t].status = "running" /\ q.ver = turn[t].version
      BY Zenon, <1>0, <1>1, <2>2, <2>4, LabelFacts
         DEF DrivenTurnOK, CallLabels
    <3>2. QED
      BY ZenonT(60), <2>2, <2>3, <2>4, <3>1
         DEF RequestOK, DrivenTurnOK, FreeLabels, ParkedLabels,
             DecidedLabels, ConsumedLabels
  <2>6. QED
    BY ZenonT(60), <1>0, <1>4, <2>1, <2>2, <2>3, <2>4, <2>5, StartToolInv
<1>5. QED
  BY <1>0, <1>2, <1>3, <1>4 DEF Execute

(* The approved tool starts; its approval is the consumed one.             *)
LEMMA ExecuteApprovedStep ==
    ASSUME IInv, NEW r \in Requests, ExecuteApproved(r)
    PROVE  IInv'
<1>0. PICK t, i, a : /\ t = req[r].turn /\ i = req[r].step
                     /\ a = req[r].approval
  OBVIOUS
<1>1. req[r].pc = "executeApproved"
  BY Zenon DEF ExecuteApproved, At
<1>2. CASE Goto(r, "failApproved") /\ UNCHANGED steps
  BY <1>1, <1>2, LabelFacts, GotoStep DEF ExecuteApproved, stored
<1>3. CASE StartTool(t, i) /\ Goto(r, "executingApproved")
  <2>1. /\ req[r] \in Request /\ RequestOK(req[r])
        /\ UNCHANGED <<session, turn, approval, unpaired, env>>
    BY ZenonT(60) DEF ExecuteApproved, IInv, TypeOK, RequestsOK
  <2>2. t \in Turns /\ t # NoTurn /\ DrivenTurnOK(req[r])
    BY ZenonT(60), <1>0, <1>1, <2>1 DEF RequestOK, FreeLabels, Request
  <2>3. /\ a \in Approvals /\ Names(a, t, i)
        /\ approval[a].status = "consumed" /\ steps[t][i].runs = 0
    BY ZenonT(60), <1>0, <1>1, <2>1, <2>2
       DEF RequestOK, DecidedApprovalOK, DecidedLabels, ConsumedLabels
  <2>4. /\ i \in 1..Len(steps[t])
        /\ \A b \in Approvals : Names(b, t, i) => b = a
    BY <2>3 DEF IInv, ApprovalsOK, Names
  <2>5. PICK q \in Request :
           /\ q.pc = "executingApproved" /\ q.turn = t /\ q.ver = req[r].ver
           /\ req' = [req EXCEPT ![r] = q]
    <3> DEFINE x == [req[r] EXCEPT !.pc = "executingApproved"]
    <3>1. /\ x \in Request /\ x.pc = "executingApproved" /\ x.turn = t
          /\ x.ver = req[r].ver
      BY <1>0, <2>1 DEF Request, Labels
    <3>2. req' = [req EXCEPT ![r] = x]
      BY <1>3 DEF Goto
    <3>3. QED
      <4> HIDE DEF x
      <4> QED BY ZenonT(60), <3>1, <3>2
  <2>6. RequestOK(q)
    <3>1. turn[t].status = "running" /\ q.ver = turn[t].version
      BY Zenon, <1>0, <1>1, <2>2, <2>5, LabelFacts DEF DrivenTurnOK
    <3>2. QED
      BY ZenonT(60), <2>2, <2>5, <3>1
         DEF RequestOK, DrivenTurnOK, FreeLabels, ParkedLabels, CallLabels,
             DecidedLabels, ConsumedLabels
  <2>7. q.pc \in PlainLabels
    BY <2>5, LabelFacts
  <2>8. QED
    BY ZenonT(60), <1>0, <1>3, <2>1, <2>2, <2>3, <2>4, <2>5, <2>6, <2>7,
       StartToolInv
<1>4. QED
  BY <1>0, <1>2, <1>3 DEF ExecuteApproved
-----------------------------------------------------------------------------
(* The environment, and the steps that do nothing.                         *)

(* A step that keeps the rows while every request stays or is dropped.     *)
LEMMA DropStep ==
    ASSUME IInv, UNCHANGED stored, req' \in [Requests -> Request],
           \A p \in Requests : req'[p] = req[p] \/ req'[p] = NoRequest,
           connected' \in [Sessions -> BOOLEAN], faults' \in Nat
    PROVE  IInv'
<1>0. UNCHANGED <<session, turn, steps, approval, unpaired>>
  BY Zenon DEF stored
<1>1. TypeOK' /\ ActiveTurnLock'
  BY <1>0 DEF IInv, TypeOK, StoreTypeOK, ActiveTurnLock, IsOpen
<1>2. ExecutionFollowsApproval' /\ ApprovalsOK'
  BY <1>0, SettledKept DEF IInv
<1>3. RequestOK(NoRequest)
  BY ZenonT(60), IdleRequest
     DEF RequestOK, FreeLabels, CallLabels, DecidedLabels,
                     ConsumedLabels
<1>4. RequestsOK'
  <2> SUFFICES ASSUME NEW p \in Requests
               PROVE  RequestOK(req[p])'
    BY DEF RequestsOK
  <2>1. req'[p] \in Request /\ RequestOK(req'[p])
    BY Zenon, <1>3 DEF IInv, RequestsOK
  <2>2. QED
    BY Zenon, <1>0, <2>1, OtherRequest DEF IInv
<1>5. Exclusive'
  <2>1. NoRequest.turn = NoTurn /\ NoRequest.pc \notin DecidedLabels
    BY IdleRequest DEF DecidedLabels, ConsumedLabels
  <2>2. QED
    BY Zenon, <2>1 DEF IInv, Exclusive
<1>6. QED
  BY <1>1, <1>2, <1>4, <1>5 DEF IInv

(* A crash drops every request, a closed connection none.                  *)
LEMMA EnvironmentStep ==
    ASSUME IInv,
           \/ Crash
           \/ \E s \in Sessions : CloseConnection(s)
           \/ UNCHANGED vars
    PROVE  IInv'
<1>1. CASE Crash
  <2>1. /\ req' \in [Requests -> Request]
        /\ \A p \in Requests : req'[p] = NoRequest
    BY <1>1, IdleRequest DEF Crash
  <2>2. connected' \in [Sessions -> BOOLEAN] /\ faults' \in Nat
    BY SMTT(60), <1>1 DEF Crash, IInv, TypeOK
  <2>3. QED
    BY <1>1, <2>1, <2>2, DropStep DEF Crash
<1>2. CASE \E s \in Sessions : CloseConnection(s)
  BY Zenon, <1>2, DropStep DEF CloseConnection, IInv, TypeOK
<1>3. CASE UNCHANGED vars
  BY <1>3, DropStep DEF vars, env, IInv, TypeOK
<1>4. QED
  BY <1>1, <1>2, <1>3

-----------------------------------------------------------------------------
(* The invariant is inductive.                                             *)

(* An empty database and idle requests satisfy it.                         *)
LEMMA InitInv == Init => IInv
<1> SUFFICES ASSUME Init
             PROVE  IInv
  OBVIOUS
<1>1. \A r \in Requests : req[r] = NoRequest
  BY DEF Init
<1>2. TypeOK
  <2>1. session \in [Sessions -> Session]
    BY DEF Init, StoreInit, Session, SessionStatus
  <2>2. turn \in [Turns -> Turn]
    BY ZenonT(60), DefaultSession DEF Init, StoreInit, Turn, TurnStatus
  <2>3. steps \in [Turns -> Seq(Step)] /\ unpaired \in [Turns -> Int]
    BY SMTT(60) DEF Init, StoreInit
  <2>4. approval \in [Approvals -> Approval]
    BY DEF Init, StoreInit, Approval, ApprovalStatus
  <2>5. /\ connected \in [Sessions -> BOOLEAN]
        /\ req \in [Requests -> Request] /\ faults \in Nat
    BY IdleRequest DEF Init
  <2>6. QED
    BY Zenon, <2>1, <2>2, <2>3, <2>4, <2>5 DEF TypeOK, StoreTypeOK
<1>3. ActiveTurnLock
  BY ZenonT(60) DEF Init, StoreInit, ActiveTurnLock, IsOpen, OpenStatus
<1>4. ExecutionFollowsApproval /\ ApprovalsOK
  <2>1. \A t \in Turns : 1..Len(steps[t]) = {}
    BY SMTT(60) DEF Init, StoreInit
  <2>2. \A a \in Approvals : approval[a].status = "none"
    BY DEF Init, StoreInit
  <2>3. QED
    BY ZenonT(60), <2>1, <2>2 DEF ExecutionFollowsApproval, ApprovalsOK
<1>5. RequestsOK /\ Exclusive
  <2>1. NoRequest.pc \notin DecidedLabels
    BY Zenon, IdleRequest DEF DecidedLabels, ConsumedLabels
  <2>2. QED
    BY Zenon, <1>1, <2>1, IdleRequest
       DEF RequestsOK, RequestOK, FreeLabels, CallLabels, Exclusive
<1>6. QED
  BY <1>2, <1>3, <1>4, <1>5 DEF IInv

(* Every action preserves it.                                              *)
LEMMA NextInv == IInv /\ [Next]_vars => IInv'
<1> SUFFICES ASSUME IInv, [Next]_vars
             PROVE  IInv'
  OBVIOUS
<1>1. ASSUME NEW s \in Sessions, CreateSession(s)
      PROVE  IInv'
  BY <1>1, CreateSessionStep
<1>2. ASSUME NEW r \in Requests, Begin(r)
      PROVE  IInv'
  BY Zenon, <1>2, BeginTurnStep, BeginArchiveStep, BeginResolveStep
     DEF Begin
<1>3. ASSUME NEW r \in Requests, NewTurnStep(r) \/ ArchiveSession(r)
      PROVE  IInv'
  BY Zenon, <1>3, ArchiveSessionStep, RunStartTurnStep,
     RunTurnStep, PromptAndHistory
     DEF NewTurnStep
<1>4. ASSUME NEW r \in Requests, ModelStep(r)
      PROVE  IInv'
  BY Zenon, <1>4, PrepareStep, AppendModelStepStep, GenerateStep,
     CompleteModelStepStep, AppendAnswerStep, CompleteTurnStep DEF ModelStep
<1>5. ASSUME NEW r \in Requests, ToolStep(r)
      PROVE  IInv'
  BY Zenon, <1>5, AppendToolStepStep, ExecuteStep, ToolReturnsStep,
     CompleteToolStepStep, AppendToolMessageStep, AskApprovalStep,
     WaitStepApprovalStep, WaitTurnApprovalStep DEF ToolStep
<1>6. ASSUME NEW r \in Requests, ErrorStep(r)
      PROVE  IInv'
  BY Zenon, <1>6, FailStepStep, EndTurnStep DEF ErrorStep
<1>7. ASSUME NEW r \in Requests, ApprovedStep(r)
      PROVE  IInv'
  <2>1. CASE ReadForResume(r)
    BY Zenon, <2>1, TakeTurnStep, ReturnStep DEF ReadForResume, At
  <2>2. QED
    BY Zenon, <1>7, <2>1, DecideStep, ConsumeStep, ResumeTurnStep,
       ResumeStepStep,
       ExecuteApprovedStep, ApprovedToolReturnsStep, CompleteApprovedStepStep,
       AppendApprovedMessageStep DEF ApprovedStep
<1>8. ASSUME NEW r \in Requests, DeniedStep(r)
      PROVE  IInv'
  <2>1. CASE ReadForDenial(r)
    BY Zenon, <2>1, TakeTurnStep, ReturnStep DEF ReadForDenial, At
  <2>2. QED
    BY <1>8, <2>1, CancelStepStep, EndTurnStep DEF DeniedStep
<1>9. ASSUME NEW r \in Requests, Disconnect(r)
      PROVE  IInv'
  BY <1>9, DisconnectStep
<1>10. ASSUME NEW a \in Approvals, Lapse(a)
       PROVE  IInv'
  BY <1>10, LapseStep
<1>11. QED
  BY Zenon, <1>1, <1>2, <1>3, <1>4, <1>5, <1>6, <1>7, <1>8, <1>9, <1>10,
     EnvironmentStep DEF Next, RequestStep

-----------------------------------------------------------------------------
(* Theorems.                                                               *)

(* The inductive invariant holds in every state the agent reaches, however *)
(* its requests interleave, are cancelled or die with the manager.         *)
THEOREM Invariance == Spec => []IInv
<1>1. Init => IInv
  BY InitInv
<1>2. IInv /\ [Next]_vars => IInv'
  BY NextInv
<1>3. QED
  BY <1>1, <1>2, PTL DEF Spec

(* Rows and requests keep their types.                                     *)
THEOREM TypeCorrect == Spec => []TypeOK
<1>1. IInv => TypeOK
  BY DEF IInv
<1>2. QED
  BY <1>1, Invariance, PTL

(* A session's ActiveTurnID names exactly its one unfinished turn.         *)
THEOREM LockCorrect == Spec => []ActiveTurnLock
<1>1. IInv => ActiveTurnLock
  BY Zenon DEF IInv
<1>2. QED
  BY <1>1, Invariance, PTL

(* No turn has two drivers, and no driver is stale.                        *)
THEOREM DriverCorrect == Spec => []SingleDriver
<1>1. IInv => SingleDriver
  BY ZenonT(60)
     DEF IInv, SingleDriver, RequestsOK, RequestOK, DrivenTurnOK, Exclusive
<1>2. QED
  BY <1>1, Invariance, PTL

(* No call runs twice; a gated one runs only under its own consumed        *)
(* approval.                                                               *)
THEOREM ApprovalCorrect == Spec => []ExecutionFollowsApproval
<1>1. IInv => ExecutionFollowsApproval
  BY DEF IInv
<1>2. QED
  BY <1>1, Invariance, PTL

=============================================================================
