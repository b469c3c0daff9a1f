-------------------------- MODULE AgentRuntimeTurns --------------------------
(***************************************************************************)
(* The life of a turn, step by step, for any number of sessions, turns,    *)
(* requests and faults: which of its steps are completed at every label,   *)
(* that it is driven until it ends while nothing fails, that a request     *)
(* touches no turn but its own, and what each step is to SessionContract.  *)
(***************************************************************************)
EXTENDS AgentRuntimeInv

-----------------------------------------------------------------------------
(* Sequences of steps.                                                     *)

WithStatus(f, i, to) == [f EXCEPT ![i].status = to]

WithRun(f, i) == [f EXCEPT ![i].runs = @ + 1]

(* TransitionStep sets the status of one step and of no other.             *)
LEMMA StatusUpdate ==
    ASSUME NEW f \in Seq(Step), NEW i \in Nat, NEW to \in StepStatus
    PROVE  LET g == WithStatus(f, i, to)
           IN  /\ Len(g) = Len(f)
               /\ \A j \in 1..Len(f) :
                     /\ j = i => g[j].status = to
                     /\ j # i => g[j].status = f[j].status
<1> DEFINE e == [f[i] EXCEPT !.status = to]
           g == [f EXCEPT ![i] = e]
<1>1. Len(g) = Len(f)
  BY StepStatusUpdate
<1>2. ASSUME NEW j \in 1..Len(f)
      PROVE  /\ j = i => g[j].status = to
             /\ j # i => g[j].status = f[j].status
  <2>1. f[j] \in Step /\ j \in DOMAIN f
    OBVIOUS
  <2>2. CASE j = i
    <3>1. g[j] = e
      BY <2>1, <2>2
    <3>2. e.status = to
      BY <2>1, <2>2 DEF Step
    <3>3. QED
      BY <2>2, <3>1, <3>2
  <2>3. CASE j # i
    BY <2>1, <2>3
  <2>4. QED
    BY <2>2, <2>3
<1>3. QED
  BY <1>1, <1>2 DEF WithStatus

(* Starting a tool leaves every status alone.                              *)
LEMMA RunsUpdate ==
    ASSUME NEW f \in Seq(Step), NEW i \in 1..Len(f)
    PROVE  LET g == WithRun(f, i)
           IN  /\ Len(g) = Len(f)
               /\ \A j \in 1..Len(f) : g[j].status = f[j].status
<1> DEFINE n == f[i].runs + 1
           e == [f[i] EXCEPT !.runs = n]
           g == [f EXCEPT ![i] = e]
<1>1. Len(g) = Len(f)
  BY StepRunsUpdate
<1>2. ASSUME NEW j \in 1..Len(f)
      PROVE  g[j].status = f[j].status
  <2>1. f[j] \in Step /\ j \in DOMAIN f
    OBVIOUS
  <2>2. CASE j = i
    <3>1. g[j] = e
      BY <2>1, <2>2
    <3>2. e.status = f[j].status
      <4> HIDE DEF n
      <4> QED BY <2>1, <2>2 DEF Step
    <3>3. QED
      BY <3>1, <3>2
  <2>3. CASE j # i
    BY <2>1, <2>3
  <2>4. QED
    BY <2>2, <2>3
<1>3. QED
  BY <1>1, <1>2 DEF WithRun

-----------------------------------------------------------------------------
(* One request moves, and with it at most one turn.                        *)

(* Labels that say something about steps are those of a running turn.      *)
LEMMA StepLabels ==
    /\ SettledLabels \cup WorkLabels \subseteq RunLabels
    /\ AskLabels \subseteq WorkLabels
    /\ {"waitTurn", "resumeStep"} \subseteq WorkLabels
    /\ "deferred" \notin SettledLabels \cup WorkLabels
BY DEF SettledLabels, WorkLabels, AskLabels, RunLabels, Labels, FreeLabels,
       ParkedLabels

(* A request at such a label drives a running turn.                        *)
LEMMA StepDriver ==
    ASSUME IInv, NEW r \in Requests,
           req[r].pc \in SettledLabels \cup WorkLabels
    PROVE  req[r].turn \in Turns /\ turn[req[r].turn].status = "running"
<1>1. req[r].pc \in RunLabels \ {"deferred"}
  BY StepLabels
<1>2. req[r].turn \in Turns /\ req[r].turn # NoTurn
  BY <1>1, Driver, TurnsAssumption
<1>3. RequestOK(req[r])
  BY DEF IInv, RequestsOK
<1>4. QED
  BY Zenon, <1>1, <1>2, <1>3 DEF RequestOK, DrivenTurnOK

(* The other requests hold other turns.                                    *)
LEMMA OtherTurn ==
    ASSUME IInv, NEW r \in Requests, NEW t,
           \/ req[r].turn = t
           \/ /\ req[r].turn = NoTurn
              /\ t \in Turns /\ turn[t].status = "none",
           NEW p \in Requests \ {r}, req[p].turn # NoTurn
    PROVE  req[p].turn # t
<1>1. CASE req[r].turn = t
  BY Zenon, <1>1 DEF IInv, Exclusive
<1>2. CASE t \in Turns /\ turn[t].status = "none"
  BY Zenon, <1>2, DrivenOpen DEF IsOpen, OpenStatus
<1>3. QED
  BY <1>1, <1>2

(* What is to be shown of the request that moves and of its turn.          *)
MovedOK(r, t) ==
    /\ DrivenStepsOK(req[r])'
    /\ t \in Turns => StoredStepsOK(t)'

CalmMoveOK(r, t) ==
    /\ Live(r)'
    /\ HeldStepWaits(req[r])'
    /\ t \in Turns =>
          /\ turn'[t].status \in {"queued", "running"} =>
                \E p \in Requests : req'[p].turn = t
          /\ ParkedStepWaits(t)'

(* Then everything else is as it was.                                      *)
LEMMA TurnsFrame ==
    ASSUME IInv, TurnsInv, NEW r \in Requests, NEW t,
           \/ req[r].turn = t
           \/ /\ req[r].turn = NoTurn
              /\ t \in Turns /\ turn[t].status = "none",
           \A p \in Requests \ {r} : req'[p] = req[p],
           faults' = faults,
           \A u \in Turns \ {t} : turn'[u] = turn[u] /\ steps'[u] = steps[u],
           MovedOK(r, t),
           faults = 0 => CalmMoveOK(r, t)
    PROVE  TurnsInv'
<1>1. ASSUME NEW u \in Turns
      PROVE  StoredStepsOK(u)'
  <2>1. CASE u = t
    BY Zenon, <2>1 DEF MovedOK
  <2>2. CASE u # t
    <3>1. turn'[u] = turn[u] /\ steps'[u] = steps[u] /\ StoredStepsOK(u)
      BY Zenon, <2>2 DEF TurnsInv, StepsInv
    <3>2. QED
      BY <3>1 DEF StoredStepsOK, AllCompleted, CompletedBut
  <2>3. QED
    BY <2>1, <2>2
<1>2. ASSUME NEW p \in Requests \ {r}, req[p].turn \in Turns
      PROVE  turn'[req[p].turn] = turn[req[p].turn]
             /\ steps'[req[p].turn] = steps[req[p].turn]
  <2>1. req[p].turn # NoTurn
    BY <1>2, TurnsAssumption
  <2>2. req[p].turn # t
    BY Zenon, <2>1, OtherTurn
  <2>3. QED
    BY Zenon, <1>2, <2>2
<1>3. ASSUME NEW p \in Requests
      PROVE  DrivenStepsOK(req[p])'
  <2>1. CASE p = r
    BY Zenon, <2>1 DEF MovedOK
  <2>2. CASE p # r
    <3>1. req'[p] = req[p] /\ DrivenStepsOK(req[p])
      BY Zenon, <2>2 DEF TurnsInv, StepsInv
    <3>2. CASE req[p].pc \in SettledLabels \cup WorkLabels
      <4>1. req[p].turn \in Turns
        BY Zenon, <3>2, StepDriver
      <4>2. turn'[req[p].turn] = turn[req[p].turn]
            /\ steps'[req[p].turn] = steps[req[p].turn]
        BY Zenon, <1>2, <2>2, <4>1
      <4>3. QED
        BY <3>1, <4>2 DEF DrivenStepsOK, AllCompleted, CompletedBut
    <3>3. CASE req[p].pc \notin SettledLabels \cup WorkLabels
      BY Zenon, <3>1, <3>3, StepLabels DEF DrivenStepsOK
    <3>4. QED
      BY <3>2, <3>3
  <2>3. QED
    BY <2>1, <2>2
<1>4. ASSUME faults' = 0
      PROVE  /\ \A p \in Requests : Live(p)'
             /\ \A u \in Turns : turn'[u].status \in {"queued", "running"} =>
                   \E p \in Requests : req'[p].turn = u
             /\ \A u \in Turns : ParkedStepWaits(u)'
             /\ \A p \in Requests : HeldStepWaits(req[p])'
  <2>0. /\ CalmMoveOK(r, t)
        /\ \A p \in Requests : Live(p) /\ HeldStepWaits(req[p])
        /\ \A u \in Turns : turn[u].status \in {"queued", "running"} =>
              \E p \in Requests : req[p].turn = u
        /\ \A u \in Turns : ParkedStepWaits(u)
    BY Zenon, <1>4 DEF TurnsInv, CalmInv
  <2>1. ASSUME NEW p \in Requests
        PROVE  Live(p)'
    BY Zenon, <2>0 DEF CalmMoveOK, Live
  <2>2. ASSUME NEW u \in Turns, turn'[u].status \in {"queued", "running"}
        PROVE  \E p \in Requests : req'[p].turn = u
    <3>1. CASE u = t
      BY Zenon, <2>0, <2>2, <3>1 DEF CalmMoveOK
    <3>2. CASE u # t
      <4>1. PICK p \in Requests : req[p].turn = u
        BY Zenon, <2>0, <2>2, <3>2
      <4>2. p # r
        BY Zenon, <3>2, <4>1, TurnsAssumption
      <4>3. QED
        BY Zenon, <4>1, <4>2
    <3>3. QED
      BY <3>1, <3>2
  <2>3. ASSUME NEW u \in Turns
        PROVE  ParkedStepWaits(u)'
    <3>1. CASE u = t
      BY Zenon, <2>0, <3>1 DEF CalmMoveOK
    <3>2. CASE u # t
      <4>1. \A p \in Requests : Cancelling(p, u) => Cancelling(p, u)'
        BY Zenon, <3>2, TurnsAssumption DEF Cancelling
      <4>2. turn'[u] = turn[u] /\ steps'[u] = steps[u] /\ ParkedStepWaits(u)
        BY Zenon, <2>0, <3>2
      <4>3. QED
        BY Zenon, <4>1, <4>2 DEF ParkedStepWaits
    <3>3. QED
      BY <3>1, <3>2
  <2>4. ASSUME NEW p \in Requests
        PROVE  HeldStepWaits(req[p])'
    <3>1. CASE p = r
      BY Zenon, <2>0, <3>1 DEF CalmMoveOK
    <3>2. CASE p # r /\ req[p].pc \in {"waitTurn", "resumeStep"}
      <4>1. req[p].turn \in Turns
        BY Zenon, <3>2, StepDriver, StepLabels
      <4>2. /\ req'[p] = req[p] /\ HeldStepWaits(req[p])
            /\ steps'[req[p].turn] = steps[req[p].turn]
        BY Zenon, <1>2, <2>0, <3>2, <4>1
      <4>3. QED
        BY <4>2 DEF HeldStepWaits
    <3>3. CASE p # r /\ req[p].pc \notin {"waitTurn", "resumeStep"}
      BY Zenon, <3>3 DEF HeldStepWaits
    <3>4. QED
      BY <3>1, <3>2, <3>3
  <2>5. QED
    BY Zenon, <2>1, <2>2, <2>3, <2>4
<1>5. QED
  BY Zenon, <1>1, <1>3, <1>4 DEF TurnsInv, StepsInv, CalmInv

(* The driver of a turn goes on driving it, and the turn is running.       *)
LEMMA DriveOn ==
    ASSUME IInv, TurnsInv, NEW r \in Requests, NEW t \in Turns,
           req[r].turn = t, NEW l, NEW i,
           req'[r].pc = l, req'[r].turn = t, req'[r].step = i,
           req'[r].ctx = req[r].ctx,
           \A p \in Requests \ {r} : req'[p] = req[p],
           faults' = faults,
           \A u \in Turns \ {t} : turn'[u] = turn[u] /\ steps'[u] = steps[u],
           turn'[t].status = "running",
           l \in SettledLabels => AllCompleted(t)',
           l \in WorkLabels => CompletedBut(t, i)',
           l \in AskLabels =>
              turn'[t].activeStep = i /\ i \in 1..Len(steps'[t]),
           faults = 0 /\ l \in {"waitTurn", "resumeStep"} =>
              steps'[t][i].status = "waiting"
    PROVE  TurnsInv'
<1>1. MovedOK(r, t)
  BY Zenon DEF MovedOK, DrivenStepsOK, StoredStepsOK, AllCompleted,
               CompletedBut
<1>2. ASSUME faults = 0
      PROVE  CalmMoveOK(r, t)
  <2>1. Live(r)'
    BY Zenon, <1>2 DEF TurnsInv, CalmInv, Live
  <2>2. HeldStepWaits(req[r])' /\ ParkedStepWaits(t)'
    BY Zenon, <1>2 DEF HeldStepWaits, ParkedStepWaits
  <2>3. QED
    BY Zenon, <2>1, <2>2 DEF CalmMoveOK
<1>3. QED
  BY Zenon, <1>1, <1>2, TurnsFrame

(* The driver of a turn leaves it, for good or parked.                     *)
LEMMA LeaveTurn ==
    ASSUME IInv, TurnsInv, NEW r \in Requests, NEW t \in Turns,
           req[r].turn = t,
           req'[r].pc \notin SettledLabels \cup WorkLabels,
           faults = 0 => req'[r].ctx = "live",
           \A p \in Requests \ {r} : req'[p] = req[p],
           faults' = faults,
           \A u \in Turns \ {t} : turn'[u] = turn[u] /\ steps'[u] = steps[u],
           StoredStepsOK(t)',
           faults = 0 =>
              /\ turn'[t].status \notin {"queued", "running"}
              /\ ParkedStepWaits(t)'
    PROVE  TurnsInv'
<1>1. MovedOK(r, t)
  BY Zenon, StepLabels DEF MovedOK, DrivenStepsOK
<1>2. ASSUME faults = 0
      PROVE  CalmMoveOK(r, t)
  <2>1. HeldStepWaits(req[r])'
    BY Zenon, StepLabels DEF HeldStepWaits
  <2>2. QED
    BY Zenon, <1>2, <2>1 DEF CalmMoveOK, Live
<1>3. QED
  BY Zenon, <1>1, <1>2, TurnsFrame

(* A request that drives no turn moves, and the rows stay.                 *)
LEMMA MoveAlone ==
    ASSUME IInv, TurnsInv, NEW r \in Requests, req[r].turn = NoTurn,
           req'[r].pc \notin SettledLabels \cup WorkLabels,
           faults = 0 => req'[r].ctx = "live",
           \A p \in Requests \ {r} : req'[p] = req[p],
           UNCHANGED <<turn, steps, faults>>
    PROVE  TurnsInv'
<1>1. MovedOK(r, NoTurn)
  BY Zenon, StepLabels, TurnsAssumption DEF MovedOK, DrivenStepsOK
<1>2. ASSUME faults = 0
      PROVE  CalmMoveOK(r, NoTurn)
  <2>1. HeldStepWaits(req[r])'
    BY Zenon, StepLabels DEF HeldStepWaits
  <2>2. QED
    BY Zenon, <1>2, <2>1, TurnsAssumption DEF CalmMoveOK, Live
<1>3. QED
  BY Zenon, <1>1, <1>2, TurnsFrame

-----------------------------------------------------------------------------
(* How a request's record changes.                                         *)

(* Return drops the record.                                                *)
LEMMA ReturnFacts ==
    ASSUME IInv, NEW r \in Requests, Return(r)
    PROVE  /\ req'[r].pc \notin SettledLabels \cup WorkLabels
           /\ req'[r].ctx = "live"
           /\ req'[r].turn = NoTurn
           /\ \A p \in Requests \ {r} : req'[p] = req[p]
<1>1. req'[r] = NoRequest /\ \A p \in Requests \ {r} : req'[p] = req[p]
  BY DEF IInv, TypeOK, Return
<1>2. "idle" \notin SettledLabels \cup WorkLabels
  BY DEF SettledLabels, WorkLabels
<1>3. NoRequest.ctx = "live"
  BY DEF NoRequest
<1>4. QED
  BY <1>1, <1>2, <1>3, IdleRequest

(* A step to another label.                                                *)
Advances(r, l) ==
    /\ req'[r].pc = l
    /\ req'[r].turn = req[r].turn
    /\ req'[r].step = req[r].step
    /\ req'[r].ctx = req[r].ctx
    /\ \A p \in Requests \ {r} : req'[p] = req[p]

LEMMA GotoFacts ==
    ASSUME IInv, NEW r \in Requests, NEW l, Goto(r, l)
    PROVE  Advances(r, l)
<1>1. req[r] \in Request /\ req \in [Requests -> Request]
  BY DEF IInv, TypeOK
<1>2. req' = [req EXCEPT ![r] = [req[r] EXCEPT !.pc = l]]
  BY DEF Goto
<1>3. /\ req'[r] = [req[r] EXCEPT !.pc = l]
      /\ \A p \in Requests \ {r} : req'[p] = req[p]
  BY <1>1, <1>2
<1>4. QED
  BY <1>1, <1>3 DEF Advances, Request

(* Labels that open the way to what follows.                               *)
Follows(k, l) ==
    /\ l \in SettledLabels => k \in SettledLabels
    /\ l \in WorkLabels => k \in WorkLabels
    /\ l \in AskLabels => k \in AskLabels
    /\ l \notin {"waitTurn", "resumeStep"}

(* A driver of a running turn goes on and the rows it reads stay.          *)
LEMMA AdvanceStep ==
    ASSUME IInv, TurnsInv, NEW r \in Requests, NEW l,
           req[r].pc \in RunLabels \ {"deferred"},
           Advances(r, l), Follows(req[r].pc, l),
           UNCHANGED <<turn, steps, faults>>
    PROVE  TurnsInv'
<1>1. PICK t \in Turns : t = req[r].turn
  BY Driver
<1>2. turn[t].status = "running"
  <2>1. RequestOK(req[r]) /\ req[r].turn # NoTurn
    BY <1>1, TurnsAssumption DEF IInv, RequestsOK
  <2>2. QED
    BY Zenon, <1>1, <2>1 DEF RequestOK, DrivenTurnOK
<1>3. PICK i : i = req[r].step
  OBVIOUS
<1>4. DrivenStepsOK(req[r])
  BY DEF TurnsInv, StepsInv
<1>5. /\ l \in SettledLabels => AllCompleted(t)
      /\ l \in WorkLabels => CompletedBut(t, i)
      /\ l \in AskLabels => turn[t].activeStep = i /\ i \in 1..Len(steps[t])
  BY Zenon, <1>1, <1>3, <1>4 DEF DrivenStepsOK, Follows
<1>6. /\ l \in SettledLabels => AllCompleted(t)'
      /\ l \in WorkLabels => CompletedBut(t, i)'
      /\ l \in AskLabels => turn'[t].activeStep = i /\ i \in 1..Len(steps'[t])
  BY <1>5 DEF AllCompleted, CompletedBut
<1>7. /\ req'[r].pc = l /\ req'[r].turn = t /\ req'[r].step = i
      /\ req'[r].ctx = req[r].ctx
      /\ \A p \in Requests \ {r} : req'[p] = req[p]
  BY Zenon, <1>1, <1>3 DEF Advances
<1>8. QED
  BY Zenon, <1>1, <1>2, <1>6, <1>7, DriveOn DEF Follows

(* The pairs of labels between which the rows stay.                        *)
LEMMA FollowFacts ==
    /\ \A k : \A l \in {"failStep", "failApproved", "failTurn", "deferred"} :
          Follows(k, l)
    /\ Follows("prompt", "history") /\ Follows("history", "model")
    /\ Follows("model", "modelStep") /\ Follows("generate", "modelDone")
    /\ Follows("answer", "complete") /\ Follows("answer", "call")
    /\ Follows("execute", "askApproval") /\ Follows("executing", "toolDone")
    /\ Follows("toolMessage", "model") /\ Follows("toolMessage", "call")
    /\ Follows("askApproval", "waitStep")
    /\ Follows("executingApproved", "approvedDone")
    /\ Follows("approvedMessage", "history")
BY DEF Follows, SettledLabels, WorkLabels, AskLabels

(* The labels at which a request drives a running turn.                    *)
LEMMA RunFacts ==
    {"prompt", "history", "model", "modelStep", "generate", "modelDone",
     "answer", "complete", "call", "execute", "executing", "toolDone",
     "toolMessage", "askApproval", "waitStep", "waitTurn", "failStep",
     "failApproved", "failTurn", "resumeStep", "executeApproved",
     "executingApproved", "approvedDone", "approvedMessage"}
      \subseteq RunLabels \ {"deferred"}
BY DEF RunLabels, Labels, FreeLabels, ParkedLabels

(* A driver that goes to an error exit leaves everything else as it is.    *)
LEMMA AbortStep ==
    ASSUME IInv, TurnsInv, NEW r \in Requests,
           req[r].pc \in RunLabels \ {"deferred"},
           NEW l \in {"failStep", "failApproved", "failTurn", "deferred"},
           Goto(r, l), UNCHANGED <<turn, steps, faults>>
    PROVE  TurnsInv'
BY Zenon, GotoFacts, FollowFacts, AdvanceStep

(* The prompt and the history.                                             *)
LEMMA PromptTurns ==
    ASSUME IInv, TurnsInv, NEW r \in Requests,
           AppendPrompt(r) \/ RestoreHistory(r)
    PROVE  TurnsInv'
<1>0. UNCHANGED <<turn, steps, faults>>
  BY Zenon DEF AppendPrompt, RestoreHistory, stored, env
<1>1. req[r].pc \in RunLabels \ {"deferred"}
  BY RunFacts DEF AppendPrompt, RestoreHistory, At
<1>2. CASE Fail(r)
  BY Zenon, <1>0, <1>1, <1>2, AbortStep DEF Fail
<1>3. CASE req[r].pc = "prompt" /\ Goto(r, "history")
  BY Zenon, <1>0, <1>1, <1>3, GotoFacts, FollowFacts, AdvanceStep
<1>4. CASE /\ req[r].pc = "history"
           /\ req' = [req EXCEPT ![r].pc = "model", ![r].used = 0]
  <2>1. Advances(r, "model")
    BY <1>4 DEF Advances, IInv, TypeOK, Request
  <2>2. QED
    BY Zenon, <1>0, <1>1, <1>4, <2>1, FollowFacts, AdvanceStep
<1>5. QED
  BY Zenon, <1>2, <1>3, <1>4 DEF AppendPrompt, RestoreHistory, At

(* The loop test and the model's answer.                                   *)
LEMMA ModelTurns ==
    ASSUME IInv, TurnsInv, NEW r \in Requests,
           PrepareModelStep(r) \/ Generate(r) \/ AppendAnswer(r)
    PROVE  TurnsInv'
<1>0. UNCHANGED <<turn, steps, faults>>
  BY Zenon DEF PrepareModelStep, Generate, AppendAnswer, stored, env
<1>1. req[r].pc \in RunLabels \ {"deferred"}
  BY RunFacts DEF PrepareModelStep, Generate, AppendAnswer, At
<1>2. CASE Abort(r) \/ Goto(r, "failStep")
  BY Zenon, <1>0, <1>1, <1>2, AbortStep DEF Abort
<1>3. CASE /\ req[r].pc = "model"
           /\ req' = [req EXCEPT ![r].pc = "modelStep", ![r].used = @ + 1]
  <2>1. PICK n : n = req[r].used + 1
    OBVIOUS
  <2>2. req' = [req EXCEPT ![r].pc = "modelStep", ![r].used = n]
    BY Zenon, <1>3, <2>1
  <2>3. Advances(r, "modelStep")
    BY <2>2 DEF Advances, IInv, TypeOK, Request
  <2>4. QED
    BY Zenon, <1>0, <1>1, <1>3, <2>3, FollowFacts, AdvanceStep
<1>4. ASSUME req[r].pc = "generate", NEW calls,
             req' = [req EXCEPT ![r].pc = "modelDone", ![r].calls = calls]
      PROVE  TurnsInv'
  <2>1. Advances(r, "modelDone")
    BY <1>4 DEF Advances, IInv, TypeOK, Request
  <2>2. QED
    BY Zenon, <1>0, <1>1, <1>4, <2>1, FollowFacts, AdvanceStep
<1>5. ASSUME req[r].pc = "answer", NEW l \in {"complete", "call"}, Goto(r, l)
      PROVE  TurnsInv'
  BY Zenon, <1>0, <1>1, <1>5, GotoFacts, FollowFacts, AdvanceStep
<1>6. QED
  <2>1. CASE PrepareModelStep(r)
    BY Zenon, <1>2, <1>3, <2>1 DEF PrepareModelStep, At
  <2>2. CASE Generate(r)
    BY Zenon, <1>2, <1>4, <2>2 DEF Generate, At
  <2>3. CASE AppendAnswer(r)
    BY Zenon, <1>2, <1>5, <2>3 DEF AppendAnswer, At
  <2>4. QED
    BY <2>1, <2>2, <2>3

(* A tool's return and its message.                                        *)
LEMMA ToolTurns ==
    ASSUME IInv, TurnsInv, NEW r \in Requests,
           ToolReturns(r) \/ AppendToolMessage(r) \/ AskApproval(r)
    PROVE  TurnsInv'
<1>0. UNCHANGED <<turn, steps, faults>>
  BY Zenon DEF ToolReturns, AppendToolMessage, AskApproval, stored, env
<1>1. req[r].pc \in RunLabels \ {"deferred"}
  BY RunFacts DEF ToolReturns, AppendToolMessage, AskApproval, At
<1>2. CASE Abort(r) \/ Goto(r, "failStep")
  BY Zenon, <1>0, <1>1, <1>2, AbortStep DEF Abort
<1>3. CASE req[r].pc = "executing" /\ Goto(r, "toolDone")
  BY Zenon, <1>0, <1>1, <1>3, GotoFacts, FollowFacts, AdvanceStep
<1>4. CASE req[r].pc = "askApproval" /\ Goto(r, "waitStep")
  BY Zenon, <1>0, <1>1, <1>4, GotoFacts, FollowFacts, AdvanceStep
<1>5. ASSUME req[r].pc = "toolMessage", NEW rest, NEW l \in {"model", "call"},
             req' = [req EXCEPT ![r].calls = rest, ![r].pc = l]
      PROVE  TurnsInv'
  <2>1. Advances(r, l)
    BY <1>5 DEF Advances, IInv, TypeOK, Request
  <2>2. QED
    BY Zenon, <1>0, <1>1, <1>5, <2>1, FollowFacts, AdvanceStep
<1>6. QED
  <2>1. CASE ToolReturns(r)
    BY Zenon, <1>2, <1>3, <2>1 DEF ToolReturns, At
  <2>2. CASE AppendToolMessage(r)
    <3>1. CASE Abort(r)
      BY <1>2, <3>1
    <3>2. CASE ~Abort(r)
      <4>1. PICK rest : rest = Tail(req[r].calls)
        OBVIOUS
      <4>2. PICK l \in {"model", "call"} :
               l = IF rest = <<>> THEN "model" ELSE "call"
        OBVIOUS
      <4>3. /\ req[r].pc = "toolMessage"
            /\ req' = [req EXCEPT ![r].calls = rest, ![r].pc = l]
        BY Zenon, <2>2, <3>2, <4>1, <4>2 DEF AppendToolMessage, At
      <4>4. QED
        BY Zenon, <1>5, <4>3
    <3>3. QED
      BY <3>1, <3>2
  <2>3. CASE AskApproval(r)
    BY Zenon, <1>2, <1>4, <2>3 DEF AskApproval, At
  <2>4. QED
    BY <2>1, <2>2, <2>3

(* The approved tool's return and its message.                             *)
LEMMA ApprovedToolTurns ==
    ASSUME IInv, TurnsInv, NEW r \in Requests,
           ApprovedToolReturns(r) \/ AppendApprovedMessage(r)
    PROVE  TurnsInv'
<1>0. UNCHANGED <<turn, steps, faults>>
  BY Zenon DEF ApprovedToolReturns, AppendApprovedMessage, stored, env
<1>1. req[r].pc \in RunLabels \ {"deferred"}
  BY RunFacts DEF ApprovedToolReturns, AppendApprovedMessage, At
<1>2. CASE Fail(r) \/ Goto(r, "failApproved")
  BY Zenon, <1>0, <1>1, <1>2, AbortStep DEF Fail
<1>3. CASE req[r].pc = "executingApproved" /\ Goto(r, "approvedDone")
  BY Zenon, <1>0, <1>1, <1>3, GotoFacts, FollowFacts, AdvanceStep
<1>4. CASE req[r].pc = "approvedMessage" /\ Goto(r, "history")
  BY Zenon, <1>0, <1>1, <1>4, GotoFacts, FollowFacts, AdvanceStep
<1>5. QED
  BY Zenon, <1>2, <1>3, <1>4
     DEF ApprovedToolReturns, AppendApprovedMessage, At

-----------------------------------------------------------------------------
(* Steps that change a step of the driven turn.                            *)

(* A working driver, its turn and its step.                                *)
LEMMA Working ==
    ASSUME IInv, TurnsInv, NEW r \in Requests, req[r].pc \in WorkLabels
    PROVE  /\ req[r].turn \in Turns
           /\ req[r].step \in Nat
           /\ turn[req[r].turn].status = "running"
           /\ steps[req[r].turn] \in Seq(Step)
           /\ CompletedBut(req[r].turn, req[r].step)
<1>1. req[r].turn \in Turns /\ turn[req[r].turn].status = "running"
  BY StepDriver
<1>2. req[r] \in Request /\ steps \in [Turns -> Seq(Step)]
  BY DEF IInv, TypeOK, StoreTypeOK
<1>3. DrivenStepsOK(req[r])
  BY DEF TurnsInv, StepsInv
<1>4. QED
  BY <1>1, <1>2, <1>3 DEF Request, DrivenStepsOK

(* The rows after TransitionStep.                                          *)
LEMMA TransitionStepRows ==
    ASSUME IInv, NEW t \in Turns, NEW i \in Nat, NEW to \in StepStatus,
           TransitionStep(t, i, to)
    PROVE  /\ \A u \in Turns \ {t} : steps'[u] = steps[u]
           /\ Len(steps'[t]) = Len(steps[t])
           /\ \A j \in 1..Len(steps[t]) :
                 /\ j = i => steps'[t][j].status = to
                 /\ j # i => steps'[t][j].status = steps[t][j].status
<1>1. steps \in [Turns -> Seq(Step)] /\ steps[t] \in Seq(Step)
  BY DEF IInv, TypeOK, StoreTypeOK
<1> DEFINE g == WithStatus(steps[t], i, to)
<1>2. /\ Len(g) = Len(steps[t])
      /\ \A j \in 1..Len(steps[t]) :
            /\ j = i => g[j].status = to
            /\ j # i => g[j].status = steps[t][j].status
  BY ZenonT(30), <1>1, StatusUpdate
<1> HIDE DEF g
<1>3. steps' = [steps EXCEPT ![t] = g]
  BY Zenon DEF TransitionStep, g, WithStatus
<1>4. steps'[t] = g /\ \A u \in Turns \ {t} : steps'[u] = steps[u]
  BY <1>1, <1>3
<1>5. QED
  BY Zenon, <1>2, <1>4

(* Completing the step at hand completes them all.                         *)
LEMMA CompleteStepTurns ==
    ASSUME IInv, TurnsInv, NEW r \in Requests, req[r].pc \in WorkLabels,
           TransitionStep(req[r].turn, req[r].step, "completed"),
           NEW l \in SettledLabels, Goto(r, l),
           UNCHANGED <<turn, faults>>
    PROVE  TurnsInv'
<1>1. PICK t \in Turns : t = req[r].turn
  BY Working
<1>2. PICK i \in Nat : i = req[r].step
  BY Working
<1>3. CompletedBut(t, i) /\ turn[t].status = "running"
  BY Zenon, <1>1, <1>2, Working
<1>4. "completed" \in StepStatus
  BY DEF StepStatus, TerminalStatus
<1>5. /\ \A u \in Turns \ {t} : steps'[u] = steps[u]
      /\ Len(steps'[t]) = Len(steps[t])
      /\ \A j \in 1..Len(steps[t]) :
            /\ j = i => steps'[t][j].status = "completed"
            /\ j # i => steps'[t][j].status = steps[t][j].status
  <2>1. TransitionStep(t, i, "completed")
    BY Zenon, <1>1, <1>2
  <2>2. QED
    BY Zenon, <1>4, <2>1, TransitionStepRows
<1>6. AllCompleted(t)'
  BY <1>3, <1>5 DEF AllCompleted, CompletedBut
<1>7. Advances(r, l)
  BY Zenon, GotoFacts
<1>8. l \notin WorkLabels
  BY DEF SettledLabels, WorkLabels
<1>9. QED
  BY Zenon, <1>1, <1>2, <1>3, <1>5, <1>6, <1>7, <1>8, StepLabels, DriveOn
     DEF Advances

(* A model or tool call ends.                                              *)
LEMMA CompleteTurns ==
    ASSUME IInv, TurnsInv, NEW r \in Requests,
           \/ CompleteModelStep(r)
           \/ CompleteToolStep(r)
           \/ CompleteApprovedStep(r)
    PROVE  TurnsInv'
<1>0. UNCHANGED <<turn, faults>>
  BY Zenon DEF CompleteModelStep, CompleteToolStep, CompleteApprovedStep, env
<1>1. req[r].pc \in WorkLabels /\ req[r].pc \in RunLabels \ {"deferred"}
  BY RunFacts
     DEF CompleteModelStep, CompleteToolStep, CompleteApprovedStep, At,
         WorkLabels
<1>2. CASE (Abort(r) \/ Fail(r)) /\ UNCHANGED steps
  BY Zenon, <1>0, <1>1, <1>2, AbortStep DEF Abort, Fail
<1>3. ASSUME NEW l \in {"answer", "toolMessage", "approvedMessage"},
             TransitionStep(req[r].turn, req[r].step, "completed"), Goto(r, l)
      PROVE  TurnsInv'
  <2>1. l \in SettledLabels
    BY DEF SettledLabels
  <2>2. QED
    BY Zenon, <1>0, <1>1, <1>3, <2>1, CompleteStepTurns
<1>4. QED
  BY Zenon, <1>2, <1>3
     DEF CompleteModelStep, CompleteToolStep, CompleteApprovedStep

(* The step at hand gets a status, and its driver goes on working on it.   *)
LEMMA StatusTurns ==
    ASSUME IInv, TurnsInv, NEW r \in Requests, req[r].pc \in WorkLabels,
           NEW to \in StepStatus,
           TransitionStep(req[r].turn, req[r].step, to),
           NEW l, l \notin SettledLabels, Goto(r, l),
           l \in AskLabels => req[r].pc \in AskLabels,
           l = "waitTurn" => to = "waiting" /\ req[r].pc \in AskLabels,
           l # "resumeStep",
           UNCHANGED <<turn, faults>>
    PROVE  TurnsInv'
<1>1. PICK t \in Turns : t = req[r].turn
  BY Working
<1>2. PICK i \in Nat : i = req[r].step
  BY Working
<1>3. CompletedBut(t, i) /\ turn[t].status = "running"
  BY Zenon, <1>1, <1>2, Working
<1>4. /\ \A u \in Turns \ {t} : steps'[u] = steps[u]
      /\ Len(steps'[t]) = Len(steps[t])
      /\ \A j \in 1..Len(steps[t]) :
            /\ j = i => steps'[t][j].status = to
            /\ j # i => steps'[t][j].status = steps[t][j].status
  <2>1. TransitionStep(t, i, to)
    BY Zenon, <1>1, <1>2
  <2>2. QED
    BY Zenon, <2>1, TransitionStepRows
<1>5. CompletedBut(t, i)'
  BY <1>3, <1>4 DEF CompletedBut
<1>6. Advances(r, l)
  BY Zenon, GotoFacts
<1>7. req[r].pc \in AskLabels => turn[t].activeStep = i /\ i \in 1..Len(steps[t])
  BY Zenon, <1>1, <1>2 DEF TurnsInv, StepsInv, DrivenStepsOK
<1>8. l \in AskLabels => turn'[t].activeStep = i /\ i \in 1..Len(steps'[t])
  BY <1>4, <1>7
<1>9. l \in {"waitTurn", "resumeStep"} => steps'[t][i].status = "waiting"
  BY Zenon, <1>4, <1>7
<1>10. QED
  BY Zenon, <1>1, <1>2, <1>3, <1>4, <1>5, <1>6, <1>8, <1>9, DriveOn
     DEF Advances

(* The step of a gated call is parked.                                     *)
LEMMA WaitStepTurns ==
    ASSUME IInv, TurnsInv, NEW r \in Requests, WaitStepApproval(r)
    PROVE  TurnsInv'
<1>0. UNCHANGED <<turn, faults>>
  BY Zenon DEF WaitStepApproval, env
<1>1. /\ req[r].pc \in WorkLabels /\ req[r].pc \in RunLabels \ {"deferred"}
      /\ req[r].pc \in AskLabels
  BY RunFacts DEF WaitStepApproval, At, WorkLabels, AskLabels
<1>2. CASE Abort(r) /\ UNCHANGED steps
  BY Zenon, <1>0, <1>1, <1>2, AbortStep DEF Abort
<1>3. CASE /\ TransitionStep(req[r].turn, req[r].step, "waiting")
           /\ Goto(r, "waitTurn")
  <2>1. "waiting" \in StepStatus /\ "waitTurn" \notin SettledLabels
    BY DEF StepStatus, SettledLabels
  <2>2. QED
    BY Zenon, <1>0, <1>1, <1>3, <2>1, StatusTurns
<1>4. QED
  BY Zenon, <1>2, <1>3 DEF WaitStepApproval

(* The approved step runs again.  Without a fault it cannot be refused.    *)
LEMMA ResumeStepTurns ==
    ASSUME IInv, TurnsInv, NEW r \in Requests, ResumeStep(r)
    PROVE  TurnsInv'
<1>0. UNCHANGED <<turn, faults>> /\ req[r].pc = "resumeStep"
  BY Zenon DEF ResumeStep, env, At
<1>1. req[r].pc \in WorkLabels
  BY <1>0 DEF WorkLabels
<1>2. CASE /\ TransitionStep(req[r].turn, req[r].step, "running")
           /\ Goto(r, "executeApproved")
  <2>1. /\ "running" \in StepStatus
        /\ "executeApproved" \notin SettledLabels \cup AskLabels
    BY DEF StepStatus, SettledLabels, AskLabels
  <2>2. QED
    BY Zenon, <1>0, <1>1, <1>2, <2>1, StatusTurns
<1>3. CASE /\ \/ ~Live(r)
              \/ ~CanTransitionStep(req[r].turn, req[r].step, "running")
           /\ Return(r) /\ UNCHANGED steps
  <2>1. PICK t \in Turns : t = req[r].turn
    BY <1>1, Working
  <2>2. turn[t].status = "running"
    BY Zenon, <1>1, <2>1, Working
  <2>3. ASSUME faults = 0
        PROVE  FALSE
    <3>1. Live(r) /\ HeldStepWaits(req[r])
      BY Zenon, <2>3 DEF TurnsInv, CalmInv
    <3>2. CanTransitionStep(req[r].turn, req[r].step, "running")
      BY Zenon, <1>0, <3>1
         DEF HeldStepWaits, CanTransitionStep, validStepTransition
    <3>3. QED
      BY <1>3, <3>1, <3>2
  <2>4. StoredStepsOK(t)'
    BY Zenon, <1>0, <2>2 DEF StoredStepsOK
  <2>5. QED
    BY Zenon, <1>0, <1>3, <2>1, <2>3, <2>4, ReturnFacts, LeaveTurn
<1>4. QED
  BY Zenon, <1>2, <1>3 DEF ResumeStep

(* The step fails, and the driver heads for the end of the turn.           *)
LEMMA FailStepTurns ==
    ASSUME IInv, TurnsInv, NEW r \in Requests, FailStep(r)
    PROVE  TurnsInv'
<1>0. UNCHANGED <<turn, faults>>
  BY Zenon DEF FailStep, env
<1>1. req[r].pc \in RunLabels \ {"deferred"}
  BY RunFacts DEF FailStep, At
<1>2. PICK t \in Turns : t = req[r].turn
  BY <1>1, Driver
<1>3. turn[t].status = "running"
  <2>1. RequestOK(req[r]) /\ req[r].turn # NoTurn
    BY <1>2, TurnsAssumption DEF IInv, RequestsOK
  <2>2. QED
    BY Zenon, <1>1, <1>2, <2>1 DEF RequestOK, DrivenTurnOK
<1>4. PICK i : i = req[r].step
  OBVIOUS
<1>5. \A u \in Turns \ {t} : steps'[u] = steps[u]
  <2>1. steps' = steps \/ steps' = [steps EXCEPT ![t][i].status = "failed"]
    BY Zenon, <1>2, <1>4 DEF FailStep
  <2>2. QED
    BY <2>1 DEF IInv, TypeOK, StoreTypeOK
<1>6. PICK l \in {"deferred", "failTurn"} : Goto(r, l)
  BY Zenon DEF FailStep, Abort, Fail
<1>7. Advances(r, l)
  BY Zenon, <1>6, GotoFacts
<1>8. l \notin SettledLabels \cup WorkLabels
  BY DEF SettledLabels, WorkLabels
<1>9. QED
  BY Zenon, <1>0, <1>2, <1>3, <1>4, <1>5, <1>7, <1>8, StepLabels, DriveOn
     DEF Advances

(* The driver of a parked turn, its turn and its step.                     *)
LEMMA Parked ==
    ASSUME IInv, TurnsInv, NEW r \in Requests, req[r].pc \in ParkedLabels
    PROVE  /\ req[r].turn \in Turns
           /\ req[r].turn # NoTurn
           /\ req[r].step \in Nat
           /\ turn[req[r].turn].status = "waiting"
           /\ turn[req[r].turn].activeStep = req[r].step
           /\ turn[req[r].turn].version = req[r].ver
           /\ CompletedBut(req[r].turn, req[r].step)
           /\ faults = 0 /\ req[r].pc # "cancelTurn" =>
                 steps[req[r].turn][req[r].step].status = "waiting"
<1>1. req[r] \in Request /\ RequestOK(req[r])
  BY DEF IInv, TypeOK, RequestsOK
<1>2. req[r].turn # NoTurn
  BY <1>1 DEF RequestOK, ParkedLabels, FreeLabels
<1>3. req[r].turn \in Turns /\ req[r].step \in Nat
  BY <1>1, <1>2 DEF Request
<1>4. /\ turn[req[r].turn].status = "waiting"
      /\ turn[req[r].turn].activeStep = req[r].step
      /\ turn[req[r].turn].version = req[r].ver
  BY Zenon, <1>1, <1>2 DEF RequestOK, DrivenTurnOK
<1>5. CompletedBut(req[r].turn, req[r].step)
  BY Zenon, <1>3, <1>4 DEF TurnsInv, StepsInv, StoredStepsOK
<1>6. ASSUME faults = 0, req[r].pc # "cancelTurn"
      PROVE  steps[req[r].turn][req[r].step].status = "waiting"
  <2>1. ParkedStepWaits(req[r].turn)
    BY Zenon, <1>3, <1>6 DEF TurnsInv, CalmInv
  <2>2. ~\E p \in Requests : Cancelling(p, req[r].turn)
    BY Zenon, <1>2, <1>6 DEF Cancelling, IInv, Exclusive
  <2>3. QED
    BY Zenon, <1>4, <2>1, <2>2 DEF ParkedStepWaits
<1>7. QED
  BY Zenon, <1>2, <1>3, <1>4, <1>5, <1>6

(* A driver may leave a parked turn as it is.                              *)
LEMMA UnparkTurns ==
    ASSUME IInv, TurnsInv, NEW r \in Requests,
           req[r].pc \in ParkedLabels \ {"cancelTurn"},
           Return(r), UNCHANGED <<turn, steps, faults>>
    PROVE  TurnsInv'
<1>1. PICK t \in Turns : t = req[r].turn
  BY Parked
<1>2. /\ turn[t].status = "waiting"
      /\ faults = 0 => steps[t][turn[t].activeStep].status = "waiting"
      /\ CompletedBut(t, turn[t].activeStep)
  BY Zenon, <1>1, Parked
<1>3. StoredStepsOK(t)'
  BY <1>2 DEF StoredStepsOK, CompletedBut
<1>4. faults = 0 => /\ turn'[t].status \notin {"queued", "running"}
                    /\ ParkedStepWaits(t)'
  BY <1>2 DEF ParkedStepWaits
<1>5. QED
  BY Zenon, <1>1, <1>3, <1>4, ReturnFacts, LeaveTurn

(* A parked step is cancelled; its turn is next.                           *)
LEMMA CancelStepTurns ==
    ASSUME IInv, TurnsInv, NEW r \in Requests, CancelStep(r)
    PROVE  TurnsInv'
<1>0. UNCHANGED <<turn, faults>> /\ req[r].pc = "cancelStep"
  BY Zenon DEF CancelStep, env, At
<1>1. req[r].pc \in ParkedLabels \ {"cancelTurn"}
  BY <1>0 DEF ParkedLabels
<1>2. CASE Return(r) /\ UNCHANGED steps
  BY Zenon, <1>0, <1>1, <1>2, UnparkTurns
<1>3. CASE /\ TransitionStep(req[r].turn, req[r].step, "cancelled")
           /\ Goto(r, "cancelTurn")
  <2>1. PICK t \in Turns : t = req[r].turn
    BY <1>1, Parked
  <2>2. PICK i \in Nat : i = req[r].step
    BY <1>1, Parked
  <2>3. /\ turn[t].status = "waiting" /\ turn[t].activeStep = i
        /\ CompletedBut(t, i)
    BY Zenon, <1>1, <2>1, <2>2, Parked
  <2>4. /\ \A u \in Turns \ {t} : steps'[u] = steps[u]
        /\ Len(steps'[t]) = Len(steps[t])
        /\ \A j \in 1..Len(steps[t]) :
              j # i => steps'[t][j].status = steps[t][j].status
    <3>1. TransitionStep(t, i, "cancelled") /\ "cancelled" \in StepStatus
      BY Zenon, <1>3, <2>1, <2>2 DEF StepStatus, TerminalStatus
    <3>2. QED
      BY Zenon, <3>1, TransitionStepRows
  <2>5. CompletedBut(t, i)'
    BY <2>3, <2>4 DEF CompletedBut
  <2>6. Advances(r, "cancelTurn")
    BY Zenon, <1>3, GotoFacts
  <2>7. "cancelTurn" \notin SettledLabels \cup WorkLabels
    BY DEF SettledLabels, WorkLabels
  <2>8. MovedOK(r, t)
    <3>1. DrivenStepsOK(req[r])'
      BY Zenon, <2>6, <2>7, StepLabels DEF Advances, DrivenStepsOK
    <3>2. StoredStepsOK(t)'
      BY <1>0, <2>3, <2>5 DEF StoredStepsOK, CompletedBut
    <3>3. QED
      BY <3>1, <3>2 DEF MovedOK
  <2>9. ASSUME faults = 0
        PROVE  CalmMoveOK(r, t)
    <3>1. Live(r)' /\ HeldStepWaits(req[r])'
      BY Zenon, <2>6, <2>9
         DEF Advances, HeldStepWaits, TurnsInv, CalmInv, Live
    <3>2. ParkedStepWaits(t)'
      BY Zenon, <2>1, <2>6 DEF Advances, ParkedStepWaits, Cancelling
    <3>3. QED
      BY Zenon, <1>0, <2>3, <3>1, <3>2 DEF CalmMoveOK
  <2>10. QED
    BY Zenon, <1>0, <2>1, <2>4, <2>6, <2>8, <2>9, TurnsFrame DEF Advances
<1>4. QED
  BY Zenon, <1>2, <1>3 DEF CancelStep

-----------------------------------------------------------------------------
(* Requests that drive no turn, or a parked one.                           *)

(* At these labels a request has no turn.                                  *)
LEMMA FreeRequest ==
    ASSUME IInv, NEW r \in Requests, req[r].pc \in FreeLabels
    PROVE  req[r].turn = NoTurn
BY Zenon DEF IInv, RequestsOK, RequestOK

(* Labels that say nothing about steps.                                    *)
LEMMA QuietLabels ==
    ({"runTurn"} \cup FreeLabels \cup ParkedLabels)
      \cap (SettledLabels \cup WorkLabels) = {}
BY DEF FreeLabels, ParkedLabels, SettledLabels, WorkLabels

(* A request without a turn moves to a label that says nothing about steps.*)
LEMMA FreeMove ==
    ASSUME IInv, TurnsInv, NEW r \in Requests, req[r].pc \in FreeLabels,
           NEW q \in Request, q.pc \in FreeLabels \cup ParkedLabels,
           q.ctx = req[r].ctx \/ q.ctx = "live",
           req' = [req EXCEPT ![r] = q], UNCHANGED <<turn, steps, faults>>
    PROVE  TurnsInv'
<1>1. req'[r] = q /\ \A p \in Requests \ {r} : req'[p] = req[p]
  BY DEF IInv, TypeOK
<1>2. faults = 0 => req'[r].ctx = "live"
  BY Zenon, <1>1 DEF TurnsInv, CalmInv, Live
<1>3. req'[r].pc \notin SettledLabels \cup WorkLabels
  BY <1>1, QuietLabels
<1>4. req[r].turn = NoTurn
  BY FreeRequest
<1>5. QED
  BY Zenon, <1>1, <1>2, <1>3, <1>4, MoveAlone

(* A request without a turn returns.                                       *)
LEMMA FreeReturn ==
    ASSUME IInv, TurnsInv, NEW r \in Requests, req[r].pc \in FreeLabels,
           Return(r), UNCHANGED <<turn, steps, faults>>
    PROVE  TurnsInv'
BY Zenon, ReturnFacts, FreeRequest, MoveAlone

(* Requests begin.                                                         *)
LEMMA BeginTurns ==
    ASSUME IInv, TurnsInv, NEW r \in Requests, Begin(r)
    PROVE  TurnsInv'
<1>0. UNCHANGED <<turn, steps, faults>> /\ req[r].pc \in FreeLabels
  BY DEF Begin, BeginTurn, BeginArchive, BeginResolve, At, stored, env,
         FreeLabels
<1>1. req[r] \in Request /\ req \in [Requests -> Request]
  BY DEF IInv, TypeOK
<1>2. ASSUME NEW s \in Sessions, BeginTurn(r, s)
      PROVE  TurnsInv'
  <2> DEFINE q == [req[r] EXCEPT !.pc = "startTurn", !.session = s]
  <2>1. q \in Request /\ q.pc \in FreeLabels /\ q.ctx = req[r].ctx
    BY <1>1 DEF Request, Labels, FreeLabels
  <2>2. req' = [req EXCEPT ![r] = q]
    BY <1>2 DEF BeginTurn
  <2> HIDE DEF q
  <2>3. QED
    BY Zenon, <1>0, <2>1, <2>2, FreeMove
<1>3. ASSUME NEW s \in Sessions, BeginArchive(r, s)
      PROVE  TurnsInv'
  <2>1. PICK v \in Nat : v = session[s].version
    BY DEF IInv, TypeOK, StoreTypeOK, Session
  <2> DEFINE q == [req[r] EXCEPT !.pc = "archive", !.session = s, !.ver = v]
  <2>2. q \in Request /\ q.pc \in FreeLabels /\ q.ctx = req[r].ctx
    BY <1>1 DEF Request, Labels, FreeLabels
  <2>3. req' = [req EXCEPT ![r] = q]
    BY <1>3, <2>1 DEF BeginArchive
  <2> HIDE DEF q
  <2>4. QED
    BY Zenon, <1>0, <2>2, <2>3, FreeMove
<1>4. ASSUME NEW a \in Approvals, NEW approve \in BOOLEAN,
             BeginResolve(r, a, approve)
      PROVE  TurnsInv'
  <2>1. PICK s \in Sessions : s = turn[approval[a].turn].session
    <3>1. approval[a].turn \in Turns
      BY Zenon, <1>4 DEF IInv, ApprovalsOK, BeginResolve
    <3>2. QED
      BY <3>1 DEF IInv, TypeOK, StoreTypeOK, Turn
  <2> DEFINE q == [req[r] EXCEPT !.pc = "decide", !.approval = a,
                                 !.approve = approve, !.session = s]
  <2>2. q \in Request /\ q.pc \in FreeLabels /\ q.ctx = req[r].ctx
    BY <1>1 DEF Request, Labels, FreeLabels
  <2>3. req' = [req EXCEPT ![r] = q]
    BY <1>4, <2>1 DEF BeginResolve
  <2> HIDE DEF q
  <2>4. QED
    BY Zenon, <1>0, <2>2, <2>3, FreeMove
<1>5. QED
  BY Zenon, <1>2, <1>3, <1>4 DEF Begin

(* A session is archived, or the request is refused.                       *)
LEMMA ArchiveTurns ==
    ASSUME IInv, TurnsInv, NEW r \in Requests, ArchiveSession(r)
    PROVE  TurnsInv'
<1>1. Return(r) /\ UNCHANGED <<turn, steps, faults>> /\ req[r].pc = "archive"
  BY Zenon DEF ArchiveSession, env, At
<1>2. req[r].pc \in FreeLabels
  BY <1>1 DEF FreeLabels
<1>3. QED
  BY Zenon, <1>1, <1>2, FreeReturn

(* An approval is decided.                                                 *)
LEMMA DecideTurns ==
    ASSUME IInv, TurnsInv, NEW r \in Requests, Decide(r)
    PROVE  TurnsInv'
<1>1. UNCHANGED <<turn, steps, faults>> /\ req[r].pc = "decide"
  BY Zenon DEF Decide, env, At
<1>2. req[r].pc \in FreeLabels
  BY <1>1 DEF FreeLabels
<1>3. CASE Return(r)
  BY Zenon, <1>1, <1>2, <1>3, FreeReturn
<1>4. CASE ~Return(r)
  <2>1. PICK l \in {"resume", "deny"} : Goto(r, l)
    BY Zenon, <1>4 DEF Decide
  <2>2. Advances(r, l)
    BY Zenon, <2>1, GotoFacts
  <2>3. l \notin SettledLabels \cup WorkLabels
    BY DEF SettledLabels, WorkLabels
  <2>4. faults = 0 => req[r].ctx = "live"
    BY Zenon DEF TurnsInv, CalmInv, Live
  <2>5. QED
    BY Zenon, <1>1, <1>2, <2>2, <2>3, <2>4, FreeRequest, MoveAlone DEF Advances
<1>5. QED
  BY <1>3, <1>4

(* The turn an approval is for is read, and from now on driven.            *)
LEMMA ReadTurns ==
    ASSUME IInv, TurnsInv, NEW r \in Requests,
           ReadForResume(r) \/ ReadForDenial(r)
    PROVE  TurnsInv'
<1>1. /\ UNCHANGED <<turn, steps, faults>>
      /\ req[r].pc \in {"resume", "deny"}
  BY Zenon DEF ReadForResume, ReadForDenial, stored, env, At
<1>2. req[r].pc \in FreeLabels
  BY <1>1 DEF FreeLabels
<1>3. CASE Return(r)
  BY Zenon, <1>1, <1>2, <1>3, FreeReturn
<1>4. CASE ~Return(r)
  <2>1. PICK l \in {"consume", "cancelStep"} : TakeTurn(r, l)
    BY Zenon, <1>4 DEF ReadForResume, ReadForDenial
  <2>2. PICK t, v, i : req' = [req EXCEPT ![r].pc = l, ![r].turn = t,
                                          ![r].ver = v, ![r].step = i]
    BY Zenon, <2>1 DEF TakeTurn
  <2>3. /\ req'[r].pc = l /\ req'[r].ctx = req[r].ctx
        /\ \A p \in Requests \ {r} : req'[p] = req[p]
    BY <2>2 DEF IInv, TypeOK, Request
  <2>4. l \notin SettledLabels \cup WorkLabels
    BY DEF SettledLabels, WorkLabels
  <2>5. faults = 0 => req[r].ctx = "live"
    BY Zenon DEF TurnsInv, CalmInv, Live
  <2>6. QED
    BY Zenon, <1>1, <1>2, <2>3, <2>4, <2>5, FreeRequest, MoveAlone
<1>5. QED
  BY <1>3, <1>4

(* The grant is used up.                                                   *)
LEMMA ConsumeTurns ==
    ASSUME IInv, TurnsInv, NEW r \in Requests, Consume(r)
    PROVE  TurnsInv'
<1>1. UNCHANGED <<turn, steps, faults>> /\ req[r].pc = "consume"
  BY Zenon DEF Consume, env, At
<1>2. req[r].pc \in ParkedLabels \ {"cancelTurn"}
  BY <1>1 DEF ParkedLabels
<1>3. CASE Return(r)
  BY Zenon, <1>1, <1>2, <1>3, UnparkTurns
<1>4. CASE Goto(r, "resumeTurn")
  <2>1. PICK t \in Turns : t = req[r].turn
    BY <1>2, Parked
  <2>2. Advances(r, "resumeTurn")
    BY Zenon, <1>4, GotoFacts
  <2>3. "resumeTurn" \notin SettledLabels \cup WorkLabels
    BY DEF SettledLabels, WorkLabels
  <2>4. MovedOK(r, t)
    <3>1. DrivenStepsOK(req[r])'
      BY Zenon, <2>2, <2>3, StepLabels DEF Advances, DrivenStepsOK
    <3>2. StoredStepsOK(t)'
      BY Zenon, <1>1 DEF StoredStepsOK, CompletedBut, AllCompleted, TurnsInv,
                         StepsInv
    <3>3. QED
      BY <3>1, <3>2 DEF MovedOK
  <2>5. ASSUME faults = 0
        PROVE  CalmMoveOK(r, t)
    <3>1. Live(r)' /\ HeldStepWaits(req[r])'
      BY Zenon, <2>2, <2>5
         DEF Advances, HeldStepWaits, TurnsInv, CalmInv, Live
    <3>2. /\ turn[t].status = "waiting"
          /\ steps[t][turn[t].activeStep].status = "waiting"
      BY Zenon, <1>2, <2>1, <2>5, Parked
    <3>3. ParkedStepWaits(t)'
      BY Zenon, <1>1, <3>2 DEF ParkedStepWaits
    <3>4. turn'[t].status \notin {"queued", "running"}
      BY <1>1, <3>2
    <3>5. QED
      BY Zenon, <3>1, <3>3, <3>4 DEF CalmMoveOK
  <2>6. QED
    BY Zenon, <1>1, <2>1, <2>2, <2>4, <2>5, TurnsFrame DEF Advances
<1>5. QED
  BY Zenon, <1>3, <1>4 DEF Consume

-----------------------------------------------------------------------------
(* Transitions of a turn.                                                  *)

(* The driver ends its turn, or parks it.                                  *)
LEMMA EndedTurns ==
    ASSUME IInv, TurnsInv, NEW r \in Requests, NEW t \in Turns,
           req[r].turn = t,
           NEW to \in {"completed", "waiting", "cancelled", "failed"},
           TransitionTurn(t, to), Return(r), UNCHANGED <<steps, faults>>,
           to = "completed" => AllCompleted(t),
           to = "waiting" => CompletedBut(t, turn[t].activeStep),
           to = "waiting" /\ faults = 0 =>
              steps[t][turn[t].activeStep].status = "waiting"
    PROVE  TurnsInv'
<1>1. IsOpen(t) /\ to \in TurnStatus
  BY Zenon, DrivenOpen, TurnsAssumption, TurnStatusFacts
<1>2. /\ turn'[t].status = to
      /\ turn'[t].activeStep = turn[t].activeStep
      /\ \A u \in Turns \ {t} : turn'[u] = turn[u]
  BY Zenon, <1>1, TransitionTurnRows
<1>3. StoredStepsOK(t)'
  BY <1>2 DEF StoredStepsOK, AllCompleted, CompletedBut
<1>4. faults = 0 => /\ turn'[t].status \notin {"queued", "running"}
                    /\ ParkedStepWaits(t)'
  BY <1>2 DEF ParkedStepWaits
<1>5. QED
  BY Zenon, <1>2, <1>3, <1>4, ReturnFacts, LeaveTurn

(* The driver of a turn that runs, at a label that says so.                *)
LEMMA Running ==
    ASSUME IInv, TurnsInv, NEW r \in Requests,
           req[r].pc \in RunLabels \ {"deferred"}
    PROVE  /\ req[r].turn \in Turns
           /\ req[r].turn # NoTurn
           /\ turn[req[r].turn].status = "running"
           /\ turn[req[r].turn].version = req[r].ver
           /\ DrivenStepsOK(req[r])
           /\ faults = 0 => Live(r) /\ HeldStepWaits(req[r])
<1>1. req[r].turn \in Turns /\ req[r].turn # NoTurn
  BY Driver, TurnsAssumption
<1>2. RequestOK(req[r])
  BY DEF IInv, RequestsOK
<1>3. DrivenTurnOK(req[r])
  BY Zenon, <1>1, <1>2 DEF RequestOK
<1>4. QED
  BY Zenon, <1>1, <1>3 DEF DrivenTurnOK, TurnsInv, StepsInv, CalmInv

(* The turn completes.                                                     *)
LEMMA CompleteTurnTurns ==
    ASSUME IInv, TurnsInv, NEW r \in Requests, CompleteTurn(r)
    PROVE  TurnsInv'
<1>1. UNCHANGED <<steps, faults>> /\ req[r].pc = "complete"
  BY Zenon DEF CompleteTurn, env, At
<1>2. req[r].pc \in RunLabels \ {"deferred"} /\ req[r].pc \in SettledLabels
  BY <1>1, RunFacts DEF SettledLabels
<1>3. CASE Abort(r) /\ UNCHANGED turn
  BY Zenon, <1>1, <1>2, <1>3, AbortStep DEF Abort
<1>4. CASE TransitionTurn(req[r].turn, "completed") /\ Return(r)
  <2>1. PICK t \in Turns : t = req[r].turn
    BY <1>2, Running
  <2>2. AllCompleted(t)
    BY Zenon, <1>2, <2>1, Running DEF DrivenStepsOK
  <2>3. PICK to \in {"completed", "waiting", "cancelled", "failed"} :
           to = "completed"
    OBVIOUS
  <2>4. to # "waiting"
    BY <2>3
  <2>5. QED
    BY Zenon, <1>1, <1>4, <2>1, <2>2, <2>3, <2>4, EndedTurns
<1>5. QED
  BY Zenon, <1>3, <1>4 DEF CompleteTurn

(* The turn is parked on the step that waits for its approval.             *)
LEMMA WaitTurnTurns ==
    ASSUME IInv, TurnsInv, NEW r \in Requests, WaitTurnApproval(r)
    PROVE  TurnsInv'
<1>1. UNCHANGED <<steps, faults>> /\ req[r].pc = "waitTurn"
  BY Zenon DEF WaitTurnApproval, env, At
<1>2. /\ req[r].pc \in RunLabels \ {"deferred"}
      /\ req[r].pc \in WorkLabels /\ req[r].pc \in AskLabels
  BY <1>1, RunFacts DEF WorkLabels, AskLabels
<1>3. CASE Abort(r) /\ UNCHANGED turn
  BY Zenon, <1>1, <1>2, <1>3, AbortStep DEF Abort
<1>4. CASE TransitionTurn(req[r].turn, "waiting") /\ Return(r)
  <2>1. PICK t \in Turns : t = req[r].turn
    BY <1>2, Running
  <2>2. /\ CompletedBut(t, req[r].step)
        /\ turn[t].activeStep = req[r].step
        /\ faults = 0 => steps[t][req[r].step].status = "waiting"
    BY Zenon, <1>1, <1>2, <2>1, Running DEF DrivenStepsOK, HeldStepWaits
  <2>3. /\ CompletedBut(t, turn[t].activeStep)
        /\ faults = 0 => steps[t][turn[t].activeStep].status = "waiting"
    BY Zenon, <2>2
  <2>4. PICK to \in {"completed", "waiting", "cancelled", "failed"} :
           to = "waiting"
    OBVIOUS
  <2>5. to # "completed"
    BY <2>4
  <2>6. QED
    BY Zenon, <1>1, <1>4, <2>1, <2>3, <2>4, <2>5, EndedTurns
<1>5. QED
  BY Zenon, <1>3, <1>4 DEF WaitTurnApproval

(* The transitions the loop asks for are legal ones.                       *)
LEMMA LegalTransitions ==
    /\ validTurnTransition("running", "failed")
    /\ validTurnTransition("queued", "running")
    /\ validTurnTransition("waiting", "cancelled")
    /\ validTurnTransition("waiting", "running")
BY DEF validTurnTransition

(* failTurn and the deferred function end the turn, if it is not lost.     *)
LEMMA FailTurnTurns ==
    ASSUME IInv, TurnsInv, NEW r \in Requests, failTurn(r) \/ DeferredFail(r)
    PROVE  TurnsInv'
<1>1. /\ UNCHANGED <<steps, faults>> /\ req[r].pc \in {"failTurn", "deferred"}
      /\ Return(r)
      /\ CanTransitionTurn(req[r].turn, req[r].ver, "failed") =>
            TransitionTurn(req[r].turn, "failed")
      /\ ~CanTransitionTurn(req[r].turn, req[r].ver, "failed") =>
            UNCHANGED turn
  BY Zenon DEF failTurn, DeferredFail, env, At
<1>2. CASE req[r].turn = NoTurn
  <2>1. UNCHANGED turn
    BY Zenon, <1>1, <1>2 DEF CanTransitionTurn
  <2>2. QED
    BY Zenon, <1>1, <1>2, <2>1, ReturnFacts, MoveAlone
<1>3. CASE req[r].turn # NoTurn
  <2>1. PICK t \in Turns : t = req[r].turn
    BY <1>3, DrivenOpen
  <2>2. req[r].pc \in RunLabels
    BY <1>1 DEF RunLabels, Labels, FreeLabels, ParkedLabels
  <2>3. turn[t].status = "running" /\ turn[t].version = req[r].ver
    BY Zenon, <1>3, <2>1, <2>2, DrivenOpen DEF RequestOK, DrivenTurnOK
  <2>4. TransitionTurn(t, "failed")
    BY Zenon, <1>1, <1>3, <2>1, <2>3, LegalTransitions DEF CanTransitionTurn
  <2>5. PICK to \in {"completed", "waiting", "cancelled", "failed"} :
           to = "failed"
    OBVIOUS
  <2>6. to # "completed" /\ to # "waiting"
    BY <2>5
  <2>7. QED
    BY Zenon, <1>1, <2>1, <2>4, <2>5, <2>6, EndedTurns
<1>4. QED
  BY <1>2, <1>3

(* A denial ends the parked turn; a cancelled request leaves it parked.    *)
LEMMA CancelTurnTurns ==
    ASSUME IInv, TurnsInv, NEW r \in Requests, CancelTurn(r)
    PROVE  TurnsInv'
<1>1. /\ UNCHANGED <<steps, faults>> /\ req[r].pc = "cancelTurn"
      /\ Return(r)
  BY Zenon DEF CancelTurn, env, At
<1>2. req[r].pc \in ParkedLabels
  BY <1>1 DEF ParkedLabels
<1>3. PICK t \in Turns : t = req[r].turn
  BY <1>2, Parked
<1>4. CASE TransitionTurn(req[r].turn, "cancelled")
  <2>1. PICK to \in {"completed", "waiting", "cancelled", "failed"} :
           to = "cancelled"
    OBVIOUS
  <2>2. to # "completed" /\ to # "waiting"
    BY <2>1
  <2>3. QED
    BY Zenon, <1>1, <1>3, <1>4, <2>1, <2>2, EndedTurns
<1>5. CASE /\ ~Live(r) \/ ~CanTransitionTurn(req[r].turn, req[r].ver, "cancelled")
           /\ UNCHANGED turn
  <2>1. CanTransitionTurn(req[r].turn, req[r].ver, "cancelled")
    BY Zenon, <1>2, Parked, LegalTransitions DEF CanTransitionTurn
  <2>2. faults # 0
    BY Zenon, <1>5, <2>1 DEF TurnsInv, CalmInv
  <2>3. StoredStepsOK(t)'
    BY Zenon, <1>1, <1>5 DEF StoredStepsOK, CompletedBut, AllCompleted,
                             TurnsInv, StepsInv
  <2>4. QED
    BY Zenon, <1>1, <1>3, <1>5, <2>2, <2>3, ReturnFacts, LeaveTurn
<1>6. QED
  BY Zenon, <1>4, <1>5 DEF CancelTurn

(* A request moves on with a new version of its turn.                      *)
LEMMA VersionedMove ==
    ASSUME IInv, NEW r \in Requests, NEW l,
           req' = [req EXCEPT ![r].pc = l, ![r].ver = @ + 1]
    PROVE  Advances(r, l)
<1>1. PICK v : v = req[r].ver + 1
  OBVIOUS
<1>2. req' = [req EXCEPT ![r].pc = l, ![r].ver = v]
  BY Zenon, <1>1
<1>3. QED
  BY <1>2 DEF Advances, IInv, TypeOK, Request

(* A queued turn starts to run; a cancelled request leaves it queued.      *)
LEMMA RunTurnTurns ==
    ASSUME IInv, TurnsInv, NEW r \in Requests, RunTurn(r)
    PROVE  TurnsInv'
<1>1. UNCHANGED <<steps, faults>> /\ req[r].pc = "runTurn"
  BY Zenon DEF RunTurn, env, At
<1>2. req[r].turn # NoTurn
  BY <1>1 DEF IInv, RequestsOK, RequestOK, FreeLabels
<1>3. PICK t \in Turns : t = req[r].turn
  BY <1>2, DrivenOpen
<1>4. turn[t].status = "queued" /\ turn[t].version = req[r].ver /\ IsOpen(t)
  BY Zenon, <1>1, <1>2, <1>3, DrivenOpen DEF RequestOK, DrivenTurnOK
<1>5. AllCompleted(t)
  BY <1>4 DEF TurnsInv, StepsInv, StoredStepsOK
<1>6. CASE /\ TransitionTurn(t, "running")
           /\ req' = [req EXCEPT ![r].pc = "prompt", ![r].ver = @ + 1]
  <2>1. Advances(r, "prompt")
    BY Zenon, <1>6, VersionedMove
  <2>2. PICK i : i = req[r].step
    OBVIOUS
  <2>3. turn'[t].status = "running" /\ \A u \in Turns \ {t} : turn'[u] = turn[u]
    BY Zenon, <1>4, <1>6, TransitionTurnRows, TurnStatusFacts
  <2>4. "prompt" \notin WorkLabels /\ "prompt" \notin AskLabels
        /\ "prompt" \notin {"waitTurn", "resumeStep"}
    BY DEF WorkLabels, AskLabels
  <2>5. AllCompleted(t)'
    BY <1>1, <1>5 DEF AllCompleted
  <2>6. PICK l : l = "prompt"
    OBVIOUS
  <2>7. /\ req'[r].pc = l /\ req'[r].turn = t /\ req'[r].step = i
        /\ req'[r].ctx = req[r].ctx
        /\ \A p \in Requests \ {r} : req'[p] = req[p]
    BY Zenon, <1>3, <2>1, <2>2, <2>6 DEF Advances
  <2>8. QED
    BY Zenon, <1>1, <1>3, <2>3, <2>4, <2>5, <2>6, <2>7, DriveOn
<1>7. CASE /\ ~Live(r) \/ ~CanTransitionTurn(t, req[r].ver, "running")
           /\ Return(r) /\ UNCHANGED turn
  <2>1. faults # 0
    BY Zenon, <1>2, <1>3, <1>4, <1>7, LegalTransitions
       DEF CanTransitionTurn, TurnsInv, CalmInv
  <2>2. StoredStepsOK(t)'
    BY <1>1, <1>4, <1>5, <1>7 DEF StoredStepsOK, AllCompleted
  <2>3. QED
    BY Zenon, <1>1, <1>3, <1>7, <2>1, <2>2, ReturnFacts, LeaveTurn
<1>8. QED
  BY Zenon, <1>3, <1>6, <1>7 DEF RunTurn

(* A parked turn runs again.                                               *)
LEMMA ResumeTurnTurns ==
    ASSUME IInv, TurnsInv, NEW r \in Requests, ResumeTurn(r)
    PROVE  TurnsInv'
<1>1. UNCHANGED <<steps, faults>> /\ req[r].pc = "resumeTurn"
  BY Zenon DEF ResumeTurn, env, At
<1>2. req[r].pc \in ParkedLabels \ {"cancelTurn"}
  BY <1>1 DEF ParkedLabels
<1>3. CASE Return(r) /\ UNCHANGED turn
  BY Zenon, <1>1, <1>2, <1>3, UnparkTurns
<1>4. CASE /\ TransitionTurn(req[r].turn, "running")
           /\ req' = [req EXCEPT ![r].pc = "resumeStep", ![r].ver = @ + 1]
  <2>1. PICK t \in Turns : t = req[r].turn
    BY <1>2, Parked
  <2>2. PICK i : i = req[r].step
    OBVIOUS
  <2>3. /\ CompletedBut(t, i)
        /\ faults = 0 => steps[t][i].status = "waiting"
    BY Zenon, <1>2, <2>1, <2>2, Parked
  <2>4. /\ CompletedBut(t, i)'
        /\ faults = 0 => steps'[t][i].status = "waiting"
    BY <1>1, <2>3 DEF CompletedBut
  <2>5. IsOpen(t)
    BY Zenon, <1>2, <2>1, Parked, DrivenOpen
  <2>6. turn'[t].status = "running" /\ \A u \in Turns \ {t} : turn'[u] = turn[u]
    BY Zenon, <1>4, <2>1, <2>5, TransitionTurnRows, TurnStatusFacts
  <2>7. Advances(r, "resumeStep")
    BY Zenon, <1>4, VersionedMove
  <2>8. PICK l : l = "resumeStep"
    OBVIOUS
  <2>9. l \notin SettledLabels /\ l \notin AskLabels
    BY <2>8 DEF SettledLabels, AskLabels
  <2>10. /\ req'[r].pc = l /\ req'[r].turn = t /\ req'[r].step = i
         /\ req'[r].ctx = req[r].ctx
         /\ \A p \in Requests \ {r} : req'[p] = req[p]
    BY Zenon, <2>1, <2>2, <2>7, <2>8 DEF Advances
  <2>11. QED
    BY Zenon, <1>1, <2>1, <2>4, <2>6, <2>9, <2>10, DriveOn
<1>5. QED
  BY Zenon, <1>3, <1>4 DEF ResumeTurn

(* A turn is started.                                                      *)
LEMMA StartTurns ==
    ASSUME IInv, TurnsInv, NEW r \in Requests, RunStartTurn(r)
    PROVE  TurnsInv'
<1>1. UNCHANGED <<steps, faults>> /\ req[r].pc = "startTurn"
  BY Zenon DEF RunStartTurn, env, At
<1>2. req[r].pc \in FreeLabels
  BY <1>1 DEF FreeLabels
<1>3. CASE Return(r) /\ UNCHANGED turn
  BY Zenon, <1>1, <1>2, <1>3, FreeReturn
<1>4. ASSUME NEW t \in UnusedTurns, StartTurn(req[r].session, t),
             req' = [req EXCEPT ![r].pc = "runTurn", ![r].turn = t,
                                ![r].ver = 1]
      PROVE  TurnsInv'
  <2>1. t \in Turns /\ turn[t].status = "none" /\ req[r].turn = NoTurn
    BY <1>2, FreeRequest DEF UnusedTurns
  <2>2. /\ turn'[t].status = "queued"
        /\ \A u \in Turns \ {t} : turn'[u] = turn[u]
    <3>1. req[r].session \in Sessions /\ TypeOK
      BY DEF IInv, TypeOK, Request
    <3>2. QED
      BY Zenon, <1>4, <2>1, <3>1, StartTurnRows
  <2>3. /\ req'[r].pc = "runTurn" /\ req'[r].turn = t
        /\ req'[r].ctx = req[r].ctx
        /\ \A p \in Requests \ {r} : req'[p] = req[p]
    BY <1>4 DEF IInv, TypeOK, Request
  <2>4. "runTurn" \notin SettledLabels \cup WorkLabels
    BY QuietLabels
  <2>5. MovedOK(r, t)
    <3>1. DrivenStepsOK(req[r])'
      BY Zenon, <2>3, <2>4, StepLabels DEF DrivenStepsOK
    <3>2. AllCompleted(t)
      BY <2>1 DEF TurnsInv, StepsInv, StoredStepsOK
    <3>3. StoredStepsOK(t)'
      BY <1>1, <2>2, <3>2 DEF StoredStepsOK, AllCompleted
    <3>4. QED
      BY <3>1, <3>3 DEF MovedOK
  <2>6. ASSUME faults = 0
        PROVE  CalmMoveOK(r, t)
    <3>1. Live(r)'
      BY Zenon, <2>3, <2>6 DEF TurnsInv, CalmInv, Live
    <3>2. HeldStepWaits(req[r])'
      BY Zenon, <2>3, <2>4, StepLabels DEF HeldStepWaits
    <3>3. ParkedStepWaits(t)'
      BY <2>2 DEF ParkedStepWaits
    <3>4. QED
      BY Zenon, <2>3, <3>1, <3>2, <3>3 DEF CalmMoveOK
  <2>7. QED
    BY Zenon, <1>1, <2>1, <2>2, <2>3, <2>5, <2>6, TurnsFrame
<1>5. QED
  BY Zenon, <1>3, <1>4 DEF RunStartTurn

-----------------------------------------------------------------------------
(* Tools start and steps are appended.                                     *)

(* The tool of the step at hand starts.                                    *)
LEMMA StartToolTurns ==
    ASSUME IInv, TurnsInv, NEW r \in Requests, NEW t \in Turns,
           req[r].turn = t, req[r].pc \in WorkLabels,
           req[r].step \in 1..Len(steps[t]), StartTool(t, req[r].step),
           NEW l \in {"executing", "executingApproved"}, Goto(r, l),
           UNCHANGED <<turn, faults>>
    PROVE  TurnsInv'
<1>1. PICK i \in 1..Len(steps[t]) : i = req[r].step
  OBVIOUS
<1>2. steps \in [Turns -> Seq(Step)] /\ steps[t] \in Seq(Step)
  BY DEF IInv, TypeOK, StoreTypeOK
<1>3. steps' = [steps EXCEPT ![t] = WithRun(steps[t], i)]
  BY <1>1 DEF StartTool, WithRun
<1>4. PICK g : g = WithRun(steps[t], i)
  OBVIOUS
<1>5. steps'[t] = g /\ \A u \in Turns \ {t} : steps'[u] = steps[u]
  BY <1>2, <1>3, <1>4
<1>6. /\ Len(steps'[t]) = Len(steps[t])
      /\ \A j \in 1..Len(steps[t]) : steps'[t][j].status = steps[t][j].status
  <2>1. /\ Len(WithRun(steps[t], i)) = Len(steps[t])
        /\ \A j \in 1..Len(steps[t]) :
              WithRun(steps[t], i)[j].status = steps[t][j].status
    BY Zenon, <1>2, RunsUpdate
  <2>2. QED
    BY <1>4, <1>5, <2>1
<1>7. CompletedBut(t, i)
  BY Zenon, <1>1 DEF TurnsInv, StepsInv, DrivenStepsOK
<1>8. CompletedBut(t, i)'
  BY <1>6, <1>7 DEF CompletedBut
<1>9. /\ l \notin SettledLabels /\ l \notin AskLabels
      /\ l \notin {"waitTurn", "resumeStep"}
  BY DEF SettledLabels, AskLabels
<1>10. turn[t].status = "running"
  BY StepDriver
<1>11. Advances(r, l)
  BY Zenon, GotoFacts
<1>12. QED
  BY Zenon, <1>1, <1>5, <1>8, <1>9, <1>10, <1>11, DriveOn DEF Advances

(* A call is executed, gated, refused or abandoned.                        *)
LEMMA ExecuteTurns ==
    ASSUME IInv, TurnsInv, NEW r \in Requests, Execute(r)
    PROVE  TurnsInv'
<1>1. UNCHANGED <<turn, faults>> /\ req[r].pc = "execute"
  BY Zenon DEF Execute, env, At
<1>2. /\ req[r].pc \in RunLabels \ {"deferred"}
      /\ req[r].pc \in WorkLabels /\ req[r].pc \in AskLabels
  BY <1>1, RunFacts DEF WorkLabels, AskLabels
<1>3. CASE UNCHANGED steps /\ (Goto(r, "failStep") \/ Abort(r))
  BY Zenon, <1>1, <1>2, <1>3, AbortStep DEF Abort
<1>4. CASE UNCHANGED steps /\ Goto(r, "askApproval")
  BY Zenon, <1>1, <1>2, <1>4, GotoFacts, FollowFacts, AdvanceStep
<1>5. CASE StartTool(req[r].turn, req[r].step) /\ Goto(r, "executing")
  <2>1. PICK t \in Turns : t = req[r].turn
    BY <1>2, Running
  <2>2. req[r].step \in 1..Len(steps[t])
    BY Zenon, <1>2, <2>1, Running DEF DrivenStepsOK
  <2>3. QED
    BY Zenon, <1>1, <1>2, <1>5, <2>1, <2>2, StartToolTurns
<1>6. QED
  BY Zenon, <1>3, <1>4, <1>5 DEF Execute

(* The approved call is executed, or refused.                              *)
LEMMA ExecuteApprovedTurns ==
    ASSUME IInv, TurnsInv, NEW r \in Requests, ExecuteApproved(r)
    PROVE  TurnsInv'
<1>1. UNCHANGED <<turn, faults>> /\ req[r].pc = "executeApproved"
  BY Zenon DEF ExecuteApproved, env, At
<1>2. /\ req[r].pc \in RunLabels \ {"deferred"}
      /\ req[r].pc \in WorkLabels /\ req[r].pc \in DecidedLabels
  BY <1>1, RunFacts DEF WorkLabels, DecidedLabels, ConsumedLabels
<1>3. CASE UNCHANGED steps /\ Goto(r, "failApproved")
  BY Zenon, <1>1, <1>2, <1>3, AbortStep
<1>4. CASE StartTool(req[r].turn, req[r].step) /\ Goto(r, "executingApproved")
  <2>1. PICK t \in Turns : t = req[r].turn
    BY <1>2, Running
  <2>2. PICK a \in Approvals : a = req[r].approval
    BY Zenon, <1>2 DEF IInv, RequestsOK, RequestOK
  <2>3. Names(a, t, req[r].step)
    BY Zenon, <1>2, <2>1, <2>2, TurnsAssumption
       DEF IInv, RequestsOK, RequestOK, DecidedApprovalOK
  <2>4. req[r].step \in 1..Len(steps[t])
    BY Zenon, <2>3 DEF IInv, ApprovalsOK, Names
  <2>5. QED
    BY Zenon, <1>1, <1>2, <1>4, <2>1, <2>4, StartToolTurns
<1>5. QED
  BY Zenon, <1>3, <1>4 DEF ExecuteApproved

(* The appended step is running, and the turn's active one.                *)
LEMMA AppendedStep ==
    ASSUME IInv, NEW t \in Turns, NEW kind \in {"model"} \cup CallKind,
           AppendStep(t, kind)
    PROVE  turn'[t].activeStep = Len(steps[t]) + 1
<1>1. PICK n \in Nat : n = Len(steps[t]) + 1
  BY DEF IInv, TypeOK, StoreTypeOK
<1>2. PICK v : v = turn[t].version + 1
  OBVIOUS
<1>3. turn' = [turn EXCEPT ![t].activeStep = n, ![t].version = v]
  BY Zenon, <1>1, <1>2 DEF AppendStep
<1>4. turn'[t].activeStep = n
  BY <1>3 DEF IInv, TypeOK, StoreTypeOK, Turn
<1>5. QED
  BY <1>1, <1>4

(* The driver appends a step and goes on with it.                          *)
LEMMA AppendTurns ==
    ASSUME IInv, TurnsInv, NEW r \in Requests, req[r].pc \in SettledLabels,
           NEW t \in Turns, req[r].turn = t,
           NEW kind \in {"model"} \cup CallKind, AppendStep(t, kind),
           NEW l \in {"generate", "execute"}, NEW i \in Nat,
           i = Len(steps[t]) + 1,
           req'[r].pc = l, req'[r].turn = t, req'[r].step = i,
           req'[r].ctx = req[r].ctx,
           \A p \in Requests \ {r} : req'[p] = req[p],
           faults' = faults
    PROVE  TurnsInv'
<1>1. /\ turn'[t].status = turn[t].status
      /\ \A u \in Turns \ {t} : turn'[u] = turn[u] /\ steps'[u] = steps[u]
      /\ Len(steps[t]) \in Nat
      /\ Len(steps'[t]) = Len(steps[t]) + 1
      /\ \A j \in 1..Len(steps[t]) : steps'[t][j] = steps[t][j]
  BY Zenon, AppendStepRows
<1>2. turn'[t].activeStep = i
  BY Zenon, AppendedStep
<1>3. turn[t].status = "running"
  BY StepDriver
<1>4. AllCompleted(t)
  BY DEF TurnsInv, StepsInv, DrivenStepsOK
<1>5. CompletedBut(t, i)' /\ i \in 1..Len(steps'[t])
  BY <1>1, <1>4 DEF CompletedBut, AllCompleted
<1>6. l \notin SettledLabels /\ l \notin {"waitTurn", "resumeStep"}
  BY DEF SettledLabels
<1>7. turn'[t].status = "running"
  BY <1>1, <1>3
<1>8. QED
  BY Zenon, <1>1, <1>2, <1>5, <1>6, <1>7, DriveOn

(* AppendStep refused the caller, which drops its turn: only a cancelled   *)
(* request can be refused.                                                 *)
LEMMA LoseTurns ==
    ASSUME IInv, TurnsInv, NEW r \in Requests, req[r].pc \in SettledLabels,
           ~Live(r) \/ ~CanAppendStep(req[r].turn, req[r].ver),
           LoseTurn(r), UNCHANGED <<turn, steps, faults>>
    PROVE  TurnsInv'
<1>1. req[r].pc \in RunLabels \ {"deferred"}
  BY StepLabels
<1>2. PICK t \in Turns : t = req[r].turn
  BY <1>1, Running
<1>3. turn[t].status = "running" /\ "running" \notin TerminalStatus
  BY <1>1, <1>2, Running DEF TerminalStatus
<1>4. CanAppendStep(req[r].turn, req[r].ver)
  BY Zenon, <1>1, <1>2, <1>3, Running DEF CanAppendStep
<1>5. faults # 0
  BY Zenon, <1>1, <1>4, Running
<1>6. req'[r].pc = "deferred" /\ \A p \in Requests \ {r} : req'[p] = req[p]
  BY DEF IInv, TypeOK, Request, LoseTurn
<1>7. StoredStepsOK(t)'
  BY Zenon, <1>3 DEF StoredStepsOK, CompletedBut, AllCompleted, TurnsInv,
                     StepsInv
<1>8. QED
  BY Zenon, <1>2, <1>5, <1>6, <1>7, StepLabels, LeaveTurn

(* A model step is appended.                                               *)
LEMMA AppendModelTurns ==
    ASSUME IInv, TurnsInv, NEW r \in Requests, AppendModelStep(r)
    PROVE  TurnsInv'
<1>1. UNCHANGED faults /\ req[r].pc = "modelStep"
  BY Zenon DEF AppendModelStep, env, At
<1>2. req[r].pc \in SettledLabels /\ req[r].pc \in RunLabels \ {"deferred"}
  BY <1>1, RunFacts DEF SettledLabels
<1>3. PICK t \in Turns : t = req[r].turn
  BY <1>2, Running
<1>4. CASE /\ ~Live(r) \/ ~CanAppendStep(t, req[r].ver)
           /\ LoseTurn(r) /\ UNCHANGED <<turn, steps>>
  BY Zenon, <1>1, <1>2, <1>3, <1>4, LoseTurns
<1>5. CASE /\ AppendStep(t, "model")
           /\ req' = [req EXCEPT ![r].pc = "generate", ![r].ver = @ + 1,
                                 ![r].step = Len(steps[t]) + 1]
  <2>1. PICK i \in Nat : i = Len(steps[t]) + 1
    BY DEF IInv, TypeOK, StoreTypeOK
  <2>2. PICK v : v = req[r].ver + 1
    OBVIOUS
  <2>3. req' = [req EXCEPT ![r].pc = "generate", ![r].ver = v, ![r].step = i]
    BY Zenon, <1>5, <2>1, <2>2
  <2>4. /\ req'[r].pc = "generate" /\ req'[r].turn = t /\ req'[r].step = i
        /\ req'[r].ctx = req[r].ctx
        /\ \A p \in Requests \ {r} : req'[p] = req[p]
    BY <1>3, <2>3 DEF IInv, TypeOK, Request
  <2>5. AppendStep(t, "model")
    BY <1>5
  <2>6. QED
    BY Zenon, <1>1, <1>2, <1>3, <2>1, <2>4, <2>5, AppendTurns
<1>6. QED
  BY Zenon, <1>3, <1>4, <1>5 DEF AppendModelStep

(* A tool step is appended.                                                *)
LEMMA AppendToolTurns ==
    ASSUME IInv, TurnsInv, NEW r \in Requests, AppendToolStep(r)
    PROVE  TurnsInv'
<1>1. UNCHANGED faults /\ req[r].pc = "call"
  BY Zenon DEF AppendToolStep, env, At
<1>2. /\ req[r].pc \in SettledLabels /\ req[r].pc \in RunLabels \ {"deferred"}
      /\ req[r].pc \in CallLabels
  BY <1>1, RunFacts DEF SettledLabels, CallLabels
<1>3. PICK t \in Turns : t = req[r].turn
  BY <1>2, Running
<1>4. CASE /\ ~Live(r) \/ ~CanAppendStep(t, req[r].ver)
           /\ LoseTurn(r) /\ UNCHANGED <<turn, steps>>
  BY Zenon, <1>1, <1>2, <1>3, <1>4, LoseTurns
<1>5. CASE Abort(r) /\ UNCHANGED <<turn, steps>>
  BY Zenon, <1>1, <1>2, <1>5, AbortStep DEF Abort
<1>6. CASE /\ AppendStep(t, Head(req[r].calls))
           /\ req' = [req EXCEPT ![r].pc = "execute", ![r].ver = @ + 1,
                                 ![r].step = Len(steps[t]) + 1]
  <2>1. PICK i \in Nat : i = Len(steps[t]) + 1
    BY DEF IInv, TypeOK, StoreTypeOK
  <2>2. PICK v : v = req[r].ver + 1
    OBVIOUS
  <2>3. req' = [req EXCEPT ![r].pc = "execute", ![r].ver = v, ![r].step = i]
    BY Zenon, <1>6, <2>1, <2>2
  <2>4. req[r].calls \in Seq(CallKind) /\ req[r].calls # <<>>
    BY <1>2 DEF IInv, TypeOK, Request, RequestsOK, RequestOK
  <2>5. Head(req[r].calls) \in {"model"} \cup CallKind
    BY <2>4, HeadTailProperties
  <2>6. PICK kind \in {"model"} \cup CallKind : kind = Head(req[r].calls)
    BY Zenon, <2>5
  <2>7. /\ req'[r].pc = "execute" /\ req'[r].turn = t /\ req'[r].step = i
        /\ req'[r].ctx = req[r].ctx
        /\ \A p \in Requests \ {r} : req'[p] = req[p]
    BY <1>3, <2>3 DEF IInv, TypeOK, Request
  <2>8. AppendStep(t, kind)
    BY <1>6, <2>6
  <2>9. QED
    BY Zenon, <1>1, <1>2, <1>3, <2>1, <2>7, <2>8, AppendTurns
<1>7. QED
  BY Zenon, <1>3, <1>4, <1>5, <1>6 DEF AppendToolStep

-----------------------------------------------------------------------------
(* The environment.                                                        *)

(* Steps that touch neither turns, steps, requests nor the fault count.    *)
LEMMA RowsKept ==
    ASSUME TurnsInv, UNCHANGED <<turn, steps, req, faults>>
    PROVE  TurnsInv'
<1>1. StepsInv'
  BY Zenon DEF TurnsInv, StepsInv, StoredStepsOK, DrivenStepsOK, AllCompleted,
               CompletedBut
<1>2. CalmInv'
  BY Zenon DEF TurnsInv, CalmInv, ParkedStepWaits, HeldStepWaits, Cancelling,
               Live
<1>3. QED
  BY <1>1, <1>2 DEF TurnsInv

(* After a fault only what holds of the steps remains.                     *)
LEMMA FaultTurns ==
    ASSUME IInv, TurnsInv, UNCHANGED <<turn, steps>>, faults' = faults + 1,
           \A p \in Requests :
              \/ /\ req'[p].pc = req[p].pc /\ req'[p].turn = req[p].turn
                 /\ req'[p].step = req[p].step
              \/ req'[p].pc \in FreeLabels
    PROVE  TurnsInv'
<1>1. CalmInv'
  <2>1. faults' # 0
    BY DEF IInv, TypeOK
  <2>2. QED
    BY <2>1 DEF CalmInv
<1>2. \A t \in Turns : StoredStepsOK(t)'
  BY Zenon DEF TurnsInv, StepsInv, StoredStepsOK, AllCompleted, CompletedBut
<1>3. ASSUME NEW p \in Requests
      PROVE  DrivenStepsOK(req[p])'
  <2>1. CASE req'[p].pc \in FreeLabels
    <3>1. req'[p].pc \notin SettledLabels \cup WorkLabels
      BY <2>1, QuietLabels
    <3>2. QED
      BY Zenon, <3>1, StepLabels DEF DrivenStepsOK
  <2>2. CASE /\ req'[p].pc = req[p].pc /\ req'[p].turn = req[p].turn
             /\ req'[p].step = req[p].step
    BY Zenon, <2>2 DEF TurnsInv, StepsInv, DrivenStepsOK, AllCompleted,
                       CompletedBut
  <2>3. QED
    BY Zenon, <2>1, <2>2
<1>4. QED
  BY <1>1, <1>2, <1>3 DEF TurnsInv, StepsInv

(* The browser goes away, or the manager stops.                            *)
LEMMA FaultsTurns ==
    ASSUME IInv, TurnsInv, Crash \/ \E r \in Requests : Disconnect(r)
    PROVE  TurnsInv'
<1>1. CASE Crash
  <2>1. \A p \in Requests : req'[p] = NoRequest
    BY Zenon, <1>1 DEF Crash
  <2>2. NoRequest.pc \in FreeLabels
    BY IdleRequest DEF FreeLabels
  <2>3. UNCHANGED <<turn, steps>> /\ faults' = faults + 1
    BY Zenon, <1>1 DEF Crash, stored
  <2>4. QED
    BY Zenon, <2>1, <2>2, <2>3, FaultTurns
<1>2. ASSUME NEW r \in Requests, Disconnect(r)
      PROVE  TurnsInv'
  <2>1. UNCHANGED <<turn, steps>> /\ faults' = faults + 1
    BY Zenon, <1>2 DEF Disconnect, stored
  <2>2. ASSUME NEW p \in Requests
        PROVE  /\ req'[p].pc = req[p].pc /\ req'[p].turn = req[p].turn
               /\ req'[p].step = req[p].step
    BY <1>2 DEF Disconnect, IInv, TypeOK, Request
  <2>3. QED
    BY Zenon, <2>1, <2>2, FaultTurns
<1>3. QED
  BY Zenon, <1>1, <1>2

(* A new store has no turns and no requests.                               *)
LEMMA InitTurns == Init => TurnsInv
<1> SUFFICES ASSUME Init
             PROVE  TurnsInv
  OBVIOUS
<1>1. \A t \in Turns : turn[t].status = "none" /\ steps[t] = <<>>
  BY DEF Init, StoreInit
<1>2. \A r \in Requests : req[r] = NoRequest
  BY DEF Init
<1>3. /\ NoRequest.pc \notin SettledLabels \cup WorkLabels
      /\ NoRequest.ctx = "live"
  BY IdleRequest DEF SettledLabels, WorkLabels, NoRequest
<1>4. StepsInv
  <2>1. \A t \in Turns : StoredStepsOK(t)
    BY <1>1 DEF StoredStepsOK, AllCompleted, CompletedBut
  <2>2. \A r \in Requests : DrivenStepsOK(req[r])
    BY Zenon, <1>2, <1>3, StepLabels DEF DrivenStepsOK
  <2>3. QED
    BY <2>1, <2>2 DEF StepsInv
<1>5. CalmInv
  <2>1. \A r \in Requests : Live(r) /\ HeldStepWaits(req[r])
    BY Zenon, <1>2, <1>3, StepLabels DEF Live, HeldStepWaits
  <2>2. \A t \in Turns : /\ turn[t].status \notin {"queued", "running"}
                         /\ ParkedStepWaits(t)
    BY <1>1 DEF ParkedStepWaits
  <2>3. QED
    BY Zenon, <2>1, <2>2 DEF CalmInv
<1>6. QED
  BY <1>4, <1>5 DEF TurnsInv

(* Every step keeps what is known of the turns' steps.                     *)
LEMMA NextTurns == IInv /\ TurnsInv /\ [Next]_vars => TurnsInv'
<1> SUFFICES ASSUME IInv, TurnsInv, [Next]_vars
             PROVE  TurnsInv'
  OBVIOUS
<1>1. ASSUME NEW r \in Requests, NewTurnStep(r) \/ ArchiveSession(r)
      PROVE  TurnsInv'
  BY Zenon, <1>1, ArchiveTurns, StartTurns, RunTurnTurns, PromptTurns
     DEF NewTurnStep
<1>2. ASSUME NEW r \in Requests, ModelStep(r)
      PROVE  TurnsInv'
  BY Zenon, <1>2, ModelTurns, AppendModelTurns, CompleteTurns,
     CompleteTurnTurns DEF ModelStep
<1>3. ASSUME NEW r \in Requests, ToolStep(r)
      PROVE  TurnsInv'
  BY Zenon, <1>3, AppendToolTurns, ExecuteTurns, ToolTurns, CompleteTurns,
     WaitStepTurns, WaitTurnTurns DEF ToolStep
<1>4. ASSUME NEW r \in Requests, ErrorStep(r)
      PROVE  TurnsInv'
  BY Zenon, <1>4, FailStepTurns, FailTurnTurns DEF ErrorStep
<1>5. ASSUME NEW r \in Requests, ApprovedStep(r)
      PROVE  TurnsInv'
  BY Zenon, <1>5, DecideTurns, ReadTurns, ConsumeTurns, ResumeTurnTurns,
     ResumeStepTurns, ExecuteApprovedTurns, ApprovedToolTurns, CompleteTurns
     DEF ApprovedStep
<1>6. ASSUME NEW r \in Requests, DeniedStep(r)
      PROVE  TurnsInv'
  BY Zenon, <1>6, ReadTurns, CancelStepTurns, CancelTurnTurns DEF DeniedStep
<1>7. CASE \/ \E s \in Sessions : CreateSession(s) \/ CloseConnection(s)
           \/ \E a \in Approvals : Lapse(a)
           \/ UNCHANGED vars
  <2>1. UNCHANGED <<turn, steps, req, faults>>
    BY Zenon, <1>7 DEF CreateSession, CloseConnection, Lapse, vars, stored, env
  <2>2. QED
    BY Zenon, <2>1, RowsKept
<1>8. ASSUME NEW r \in Requests, Begin(r)
      PROVE  TurnsInv'
  BY Zenon, <1>8, BeginTurns
<1>9. QED
  BY Zenon, <1>1, <1>2, <1>3, <1>4, <1>5, <1>6, <1>7, <1>8, FaultsTurns
     DEF Next, RequestStep

-----------------------------------------------------------------------------
(* Finished turns.                                                         *)

SameTurn(u) ==
    turn'[u] = turn[u] /\ steps'[u] = steps[u] /\ unpaired'[u] = unpaired[u]

(* The calls of the loop on a turn's row, its steps and its messages.      *)
LEMMA OneTurnTouched ==
    ASSUME IInv, NEW t, NEW u \in Turns, u # t
    PROVE  /\ \A to : TransitionTurn(t, to) => turn'[u] = turn[u]
           /\ \A k : AppendStep(t, k) => turn'[u] = turn[u]
                                         /\ steps'[u] = steps[u]
           /\ \A i, to : TransitionStep(t, i, to) => steps'[u] = steps[u]
           /\ \A i : StartTool(t, i) => steps'[u] = steps[u]
           /\ \A n : unpaired' = [unpaired EXCEPT ![t] = n] =>
                        unpaired'[u] = unpaired[u]
           /\ \A s : StartTurn(s, t) => turn'[u] = turn[u]
<1>0. /\ turn \in [Turns -> Turn] /\ steps \in [Turns -> Seq(Step)]
      /\ unpaired \in [Turns -> Int]
  BY DEF IInv, TypeOK, StoreTypeOK
<1>1. ASSUME NEW to, TransitionTurn(t, to)
      PROVE  turn'[u] = turn[u]
  <2>1. PICK x : turn' = [turn EXCEPT ![t] = x]
    BY Zenon, <1>1 DEF TransitionTurn
  <2>2. QED
    BY <1>0, <2>1
<1>2. ASSUME NEW k, AppendStep(t, k)
      PROVE  turn'[u] = turn[u] /\ steps'[u] = steps[u]
  <2>1. PICK x, y : /\ turn' = [turn EXCEPT ![t] = x]
                    /\ steps' = [steps EXCEPT ![t] = y]
    BY Zenon, <1>2 DEF AppendStep
  <2>2. QED
    BY <1>0, <2>1
<1>3. ASSUME NEW i, NEW to, TransitionStep(t, i, to)
      PROVE  steps'[u] = steps[u]
  <2>1. PICK y : steps' = [steps EXCEPT ![t] = y]
    BY Zenon, <1>3 DEF TransitionStep
  <2>2. QED
    BY <1>0, <2>1
<1>4. ASSUME NEW i, StartTool(t, i)
      PROVE  steps'[u] = steps[u]
  <2>1. PICK y : steps' = [steps EXCEPT ![t] = y]
    BY Zenon, <1>4 DEF StartTool
  <2>2. QED
    BY <1>0, <2>1
<1>5. ASSUME NEW n, unpaired' = [unpaired EXCEPT ![t] = n]
      PROVE  unpaired'[u] = unpaired[u]
  BY <1>0, <1>5
<1>6. ASSUME NEW s, StartTurn(s, t)
      PROVE  turn'[u] = turn[u]
  <2>1. PICK x : turn' = [turn EXCEPT ![t] = x]
    BY Zenon, <1>6 DEF StartTurn
  <2>2. QED
    BY <1>0, <2>1
<1>7. QED
  BY Zenon, <1>1, <1>2, <1>3, <1>4, <1>5, <1>6

(* A request touches the turn it drives, or a new one.                     *)
LEMMA OwnTurnTouched ==
    ASSUME IInv, NEW r \in Requests, RequestStep(r),
           NEW u \in Turns, u # req[r].turn, turn[u].status # "none"
    PROVE  SameTurn(u)
<1> USE DEF SameTurn, stored
<1>1. PICK t : t = req[r].turn
  OBVIOUS
<1>2. /\ \A to : TransitionTurn(t, to) => turn'[u] = turn[u]
      /\ \A k : AppendStep(t, k) => turn'[u] = turn[u] /\ steps'[u] = steps[u]
      /\ \A i, to : TransitionStep(t, i, to) => steps'[u] = steps[u]
      /\ \A i : StartTool(t, i) => steps'[u] = steps[u]
      /\ \A n : unpaired' = [unpaired EXCEPT ![t] = n] =>
                   unpaired'[u] = unpaired[u]
  <2>1. u # t
    BY <1>1
  <2>2. /\ \A to : TransitionTurn(t, to) => turn'[u] = turn[u]
        /\ \A k : AppendStep(t, k) => turn'[u] = turn[u]
                                      /\ steps'[u] = steps[u]
    BY Zenon, <2>1, OneTurnTouched
  <2>3. /\ \A i, to : TransitionStep(t, i, to) => steps'[u] = steps[u]
        /\ \A i : StartTool(t, i) => steps'[u] = steps[u]
    BY Zenon, <2>1, OneTurnTouched
  <2>4. \A n : unpaired' = [unpaired EXCEPT ![t] = n] =>
                  unpaired'[u] = unpaired[u]
    BY <2>1, OneTurnTouched
  <2>5. QED
    BY Zenon, <2>2, <2>3, <2>4
<1>3. ASSUME NewTurnStep(r) \/ ArchiveSession(r)
      PROVE  SameTurn(u)
  <2>1. CASE RunStartTurn(r)
    <3>1. CASE UNCHANGED turn
      BY Zenon, <2>1, <3>1 DEF RunStartTurn
    <3>2. ASSUME NEW x \in UnusedTurns, StartTurn(req[r].session, x)
          PROVE  SameTurn(u)
      <4>1. u # x
        BY DEF UnusedTurns
      <4>2. turn'[u] = turn[u]
        BY Zenon, <3>2, <4>1, OneTurnTouched
      <4>3. QED
        BY Zenon, <2>1, <4>2 DEF RunStartTurn
    <3>3. QED
      BY Zenon, <2>1, <3>1, <3>2 DEF RunStartTurn
  <2>2. CASE RunTurn(r)
    BY Zenon, <1>1, <1>2, <2>2 DEF RunTurn
  <2>3. CASE AppendPrompt(r) \/ RestoreHistory(r) \/ ArchiveSession(r)
    BY Zenon, <2>3 DEF AppendPrompt, RestoreHistory, ArchiveSession
  <2>4. QED
    BY Zenon, <1>3, <2>1, <2>2, <2>3 DEF NewTurnStep
<1>4. ASSUME ModelStep(r)
      PROVE  SameTurn(u)
  <2>1. CASE PrepareModelStep(r) \/ Generate(r)
    BY Zenon, <2>1 DEF PrepareModelStep, Generate
  <2>2. CASE AppendModelStep(r)
    BY Zenon, <1>1, <1>2, <2>2 DEF AppendModelStep
  <2>3. CASE CompleteModelStep(r)
    BY Zenon, <1>1, <1>2, <2>3 DEF CompleteModelStep
  <2>4. CASE AppendAnswer(r)
    BY Zenon, <1>1, <1>2, <2>4 DEF AppendAnswer
  <2>5. CASE CompleteTurn(r)
    BY Zenon, <1>1, <1>2, <2>5 DEF CompleteTurn
  <2>6. QED
    BY Zenon, <1>4, <2>1, <2>2, <2>3, <2>4, <2>5 DEF ModelStep
<1>5. ASSUME ToolStep(r)
      PROVE  SameTurn(u)
  <2>1. CASE AppendToolStep(r)
    BY Zenon, <1>1, <1>2, <2>1 DEF AppendToolStep
  <2>2. CASE Execute(r)
    BY Zenon, <1>1, <1>2, <2>2 DEF Execute
  <2>3. CASE ToolReturns(r) \/ AskApproval(r)
    BY Zenon, <2>3 DEF ToolReturns, AskApproval
  <2>4. CASE CompleteToolStep(r)
    BY Zenon, <1>1, <1>2, <2>4 DEF CompleteToolStep
  <2>5. CASE AppendToolMessage(r)
    BY Zenon, <1>1, <1>2, <2>5 DEF AppendToolMessage
  <2>6. CASE WaitStepApproval(r)
    BY Zenon, <1>1, <1>2, <2>6 DEF WaitStepApproval
  <2>7. CASE WaitTurnApproval(r)
    BY Zenon, <1>1, <1>2, <2>7 DEF WaitTurnApproval
  <2>8. QED
    BY Zenon, <1>5, <2>1, <2>2, <2>3, <2>4, <2>5, <2>6, <2>7 DEF ToolStep
<1>6. ASSUME ErrorStep(r)
      PROVE  SameTurn(u)
  <2>1. CASE FailStep(r)
    BY Zenon, <1>1, <1>2, <2>1 DEF FailStep, TransitionStep
  <2>2. CASE failTurn(r) \/ DeferredFail(r)
    BY Zenon, <1>1, <1>2, <2>2 DEF failTurn, DeferredFail
  <2>3. QED
    BY Zenon, <1>6, <2>1, <2>2 DEF ErrorStep
<1>7. ASSUME ApprovedStep(r)
      PROVE  SameTurn(u)
  <2>1. CASE Decide(r) \/ ReadForResume(r) \/ Consume(r)
             \/ ApprovedToolReturns(r)
    BY Zenon, <2>1 DEF Decide, ReadForResume, Consume, ApprovedToolReturns
  <2>2. CASE ResumeTurn(r)
    BY Zenon, <1>1, <1>2, <2>2 DEF ResumeTurn
  <2>3. CASE ResumeStep(r) \/ ExecuteApproved(r)
    BY Zenon, <1>1, <1>2, <2>3 DEF ResumeStep, ExecuteApproved
  <2>4. CASE CompleteApprovedStep(r) \/ AppendApprovedMessage(r)
    BY Zenon, <1>1, <1>2, <2>4 DEF CompleteApprovedStep, AppendApprovedMessage
  <2>5. QED
    BY Zenon, <1>7, <2>1, <2>2, <2>3, <2>4 DEF ApprovedStep
<1>8. ASSUME DeniedStep(r)
      PROVE  SameTurn(u)
  BY Zenon, <1>1, <1>2, <1>8 DEF DeniedStep, ReadForDenial, CancelStep,
                                 CancelTurn
<1>9. QED
  BY Zenon, <1>3, <1>4, <1>5, <1>6, <1>7, <1>8 DEF RequestStep

-----------------------------------------------------------------------------
(* The contract.                                                           *)

(* The phase of a turn, by its status.                                     *)
LEMMA PhaseFacts ==
    ASSUME NEW t
    PROVE  /\ turn[t].status = "none" => SessionPhase(t) = "fresh"
           /\ turn[t].status \in OpenStatus => SessionPhase(t) = "open"
           /\ turn[t].status \in TerminalStatus => SessionPhase(t) = "finished"
BY DEF SessionPhase, OpenStatus, TerminalStatus

(* After a step too.                                                       *)
LEMMA PhaseFactsNext ==
    ASSUME NEW t
    PROVE  /\ turn'[t].status = "none" => SessionPhase(t)' = "fresh"
           /\ turn'[t].status \in OpenStatus => SessionPhase(t)' = "open"
           /\ turn'[t].status \in TerminalStatus =>
                 SessionPhase(t)' = "finished"
BY DEF SessionPhase, OpenStatus, TerminalStatus

(* Sessions and phases as they were: the contract stutters.                *)
LEMMA ContractStutter ==
    ASSUME \A s \in Sessions : /\ session'[s].status = session[s].status
                               /\ session'[s].active = session[s].active,
           \A t \in Turns : SessionPhase(t)' = SessionPhase(t)
    PROVE  UNCHANGED Contract!vars
BY DEF Contract!vars

(* Rows that are not touched keep their phase.                             *)
LEMMA PhaseKept ==
    ASSUME NEW t, turn'[t].status = turn[t].status
    PROVE  SessionPhase(t)' = SessionPhase(t)
BY DEF SessionPhase

(* A turn moves on within its session, or ends and frees it.               *)
LEMMA TransitionContract ==
    ASSUME IInv, NEW t \in Turns, IsOpen(t),
           NEW to \in OpenStatus \cup TerminalStatus, TransitionTurn(t, to)
    PROVE  [Contract!Next]_(Contract!vars)
<1>1. PICK s \in Sessions : s = turn[t].session
  BY DEF IInv, TypeOK, StoreTypeOK, Turn
<1>2. to \in TurnStatus
  BY DEF TurnStatus
<1>3. /\ turn'[t].status = to
      /\ \A u \in Turns \ {t} : turn'[u] = turn[u]
      /\ \A z \in Sessions \ {s} : session'[z] = session[z]
      /\ to \notin TerminalStatus => session'[s] = session[s]
      /\ to \in TerminalStatus =>
            /\ session'[s].active = NoTurn
            /\ session'[s].status = session[s].status
  BY Zenon, <1>1, <1>2, TransitionTurnRows
<1>4. \A u \in Turns \ {t} : SessionPhase(u)' = SessionPhase(u)
  BY Zenon, <1>3, PhaseKept
<1>5. SessionPhase(t) = "open"
  BY PhaseFacts DEF IsOpen
<1>6. CASE to \in OpenStatus
  <2>1. to \notin TerminalStatus
    BY <1>6 DEF OpenStatus, TerminalStatus
  <2>2. SessionPhase(t)' = "open"
    BY Zenon, <1>3, <1>6, PhaseFactsNext
  <2>3. QED
    BY Zenon, <1>3, <1>4, <1>5, <2>1, <2>2, ContractStutter
<1>7. CASE to \in TerminalStatus
  <2>1. SessionPhase(t)' = "finished"
    BY Zenon, <1>3, <1>7, PhaseFactsNext
  <2>2. session[s].active = t
    BY Zenon, <1>1 DEF IInv, ActiveTurnLock
  <2>3. [z \in Sessions |-> session[z].active]' =
          [[z \in Sessions |-> session[z].active] EXCEPT ![s] = NoTurn]
    BY <1>3, <1>7
  <2>4. [u \in Turns |-> SessionPhase(u)]' =
          [[u \in Turns |-> SessionPhase(u)] EXCEPT ![t] = "finished"]
    BY <1>4, <2>1
  <2>5. [z \in Sessions |-> session[z].status]' =
          [z \in Sessions |-> session[z].status]
    BY <1>3, <1>7
  <2>6. Contract!Finish(s, t)
    BY <1>5, <2>2, <2>3, <2>4, <2>5 DEF Contract!Finish
  <2>7. QED
    BY Zenon, <2>6 DEF Contract!Next
<1>8. QED
  BY <1>6, <1>7

(* A turn starts in a free session.                                        *)
LEMMA StartContract ==
    ASSUME IInv, NEW s \in Sessions, NEW t \in UnusedTurns,
           CanStartTurn(s), StartTurn(s, t)
    PROVE  Contract!Next
<1>1. t \in Turns /\ turn[t].status = "none" /\ TypeOK
  BY DEF UnusedTurns, IInv
<1>2. /\ turn'[t].status = "queued"
      /\ \A u \in Turns \ {t} : turn'[u] = turn[u]
      /\ \A z \in Sessions \ {s} : session'[z] = session[z]
      /\ session'[s].active = t
      /\ session'[s].status = session[s].status
  BY Zenon, <1>1, StartTurnRows
<1>3. \A u \in Turns \ {t} : SessionPhase(u)' = SessionPhase(u)
  BY Zenon, <1>2, PhaseKept
<1>4. SessionPhase(t) = "fresh" /\ SessionPhase(t)' = "open"
  BY <1>1, <1>2, PhaseFacts, PhaseFactsNext DEF OpenStatus
<1>5. [z \in Sessions |-> session[z].active]' =
        [[z \in Sessions |-> session[z].active] EXCEPT ![s] = t]
  BY <1>2
<1>6. [u \in Turns |-> SessionPhase(u)]' =
        [[u \in Turns |-> SessionPhase(u)] EXCEPT ![t] = "open"]
  BY <1>3, <1>4
<1>7. [z \in Sessions |-> session[z].status]' =
        [z \in Sessions |-> session[z].status]
  BY <1>2
<1>8. Contract!Start(s, t)
  BY <1>1, <1>4, <1>5, <1>6, <1>7 DEF Contract!Start, CanStartTurn
<1>9. QED
  BY Zenon, <1>1, <1>8 DEF Contract!Next

(* The status of one session changes, and nothing else the contract sees.  *)
LEMMA StatusContract ==
    ASSUME NEW s \in Sessions, NEW to,
           session[s].active = NoTurn, session'[s].active = NoTurn,
           session'[s].status = to,
           \A z \in Sessions \ {s} : session'[z] = session[z],
           UNCHANGED turn,
           \/ to = "active" /\ session[s].status = "none"
           \/ to = "archived" /\ session[s].status # "none"
    PROVE  Contract!Next
<1>1. [z \in Sessions |-> session[z].status]' =
        [[z \in Sessions |-> session[z].status] EXCEPT ![s] = to]
  OBVIOUS
<1>2. [z \in Sessions |-> session[z].active]' =
        [z \in Sessions |-> session[z].active]
  OBVIOUS
<1>3. [u \in Turns |-> SessionPhase(u)]' = [u \in Turns |-> SessionPhase(u)]
  BY PhaseKept
<1>4. Contract!Create(s) \/ Contract!Archive(s)
  BY <1>1, <1>2, <1>3 DEF Contract!Create, Contract!Archive
<1>5. QED
  BY Zenon, <1>4 DEF Contract!Next

(* Creating a session.                                                     *)
LEMMA CreateContract ==
    ASSUME IInv, NEW s \in Sessions, CreateSession(s)
    PROVE  Contract!Next
<1>1. session[s].active = NoTurn
  BY Zenon DEF IInv, ActiveTurnLock, CreateSession
<1>2. /\ session'[s].status = "active" /\ session'[s].active = NoTurn
      /\ \A z \in Sessions \ {s} : session'[z] = session[z]
      /\ session[s].status = "none" /\ UNCHANGED turn
  BY DEF CreateSession, IInv, TypeOK, StoreTypeOK
<1>3. QED
  BY <1>1, <1>2, StatusContract

(* Archiving a session: the version the request read still protects it.    *)
LEMMA ArchiveContract ==
    ASSUME IInv, NEW r \in Requests, ArchiveSession(r)
    PROVE  Contract!Next \/ UNCHANGED <<session, turn>>
<1>1. PICK s \in Sessions : s = req[r].session
  BY DEF IInv, TypeOK, Request
<1>2. UNCHANGED turn
  BY Zenon DEF ArchiveSession
<1>3. CASE /\ session[s].version = req[r].ver
           /\ session' = [session EXCEPT ![s].status = "archived",
                                         ![s].version = @ + 1]
  <2>1. ArchiveOK(req[r])
    BY Zenon DEF ArchiveSession, At, IInv, RequestsOK, RequestOK
  <2>2. session[s].status # "none" /\ session[s].active = NoTurn
    BY Zenon, <1>1, <1>3, <2>1 DEF ArchiveOK
  <2>3. PICK v : v = session[s].version + 1
    OBVIOUS
  <2>4. session' = [session EXCEPT ![s].status = "archived", ![s].version = v]
    BY Zenon, <1>3, <2>3
  <2>5. /\ session'[s].status = "archived" /\ session'[s].active = NoTurn
        /\ \A z \in Sessions \ {s} : session'[z] = session[z]
    BY <2>2, <2>4 DEF IInv, TypeOK, StoreTypeOK, Session
  <2>6. QED
    BY <1>2, <2>2, <2>5, StatusContract
<1>4. CASE UNCHANGED session
  BY <1>2, <1>4
<1>5. QED
  BY Zenon, <1>1, <1>3, <1>4 DEF ArchiveSession

(* What one step of a request does to sessions and turns.                  *)
LEMMA RequestShape ==
    ASSUME NEW r \in Requests, RequestStep(r)
    PROVE  \/ UNCHANGED <<session, turn>>
           \/ ArchiveSession(r)
           \/ RunStartTurn(r)
           \/ \E k : AppendStep(req[r].turn, k) /\ UNCHANGED session
           \/ \E to \in OpenStatus \cup TerminalStatus :
                 /\ req[r].turn # NoTurn
                 /\ TransitionTurn(req[r].turn, to)
<1>1. \A to \in {"running", "waiting", "completed", "cancelled", "failed"} :
         to \in OpenStatus \cup TerminalStatus
  BY DEF OpenStatus, TerminalStatus
<1>2. CASE RunTurn(r) \/ CompleteTurn(r) \/ WaitTurnApproval(r)
  BY Zenon, <1>1, <1>2
     DEF RunTurn, CompleteTurn, WaitTurnApproval, CanTransitionTurn
<1>3. CASE failTurn(r) \/ DeferredFail(r)
  BY Zenon, <1>1, <1>3 DEF failTurn, DeferredFail, CanTransitionTurn
<1>4. CASE CancelTurn(r) \/ ResumeTurn(r)
  BY Zenon, <1>1, <1>4 DEF CancelTurn, ResumeTurn, CanTransitionTurn
<1>5. CASE AppendModelStep(r) \/ AppendToolStep(r)
  BY Zenon, <1>5 DEF AppendModelStep, AppendToolStep
<1>6. CASE \/ AppendPrompt(r) \/ RestoreHistory(r) \/ PrepareModelStep(r)
           \/ Generate(r) \/ CompleteModelStep(r) \/ AppendAnswer(r)
  BY Zenon, <1>6 DEF AppendPrompt, RestoreHistory, PrepareModelStep, Generate,
                     CompleteModelStep, AppendAnswer, stored
<1>7. CASE \/ Execute(r) \/ ToolReturns(r) \/ CompleteToolStep(r)
           \/ AppendToolMessage(r) \/ AskApproval(r) \/ WaitStepApproval(r)
           \/ FailStep(r)
  BY Zenon, <1>7 DEF Execute, ToolReturns, CompleteToolStep,
     AppendToolMessage, AskApproval, WaitStepApproval, FailStep, stored
<1>8. CASE \/ Decide(r) \/ ReadForResume(r) \/ Consume(r) \/ ResumeStep(r)
           \/ ExecuteApproved(r) \/ ApprovedToolReturns(r)
           \/ CompleteApprovedStep(r) \/ AppendApprovedMessage(r)
  BY Zenon, <1>8 DEF Decide, ReadForResume, Consume, ResumeStep,
     ExecuteApproved, ApprovedToolReturns, CompleteApprovedStep,
     AppendApprovedMessage, stored
<1>9. CASE ReadForDenial(r) \/ CancelStep(r)
  BY Zenon, <1>9 DEF ReadForDenial, CancelStep, stored
<1>10. QED
  BY Zenon, <1>2, <1>3, <1>4, <1>5, <1>6, <1>7, <1>8, <1>9
     DEF RequestStep, NewTurnStep, ModelStep, ToolStep, ErrorStep,
         ApprovedStep, DeniedStep

(* One step of a request is a step of the contract, or none.               *)
LEMMA RequestContract ==
    ASSUME IInv, NEW r \in Requests, RequestStep(r)
    PROVE  [Contract!Next]_(Contract!vars)
<1>1. CASE UNCHANGED <<session, turn>>
  BY Zenon, <1>1, PhaseKept, ContractStutter
<1>2. CASE ArchiveSession(r)
  BY Zenon, <1>1, <1>2, ArchiveContract
<1>3. CASE RunStartTurn(r)
  <2>1. req[r].session \in Sessions
    BY DEF IInv, TypeOK, Request
  <2>2. \/ UNCHANGED <<session, turn>>
        \/ /\ CanStartTurn(req[r].session)
           /\ \E t \in UnusedTurns : StartTurn(req[r].session, t)
    BY Zenon, <1>3 DEF RunStartTurn
  <2>3. QED
    BY Zenon, <1>1, <2>1, <2>2, StartContract
<1>4. ASSUME NEW k, AppendStep(req[r].turn, k), UNCHANGED session
      PROVE  [Contract!Next]_(Contract!vars)
  <2>1. PICK t : t = req[r].turn
    OBVIOUS
  <2>2. PICK i, v : turn' = [turn EXCEPT ![t].activeStep = i, ![t].version = v]
    BY Zenon, <1>4, <2>1 DEF AppendStep
  <2>3. \A u \in Turns : turn'[u].status = turn[u].status
    BY <2>2 DEF IInv, TypeOK, StoreTypeOK, Turn
  <2>4. QED
    BY Zenon, <1>4, <2>3, PhaseKept, ContractStutter
<1>5. ASSUME NEW to \in OpenStatus \cup TerminalStatus, req[r].turn # NoTurn,
             TransitionTurn(req[r].turn, to)
      PROVE  [Contract!Next]_(Contract!vars)
  BY Zenon, <1>5, DrivenOpen, TransitionContract
<1>6. QED
  BY Zenon, <1>1, <1>2, <1>3, <1>4, <1>5, RequestShape

=============================================================================
