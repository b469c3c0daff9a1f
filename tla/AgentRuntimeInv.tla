--------------------------- MODULE AgentRuntimeInv ---------------------------
(***************************************************************************)
(* The inductive invariants behind the theorems about AgentRuntime, and    *)
(* the facts about its rows that their proofs share.                       *)
(***************************************************************************)
EXTENDS AgentRuntime, SequenceTheorems, TLAPS, TLC

(* Turns, approvals and requests are interchangeable.                      *)
Symmetry ==
    Permutations(Turns) \cup Permutations(Approvals) \cup Permutations(Requests)

(* Labels at which a request drives no turn.                               *)
FreeLabels == {"idle", "archive", "startTurn", "decide", "resume", "deny"}

(* Labels at which it drives a turn that waits for an approval.            *)
ParkedLabels == {"consume", "resumeTurn", "cancelStep", "cancelTurn"}

(* Labels at which it drives a running turn.                               *)
RunLabels == Labels \ (FreeLabels \cup ParkedLabels \cup {"runTurn"})

(* Labels at which a tool call of the model is being worked on.            *)
CallLabels == {"call", "execute", "executing", "toolDone", "toolMessage"}

(* Labels between Consume and the start of the approved tool.              *)
ConsumedLabels == {"resumeTurn", "resumeStep", "executeApproved"}

(* Labels between a successful Decide and the end of its consequences.     *)
DecidedLabels ==
    ConsumedLabels \cup {"resume", "consume", "deny", "cancelStep",
                         "cancelTurn"}

Names(a, t, i) ==
    /\ approval[a].status # "none"
    /\ approval[a].turn = t
    /\ approval[a].step = i

(* A persisted approval names an existing step, no two name the same, and  *)
(* the tool has not started before the approval is consumed.               *)
ApprovalsOK ==
    \A a \in Approvals : approval[a].status # "none" =>
       LET t == approval[a].turn
           i == approval[a].step
       IN  /\ t \in Turns
           /\ i \in 1..Len(steps[t])
           /\ \A b \in Approvals \ {a} : ~Names(b, t, i)
           /\ approval[a].status # "consumed" => steps[t][i].runs = 0

(* The turn a request drives is stored at the version the request holds,   *)
(* with the status its label implies.                                      *)
DrivenTurnOK(q) ==
    /\ q.ver = turn[q.turn].version
    /\ q.pc = "runTurn" => turn[q.turn].status = "queued"
    /\ q.pc \in RunLabels => turn[q.turn].status = "running"
    /\ q.pc \in ParkedLabels =>
          /\ turn[q.turn].status = "waiting"
          /\ turn[q.turn].activeStep = q.step

(* A call that policy has not settled yet: nothing ran, nobody was asked.  *)
FreshCallOK(q) ==
    /\ q.step \in 1..Len(steps[q.turn])
    /\ steps[q.turn][q.step].runs = 0
    /\ q.pc = "execute" => steps[q.turn][q.step].kind = Head(q.calls)
    /\ \A a \in Approvals : ~Names(a, q.turn, q.step)

(* The approval a request acts on is decided, and for the step it holds.   *)
DecidedApprovalOK(q) ==
    /\ approval[q.approval].status # "pending"
    /\ q.turn # NoTurn => Names(q.approval, q.turn, q.step)
    /\ q.pc \in ConsumedLabels =>
          /\ approval[q.approval].status = "consumed"
          /\ steps[q.turn][q.step].runs = 0

(* The version an archiving request read still protects what it saw.       *)
ArchiveOK(q) ==
    /\ session[q.session].status # "none"
    /\ q.ver <= session[q.session].version
    /\ q.ver = session[q.session].version => session[q.session].active = NoTurn

RequestOK(q) ==
    /\ q.pc \in FreeLabels => q.turn = NoTurn
    /\ q.pc \notin FreeLabels \cup {"deferred"} => q.turn # NoTurn
    /\ q.turn # NoTurn => DrivenTurnOK(q)
    /\ q.pc \in CallLabels => q.calls # <<>>
    /\ q.pc \in {"execute", "askApproval"} => FreshCallOK(q)
    /\ q.pc \in DecidedLabels \cup {"decide"} =>
          /\ q.approval \in Approvals
          /\ approval[q.approval].status # "none"
    /\ q.pc \in DecidedLabels => DecidedApprovalOK(q)
    /\ q.pc = "archive" => ArchiveOK(q)

RequestsOK == \A r \in Requests : RequestOK(req[r])

(* A turn has one driver, a decided approval one request acting on it.     *)
Exclusive ==
    \A r \in Requests : \A p \in Requests \ {r} :
       /\ req[r].turn # NoTurn => req[p].turn # req[r].turn
       /\ req[r].pc \in DecidedLabels /\ req[p].pc \in DecidedLabels =>
             req[p].approval # req[r].approval

(* What the store and the requests satisfy between any two steps.          *)
IInv ==
    /\ TypeOK
    /\ ActiveTurnLock
    /\ ExecutionFollowsApproval
    /\ ApprovalsOK
    /\ RequestsOK
    /\ Exclusive

-----------------------------------------------------------------------------
(* Labels at which every step of the driven turn is completed.             *)
SettledLabels ==
    {"prompt", "history", "model", "modelStep", "answer", "complete", "call",
     "toolMessage", "approvedMessage"}

(* Labels at which every step but the one at hand is completed.            *)
WorkLabels ==
    {"generate", "modelDone", "execute", "executing", "toolDone",
     "askApproval", "waitStep", "waitTurn", "resumeStep", "executeApproved",
     "executingApproved", "approvedDone"}

(* Labels from a tool's new step to the parking of the turn on it.         *)
AskLabels == {"execute", "askApproval", "waitStep", "waitTurn"}

CompletedBut(t, i) ==
    \A j \in 1..Len(steps[t]) : j # i => steps[t][j].status = "completed"

AllCompleted(t) ==
    \A j \in 1..Len(steps[t]) : steps[t][j].status = "completed"

(* A parked turn has one open step, the one it is parked on.               *)
StoredStepsOK(t) ==
    /\ turn[t].status \in {"none", "queued", "completed"} => AllCompleted(t)
    /\ turn[t].status = "waiting" => CompletedBut(t, turn[t].activeStep)

DrivenStepsOK(q) ==
    /\ q.pc \in SettledLabels => AllCompleted(q.turn)
    /\ q.pc \in WorkLabels => CompletedBut(q.turn, q.step)
    /\ q.pc \in AskLabels =>
          /\ turn[q.turn].activeStep = q.step
          /\ q.step \in 1..Len(steps[q.turn])

(* Which steps of a turn are completed, by the turn's status and by the    *)
(* label of the request that drives it.                                    *)
StepsInv ==
    /\ \A t \in Turns : StoredStepsOK(t)
    /\ \A r \in Requests : DrivenStepsOK(req[r])

Cancelling(r, t) == req[r].turn = t /\ req[r].pc = "cancelTurn"

(* Unless the turn is about to be cancelled, the step it is parked on      *)
(* waits, so that ResumeStep cannot be refused.                            *)
ParkedStepWaits(t) ==
    turn[t].status = "waiting" =>
       \/ steps[t][turn[t].activeStep].status = "waiting"
       \/ \E r \in Requests : Cancelling(r, t)

HeldStepWaits(q) ==
    q.pc \in {"waitTurn", "resumeStep"} =>
       steps[q.turn][q.step].status = "waiting"

(* What holds besides until the first cancellation or crash.               *)
CalmInv ==
    faults = 0 =>
       /\ \A r \in Requests : Live(r)
       /\ \A t \in Turns : turn[t].status \in {"queued", "running"} =>
             \E r \in Requests : req[r].turn = t
       /\ \A t \in Turns : ParkedStepWaits(t)
       /\ \A r \in Requests : HeldStepWaits(req[r])

(* The invariant of the steps, inductive together with IInv.               *)
TurnsInv == StepsInv /\ CalmInv

-----------------------------------------------------------------------------
(* Facts about rows and requests.                                          *)

(* The session an idle request names by default exists.                    *)
LEMMA DefaultSession == (CHOOSE s \in Sessions : TRUE) \in Sessions
BY SessionsAssumption

(* A request that returned is a well-typed idle request without a turn.    *)
LEMMA IdleRequest ==
    /\ NoRequest \in Request
    /\ NoRequest.pc = "idle"
    /\ NoRequest.turn = NoTurn
BY DefaultSession DEF NoRequest, Request, Labels

(* Changing the status of one step keeps the sequence, its length and what *)
(* the other fields say.                                                   *)
LEMMA StepStatusUpdate ==
    ASSUME NEW f \in Seq(Step), NEW i \in Nat, NEW to \in StepStatus
    PROVE  /\ [f EXCEPT ![i].status = to] \in Seq(Step)
           /\ Len([f EXCEPT ![i].status = to]) = Len(f)
           /\ \A j \in 1..Len(f) :
                 /\ [f EXCEPT ![i].status = to][j].runs = f[j].runs
                 /\ [f EXCEPT ![i].status = to][j].kind = f[j].kind
<1> DEFINE e == [f[i] EXCEPT !.status = to]
<1>1. CASE i \in 1..Len(f)
  <2>1. f[i] \in Step
    BY <1>1, ElementOfSeq
  <2>2. e \in Step /\ e.runs = f[i].runs /\ e.kind = f[i].kind
    BY Zenon, <2>1 DEF Step
  <2>3. [f EXCEPT ![i].status = to] = [f EXCEPT ![i] = e]
    OBVIOUS
  <2>4. QED
    <3> HIDE DEF e
    <3> QED BY <1>1, <2>2, <2>3, ExceptSeq
<1>2. CASE i \notin 1..Len(f)
  <2>1. [f EXCEPT ![i].status = to] = f
    BY <1>2
  <2>2. QED
    BY Zenon, <2>1
<1>3. QED
  BY <1>1, <1>2

(* Starting the tool of an existing step counts one run of that step.      *)
LEMMA StepRunsUpdate ==
    ASSUME NEW f \in Seq(Step), NEW i \in 1..Len(f)
    PROVE  /\ [f EXCEPT ![i].runs = @ + 1] \in Seq(Step)
           /\ Len([f EXCEPT ![i].runs = @ + 1]) = Len(f)
           /\ \A j \in 1..Len(f) :
                 /\ [f EXCEPT ![i].runs = @ + 1][j].kind = f[j].kind
                 /\ [f EXCEPT ![i].runs = @ + 1][j].runs =
                       IF j = i THEN f[i].runs + 1 ELSE f[j].runs
<1> DEFINE n == f[i].runs + 1
           e == [f[i] EXCEPT !.runs = n]
<1>1. f[i] \in Step
  BY ElementOfSeq
<1>2. n \in Nat
  BY <1>1 DEF Step
<1>3. e \in Step /\ e.runs = n /\ e.kind = f[i].kind
  <2> HIDE DEF n
  <2> QED BY <1>1, <1>2 DEF Step
<1>4. [f EXCEPT ![i].runs = @ + 1] = [f EXCEPT ![i] = e]
  OBVIOUS
<1>5. QED
  <2> HIDE DEF e
  <2> QED BY <1>3, <1>4, ExceptSeq

(* A request that drives a turn is typed and driven by its label.          *)
LEMMA Driver ==
    ASSUME IInv, NEW r \in Requests, req[r].pc \in RunLabels \ {"deferred"}
    PROVE  req[r].turn \in Turns
BY DEF IInv, TypeOK, RequestsOK, RequestOK, RunLabels, Request

(* The rows after TransitionTurn.                                          *)
LEMMA TransitionTurnRows ==
    ASSUME IInv, NEW t \in Turns, NEW to \in TurnStatus, IsOpen(t),
           TransitionTurn(t, to)
    PROVE  LET s == turn[t].session
           IN  /\ turn' \in [Turns -> Turn]
               /\ session' \in [Sessions -> Session]
               /\ turn'[t].status = to
               /\ turn'[t].session = s
               /\ turn'[t].activeStep = turn[t].activeStep
               /\ turn'[t].version = turn[t].version + 1
               /\ \A u \in Turns \ {t} : turn'[u] = turn[u]
               /\ \A z \in Sessions \ {s} : session'[z] = session[z]
               /\ s \in Sessions
               /\ to \notin TerminalStatus => session'[s] = session[s]
               /\ to \in TerminalStatus =>
                     /\ session'[s].active = NoTurn
                     /\ session'[s].status = session[s].status
                     /\ session'[s].version = session[s].version + 1
<1> DEFINE s == turn[t].session
           v == turn[t].version + 1
           w == session[s].version + 1
           x == [turn[t] EXCEPT !.status = to, !.version = v]
           y == [session[s] EXCEPT !.active = NoTurn, !.version = w]
<1>1. turn[t] \in Turn /\ turn \in [Turns -> Turn]
  BY DEF IInv, TypeOK, StoreTypeOK
<1>2. s \in Sessions /\ v \in Nat
  BY <1>1 DEF Turn
<1>3. session[s] \in Session /\ session \in [Sessions -> Session]
  BY <1>2 DEF IInv, TypeOK, StoreTypeOK
<1>4. w \in Nat
  BY <1>3 DEF Session
<1>5. /\ x \in Turn /\ x.status = to /\ x.version = v
      /\ x.session = s /\ x.activeStep = turn[t].activeStep
  <2> HIDE DEF v
  <2> QED BY Zenon, <1>1, <1>2 DEF Turn
<1>6. /\ y \in Session /\ y.active = NoTurn /\ y.version = w
      /\ y.status = session[s].status
  <2> HIDE DEF w, s
  <2> QED BY Zenon, <1>3, <1>4 DEF Session
<1>7. session[s].active = t
  BY DEF IInv, ActiveTurnLock
<1>8. turn' = [turn EXCEPT ![t] = x]
  BY Zenon DEF TransitionTurn
<1>9. session' = IF to \in TerminalStatus THEN [session EXCEPT ![s] = y]
                 ELSE session
  BY Zenon, <1>7 DEF TransitionTurn
<1>10. /\ turn' \in [Turns -> Turn] /\ turn'[t] = x
       /\ \A u \in Turns \ {t} : turn'[u] = turn[u]
  <2> HIDE DEF x
  <2> QED BY <1>1, <1>5, <1>8
<1>11. /\ session' \in [Sessions -> Session]
       /\ \A z \in Sessions \ {s} : session'[z] = session[z]
       /\ session'[s] = IF to \in TerminalStatus THEN y ELSE session[s]
  <2> HIDE DEF y, s
  <2> QED BY <1>2, <1>3, <1>6, <1>9
<1>12. QED
  <2> HIDE DEF x, y
  <2> QED BY <1>2, <1>5, <1>6, <1>10, <1>11

(* A driven turn is open, at the version its driver holds.                 *)
LEMMA DrivenOpen ==
    ASSUME IInv, NEW r \in Requests, req[r].turn # NoTurn
    PROVE  /\ req[r] \in Request /\ RequestOK(req[r])
           /\ req[r].turn \in Turns
           /\ IsOpen(req[r].turn)
           /\ req[r].ver = turn[req[r].turn].version
<1>1. /\ req[r] \in Request /\ RequestOK(req[r]) /\ DrivenTurnOK(req[r])
      /\ req[r].turn \in Turns /\ req[r].pc \in Labels \ FreeLabels
  <2>1. TypeOK /\ RequestsOK
    BY DEF IInv
  <2>2. req[r] \in Request /\ RequestOK(req[r])
    BY <2>1 DEF TypeOK, RequestsOK
  <2>3. req[r].turn \in Turns /\ req[r].pc \in Labels
    BY Zenon, <2>2 DEF Request
  <2>4. QED
    BY <2>2, <2>3 DEF RequestOK
<1>2. IsOpen(req[r].turn)
  BY <1>1 DEF DrivenTurnOK, RunLabels, ParkedLabels, IsOpen, OpenStatus
<1>3. QED
  BY Zenon, <1>1, <1>2 DEF DrivenTurnOK

(* Statuses the transitions below name.                                    *)
LEMMA TurnStatusFacts ==
    {"running", "waiting", "completed", "cancelled", "failed"}
      \subseteq TurnStatus \ {"none"}
BY DEF TurnStatus, OpenStatus, TerminalStatus

(* The rows after AppendStep: one more step, which has not run.            *)
LEMMA AppendStepRows ==
    ASSUME IInv, NEW t \in Turns, NEW kind \in {"model"} \cup CallKind,
           AppendStep(t, kind)
    PROVE  LET n == Len(steps[t])
           IN  /\ turn' \in [Turns -> Turn]
               /\ steps' \in [Turns -> Seq(Step)]
               /\ turn'[t].status = turn[t].status
               /\ turn'[t].session = turn[t].session
               /\ turn'[t].version = turn[t].version + 1
               /\ \A u \in Turns \ {t} : turn'[u] = turn[u]
                                         /\ steps'[u] = steps[u]
               /\ n \in Nat
               /\ Len(steps'[t]) = n + 1
               /\ \A i \in 1..n : steps'[t][i] = steps[t][i]
               /\ steps'[t][n + 1].kind = kind
               /\ steps'[t][n + 1].runs = 0
<1> DEFINE n == Len(steps[t])
           m == n + 1
           v == turn[t].version + 1
           e == [kind |-> kind, status |-> "running", runs |-> 0]
           x == [turn[t] EXCEPT !.activeStep = m, !.version = v]
           f == Append(steps[t], e)
<1>1. /\ turn[t] \in Turn /\ turn \in [Turns -> Turn]
      /\ steps[t] \in Seq(Step) /\ steps \in [Turns -> Seq(Step)]
  BY DEF IInv, TypeOK, StoreTypeOK
<1>2. n \in Nat /\ m \in Nat /\ v \in Nat
  BY <1>1 DEF Turn
<1>3. e \in Step /\ e.kind = kind /\ e.runs = 0
  BY DEF Step, StepStatus
<1>4. /\ x \in Turn /\ x.status = turn[t].status
      /\ x.session = turn[t].session /\ x.version = v
  <2> HIDE DEF v, m
  <2> QED BY Zenon, <1>1, <1>2 DEF Turn
<1>5. /\ f \in Seq(Step) /\ Len(f) = n + 1
      /\ \A i \in 1..n : f[i] = steps[t][i]
      /\ f[n + 1] = e
  <2> HIDE DEF e
  <2> QED BY <1>1, <1>3, AppendProperties
<1>6. turn' = [turn EXCEPT ![t] = x] /\ steps' = [steps EXCEPT ![t] = f]
  BY Zenon DEF AppendStep
<1>7. QED
  <2> HIDE DEF x, f, e
  <2> QED BY Zenon, <1>1, <1>2, <1>3, <1>4, <1>5, <1>6

(* The rows after StartTurn.                                               *)
LEMMA StartTurnRows ==
    ASSUME TypeOK, NEW s \in Sessions, NEW t \in Turns, StartTurn(s, t)
    PROVE  /\ turn' \in [Turns -> Turn]
           /\ session' \in [Sessions -> Session]
           /\ turn'[t].status = "queued"
           /\ turn'[t].session = s
           /\ turn'[t].version = 1
           /\ \A u \in Turns \ {t} : turn'[u] = turn[u]
           /\ \A z \in Sessions \ {s} : session'[z] = session[z]
           /\ session'[s].active = t
           /\ session'[s].status = session[s].status
           /\ session[s].version \in Nat
           /\ session'[s].version = session[s].version + 1
<1> DEFINE v == session[s].version + 1
           x == [status |-> "queued", session |-> s, activeStep |-> 0,
                 version |-> 1]
           y == [session[s] EXCEPT !.active = t, !.version = v]
<1>1. session[s] \in Session /\ session[s].version \in Nat /\ v \in Nat
  BY DEF TypeOK, StoreTypeOK, Session
<1>2. x \in Turn /\ x.status = "queued" /\ x.session = s /\ x.version = 1
  BY DEF Turn, TurnStatus, OpenStatus
<1>3. /\ y \in Session /\ y.active = t /\ y.status = session[s].status
      /\ y.version = v
  <2> HIDE DEF v
  <2> QED BY Zenon, <1>1 DEF Session
<1>4. turn' = [turn EXCEPT ![t] = x] /\ session' = [session EXCEPT ![s] = y]
  BY ZenonT(60) DEF StartTurn
<1>5. QED
  <2> HIDE DEF x, y
  <2> QED BY Zenon, <1>1, <1>2, <1>3, <1>4 DEF TypeOK, StoreTypeOK

=============================================================================
