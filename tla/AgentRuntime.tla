---------------------------- MODULE AgentRuntime ----------------------------
(***************************************************************************)
(* The HTTP requests that drive the agent: creating and archiving sessions,*)
(* running a turn and resolving an approval (agent/runtime/loop.go, called *)
(* through agent/application/service.go and web/agent_http.go).            *)
(*                                                                         *)
(* A request is a goroutine with a program counter; its steps are the      *)
(* loop's calls on AgentStore, the model and the tools.  Its context is    *)
(* the HTTP request's, which the browser may cancel at any moment.  The    *)
(* manager may crash; nothing resumes an interrupted turn at start-up.     *)
(***************************************************************************)
EXTENDS AgentStore

CONSTANTS
    Management,      \* the sessions of kind management: no attachment
    Requests,        \* concurrently served HTTP requests
    NoApproval,
    MaxModelSteps,   \* LoopConfig.MaxModelSteps
    MaxCalls,        \* bound: tool calls in one model response
    MaxFaults,       \* bound: cancellations and crashes
    MaxVersion       \* bound: session version at which archiving stops

ASSUME ApprovalsAssumption == NoApproval \notin Approvals

ASSUME BoundsAssumption ==
    /\ MaxModelSteps \in Nat
    /\ MaxCalls \in Nat
    /\ MaxFaults \in Nat
    /\ MaxVersion \in Nat

VARIABLES
    connected, \* [Sessions -> the live access connection is still open]
    req,       \* [Requests -> the request's local variables]
    faults     \* cancellations and crashes so far

env == <<connected, faults>>
vars == <<stored, env, req>>

(* checkLiveAttachments: a management session has nothing to check.        *)
Reachable(s) == s \in Management \/ connected[s]

(* What a model may answer: a list of tool calls, empty when it is done.   *)
Responses == UNION {[1..n -> CallKind] : n \in 0..MaxCalls}

(* Where a request is: before the call the label names.                    *)
Labels ==
    {"idle", "archive", "startTurn", "runTurn", "prompt", "history", "model",
     "modelStep", "generate", "modelDone", "answer", "complete", "call",
     "execute", "executing", "toolDone", "toolMessage", "askApproval",
     "waitStep", "waitTurn", "failStep", "failApproved", "failTurn",
     "deferred", "decide", "resume", "consume", "resumeTurn", "resumeStep",
     "executeApproved", "executingApproved", "approvedDone",
     "approvedMessage", "deny", "cancelStep", "cancelTurn"}

Request == [pc : Labels, ctx : {"live", "cancelled"}, session : Sessions,
            turn : Turns \cup {NoTurn}, ver : Nat, step : Nat,
            approval : Approvals \cup {NoApproval}, approve : BOOLEAN,
            calls : Seq(CallKind), used : Nat]

NoRequest ==
    [pc |-> "idle", ctx |-> "live", session |-> CHOOSE s \in Sessions : TRUE,
     turn |-> NoTurn, ver |-> 0, step |-> 0, approval |-> NoApproval,
     approve |-> FALSE, calls |-> <<>>, used |-> 0]

Init ==
    /\ StoreInit
    /\ connected = [s \in Sessions |-> FALSE]
    /\ req = [r \in Requests |-> NoRequest]
    /\ faults = 0

-----------------------------------------------------------------------------
(* Control of one request.                                                 *)

Live(r) == req[r].ctx = "live"

At(r, label) == req[r].pc = label
Goto(r, label) == req' = [req EXCEPT ![r].pc = label]
Return(r) == req' = [req EXCEPT ![r] = NoRequest]

(* An error return once the turn runs: failTurn before the model loop, the *)
(* deferred function inside it.  Both ignore the request's cancellation.   *)
Fail(r) == Goto(r, "failTurn")
Abort(r) == Goto(r, "deferred")

(* The caller assigns AppendStep's result to its turn even when the call   *)
(* failed, so the zero Turn{} replaces the turn it was running.            *)
LoseTurn(r) ==
    req' = [req EXCEPT ![r].pc = "deferred", ![r].turn = NoTurn, ![r].ver = 0]

-----------------------------------------------------------------------------
(* Sessions.                                                               *)

CreateSession(s) ==
    /\ session[s].status = "none"
    /\ session' = [session EXCEPT ![s] = [status |-> "active",
                                          active |-> NoTurn, version |-> 1]]
    /\ connected' = [connected EXCEPT ![s] = s \notin Management]
    /\ UNCHANGED <<turn, steps, approval, unpaired, req, faults>>

(* The read half of ArchiveSession, with the client's expected version.    *)
BeginArchive(r, s) ==
    /\ At(r, "idle")
    /\ session[s].status # "none"
    /\ session[s].version < MaxVersion
    /\ session[s].active = NoTurn
    /\ req' = [req EXCEPT ![r].pc = "archive", ![r].session = s,
                          ![r].ver = session[s].version]
    /\ UNCHANGED <<stored, env>>

(* Mutant of ArchiveSession: the update does not compare the version.      *)
ArchiveUnversioned(r) ==
    LET s == req[r].session
    IN  /\ At(r, "archive")
        /\ \/ /\ Live(r)
              /\ session' = [session EXCEPT ![s].status = "archived",
                                            ![s].version = @ + 1]
           \/ ~Live(r) /\ UNCHANGED session
        /\ Return(r)
        /\ UNCHANGED <<turn, steps, approval, unpaired, env>>

(* Its compare-and-swap half.                                              *)
ArchiveSession(r) ==
    LET s == req[r].session
    IN  /\ At(r, "archive")
        /\ \/ /\ Live(r) /\ session[s].version = req[r].ver
              /\ session' = [session EXCEPT ![s].status = "archived",
                                            ![s].version = @ + 1]
           \/ /\ ~Live(r) \/ session[s].version # req[r].ver
              /\ UNCHANGED session
        /\ Return(r)
        /\ UNCHANGED <<turn, steps, approval, unpaired, env>>

-----------------------------------------------------------------------------
(* A new turn: Service.RunTurn, then Loop.run up to the model loop.        *)

(* RunTurn refuses a session whose connection is gone before it starts.    *)
BeginTurn(r, s) ==
    /\ At(r, "idle")
    /\ session[s].status # "none"
    /\ Reachable(s)
    /\ req' = [req EXCEPT ![r].pc = "startTurn", ![r].session = s]
    /\ UNCHANGED <<stored, env>>

UnusedTurns == {t \in Turns : turn[t].status = "none"}

RunStartTurn(r) ==
    LET s == req[r].session
    IN  /\ At(r, "startTurn")
        /\ \/ /\ Live(r) /\ CanStartTurn(s)
              /\ \E t \in UnusedTurns :
                    /\ StartTurn(s, t)
                    /\ req' = [req EXCEPT ![r].pc = "runTurn", ![r].turn = t,
                                          ![r].ver = 1]
           \/ /\ ~Live(r) \/ ~CanStartTurn(s) \/ UnusedTurns = {}
              /\ Return(r)
              /\ UNCHANGED <<turn, session>>
        /\ UNCHANGED <<steps, approval, unpaired, env>>

(* queued -> running.  The error return leaves the turn queued: neither    *)
(* failTurn nor the deferred function has been reached.                    *)
RunTurn(r) ==
    LET t == req[r].turn
    IN  /\ At(r, "runTurn")
        /\ \/ /\ Live(r) /\ CanTransitionTurn(t, req[r].ver, "running")
              /\ TransitionTurn(t, "running")
              /\ req' = [req EXCEPT ![r].pc = "prompt", ![r].ver = @ + 1]
           \/ /\ ~Live(r) \/ ~CanTransitionTurn(t, req[r].ver, "running")
              /\ Return(r)
              /\ UNCHANGED <<turn, session>>
        /\ UNCHANGED <<steps, approval, unpaired, env>>

(* Publish the start and persist the user's message.                       *)
AppendPrompt(r) ==
    /\ At(r, "prompt")
    /\ IF Live(r) THEN Goto(r, "history") ELSE Fail(r)
    /\ UNCHANGED <<stored, env>>

RestoreHistory(r) ==
    /\ At(r, "history")
    /\ IF Live(r)
       THEN req' = [req EXCEPT ![r].pc = "model", ![r].used = 0]
       ELSE Fail(r)
    /\ UNCHANGED <<stored, env>>

-----------------------------------------------------------------------------
(* The model loop.                                                         *)

(* The loop test, then the session, its attachments and the tool snapshot  *)
(* are read again; any of these may fail without a cancellation.           *)
PrepareModelStep(r) ==
    /\ At(r, "model")
    /\ \/ /\ Live(r) /\ req[r].used < MaxModelSteps
          /\ req' = [req EXCEPT ![r].pc = "modelStep", ![r].used = @ + 1]
       \/ Abort(r)
    /\ UNCHANGED <<stored, env>>

AppendModelStep(r) ==
    LET t == req[r].turn
    IN  /\ At(r, "modelStep")
        /\ \/ /\ Live(r) /\ CanAppendStep(t, req[r].ver)
              /\ AppendStep(t, "model")
              /\ req' = [req EXCEPT ![r].pc = "generate", ![r].ver = @ + 1,
                                    ![r].step = Len(steps[t]) + 1]
           \/ /\ ~Live(r) \/ ~CanAppendStep(t, req[r].ver)
              /\ LoseTurn(r)
              /\ UNCHANGED <<turn, steps>>
        /\ UNCHANGED <<session, approval, unpaired, env>>

(* SaveToolSnapshot, then the provider answers with tool calls, or fails.  *)
Generate(r) ==
    /\ At(r, "generate")
    /\ \/ /\ Live(r)
          /\ \E calls \in Responses :
                req' = [req EXCEPT ![r].pc = "modelDone", ![r].calls = calls]
       \/ Goto(r, "failStep")
       \/ ~Live(r) /\ Abort(r)
    /\ UNCHANGED <<stored, env>>

CompleteModelStep(r) ==
    LET t == req[r].turn
        i == req[r].step
    IN  /\ At(r, "modelDone")
        /\ \/ /\ Live(r) /\ CanTransitionStep(t, i, "completed")
              /\ TransitionStep(t, i, "completed")
              /\ Goto(r, "answer")
           \/ /\ ~Live(r) \/ ~CanTransitionStep(t, i, "completed")
              /\ Abort(r)
              /\ UNCHANGED steps
        /\ UNCHANGED <<session, turn, approval, unpaired, env>>

(* Persist the assistant's message; its calls now await their results.     *)
AppendAnswer(r) ==
    LET n == Len(req[r].calls)
    IN  /\ At(r, "answer")
        /\ \/ /\ Live(r)
              /\ unpaired' = [unpaired EXCEPT ![req[r].turn] = @ + n]
              /\ Goto(r, IF n = 0 THEN "complete" ELSE "call")
           \/ /\ ~Live(r)
              /\ Abort(r)
              /\ UNCHANGED unpaired
        /\ UNCHANGED <<session, turn, steps, approval, env>>

CompleteTurn(r) ==
    LET t == req[r].turn
    IN  /\ At(r, "complete")
        /\ \/ /\ Live(r) /\ CanTransitionTurn(t, req[r].ver, "completed")
              /\ TransitionTurn(t, "completed")
              /\ Return(r)
           \/ /\ ~Live(r) \/ ~CanTransitionTurn(t, req[r].ver, "completed")
              /\ Abort(r)
              /\ UNCHANGED <<turn, session>>
        /\ UNCHANGED <<steps, approval, unpaired, env>>

-----------------------------------------------------------------------------
(* One tool call of the response.                                          *)

(* resolveModelCall may reject the call; AppendStep may fail, which loses  *)
(* the turn.                                                               *)
AppendToolStep(r) ==
    LET t == req[r].turn
    IN  /\ At(r, "call")
        /\ \/ /\ Live(r) /\ CanAppendStep(t, req[r].ver)
              /\ AppendStep(t, Head(req[r].calls))
              /\ req' = [req EXCEPT ![r].pc = "execute", ![r].ver = @ + 1,
                                    ![r].step = Len(steps[t]) + 1]
           \/ /\ ~Live(r) \/ ~CanAppendStep(t, req[r].ver)
              /\ LoseTurn(r)
              /\ UNCHANGED <<turn, steps>>
           \/ /\ Abort(r)
              /\ UNCHANGED <<turn, steps>>
        /\ UNCHANGED <<session, approval, unpaired, env>>

StartTool(t, i) == steps' = [steps EXCEPT ![t][i].runs = @ + 1]

(* Publish the start, then Engine.Execute: the tool starts when policy     *)
(* allows it, an approval is asked for, or the call is refused.            *)
Execute(r) ==
    LET t == req[r].turn
        i == req[r].step
    IN  /\ At(r, "execute")
        /\ \/ /\ Live(r) /\ Head(req[r].calls) = "auto"
              /\ StartTool(t, i)
              /\ Goto(r, "executing")
           \/ /\ Live(r) /\ Head(req[r].calls) = "gated"
              /\ Goto(r, "askApproval")
              /\ UNCHANGED steps
           \/ /\ Live(r) /\ Goto(r, "failStep")
              /\ UNCHANGED steps
           \/ /\ ~Live(r) /\ Abort(r)
              /\ UNCHANGED steps
        /\ UNCHANGED <<session, turn, approval, unpaired, env>>

(* Mutant of ToolReturns: a failed call is answered, its step left open.   *)
ToolReturnsIgnored(r) ==
    /\ At(r, "executing")
    /\ Goto(r, "toolDone") \/ Goto(r, "toolMessage")
    /\ UNCHANGED <<stored, env>>

ToolReturns(r) ==
    /\ At(r, "executing")
    /\ Goto(r, "toolDone") \/ Goto(r, "failStep")
    /\ UNCHANGED <<stored, env>>

CompleteToolStep(r) ==
    LET t == req[r].turn
        i == req[r].step
    IN  /\ At(r, "toolDone")
        /\ \/ /\ Live(r) /\ CanTransitionStep(t, i, "completed")
              /\ TransitionStep(t, i, "completed")
              /\ Goto(r, "toolMessage")
           \/ /\ ~Live(r) \/ ~CanTransitionStep(t, i, "completed")
              /\ Abort(r)
              /\ UNCHANGED steps
        /\ UNCHANGED <<session, turn, approval, unpaired, env>>

(* Persist the tool's result and go on with the next call, or the model.   *)
AppendToolMessage(r) ==
    LET rest == Tail(req[r].calls)
    IN  /\ At(r, "toolMessage")
        /\ \/ /\ Live(r)
              /\ unpaired' = [unpaired EXCEPT ![req[r].turn] = @ - 1]
              /\ req' = [req EXCEPT ![r].calls = rest,
                            ![r].pc = IF rest = <<>> THEN "model" ELSE "call"]
           \/ /\ ~Live(r)
              /\ Abort(r)
              /\ UNCHANGED unpaired
        /\ UNCHANGED <<session, turn, steps, approval, env>>

-----------------------------------------------------------------------------
(* A gated call: persist the approval, park the step, park the turn.  The  *)
(* response's remaining calls are dropped with the request.                *)

UnusedApprovals == {a \in Approvals : approval[a].status = "none"}

AskApproval(r) ==
    /\ At(r, "askApproval")
    /\ \/ /\ Live(r)
          /\ \E a \in UnusedApprovals :
                RequestApproval(a, req[r].turn, req[r].step)
          /\ Goto(r, "waitStep")
       \/ /\ ~Live(r) \/ UnusedApprovals = {}
          /\ Abort(r)
          /\ UNCHANGED approval
    /\ UNCHANGED <<session, turn, steps, unpaired, env>>

WaitStepApproval(r) ==
    LET t == req[r].turn
        i == req[r].step
    IN  /\ At(r, "waitStep")
        /\ \/ /\ Live(r) /\ CanTransitionStep(t, i, "waiting")
              /\ TransitionStep(t, i, "waiting")
              /\ Goto(r, "waitTurn")
           \/ /\ ~Live(r) \/ ~CanTransitionStep(t, i, "waiting")
              /\ Abort(r)
              /\ UNCHANGED steps
        /\ UNCHANGED <<session, turn, approval, unpaired, env>>

WaitTurnApproval(r) ==
    LET t == req[r].turn
    IN  /\ At(r, "waitTurn")
        /\ \/ /\ Live(r) /\ CanTransitionTurn(t, req[r].ver, "waiting")
              /\ TransitionTurn(t, "waiting")
              /\ Return(r)
           \/ /\ ~Live(r) \/ ~CanTransitionTurn(t, req[r].ver, "waiting")
              /\ Abort(r)
              /\ UNCHANGED <<turn, session>>
        /\ UNCHANGED <<steps, approval, unpaired, env>>

-----------------------------------------------------------------------------
(* Error exits; context.WithoutCancel, so only the store can refuse them.  *)

(* FailStep; the approved call ends in failTurn, the others in the defer.  *)
FailStep(r) ==
    LET t == req[r].turn
        i == req[r].step
    IN  /\ At(r, "failStep") \/ At(r, "failApproved")
        /\ steps' = IF CanTransitionStep(t, i, "failed")
                    THEN [steps EXCEPT ![t][i].status = "failed"] ELSE steps
        /\ IF At(r, "failStep") THEN Abort(r) ELSE Fail(r)
        /\ UNCHANGED <<session, turn, approval, unpaired, env>>

(* Mutant of failTurn: the error is returned, the turn left as it is.      *)
failTurnForgotten(r) ==
    /\ At(r, "failTurn")
    /\ Return(r)
    /\ UNCHANGED <<stored, env>>

failTurn(r) ==
    LET t == req[r].turn
    IN  /\ At(r, "failTurn")
        /\ IF CanTransitionTurn(t, req[r].ver, "failed")
           THEN TransitionTurn(t, "failed")
           ELSE UNCHANGED <<turn, session>>
        /\ Return(r)
        /\ UNCHANGED <<steps, approval, unpaired, env>>

(* The deferred function; it finds no turn with the zero ID.               *)
DeferredFail(r) ==
    LET t == req[r].turn
    IN  /\ At(r, "deferred")
        /\ IF CanTransitionTurn(t, req[r].ver, "failed")
           THEN TransitionTurn(t, "failed")
           ELSE UNCHANGED <<turn, session>>
        /\ Return(r)
        /\ UNCHANGED <<steps, approval, unpaired, env>>

-----------------------------------------------------------------------------
(* ResolveApproval: decide, then resume the frozen call or end the turn.   *)

BeginResolve(r, a, approve) ==
    /\ At(r, "idle")
    /\ approval[a].status = "pending"
    /\ Reachable(turn[approval[a].turn].session)
    /\ req' = [req EXCEPT ![r].pc = "decide", ![r].approval = a,
                          ![r].approve = approve,
                          ![r].session = turn[approval[a].turn].session]
    /\ UNCHANGED <<stored, env>>

(* Mutant of Decide: the update does not compare the status.               *)
DecideAgain(r) ==
    LET a == req[r].approval
        d == Decision(a, req[r].approve)
    IN  /\ At(r, "decide")
        /\ Live(r)
        /\ SetApproval(a, d)
        /\ Goto(r, IF d = "approved" THEN "resume" ELSE "deny")
        /\ UNCHANGED <<session, turn, steps, unpaired, env>>

Decide(r) ==
    LET a == req[r].approval
        d == Decision(a, req[r].approve)
    IN  /\ At(r, "decide")
        /\ \/ /\ Live(r) /\ approval[a].status = "pending"
              /\ SetApproval(a, d)
              /\ Goto(r, IF d = "approved" THEN "resume" ELSE "deny")
           \/ /\ ~Live(r) \/ approval[a].status # "pending"
              /\ Return(r)
              /\ UNCHANGED approval
        /\ UNCHANGED <<session, turn, steps, unpaired, env>>

(* Mutant of Awaits: only the step is compared, not the turn's status.     *)
AwaitsAnyStatus(a) == turn[approval[a].turn].activeStep = approval[a].step

(* The turn must be parked on the very step the approval is for.           *)
Awaits(a) ==
    LET t == approval[a].turn
    IN  turn[t].status = "waiting" /\ turn[t].activeStep = approval[a].step

(* Read the turn the approval is for; its version guards what follows.     *)
TakeTurn(r, label) ==
    LET a == req[r].approval
    IN  req' = [req EXCEPT ![r].pc = label, ![r].turn = approval[a].turn,
                           ![r].ver = turn[approval[a].turn].version,
                           ![r].step = approval[a].step]

(* Mutant of ReadForResume: it polls until the turn is parked.             *)
ReadForResumePolls(r) ==
    LET a == req[r].approval
    IN  /\ At(r, "resume")
        /\ \/ Granted(a) /\ Awaits(a) /\ TakeTurn(r, "consume")
           \/ ~(Granted(a) /\ Awaits(a)) /\ UNCHANGED req
        /\ UNCHANGED <<stored, env>>

ReadForResume(r) ==
    LET a == req[r].approval
    IN  /\ At(r, "resume")
        /\ \/ Live(r) /\ Granted(a) /\ Awaits(a) /\ TakeTurn(r, "consume")
           \/ ~(Live(r) /\ Granted(a) /\ Awaits(a)) /\ Return(r)
        /\ UNCHANGED <<stored, env>>

(* Mutant of Consume: the grant is checked but not used up.                *)
ConsumeKeepsGrant(r) ==
    LET a == req[r].approval
    IN  /\ At(r, "consume")
        /\ \/ Live(r) /\ Granted(a) /\ Goto(r, "resumeTurn")
           \/ ~(Live(r) /\ Granted(a)) /\ Return(r)
        /\ UNCHANGED <<stored, env>>

Consume(r) ==
    LET a == req[r].approval
    IN  /\ At(r, "consume")
        /\ \/ /\ Live(r) /\ Granted(a)
              /\ SetApproval(a, "consumed")
              /\ Goto(r, "resumeTurn")
           \/ /\ ~(Live(r) /\ Granted(a))
              /\ Return(r)
              /\ UNCHANGED approval
        /\ UNCHANGED <<session, turn, steps, unpaired, env>>

ResumeTurn(r) ==
    LET t == req[r].turn
    IN  /\ At(r, "resumeTurn")
        /\ \/ /\ Live(r) /\ CanTransitionTurn(t, req[r].ver, "running")
              /\ TransitionTurn(t, "running")
              /\ req' = [req EXCEPT ![r].pc = "resumeStep", ![r].ver = @ + 1]
           \/ /\ ~Live(r) \/ ~CanTransitionTurn(t, req[r].ver, "running")
              /\ Return(r)
              /\ UNCHANGED <<turn, session>>
        /\ UNCHANGED <<steps, approval, unpaired, env>>

(* An error here returns with the turn running and nobody to end it.       *)
ResumeStep(r) ==
    LET t == req[r].turn
        i == req[r].step
    IN  /\ At(r, "resumeStep")
        /\ \/ /\ Live(r) /\ CanTransitionStep(t, i, "running")
              /\ TransitionStep(t, i, "running")
              /\ Goto(r, "executeApproved")
           \/ /\ ~Live(r) \/ ~CanTransitionStep(t, i, "running")
              /\ Return(r)
              /\ UNCHANGED steps
        /\ UNCHANGED <<session, turn, approval, unpaired, env>>

(* Mutant of ExecuteApproved: a refusal returns without ending the turn.   *)
ExecuteApprovedReturns(r) ==
    /\ At(r, "executeApproved")
    /\ \/ /\ ~approval[req[r].approval].lapsed
          /\ StartTool(req[r].turn, req[r].step)
          /\ Goto(r, "executingApproved")
       \/ /\ Return(r)
          /\ UNCHANGED steps
    /\ UNCHANGED <<session, turn, approval, unpaired, env>>

(* The engine checks the grant's expiry again before the tool starts.      *)
ExecuteApproved(r) ==
    /\ At(r, "executeApproved")
    /\ \/ /\ ~approval[req[r].approval].lapsed
          /\ StartTool(req[r].turn, req[r].step)
          /\ Goto(r, "executingApproved")
       \/ /\ Goto(r, "failApproved")
          /\ UNCHANGED steps
    /\ UNCHANGED <<session, turn, approval, unpaired, env>>

ApprovedToolReturns(r) ==
    /\ At(r, "executingApproved")
    /\ Goto(r, "approvedDone") \/ Goto(r, "failApproved")
    /\ UNCHANGED <<stored, env>>

CompleteApprovedStep(r) ==
    LET t == req[r].turn
        i == req[r].step
    IN  /\ At(r, "approvedDone")
        /\ \/ /\ Live(r) /\ CanTransitionStep(t, i, "completed")
              /\ TransitionStep(t, i, "completed")
              /\ Goto(r, "approvedMessage")
           \/ /\ ~Live(r) \/ ~CanTransitionStep(t, i, "completed")
              /\ Fail(r)
              /\ UNCHANGED steps
        /\ UNCHANGED <<session, turn, approval, unpaired, env>>

(* Persist the result and rejoin the loop with a fresh step budget.        *)
AppendApprovedMessage(r) ==
    /\ At(r, "approvedMessage")
    /\ \/ /\ Live(r)
          /\ unpaired' = [unpaired EXCEPT ![req[r].turn] = @ - 1]
          /\ Goto(r, "history")
       \/ /\ ~Live(r)
          /\ Fail(r)
          /\ UNCHANGED unpaired
    /\ UNCHANGED <<session, turn, steps, approval, env>>

-----------------------------------------------------------------------------
(* A denied or expired approval ends the turn.                             *)

ReadForDenial(r) ==
    LET a == req[r].approval
    IN  /\ At(r, "deny")
        /\ \/ Live(r) /\ Awaits(a) /\ TakeTurn(r, "cancelStep")
           \/ ~(Live(r) /\ Awaits(a)) /\ Return(r)
        /\ UNCHANGED <<stored, env>>

CancelStep(r) ==
    LET t == req[r].turn
        i == req[r].step
    IN  /\ At(r, "cancelStep")
        /\ \/ /\ Live(r) /\ CanTransitionStep(t, i, "cancelled")
              /\ TransitionStep(t, i, "cancelled")
              /\ Goto(r, "cancelTurn")
           \/ /\ ~Live(r) \/ ~CanTransitionStep(t, i, "cancelled")
              /\ Return(r)
              /\ UNCHANGED steps
        /\ UNCHANGED <<session, turn, approval, unpaired, env>>

CancelTurn(r) ==
    LET t == req[r].turn
    IN  /\ At(r, "cancelTurn")
        /\ \/ /\ Live(r) /\ CanTransitionTurn(t, req[r].ver, "cancelled")
              /\ TransitionTurn(t, "cancelled")
           \/ /\ ~Live(r) \/ ~CanTransitionTurn(t, req[r].ver, "cancelled")
              /\ UNCHANGED <<turn, session>>
        /\ Return(r)
        /\ UNCHANGED <<steps, approval, unpaired, env>>

-----------------------------------------------------------------------------
(* The environment.                                                        *)

(* The browser goes away: net/http cancels the request's context.          *)
Disconnect(r) ==
    /\ ~At(r, "idle") /\ Live(r)
    /\ faults < MaxFaults
    /\ req' = [req EXCEPT ![r].ctx = "cancelled"]
    /\ faults' = faults + 1
    /\ UNCHANGED <<stored, connected>>

(* The manager stops: requests and live connections are gone, rows remain. *)
Crash ==
    /\ faults < MaxFaults
    /\ req' = [r \in Requests |-> NoRequest]
    /\ connected' = [s \in Sessions |-> FALSE]
    /\ faults' = faults + 1
    /\ UNCHANGED stored

(* The access connection of a session closes; it never reopens under the   *)
(* same handle and generation.                                             *)
CloseConnection(s) ==
    /\ connected[s]
    /\ connected' = [connected EXCEPT ![s] = FALSE]
    /\ UNCHANGED <<stored, req, faults>>

(* ExpiresAt passes.                                                       *)
Lapse(a) ==
    /\ approval[a].status \in {"pending", "approved", "consumed"}
    /\ ~approval[a].lapsed
    /\ approval' = [approval EXCEPT ![a].lapsed = TRUE]
    /\ UNCHANGED <<session, turn, steps, unpaired, env, req>>

-----------------------------------------------------------------------------

NewTurnStep(r) ==
    RunStartTurn(r) \/ RunTurn(r) \/ AppendPrompt(r) \/ RestoreHistory(r)

ModelStep(r) ==
    \/ PrepareModelStep(r) \/ AppendModelStep(r) \/ Generate(r)
    \/ CompleteModelStep(r) \/ AppendAnswer(r) \/ CompleteTurn(r)

ToolStep(r) ==
    \/ AppendToolStep(r) \/ Execute(r) \/ ToolReturns(r)
    \/ CompleteToolStep(r) \/ AppendToolMessage(r) \/ AskApproval(r)
    \/ WaitStepApproval(r) \/ WaitTurnApproval(r)

ErrorStep(r) == FailStep(r) \/ failTurn(r) \/ DeferredFail(r)

ApprovedStep(r) ==
    \/ Decide(r) \/ ReadForResume(r) \/ Consume(r) \/ ResumeTurn(r)
    \/ ResumeStep(r) \/ ExecuteApproved(r) \/ ApprovedToolReturns(r)
    \/ CompleteApprovedStep(r) \/ AppendApprovedMessage(r)

DeniedStep(r) == ReadForDenial(r) \/ CancelStep(r) \/ CancelTurn(r)

(* The next step of a request that is being served.                        *)
RequestStep(r) ==
    \/ ArchiveSession(r) \/ NewTurnStep(r) \/ ModelStep(r) \/ ToolStep(r)
    \/ ErrorStep(r) \/ ApprovedStep(r) \/ DeniedStep(r)

Begin(r) ==
    \/ \E s \in Sessions : BeginTurn(r, s) \/ BeginArchive(r, s)
    \/ \E a \in Approvals, approve \in BOOLEAN : BeginResolve(r, a, approve)

Next ==
    \/ \E s \in Sessions : CreateSession(s) \/ CloseConnection(s)
    \/ \E r \in Requests : Begin(r) \/ RequestStep(r) \/ Disconnect(r)
    \/ \E a \in Approvals : Lapse(a)
    \/ Crash

Spec == Init /\ [][Next]_vars

(* The scheduler runs every goroutine, and providers and tools return: the *)
(* HTTP client and TimeoutMiddleware bound both.                           *)
FairSpec == Spec /\ \A r \in Requests : WF_vars(RequestStep(r))

-----------------------------------------------------------------------------
(* Properties.                                                             *)

(* Every variable has the shape its Go type and its bounds give it.        *)
TypeOK ==
    /\ StoreTypeOK
    /\ connected \in [Sessions -> BOOLEAN]
    /\ req \in [Requests -> Request]
    /\ faults \in Nat

IsOpen(t) == turn[t].status \in OpenStatus

(* A session's ActiveTurnID names exactly its one unfinished turn, and a   *)
(* session that is archived has none: StartTurn, TransitionTurn and the    *)
(* two-step ArchiveSession keep the two tables in agreement whatever       *)
(* requests interleave, are cancelled or die.                              *)
ActiveTurnLock ==
    /\ \A t \in Turns : IsOpen(t) => session[turn[t].session].active = t
    /\ \A s \in Sessions :
          session[s].active # NoTurn =>
             /\ session[s].status = "active"
             /\ IsOpen(session[s].active)
             /\ turn[session[s].active].session = s

(* Two requests never drive the same turn, and the version a request holds *)
(* is the stored one, so its compare-and-swap updates never conflict: a    *)
(* tool result cannot be recorded by a request that lost the turn.         *)
SingleDriver ==
    \A r \in Requests :
       req[r].turn # NoTurn =>
          /\ req[r].ver = turn[req[r].turn].version
          /\ \A q \in Requests \ {r} : req[q].turn # req[r].turn

Gated(t, i) == steps[t][i].kind = "gated"

(* No tool starts twice for one call, and a gated tool starts only after   *)
(* its own approval was granted and consumed: never for a denied, expired  *)
(* or undecided one, whatever decisions race.                              *)
ExecutionFollowsApproval ==
    \A t \in Turns : \A i \in 1..Len(steps[t]) :
       /\ steps[t][i].runs <= 1
       /\ Gated(t, i) /\ steps[t][i].runs = 1 =>
             \E a \in Approvals : /\ approval[a].status = "consumed"
                                  /\ approval[a].turn = t
                                  /\ approval[a].step = i

(* A turn completes only when every step of it, model and tool, completed: *)
(* no failed, cancelled or forgotten step hides in a successful turn, which *)
(* later turns replay as history.                                          *)
CompletedTurnIsClean ==
    \A t \in Turns : turn[t].status = "completed" =>
       \A i \in 1..Len(steps[t]) : steps[t][i].status = "completed"

(* While no request was cancelled and the manager did not stop, a queued   *)
(* or running turn has a request driving it: every error path ends the     *)
(* turn.                                                                   *)
RunningTurnIsDriven ==
    faults = 0 =>
       \A t \in Turns : turn[t].status \in {"queued", "running"} =>
          \E r \in Requests : req[r].turn = t

(* A finished turn is history: its status, its steps and its messages      *)
(* never change again, even through requests that still hold its approval. *)
FinishedTurnFrozen ==
    [][\A t \in Turns : turn[t].status \in TerminalStatus =>
          /\ turn'[t] = turn[t]
          /\ steps'[t] = steps[t]
          /\ unpaired'[t] = unpaired[t]]_vars

(* Every request returns: no retry or wait loop keeps a handler, even when *)
(* it is cancelled or finds the turn in an unexpected state.               *)
RequestsReturn == \A r \in Requests : ~At(r, "idle") ~> At(r, "idle")

(* Without cancellations and crashes a started turn settles: it finishes,  *)
(* or it is parked for an approval.                                        *)
StartedTurnSettles ==
    \A t \in Turns :
       (faults = 0 /\ turn[t].status \in {"queued", "running"}) ~>
          (faults > 0 \/ turn[t].status \in {"waiting"} \cup TerminalStatus)

-----------------------------------------------------------------------------
(* The store implements SessionContract: versions, steps, approvals and    *)
(* requests are invisible in it.                                           *)

SessionPhase(t) ==
    CASE turn[t].status = "none" -> "fresh"
      [] turn[t].status \in OpenStatus -> "open"
      [] turn[t].status \in TerminalStatus -> "finished"

Contract == INSTANCE SessionContract WITH
    status <- [s \in Sessions |-> session[s].status],
    occupant <- [s \in Sessions |-> session[s].active],
    phase <- [t \in Turns |-> SessionPhase(t)]

(* Every behaviour of the runtime, cancellations and crashes included, is  *)
(* one of the contract: turns start and finish once, one at a time, and no *)
(* session is archived under a running turn.                               *)
ImplementsContract == Contract!Spec

-----------------------------------------------------------------------------
(* Claims of the repository that the code does not keep.                   *)

Resolving(a) ==
    \E r \in Requests : req[r].approval = a /\ ~At(r, "decide")

(* loop.go, ResolveApproval: "atomically decides a pending approval and    *)
(* either resumes the frozen invocation or terminates the waiting turn":   *)
(* once an approval is decided, its turn is not left waiting for it.       *)
ApprovalResolvedAtomically ==
    \A a \in Approvals :
       approval[a].status \in {"approved", "denied", "expired", "consumed"} =>
          ~Awaits(a) \/ Resolving(a)

(* context.go, completedHistory: "Restore complete successful turns only,  *)
(* preserving tool-call/result pairs": in a completed turn every tool call *)
(* has its result message.                                                 *)
CompletedTurnIsPaired ==
    \A t \in Turns : turn[t].status = "completed" => unpaired[t] = 0

=============================================================================
