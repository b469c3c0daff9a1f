----------------------------- MODULE AgentStore -----------------------------
(***************************************************************************)
(* The durable state of the agent: sessions, turns, steps, messages and    *)
(* approvals, and the calls that change them (agent/runtime/types.go,      *)
(* durable_store.go and durable_approval.go).  Every call is a transaction *)
(* or a compare-and-swap update on the manager's one SQLite connection, so *)
(* each is a single atomic change.                                         *)
(***************************************************************************)
EXTENDS Integers, Sequences

CONSTANTS
    Sessions,        \* session IDs
    Turns,           \* turn IDs (random in the code: any unused one)
    Approvals,       \* approval IDs
    NoTurn           \* the empty ActiveTurnID, and the ID of a zero Turn{}

ASSUME TurnsAssumption == NoTurn \notin Turns

ASSUME SessionsAssumption == Sessions # {}

VARIABLES
    session,   \* [Sessions -> status, ActiveTurnID, Version]
    turn,      \* [Turns -> status, session, ActiveStepID, Version]
    steps,     \* [Turns -> the turn's steps, indexed by their Sequence]
    approval,  \* [Approvals -> status, turn, step, past ExpiresAt or not]
    unpaired   \* [Turns -> persisted tool calls that have no tool message]

stored == <<session, turn, steps, approval, unpaired>>

-----------------------------------------------------------------------------
(* Status codes and their legal transitions.                               *)

SessionStatus == {"none", "active", "archived"}
OpenStatus == {"queued", "running", "waiting"}
TerminalStatus == {"completed", "cancelled", "failed"}
TurnStatus == {"none"} \cup OpenStatus \cup TerminalStatus
StepStatus == {"pending", "running", "waiting"} \cup TerminalStatus
ApprovalStatus ==
    {"none", "pending", "approved", "denied", "expired", "consumed"}

validTurnTransition(from, to) ==
    \/ from = to
    \/ /\ from = "queued"
       /\ to \in {"running", "cancelled", "failed"}
    \/ /\ from = "running"
       /\ to \in {"waiting", "completed", "cancelled", "failed"}
    \/ /\ from = "waiting"
       /\ to \in {"running", "cancelled", "failed"}

validStepTransition(from, to) ==
    \/ from = to
    \/ /\ from = "pending"
       /\ to \in {"running", "cancelled", "failed"}
    \/ /\ from = "running"
       /\ to \in {"waiting", "completed", "cancelled", "failed"}
    \/ /\ from = "waiting"
       /\ to \in {"running", "cancelled", "failed"}

(* A tool call is settled by policy alone, or needs a person's approval.   *)
CallKind == {"auto", "gated"}

(* A step; runs counts how often its tool was really started.              *)
Step == [kind : {"model"} \cup CallKind, status : StepStatus, runs : Nat]

Session == [status : SessionStatus, active : Turns \cup {NoTurn},
            version : Nat]

Turn == [status : TurnStatus, session : Sessions, activeStep : Nat,
         version : Nat]

Approval == [status : ApprovalStatus, turn : Turns \cup {NoTurn},
             step : Nat, lapsed : BOOLEAN]

StoreTypeOK ==
    /\ session \in [Sessions -> Session]
    /\ turn \in [Turns -> Turn]
    /\ steps \in [Turns -> Seq(Step)]
    /\ approval \in [Approvals -> Approval]
    /\ unpaired \in [Turns -> Int]

StoreInit ==
    /\ session = [s \in Sessions |->
                    [status |-> "none", active |-> NoTurn, version |-> 0]]
    /\ turn = [t \in Turns |->
                 [status |-> "none", session |-> CHOOSE s \in Sessions : TRUE,
                  activeStep |-> 0, version |-> 0]]
    /\ steps = [t \in Turns |-> <<>>]
    /\ approval = [a \in Approvals |->
                     [status |-> "none", turn |-> NoTurn, step |-> 0,
                      lapsed |-> FALSE]]
    /\ unpaired = [t \in Turns |-> 0]

-----------------------------------------------------------------------------
(* Calls on the store.  Each is guarded by what makes it return nil; a     *)
(* call on a cancelled context returns an error and changes nothing.       *)

CanStartTurn(s) == session[s].status = "active" /\ session[s].active = NoTurn

StartTurn(s, t) ==
    /\ turn' = [turn EXCEPT ![t] = [status |-> "queued", session |-> s,
                                    activeStep |-> 0, version |-> 1]]
    /\ session' = [session EXCEPT ![s].active = t, ![s].version = @ + 1]

CanTransitionTurn(t, expected, to) ==
    /\ t # NoTurn
    /\ turn[t].version = expected
    /\ validTurnTransition(turn[t].status, to)

(* Mutant of TransitionTurn: a cancelled turn keeps its session locked.     *)
TransitionTurnKeepsLock(t, to) ==
    LET s == turn[t].session
    IN  /\ turn' = [turn EXCEPT ![t].status = to, ![t].version = @ + 1]
        /\ session' =
             IF to \in {"completed", "failed"} /\ session[s].active = t
             THEN [session EXCEPT ![s].active = NoTurn, ![s].version = @ + 1]
             ELSE session

(* A turn that ends releases its session in the same transaction.          *)
TransitionTurn(t, to) ==
    LET s == turn[t].session
    IN  /\ turn' = [turn EXCEPT ![t].status = to, ![t].version = @ + 1]
        /\ session' =
             IF to \in TerminalStatus /\ session[s].active = t
             THEN [session EXCEPT ![s].active = NoTurn, ![s].version = @ + 1]
             ELSE session

CanAppendStep(t, expected) ==
    /\ t # NoTurn
    /\ turn[t].version = expected
    /\ turn[t].status \notin TerminalStatus

(* Mutant of AppendStep: the turn's version is not advanced.               *)
AppendStepKeepsVersion(t, kind) ==
    /\ steps' = [steps EXCEPT ![t] =
                   Append(@, [kind |-> kind, status |-> "running", runs |-> 0])]
    /\ turn' = [turn EXCEPT ![t].activeStep = Len(steps[t]) + 1]

AppendStep(t, kind) ==
    /\ steps' = [steps EXCEPT ![t] =
                   Append(@, [kind |-> kind, status |-> "running", runs |-> 0])]
    /\ turn' = [turn EXCEPT ![t].activeStep = Len(steps[t]) + 1,
                            ![t].version = @ + 1]

CanTransitionStep(t, i, to) == validStepTransition(steps[t][i].status, to)

TransitionStep(t, i, to) == steps' = [steps EXCEPT ![t][i].status = to]

(* Approval calls: a request is created pending; the decision and the      *)
(* consumption are compare-and-swap updates on the status.                 *)
RequestApproval(a, t, i) ==
    approval' = [approval EXCEPT ![a] = [status |-> "pending", turn |-> t,
                                         step |-> i, lapsed |-> FALSE]]

Decision(a, approve) ==
    IF approval[a].lapsed THEN "expired"
    ELSE IF approve THEN "approved" ELSE "denied"

Granted(a) == approval[a].status = "approved" /\ ~approval[a].lapsed

SetApproval(a, to) == approval' = [approval EXCEPT ![a].status = to]

=============================================================================
