------------------------------ MODULE Assistance ------------------------------
(***************************************************************************)
(* Inline completion (agent/assistance, application/suggestions.go and     *)
(* assistance.go): one lane per editor, kept in a bounded map.  A newer    *)
(* revision of the text supersedes the request in flight, the connection   *)
(* may be replaced while the model writes, and the lane may be closed or   *)
(* expire under a request that has already looked it up.                   *)
(***************************************************************************)
EXTENDS Naturals, FiniteSets

CONSTANTS Editors, Requests, Lanes, Revisions, MaxLanes, MaxGen, None

VARIABLES
    assistants,  \* Service.assistants: the lane of each editor
    stale,       \* editors whose entry was not used for ten minutes
    lane,        \* the assistance.Session objects
    req,         \* the request each goroutine serves
    gen,         \* generation of the live connection
    may          \* the user holds the permission

vars == <<assistants, stale, lane, req, gen, may>>

Lane == [made: BOOLEAN, closed: BOOLEAN, revision: {0} \cup Revisions,
         cancel: Requests \cup {None}, gen: 0..MaxGen]
Stages == {"idle", "arrived", "creating", "created", "ready", "entered", "checking",
           "generating", "validating", "generated", "rechecked", "leaving", "done"}
Request == [at: Stages, editor: Editors \cup {None}, rev: {0} \cup Revisions,
            lane: Lanes \cup {None}, previous: Requests \cup {None}, cancelled: BOOLEAN,
            answered: 0..MaxGen, ok: BOOLEAN]
NewRequest == [at |-> "idle", editor |-> None, rev |-> 0, lane |-> None, previous |-> None,
               cancelled |-> FALSE, answered |-> 0, ok |-> FALSE]

Init ==
    /\ assistants = [e \in Editors |-> None]
    /\ stale = {}
    /\ lane = [l \in Lanes |-> [made |-> FALSE, closed |-> FALSE, revision |-> 0,
                                cancel |-> None, gen |-> 0]]
    /\ req = [r \in Requests |-> NewRequest]
    /\ gen = 1
    /\ may = TRUE

Goto(r, stage) == req' = [req EXCEPT ![r].at = stage]
Held == {e \in Editors : assistants[e] # None}
env == <<gen, may>>

\* Session.Close on the lanes ls: the request that holds `cancel' is cancelled.
Close(ls, rs) ==
    LET cut == {lane[l].cancel : l \in ls} \ {None}
    IN  /\ lane' = [l \in Lanes |-> IF l \in ls THEN [lane[l] EXCEPT !.closed = TRUE, !.cancel = None]
                                                ELSE lane[l]]
        /\ req' = [r \in Requests |-> IF r \in cut THEN [rs[r] EXCEPT !.cancelled = TRUE] ELSE rs[r]]

(* ---- application.Service.Suggest ---- *)

\* The handler reads the shell context of the connection first, if the
\* request wants one, and gives up if the connection cannot be resolved.
handleAssistanceHTTP(r, e, v) ==
    /\ req[r].at = "idle"
    /\ \E at \in {"arrived", "done"} :
         req' = [req EXCEPT ![r] = [NewRequest EXCEPT !.at = at, !.editor = e, !.rev = v]]
    /\ UNCHANGED <<assistants, stale, lane, env>>

\* The first locked section: idle lanes are closed and removed, the editor's
\* lane is looked up.
Suggest(r) ==
    LET e == req[r].editor
        kept == [x \in Editors |-> IF x \in stale THEN None ELSE assistants[x]]
        full == Cardinality(Held \ stale) >= MaxLanes
        at == IF kept[e] # None THEN "ready" ELSE IF full THEN "done" ELSE "creating"
    IN  /\ req[r].at = "arrived"
        /\ assistants' = kept
        /\ stale' = {}
        /\ Close({assistants[x] : x \in stale},
                 [req EXCEPT ![r].at = at, ![r].lane = kept[e]])
        /\ UNCHANGED env

\* The same call with closeSession set (the editor goes away).
CloseEditor(e) ==
    LET gone == stale \cup {e}
    IN  /\ assistants[e] # None
        /\ assistants' = [x \in Editors |-> IF x \in gone THEN None ELSE assistants[x]]
        /\ stale' = {}
        /\ Close({assistants[x] : x \in gone} \ {None}, req)
        /\ UNCHANGED env

\* Bind, the organization and the permission, outside the lock.
NewAssistanceSession(r, l) ==
    /\ req[r].at = "creating"
    /\ ~lane[l].made /\ \A k \in Lanes : k < l => lane[k].made
    /\ IF may
       THEN /\ lane' = [lane EXCEPT ![l].made = TRUE, ![l].gen = gen]
            /\ req' = [req EXCEPT ![r].at = "created", ![r].lane = l]
       ELSE Goto(r, "done") /\ UNCHANGED lane
    /\ UNCHANGED <<assistants, stale, env>>

\* The second locked section: another request may have been faster, or the
\* map may have filled up.
Insert(r) ==
    LET e == req[r].editor
        l == req[r].lane
    IN  /\ req[r].at = "created"
        /\ IF assistants[e] # None
           THEN Close({l}, [req EXCEPT ![r].at = "ready", ![r].lane = assistants[e]])
                /\ UNCHANGED assistants
           ELSE IF Cardinality(Held) >= MaxLanes
           THEN Close({l}, [req EXCEPT ![r].at = "done"]) /\ UNCHANGED assistants
           ELSE /\ assistants' = [assistants EXCEPT ![e] = l]
                /\ Goto(r, "ready") /\ UNCHANGED lane
        /\ UNCHANGED <<stale, env>>

\* The third: the entry is marked as used if it is still this lane.
Touch(r) ==
    /\ req[r].at = "ready"
    /\ stale' = IF assistants[req[r].editor] = req[r].lane THEN stale \ {req[r].editor} ELSE stale
    /\ Goto(r, "entered")
    /\ UNCHANGED <<assistants, lane, env>>

(* ---- assistance.Session.Suggest ---- *)

\* The request takes the lane over from an older one.
Enter(r) ==
    LET l == req[r].lane
    IN  /\ req[r].at = "entered"
        /\ IF lane[l].closed \/ req[r].rev <= lane[l].revision
           THEN Goto(r, "done") /\ UNCHANGED lane
           ELSE /\ lane' = [lane EXCEPT ![l].revision = req[r].rev, ![l].cancel = r]
                /\ req' = [req EXCEPT ![r].at = "checking", ![r].previous = lane[l].cancel]
        /\ UNCHANGED <<assistants, stale, env>>

\* previous() runs outside the lock, before the guard.
CancelPrevious(r) ==
    /\ req[r].at = "checking"
    /\ req[r].previous # None
    /\ req' = [req EXCEPT ![req[r].previous].cancelled = TRUE, ![r].previous = None]
    /\ UNCHANGED <<assistants, stale, lane, env>>

\* assistanceGuard.Check: the connection is still the one of the lane and the
\* user may still use the agent.
Check(r) == lane[req[r].lane].gen = gen /\ may

GuardBefore(r) ==
    /\ req[r].at = "checking" /\ req[r].previous = None
    /\ Goto(r, IF Check(r) /\ ~req[r].cancelled THEN "generating" ELSE "leaving")
    /\ UNCHANGED <<assistants, stale, lane, env>>

\* ModelGenerator.Suggest: the model answers with a usable text at the first
\* or second attempt, or not at all.  `answered' notes the connection.
Generate(r) ==
    /\ req[r].at = "generating"
    /\ \/ ~req[r].cancelled
          /\ req' = [req EXCEPT ![r].at = "validating", ![r].answered = gen]
       \/ Goto(r, "leaving")
    /\ UNCHANGED <<assistants, stale, lane, env>>

\* shellGenerator.Suggest validates the shell session a second time.
Validate(r) ==
    /\ req[r].at = "validating"
    /\ Goto(r, IF Check(r) THEN "generated" ELSE "leaving")
    /\ UNCHANGED <<assistants, stale, lane, env>>

GuardAfter(r) ==
    /\ req[r].at = "generated"
    /\ Goto(r, IF Check(r) /\ ~req[r].cancelled THEN "rechecked" ELSE "leaving")
    /\ UNCHANGED <<assistants, stale, lane, env>>

\* Mutant of Return: the answer is returned although the turn was superseded.
returnsAnyway(r) ==
    /\ req[r].at = "rechecked"
    /\ req' = [req EXCEPT ![r].at = "leaving", ![r].ok = ~lane[req[r].lane].closed]
    /\ UNCHANGED <<assistants, stale, lane, env>>

\* The last locked section decides whether the suggestion is still wanted.
Return(r) ==
    LET l == req[r].lane
    IN  /\ req[r].at = "rechecked"
        /\ req' = [req EXCEPT ![r].at = "leaving",
                     ![r].ok = /\ ~lane[l].closed
                               /\ lane[l].revision = req[r].rev
                               /\ ~req[r].cancelled]
        /\ UNCHANGED <<assistants, stale, lane, env>>

\* The deferred function and the deferred cancel of its own context.
Leave(r) ==
    LET l == req[r].lane
    IN  /\ req[r].at = "leaving"
        /\ lane' = [lane EXCEPT ![l].cancel = IF lane[l].revision = req[r].rev THEN None ELSE @]
        /\ req' = [req EXCEPT ![r].at = "done", ![r].cancelled = TRUE]
        /\ UNCHANGED <<assistants, stale, env>>

\* Session.Invalidate: typing goes on without a new request.
Invalidate(l, v) ==
    /\ lane[l].made /\ ~lane[l].closed
    /\ v > lane[l].revision
    /\ lane' = [lane EXCEPT ![l].revision = v, ![l].cancel = None]
    /\ req' = [r \in Requests |-> IF r = lane[l].cancel THEN [req[r] EXCEPT !.cancelled = TRUE]
                                                        ELSE req[r]]
    /\ UNCHANGED <<assistants, stale, env>>

(* ---- the environment ---- *)

\* Ten minutes pass; a request in flight is over after fifteen seconds.
Idle(e) ==
    /\ assistants[e] # None /\ e \notin stale
    /\ \A r \in Requests : req[r].editor = e => req[r].at \in {"arrived", "done"}
    /\ stale' = stale \cup {e}
    /\ UNCHANGED <<assistants, lane, req, env>>

Reconnect == gen < MaxGen /\ gen' = gen + 1 /\ UNCHANGED <<assistants, stale, lane, req, may>>
SetPermission == may' = ~may /\ UNCHANGED <<assistants, stale, lane, req, gen>>

\* The fifteen-second deadline, or the browser aborts the request.
Abort(r) ==
    /\ req[r].at \in Stages \ {"idle", "done"}
    /\ ~req[r].cancelled
    /\ req' = [req EXCEPT ![r].cancelled = TRUE]
    /\ UNCHANGED <<assistants, stale, lane, env>>

Step(r) ==
    \/ Suggest(r)
    \/ \E l \in Lanes : NewAssistanceSession(r, l)
    \/ Insert(r) \/ Touch(r) \/ Enter(r) \/ CancelPrevious(r) \/ GuardBefore(r)
    \/ Validate(r) \/ GuardAfter(r) \/ Return(r) \/ Leave(r)

Next ==
    \/ \E r \in Requests, e \in Editors, v \in Revisions : handleAssistanceHTTP(r, e, v)
    \/ \E r \in Requests : Step(r) \/ Generate(r) \/ Abort(r)
    \/ \E e \in Editors : CloseEditor(e) \/ Idle(e)
    \/ \E l \in Lanes, v \in Revisions : Invalidate(l, v)
    \/ Reconnect \/ SetPermission

Spec == Init /\ [][Next]_vars

\* A generator whose context is cancelled returns.
GiveUp(r) == req[r].cancelled /\ Generate(r)

(* ---- properties ---- *)

\* Every variable keeps its type.
TypeOK ==
    /\ assistants \in [Editors -> Lanes \cup {None}]
    /\ stale \subseteq Held
    /\ lane \in [Lanes -> Lane]
    /\ req \in [Requests -> Request]
    /\ gen \in 1..MaxGen
    /\ may \in BOOLEAN

\* A lane is reachable or closed: the open lanes are those of the map and
\* those a request has just created and will insert or close.
NoLaneLeaks ==
    \A l \in Lanes : lane[l].made /\ ~lane[l].closed =>
        \/ \E e \in Editors : assistants[e] = l
        \/ \E r \in Requests : req[r].at = "created" /\ req[r].lane = l

\* The map keeps its bound although it is unlocked between the first count
\* and the insertion.
LanesAreBounded == Cardinality(Held) <= MaxLanes

\* The editor gets no suggestion for text it has since replaced: at the
\* moment a suggestion is returned, no newer revision has entered the lane.
NewestIsReturned ==
    \A r \in Requests : req'[r].ok /\ ~req[r].ok =>
          /\ lane[req[r].lane].revision = req[r].rev
          /\ \A q \in Requests \ {r} :
               req[q].lane = req[r].lane /\ req[q].at \notin {"ready", "entered", "done"} =>
                   req[q].rev < req[r].rev

\* A suggestion is returned only if the connection it was asked for was still
\* in place when the model had answered.
SuggestionFitsConnection ==
    \A r \in Requests : req[r].ok => req[r].answered = lane[req[r].lane].gen

\* A request that a newer one superseded, or whose lane was closed, ends
\* although the model never answers and the deadline does not pass.
Superseded(r) ==
    /\ req[r].lane # None /\ req[r].at # "created"
    /\ lane[req[r].lane].closed \/ lane[req[r].lane].revision > req[r].rev
RequestOver(r) == req[r].at = "done"
===============================================================================
