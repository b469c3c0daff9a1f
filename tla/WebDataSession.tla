--------------------------- MODULE WebDataSession ---------------------------
(***************************************************************************)
(* The browser's data workspace (manager/web/webdata_http.go and its        *)
(* agent handle): sessions that hold a database client, the requests that  *)
(* run statements on them one at a time, and the closing of a session by   *)
(* its user, its expiry or the end of its access.                          *)
(*                                                                         *)
(* close() does not take the session's mutex, so a statement may find the  *)
(* client gone between its check and its use.  All the sessions belong to  *)
(* one access.                                                             *)
(***************************************************************************)
EXTENDS Naturals

CONSTANTS
    Tokens,   \* sessions
    Reqs,     \* requests of the browser and calls of the agent
    Dialled,  \* the sessions whose client dials per statement (memcached)
    None

VARIABLES
    status,   \* effective status of the access
    closer,   \* the request that stops or deletes the access, mid-way
    pc,       \* where handleCreateWebDataSessionHTTP is with each session
    store,    \* webDataSessionStore.sessions
    stale,    \* sessions whose thirty minutes have passed
    client,   \* sessions whose client field is set
    handles,  \* sessions registered with the agent's access sessions
    undo,     \* sessions whose agentUnregister field is set
    mutex,    \* session.mu
    req,      \* the requests
    audits    \* per session: opened, failed; per request: statements

vars == <<status, closer, pc, store, stale, client, handles, undo, mutex, req, audits>>
sessVars == <<store, stale, client, handles, undo>>

Creating == {"new", "checked", "opened", "saved", "created", "registered"}
Stages == {"new", "found", "active", "locked", "using", "running", "closing", "over", "panicked"}
Kinds == {"execute", "metadata", "agent", "delete"}
Idle == [at |-> "idle", closing |-> {}]
Closer == [at: {"idle", "written", "closing"}, closing: SUBSET Tokens]

Init ==
    /\ status = "active"
    /\ closer = Idle
    /\ pc = [t \in Tokens |-> "new"]
    /\ store = {}
    /\ stale = {}
    /\ client = {}
    /\ handles = {}
    /\ undo = {}
    /\ mutex = [t \in Tokens |-> None]
    /\ req = [r \in Reqs |-> [at |-> "new", kind |-> "execute", tok |-> None]]
    /\ audits = [open |-> [t \in Tokens |-> 0], failed |-> [t \in Tokens |-> 0],
                 run |-> [r \in Reqs |-> 0]]

Goto(t, stage) == pc' = [pc EXCEPT ![t] = stage]
Step(r, stage) == req' = [req EXCEPT ![r].at = stage]

\* loadWebDataTarget computes the effective status of the access.
Usable == status = "active"

\* session.close() of the sessions ts.  The cache client keeps its dial function.
close(ts) ==
    /\ client' = client \ (ts \ Dialled)
    /\ handles' = handles \ (ts \cap undo)
    /\ undo' = undo \ ts

(* ---- the access ---- *)

\* UpdateProxy with status "stopped", or DeleteProxy, writes the row.
WriteRow(to) ==
    /\ status \in {"active", "offline"}
    /\ closer = Idle
    /\ status' = to
    /\ closer' = [closer EXCEPT !.at = "written"]
    /\ UNCHANGED <<pc, sessVars, mutex, req, audits>>

\* closeByProxy takes every session of the access out under the lock ...
closeByProxy ==
    /\ closer.at = "written"
    /\ store' = {}
    /\ closer' = [at |-> "closing", closing |-> store]
    /\ UNCHANGED <<status, pc, stale, client, handles, undo, mutex, req, audits>>

\* ... and closes them after it.
CloseAll ==
    /\ closer.at = "closing"
    /\ close(closer.closing)
    /\ closer' = Idle
    /\ UNCHANGED <<status, pc, store, stale, mutex, req, audits>>

Connector ==
    /\ \/ status \in {"offline", "stopped"} /\ closer = Idle /\ status' = "active"
       \/ status = "active" /\ status' = "offline"
    /\ UNCHANGED <<closer, pc, sessVars, mutex, req, audits>>

(* ---- handleCreateWebDataSessionHTTP ---- *)

CheckTarget(t) ==
    /\ pc[t] = "new"
    /\ Usable
    /\ Goto(t, "checked")
    /\ UNCHANGED <<status, closer, sessVars, mutex, req, audits>>

\* Mutant of openWebDataClient: a pool whose ping failed is not closed.
leaksClient(t) ==
    /\ pc[t] = "checked"
    /\ UNCHANGED <<status, closer, store, stale, handles, undo, mutex, req>>
    /\ client' = client \cup {t}
    /\ \/ Usable /\ Goto(t, "opened") /\ UNCHANGED audits
       \/ Goto(t, "over") /\ audits' = [audits EXCEPT !.failed[t] = @ + 1]

\* openWebDataClient: the pool's first connection dials through
\* OpenWebDataStream, which checks the access again, and is pinged.  A failure
\* closes the pool and is audited.
openWebDataClient(t) ==
    /\ pc[t] = "checked"
    /\ UNCHANGED <<status, closer, store, stale, handles, undo, mutex, req>>
    /\ \/ /\ Usable
          /\ client' = client \cup {t}
          /\ Goto(t, "opened")
          /\ UNCHANGED audits
       \/ /\ Goto(t, "over")
          /\ audits' = [audits EXCEPT !.failed[t] = @ + 1]
          /\ UNCHANGED client

\* The credential is saved, if asked; a save that fails closes the session.
SaveCredential(t) ==
    /\ pc[t] = "opened"
    /\ UNCHANGED <<status, closer, store, stale, mutex, req, audits>>
    /\ \/ Goto(t, "saved") /\ UNCHANGED <<client, handles, undo>>
       \/ Goto(t, "over") /\ close({t})

\* The store sweeps what has expired and takes the new session.
create(t) ==
    LET swept == store \cap stale IN
    /\ pc[t] = "saved"
    /\ store' = (store \ swept) \cup {t}
    /\ close(swept)
    /\ Goto(t, "created")
    /\ UNCHANGED <<status, closer, stale, mutex, req, audits>>

\* The agent handle comes after the store: the session may be closed already.
registerWebDataAgentSession(t) ==
    /\ pc[t] = "created"
    /\ handles' = handles \cup {t}
    /\ undo' = undo \cup {t}
    /\ Goto(t, "registered")
    /\ UNCHANGED <<status, closer, store, stale, client, mutex, req, audits>>

AuditOpen(t) ==
    /\ pc[t] = "registered"
    /\ audits' = [audits EXCEPT !.open[t] = @ + 1]
    /\ Goto(t, "over")
    /\ UNCHANGED <<status, closer, sessVars, mutex, req>>

Expire(t) ==
    /\ t \in store \ stale
    /\ stale' = stale \cup {t}
    /\ UNCHANGED <<status, closer, pc, store, client, handles, undo, mutex, req, audits>>

(* ---- the requests ---- *)

\* get: an expired session is removed and closed, another lives on.
get(r, t, kind) ==
    /\ req[r].at = "new"
    /\ kind # "agent"
    /\ audits.open[t] = 1
    /\ UNCHANGED <<status, closer, pc, mutex, audits>>
    /\ \/ /\ t \in store \ stale
          /\ req' = [req EXCEPT ![r] = [at |-> "found", kind |-> kind, tok |-> t]]
          /\ UNCHANGED sessVars
       \/ /\ t \in store \cap stale
          /\ store' = store \ {t}
          /\ close({t})
          /\ UNCHANGED stale
          /\ req' = [req EXCEPT ![r] = [at |-> "over", kind |-> kind, tok |-> None]]

\* The agent resolves its handle instead.
Resolve(r, t) ==
    /\ req[r].at = "new"
    /\ t \in handles
    /\ req' = [req EXCEPT ![r] = [at |-> "found", kind |-> "agent", tok |-> t]]
    /\ UNCHANGED <<status, closer, pc, sessVars, mutex, audits>>

ensureWebDataSessionActive(r) ==
    /\ req[r].at = "found"
    /\ req[r].kind # "delete"
    /\ Step(r, IF Usable THEN "active" ELSE "over")
    /\ UNCHANGED <<status, closer, pc, sessVars, mutex, audits>>

Lock(r) ==
    /\ req[r].at = "active"
    /\ mutex[req[r].tok] = None
    /\ mutex' = [mutex EXCEPT ![req[r].tok] = r]
    /\ Step(r, "locked")
    /\ UNCHANGED <<status, closer, pc, sessVars, audits>>

\* The deferred unlock; a statement's audit line, whatever the outcome.
Unlock(r, stage, lines) ==
    /\ mutex' = [mutex EXCEPT ![req[r].tok] = None]
    /\ Step(r, stage)
    /\ audits' = [audits EXCEPT !.run[r] = @ + lines]
    /\ UNCHANGED <<status, closer, pc, sessVars>>

\* The browser's and the agent's statements leave a line, metadata does not.
Lines(r) == IF req[r].kind = "metadata" THEN 0 ELSE 1

\* execute and metadata first look whether the client is there.
CheckClient(r) ==
    /\ req[r].at = "locked"
    /\ \/ /\ req[r].tok \in client
          /\ Step(r, "using")
          /\ UNCHANGED <<status, closer, pc, sessVars, mutex, audits>>
       \/ /\ req[r].tok \notin client
          /\ Unlock(r, "over", Lines(r))

\* Then they use it: the cache client dials, and is refused by a stopped
\* access; a pool is reached through a field that close() may have cleared.
Use(r) ==
    LET t == req[r].tok IN
    /\ req[r].at = "using"
    /\ \/ /\ t \in client
          /\ t \in Dialled => Usable
          /\ Step(r, "running")
          /\ UNCHANGED <<status, closer, pc, sessVars, mutex, audits>>
       \/ t \in Dialled /\ ~Usable /\ Unlock(r, "over", Lines(r))
       \/ t \notin client /\ Unlock(r, "panicked", 0)

\* The statement ends: with its rows, an error, its timeout or its cancellation.
execute(r) ==
    /\ req[r].at = "running"
    /\ Unlock(r, "over", Lines(r))

\* handleDeleteWebDataSessionHTTP audits before it deletes.
AuditClose(r) ==
    /\ req[r].at = "found"
    /\ req[r].kind = "delete"
    /\ Step(r, "closing")
    /\ UNCHANGED <<status, closer, pc, sessVars, mutex, audits>>

delete(r) ==
    LET t == req[r].tok IN
    /\ req[r].at = "closing"
    /\ IF t \in store
       THEN store' = store \ {t} /\ close({t}) /\ UNCHANGED stale
       ELSE UNCHANGED sessVars
    /\ Step(r, "over")
    /\ UNCHANGED <<status, closer, pc, mutex, audits>>

Statement(r) ==
    ensureWebDataSessionActive(r) \/ Lock(r) \/ CheckClient(r) \/ Use(r) \/ execute(r)

Next ==
    \/ \E to \in {"stopped", "deleted"} : WriteRow(to)
    \/ closeByProxy \/ CloseAll \/ Connector
    \/ \E t \in Tokens :
          \/ CheckTarget(t) \/ openWebDataClient(t) \/ SaveCredential(t) \/ create(t)
          \/ registerWebDataAgentSession(t) \/ AuditOpen(t) \/ Expire(t)
    \/ \E r \in Reqs :
          \/ \E t \in Tokens, k \in Kinds : get(r, t, k)
          \/ \E t \in Tokens : Resolve(r, t)
          \/ Statement(r) \/ AuditClose(r) \/ delete(r)

Spec == Init /\ [][Next]_vars

(* ---- properties ---- *)

TypeOK ==
    /\ status \in {"active", "offline", "stopped", "deleted"}
    /\ closer \in Closer
    /\ pc \in [Tokens -> Creating \cup {"over"}]
    /\ \A s \in {store, stale, client, handles, undo} : s \subseteq Tokens
    /\ mutex \in [Tokens -> Reqs \cup {None}]
    /\ req \in [Reqs -> [at: Stages, kind: Kinds, tok: Tokens \cup {None}]]
    /\ audits \in [open: [Tokens -> 0..1], failed: [Tokens -> 0..1], run: [Reqs -> 0..1]]

\* Once the request that stopped or deleted the access has closed its sessions,
\* no statement starts: neither one that was checked before and waited for the
\* mutex, nor one of an agent handle that outlived its session.
StartsOnlyActive ==
    \A r \in Reqs :
        req'[r].at = "running" /\ req[r].at # "running"
            => status \notin {"stopped", "deleted"} \/ closer # Idle

\* A session that left the store has no client left once its close is done, and
\* a session that never reached it has none either.
NoClientLeftBehind ==
    \A t \in client \ (store \cup closer.closing \cup Dialled) :
        pc[t] \in {"opened", "saved"}

\* An agent handle outlives its session only if the session was closed before
\* the handle was there, and then it has no client to run a statement on.
OrphanHandleIsPowerless ==
    \A t \in handles \ (store \cup closer.closing \cup Dialled) :
        t \notin client

\* A statement that reached the target is in the audit log exactly once when it
\* is over, even if its session is gone by then.
StatementIsAudited ==
    \A r \in Reqs :
        req[r].at = "running" /\ req'[r].at = "over" /\ req[r].kind # "metadata"
            => audits'.run[r] = 1

\* A request that got its session does not wait for ever, whatever the others do
\* with the session and its mutex.
RequestStarted(r) == req[r].at = "found"
RequestOver(r) == req[r].at \in {"over", "panicked"}
=============================================================================
