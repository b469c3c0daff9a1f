----------------------------- MODULE FileSessions -----------------------------
(***************************************************************************)
(* Remote file sessions of the browser terminal: the table of sessions     *)
(* with its limits and expiry (webssh_files_store.go), the requests that   *)
(* open a session and operate on it (webssh_files_http.go), and the upload *)
(* that publishes a temporary file with a hard link (sftpfiles).           *)
(*                                                                         *)
(* One request is one member of Reqs.  The uploads go to one remote path,  *)
(* so that two of them race for it.  A request's context and its SSH       *)
(* connection are two things: cancelling the first closes the second a     *)
(* little later.                                                           *)
(***************************************************************************)
EXTENDS Naturals, FiniteSets

CONSTANTS
    Ids,      \* file session identifiers
    Users,
    Reqs,     \* HTTP requests
    None,
    PerUser,  \* 4 in the code
    Total     \* 64 in the code

VARIABLES
    owner,    \* the user a session identifier belongs to
    items,    \* identifiers in fileSessions.items
    stale,    \* identifiers whose expiry has passed
    cancel,   \* fileSession.cancel: the request that holds the session
    req,      \* the requests
    done,     \* requests whose context is cancelled
    cut,      \* requests whose SSH connection is closed
    active,   \* requests in webSSHSessionStore.active
    pending,  \* cancel calls a remove or a closeByProxy still has to make
    allowed,  \* users whose authorisation and target check pass
    temp,     \* requests whose temporary file exists on the remote host
    dest      \* the request whose content the destination path holds

vars == <<owner, items, stale, cancel, req, done, cut, active, pending, allowed, temp, dest>>
tableVars == <<items, stale, cancel>>
ctxVars == <<done, cut, pending>>
remoteVars == <<temp, dest>>

Stages == {"new", "added", "held", "watched", "registered", "open", "absent", "temp",
           "copied", "unlink", "over"}
\* Stages in which a request holds the session it acquired.
Holding == {"held", "watched", "registered", "open", "absent", "temp", "copied", "unlink"}

Init ==
    /\ owner \in [Ids -> Users]
    /\ items = {}
    /\ stale = {}
    /\ cancel = [i \in Ids |-> None]
    /\ req = [r \in Reqs |-> [at |-> "new", kind |-> "read", id |-> None]]
    /\ done = {}
    /\ cut = {}
    /\ active = {}
    /\ pending = {}
    /\ allowed = Users
    /\ temp = {}
    /\ dest = None

Goto(r, stage) == req' = [req EXCEPT ![r].at = stage]
User(r) == IF req[r].id = None THEN None ELSE owner[req[r].id]
Mine(u) == {i \in items : owner[i] = u}

\* handleCreateFileSessionHTTP reaches fileSessions.add with a fresh random
\* identifier; a user, or the table, that is full is refused.
add(r, i) ==
    /\ req[r].at = "new"
    /\ i \notin items \cup stale
    /\ \A x \in Reqs : req[x].id # i
    /\ owner[i] \in allowed
    /\ Cardinality(Mine(owner[i])) < PerUser
    /\ Cardinality(items) < Total
    /\ items' = items \cup {i}
    /\ req' = [req EXCEPT ![r] = [at |-> "added", kind |-> "create", id |-> i]]
    /\ UNCHANGED <<owner, stale, cancel, ctxVars, active, allowed, remoteVars>>

\* handleFileOperationHTTP arrives for a session its user knows of.
Arrive(r, i, kind) ==
    /\ req[r].at = "new"
    /\ i \in items
    /\ \E x \in Reqs : req[x].id = i /\ req[x].kind = "create" /\ req[x].at = "over"
    /\ req' = [req EXCEPT ![r] = [at |-> "added", kind |-> kind, id |-> i]]
    /\ UNCHANGED <<owner, tableVars, ctxVars, active, allowed, remoteVars>>

\* The locked part of remove: the entry goes; its cancel is called after unlock.
Drop(i) ==
    /\ items' = items \ {i}
    /\ pending' = IF i \in items THEN pending \cup ({cancel[i]} \ {None}) ELSE pending

\* acquire: missing or expired, busy, or held.  A create that cannot acquire
\* its own session removes it.
acquire(r) ==
    LET i == req[r].id IN
    /\ req[r].at = "added"
    /\ IF i \in items \ stale /\ cancel[i] = None
       THEN /\ cancel' = [cancel EXCEPT ![i] = r]
            /\ Goto(r, "held")
            /\ UNCHANGED <<items, pending>>
       ELSE /\ Goto(r, "over")
            /\ IF req[r].kind = "create" THEN Drop(i) ELSE UNCHANGED <<items, pending>>
            /\ UNCHANGED cancel
    /\ UNCHANGED <<owner, stale, done, cut, active, allowed, remoteVars>>

\* The deferred calls: unregister, release, cancel, close the connection.  The
\* release clears the holder only while the same entry is in the table.
Finish(r, remove) ==
    LET i == req[r].id IN
    /\ Goto(r, "over")
    /\ active' = active \ {r}
    /\ done' = done \cup {r}
    /\ cut' = cut \cup {r}
    /\ IF remove /\ i \in items
       THEN items' = items \ {i} /\ UNCHANGED cancel
       ELSE /\ cancel' = IF i \in items THEN [cancel EXCEPT ![i] = None] ELSE cancel
            /\ UNCHANGED items
    /\ UNCHANGED <<owner, stale, pending, allowed>>

\* authorizeFiles once the session is held; then the re-authorisation ticker
\* starts.  A create was authorised before add and has no ticker.
authorizeFiles(r) ==
    /\ req[r].at = "held"
    /\ req[r].kind # "create"
    /\ UNCHANGED remoteVars
    /\ \/ /\ User(r) \notin allowed
          /\ Finish(r, FALSE)
       \/ /\ User(r) \in allowed
          /\ Goto(r, "watched")
          /\ UNCHANGED <<owner, tableVars, ctxVars, active, allowed>>

registerActive(r) ==
    /\ req[r].at = "watched"
    /\ active' = active \cup {r}
    /\ Goto(r, "registered")
    /\ UNCHANGED <<owner, tableVars, ctxVars, allowed, remoteVars>>

\* openFiles: the target is checked again, the SSH connection authenticated.
\* A create whose open fails removes the session it added.
openFiles(r) ==
    /\ \/ req[r].at = "registered"
       \/ req[r].at = "held" /\ req[r].kind = "create"
    /\ UNCHANGED remoteVars
    /\ \/ Finish(r, req[r].kind = "create")
       \/ /\ User(r) \in allowed
          /\ r \notin done
          /\ Goto(r, "open")
          /\ UNCHANGED <<owner, tableVars, ctxVars, active, allowed>>

\* A create (home directory), list, preview or download on the open connection.
Read(r) ==
    /\ req[r].at = "open"
    /\ req[r].kind \in {"create", "read"}
    /\ UNCHANGED remoteVars
    /\ \/ r \notin cut /\ Finish(r, FALSE)
       \/ Finish(r, req[r].kind = "create")

(* ---- Files.Upload ---- *)

\* Lstat: an existing destination is refused.
Lstat(r) ==
    /\ req[r].at = "open"
    /\ req[r].kind = "upload"
    /\ UNCHANGED remoteVars
    /\ \/ /\ r \notin cut
          /\ dest = None
          /\ Goto(r, "absent")
          /\ UNCHANGED <<owner, tableVars, ctxVars, active, allowed>>
       \/ /\ r \in cut \/ dest # None
          /\ Finish(r, FALSE)

CreateTemporary(r) ==
    /\ req[r].at = "absent"
    /\ \/ /\ r \notin cut
          /\ temp' = temp \cup {r}
          /\ Goto(r, "temp")
          /\ UNCHANGED <<owner, tableVars, ctxVars, active, allowed, dest>>
       \/ /\ r \in cut
          /\ Finish(r, FALSE)
          /\ UNCHANGED remoteVars

\* The copy ends; only a complete one whose context is still alive goes on.
Copy(r) ==
    /\ req[r].at = "temp"
    /\ \/ r \notin cut \cup done /\ Goto(r, "copied")
       \/ Goto(r, "unlink")
    /\ UNCHANGED <<owner, tableVars, ctxVars, active, allowed, remoteVars>>

\* Mutant of Link: the file is put in place by a rename, whatever is there.
renames(r) ==
    /\ req[r].at = "copied"
    /\ dest' = IF r \in cut THEN dest ELSE r
    /\ Goto(r, "unlink")
    /\ UNCHANGED <<owner, tableVars, ctxVars, active, allowed, temp>>

\* Link refuses an existing destination, whatever Lstat saw.
Link(r) ==
    /\ req[r].at = "copied"
    /\ dest' = IF r \notin cut /\ dest = None THEN r ELSE dest
    /\ Goto(r, "unlink")
    /\ UNCHANGED <<owner, tableVars, ctxVars, active, allowed, temp>>

\* The deferred Remove of the temporary file, on every way out.
RemoveTemporary(r) ==
    /\ req[r].at = "unlink"
    /\ temp' = IF r \in cut THEN temp ELSE temp \ {r}
    /\ UNCHANGED dest
    /\ Finish(r, FALSE)

(* ---- what happens to a session and a request from outside ---- *)

\* The expiry passes; the timer's remove follows.
Expire(i) ==
    /\ i \in items \ stale
    /\ stale' = stale \cup {i}
    /\ UNCHANGED <<owner, items, cancel, req, ctxVars, active, allowed, remoteVars>>

\* remove, by the timer or by the owner's DELETE, and close at shutdown.
remove(i) ==
    /\ i \in items
    /\ Drop(i)
    /\ UNCHANGED <<owner, stale, cancel, req, done, cut, active, allowed, remoteVars>>

\* The cancel calls of remove, close and closeByProxy, outside their locks.
CallCancel(r) ==
    /\ r \in pending
    /\ pending' = pending \ {r}
    /\ done' = done \cup {r}
    /\ UNCHANGED <<owner, tableVars, req, cut, active, allowed, remoteVars>>

\* The authorisation is revoked or the access stopped: the second also closes
\* the access's active requests.
Revoke(u) ==
    /\ u \in allowed
    /\ allowed' = allowed \ {u}
    /\ \E hit \in {{}, {r \in active : User(r) = u}} :
          active' = active \ hit /\ pending' = pending \cup hit
    /\ UNCHANGED <<owner, tableVars, req, done, cut, remoteVars>>

Permit(u) ==
    /\ u \notin allowed
    /\ allowed' = allowed \cup {u}
    /\ UNCHANGED <<owner, tableVars, req, ctxVars, active, remoteVars>>

\* The one-second ticker of a running operation authorises it again.
Tick(r) ==
    /\ req[r].at \in Holding \ {"held"}
    /\ req[r].kind # "create"
    /\ r \notin done
    /\ User(r) \notin allowed
    /\ done' = done \cup {r}
    /\ UNCHANGED <<owner, tableVars, req, cut, active, pending, allowed, remoteVars>>

\* The request's own timeout, or the browser going away.
Timeout(r) ==
    /\ req[r].at \in Holding
    /\ r \notin done
    /\ done' = done \cup {r}
    /\ UNCHANGED <<owner, tableVars, req, cut, active, pending, allowed, remoteVars>>

\* AfterFunc: a cancelled context closes the SSH connection.
CloseTransport(r) ==
    /\ r \in done \ cut
    /\ cut' = cut \cup {r}
    /\ UNCHANGED <<owner, tableVars, req, done, active, pending, allowed, remoteVars>>

Handler(r) ==
    \/ acquire(r) \/ authorizeFiles(r) \/ registerActive(r) \/ openFiles(r) \/ Read(r)
    \/ Lstat(r) \/ CreateTemporary(r) \/ Copy(r) \/ Link(r) \/ RemoveTemporary(r)

Next ==
    \/ \E r \in Reqs :
          \/ \E i \in Ids : add(r, i) \/ \E k \in {"read", "upload"} : Arrive(r, i, k)
          \/ Handler(r) \/ CallCancel(r) \/ Tick(r) \/ Timeout(r) \/ CloseTransport(r)
    \/ \E i \in Ids : Expire(i) \/ remove(i)
    \/ \E u \in Users : Revoke(u) \/ Permit(u)

\* What a handler does before its remote I/O, and after its connection is cut.
Begin(r) == req[r].at \in {"added", "held", "watched", "registered"} /\ Handler(r)
Unwind(r) == r \in cut /\ Handler(r)

Spec == Init /\ [][Next]_vars

(* ---- properties ---- *)

TypeOK ==
    /\ owner \in [Ids -> Users]
    /\ items \subseteq Ids
    /\ stale \subseteq Ids
    /\ cancel \in [Ids -> Reqs \cup {None}]
    /\ req \in [Reqs -> [at: Stages, kind: {"read", "upload", "create"}, id: Ids \cup {None}]]
    /\ \A s \in {done, cut, active, pending, temp} : s \subseteq Reqs
    /\ allowed \subseteq Users
    /\ dest \in Reqs \cup {None}

\* A file session serves one request at a time, for as long as any request
\* still works on it.
OneRequestPerSession ==
    \A r1, r2 \in Reqs :
        (r1 # r2 /\ req[r1].at \in Holding /\ req[r2].at \in Holding) => req[r1].id # req[r2].id

\* fileSessions.add keeps every user, and the whole table, within the limits.
WithinLimits ==
    /\ Cardinality(items) <= Total
    /\ \A u \in Users : Cardinality(Mine(u)) <= PerUser

\* A request never outlives its session unnoticed: when the entry is gone, by
\* expiry, DELETE or shutdown, the request is cancelled or about to be.
RemovedSessionIsCancelled ==
    \A r \in Reqs :
        req[r].at \in Holding /\ req[r].id \notin items => r \in done \cup pending

\* What the destination path holds is never replaced: of two uploads racing
\* past Lstat, Link lets one through.
DestinationStays ==
    dest # None => dest' = dest

\* An upload that leaves its temporary file behind lost its connection before it
\* ended: every other way out of Upload removes the file.
LeftoverOnlyAfterCut ==
    \A r \in Reqs : (req[r].at # "over" /\ req'[r].at = "over" /\ r \in temp') => r \in cut

\* A transfer whose user lost the permission, or whose access was stopped, ends
\* unless the permission comes back.
TransferRevoked(r) == req[r].at \in Holding /\ req[r].kind # "create" /\ User(r) \notin allowed
TransferOver(r) == req[r].at = "over" \/ User(r) \in allowed
=============================================================================
