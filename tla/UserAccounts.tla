------------------------------- MODULE UserAccounts -------------------------------
(***************************************************************************)
(* One account (iam/auth.go, ResetUserPasswordFor and UpdateUserFor of     *)
(* iam/organization.go) and its personal access tokens (iam/pat.go).       *)
(* Changes read the row, hash a password and save the whole row; logins    *)
(* and the use of a token write only the columns they own, the latter from *)
(* a goroutine that outlives the request.                                  *)
(***************************************************************************)
EXTENDS Naturals, FiniteSets

CONSTANTS
    Passwords,    \* model values
    Statuses,     \* with "active"
    Savers,       \* requests that change the account
    Logins,       \* login requests
    Creators,     \* requests that create tokens
    Bearers,      \* requests that authenticate with a token
    Tokens,       \* token ids 1..n
    patMaxPerUser,
    MaxOps,       \* of each kind of request
    None

VARIABLES
    row,       \* [pw, status, logins]: the row of users; logins: there was one
    last,      \* ghost: [pw, status] of the last change that returned
    token,     \* "none", "valid", "expired" or "revoked" for each id; expired is a date in the past
    used,      \* tokens whose last use is recorded
    job,       \* [at, row, pw, status, old] of savers and logins
    creator,   \* idle or counted
    bearer,    \* [at, token, fresh]: fresh is a ghost, the token's state when it was presented
    touching,  \* goroutines that record a use: <<token, the row as read>>
    ops

vars == <<row, last, token, used, job, creator, bearer, touching, ops>>

Kinds == {"save", "login", "create", "bear", "revoke"}
Idle == [at |-> "idle", row |-> None, pw |-> None, status |-> None]
NoBearer == [at |-> "idle", token |-> 0, fresh |-> None]

Init ==
    /\ \E p \in Passwords : row = [pw |-> p, status |-> "active", logins |-> 0]
    /\ last = [pw |-> row.pw, status |-> row.status]
    /\ token = [t \in Tokens |-> "none"] /\ used = {}
    /\ job = [p \in Savers \cup Logins |-> Idle]
    /\ creator = [p \in Creators |-> "idle"]
    /\ bearer = [p \in Bearers |-> NoBearer]
    /\ touching = {}
    /\ ops = [k \in Kinds |-> 0]

Begin(k) == ops[k] < MaxOps /\ ops' = [ops EXCEPT ![k] = @ + 1]
account == <<row, last, job>>
tokens == <<token, used, creator, bearer, touching>>

----------------------------------------------------------------------------
\* The row is read and the change prepared; hashing takes its time.
ChangePassword(p) ==
    /\ job[p].at = "idle" /\ Begin("save")
    /\ \E old, new \in Passwords :
         /\ old = row.pw
         /\ job' = [job EXCEPT ![p] = [at |-> "save", row |-> row, pw |-> new, status |-> row.status]]
    /\ UNCHANGED <<row, last, tokens>>

ResetUserPasswordFor(p) ==
    /\ job[p].at = "idle" /\ Begin("save")
    /\ \E new \in Passwords :
         job' = [job EXCEPT ![p] = [at |-> "save", row |-> row, pw |-> new, status |-> row.status]]
    /\ UNCHANGED <<row, last, tokens>>

UpdateUserFor(p) ==
    /\ job[p].at = "idle" /\ Begin("save")
    /\ \E s \in Statuses :
         job' = [job EXCEPT ![p] = [at |-> "save", row |-> row, pw |-> row.pw, status |-> s]]
    /\ UNCHANGED <<row, last, tokens>>

\* Save: every column, also the login columns as they were read.
UpdateUser(p) ==
    /\ job[p].at = "save"
    /\ row' = [job[p].row EXCEPT !.pw = job[p].pw, !.status = job[p].status]
    /\ last' = [pw |-> job[p].pw, status |-> job[p].status]
    /\ job' = [job EXCEPT ![p] = Idle]
    /\ UNCHANGED <<tokens, ops>>

Login(p) ==
    /\ job[p].at = "idle" /\ Begin("login")
    /\ row.status = "active"
    /\ \E pw \in Passwords : pw = row.pw
    /\ job' = [job EXCEPT ![p] = [at |-> "record", row |-> row, pw |-> row.pw, status |-> row.status]]
    /\ UNCHANGED <<row, last, tokens>>

UpdateUserLastLoginAndIP(p) ==
    /\ job[p].at = "record"
    /\ row' = [row EXCEPT !.logins = 1]
    /\ job' = [job EXCEPT ![p] = Idle]
    /\ UNCHANGED <<last, tokens, ops>>

----------------------------------------------------------------------------
Live == {t \in Tokens : token[t] \in {"valid", "expired"}}

\* CountUserAPITokens and the limit; refused requests change nothing.
CreatePAT(p) ==
    /\ creator[p] = "idle" /\ Begin("create")
    /\ Cardinality(Live) < patMaxPerUser
    /\ creator' = [creator EXCEPT ![p] = "create"]
    /\ UNCHANGED <<account, token, used, bearer, touching>>

CreateUserAPIToken(p) ==
    /\ creator[p] = "create"
    /\ \E t \in Tokens :
         /\ token[t] = "none" /\ \A x \in Tokens : x < t => token[x] # "none"
         /\ token' = [token EXCEPT ![t] = "valid"]
    /\ creator' = [creator EXCEPT ![p] = "idle"]
    /\ UNCHANGED <<account, used, bearer, touching, ops>>

Expire(t) ==
    /\ token[t] = "valid"
    /\ token' = [token EXCEPT ![t] = "expired"]
    /\ UNCHANGED <<account, used, creator, bearer, touching, ops>>

RevokePAT(t) ==
    /\ Begin("revoke")
    /\ t \in Live
    /\ token' = [token EXCEPT ![t] = "revoked"]
    /\ UNCHANGED <<account, used, creator, bearer, touching>>

\* A request arrives with a token ...
Present(p) ==
    /\ bearer[p].at = "idle" /\ Begin("bear")
    /\ \E t \in Tokens : token[t] # "none" /\ bearer' = [bearer EXCEPT ![p] = [at |-> "match", token |-> t, fresh |-> token[t]]]
    /\ UNCHANGED <<account, token, used, creator, touching>>

\* ... which is looked up among the tokens that are not revoked, and its date
\* checked; a goroutine records the use.
GetUserByPAT(p) ==
    /\ bearer[p].at = "match"
    /\ IF bearer[p].token \in Live /\ token[bearer[p].token] # "expired"
       THEN /\ touching' = touching \cup {<<bearer[p].token, token[bearer[p].token]>>}
            /\ bearer' = [bearer EXCEPT ![p].at = "in"]
       ELSE bearer' = [bearer EXCEPT ![p] = NoBearer] /\ UNCHANGED touching
    /\ UNCHANGED <<account, token, used, creator, ops>>

Served(p) ==
    /\ bearer[p].at = "in"
    /\ bearer' = [bearer EXCEPT ![p] = NoBearer]
    /\ UNCHANGED <<account, token, used, creator, touching, ops>>

\* Two columns, whatever has become of the token.
TouchUserAPIToken(t) ==
    /\ t \in touching
    /\ touching' = touching \ {t}
    /\ used' = used \cup {t[1]}
    /\ UNCHANGED <<account, token, creator, bearer, ops>>

\* The handlers: what they refuse changes nothing.
handleUserPasswordHTTP(p) == ResetUserPasswordFor(p)
handleCreateToken(p) == CreatePAT(p)
handleRevokeToken(t) == RevokePAT(t)
AuthMiddleware(p) == Present(p) \/ GetUserByPAT(p) \/ Served(p)

Next ==
    \/ \E p \in Savers : ChangePassword(p) \/ handleUserPasswordHTTP(p) \/ UpdateUserFor(p) \/ UpdateUser(p)
    \/ \E p \in Logins : Login(p) \/ UpdateUserLastLoginAndIP(p)
    \/ \E p \in Creators : handleCreateToken(p) \/ CreateUserAPIToken(p)
    \/ \E p \in Bearers : AuthMiddleware(p)
    \/ \E t \in Tokens : Expire(t) \/ handleRevokeToken(t)
    \/ \E t \in touching : TouchUserAPIToken(t)

Spec == Init /\ [][Next]_vars

----------------------------------------------------------------------------
TypeOK ==
    /\ row \in [pw: Passwords, status: Statuses, logins: 0..1]
    /\ last \in [pw: Passwords, status: Statuses]
    /\ token \in [Tokens -> {"none", "valid", "expired", "revoked"}]
    /\ used \subseteq Tokens
    /\ \A p \in Savers \cup Logins : job[p].at \in {"idle", "save", "record"}
    /\ creator \in [Creators -> {"idle", "create"}]
    /\ \A p \in Bearers : bearer[p].at \in {"idle", "match", "in"}
    /\ ops \in [Kinds -> 0..MaxOps]

\* A login that overlaps a change of the password or of the status does not undo
\* the change, however late it records itself.
LoginsUndoNothing ==
    row.pw = last.pw /\ row.status = last.status

\* A token is revoked for good: requests that were let in with it before record
\* their use without bringing it back.
RevokedStays ==
    \A t \in Tokens : token[t] = "revoked" => token'[t] = "revoked"

\* No request that presents a token after it was revoked or has expired is let in.
RevokedTokensOpenNothing ==
    \A p \in Bearers : bearer[p].at = "in" => bearer[p].fresh = "valid"

\* "token limit reached (max %d per user)".
TokenLimitHolds ==
    Cardinality(Live) <= patMaxPerUser
=============================================================================
