--------------------------------- MODULE OrgIAM ---------------------------------
(***************************************************************************)
(* Organizations, users and roles (iam/organization.go, authorization.go)  *)
(* behind the handlers of web/organization_http.go.  A request checks the  *)
(* actor's permission against the in-memory Casbin policy, looks at rows,  *)
(* commits one or two transactions and rebuilds the policy.  Nothing keeps *)
(* another request from committing in between.                             *)
(*                                                                         *)
(* A membership and a role binding are always written together, and only   *)
(* an administrator's binding is inherited, so that both tables are one    *)
(* function here.  Requests that are refused change nothing.               *)
(***************************************************************************)
EXTENDS Naturals, FiniteSets

CONSTANTS
    Users,        \* user ids 1..n; 1 is the first account
    Orgs,         \* organization ids 0..m; 0 is the root
    Requests,     \* requests that can be under way
    Existing,     \* the users there are at first, with 1
    MaxOps,       \* accepted requests
    MaxFaults,    \* restarts and rebuilds that fail
    Global,       \* the domain "*"
    None

Root == 0
Roles == {"admin", "user"}

VARIABLES
    user,      \* the user rows that are not deleted
    gone,      \* ghost: users that a DeleteUser has removed
    org,       \* the organizations that are not deleted
    made,      \* the newest organization id
    parent,    \* their parents
    bind,      \* role of each user in each organization
    policy,    \* groupings <<user, role, domain>> that Casbin holds
    stale,     \* ghost: a move or a failed rebuild is not in the policy
    lock,      \* authorizationMu is held for a rebuild
    job,       \* where each request is
    seen,      \* the bindings a rebuild has read
    ops, faults

vars == <<user, gone, org, made, parent, bind, policy, stale, lock, job, seen, ops, faults>>

Idle == [at |-> "idle", org |-> None, user |-> None, role |-> None, parent |-> None]
NoBindings == [o \in Orgs |-> [u \in Users |-> None]]

\* isOrganizationDescendant: at most as many steps as there are organizations.
Ancestors(o) ==
    LET up[n \in 0..Cardinality(Orgs)] ==
            IF n = 0 THEN {o}
            ELSE up[n-1] \cup {parent[x] : x \in {y \in up[n-1] \cap org : parent[y] # None}}
    IN up[Cardinality(Orgs)]
isOrganizationDescendant(o, ancestor) == parent[o] # None /\ ancestor \in Ancestors(parent[o])

\* The groupings that bindings stand for.
Groupings(b) ==
    LET At(o) == {<<u, b[o][u], o>> : u \in {x \in Users : b[o][x] # None}}
        Inherited(o) == {<<u, "admin", c>> : u \in {x \in Users : b[o][x] = "admin"},
                                             c \in {x \in org : x # o /\ isOrganizationDescendant(x, o)}}
    IN UNION {At(o) \cup Inherited(o) : o \in Orgs}
       \cup {<<u, b[Root][u], Global>> : u \in {x \in Users : b[Root][x] # None}}

Init ==
    /\ user = Existing /\ gone = {}
    /\ org = {Root} /\ made = Root /\ parent = [o \in Orgs |-> None]
    /\ \E r \in [Existing -> Roles] :
         /\ r[1] = "admin"
         /\ bind = [NoBindings EXCEPT ![Root] = [u \in Users |-> IF u \in Existing THEN r[u] ELSE None]]
    /\ policy = Groupings(bind) /\ stale = FALSE /\ lock = None
    /\ job = [p \in Requests |-> Idle]
    /\ seen = [p \in Requests |-> NoBindings]
    /\ ops = 0 /\ faults = 0

rows == <<user, gone, org, made, parent, bind>>
authz == <<policy, stale, lock, seen>>

\* requirePermission for what only administrators may do; it waits for a rebuild.
requirePermission(a, domain) ==
    /\ lock = None /\ a \in user
    /\ {<<a, "admin", domain>>, <<a, "admin", Global>>} \cap policy # {}

\* A request that has passed its checks.
Accept(p, j) ==
    /\ job[p].at = "idle" /\ ops < MaxOps
    /\ job' = [job EXCEPT ![p] = j]
    /\ ops' = ops + 1
    /\ UNCHANGED <<rows, authz, faults>>

Goto(p, l) == job' = [job EXCEPT ![p].at = l]
Finish(p) == job' = [job EXCEPT ![p] = Idle]

----------------------------------------------------------------------------
\* Users.
CreateUserFor(p, a, o, r) ==
    /\ requirePermission(a, Global) /\ requirePermission(a, o)
    /\ o \in org
    /\ Accept(p, [Idle EXCEPT !.at = "createUser", !.org = o, !.role = r])

CreateUser(p) ==
    /\ job[p].at = "createUser"
    /\ \E u \in Users \ (user \cup gone) :
         /\ \A x \in Users : x < u => x \in user \cup gone
         /\ user' = user \cup {u}
         /\ job' = [job EXCEPT ![p] = [@ EXCEPT !.at = "setRole", !.user = u]]
    /\ UNCHANGED <<gone, org, made, parent, bind, authz, ops, faults>>

UpdateUserFor(p, a, u, r) ==
    /\ requirePermission(a, Global)
    /\ u \in user
    /\ a = u => r = "admin"
    /\ Accept(p, [Idle EXCEPT !.at = "saveUser", !.org = Root, !.user = u, !.role = r])

\* Save writes the row as it was read, also if it has been deleted since.
UpdateUser(p) ==
    /\ job[p].at = "saveUser"
    /\ user' = user \cup {job[p].user}
    /\ Goto(p, "setRole")
    /\ UNCHANGED <<gone, org, made, parent, bind, authz, ops, faults>>

DeleteUserFor(p, a, u) ==
    /\ requirePermission(a, Global)
    /\ a # u /\ u \in user
    /\ Accept(p, [Idle EXCEPT !.at = "deleteUser", !.user = u])

DeleteUser(p) ==
    /\ job[p].at = "deleteUser"
    /\ bind' = [o \in Orgs |-> [bind[o] EXCEPT ![job[p].user] = None]]
    /\ user' = user \ {job[p].user}
    /\ gone' = gone \cup {job[p].user}
    /\ Goto(p, "removeUser")
    /\ UNCHANGED <<org, made, parent, authz, ops, faults>>

\* The policy is not locked for this.
removeUser(p) ==
    /\ job[p].at = "removeUser"
    /\ policy' = {g \in policy : g[1] # job[p].user}
    /\ Finish(p)
    /\ UNCHANGED <<rows, stale, lock, seen, ops, faults>>

\* The membership and the binding, in one transaction; then the policy.
setOrganizationRole(p) ==
    /\ job[p].at = "setRole"
    /\ bind' = [bind EXCEPT ![job[p].org][job[p].user] = job[p].role]
    /\ Goto(p, "reload")
    /\ UNCHANGED <<user, gone, org, made, parent, authz, ops, faults>>

----------------------------------------------------------------------------
\* Organizations.
CreateOrganizationFor(p, a, up) ==
    /\ up \in org
    /\ requirePermission(a, up)
    /\ Accept(p, [Idle EXCEPT !.at = "createOrg", !.user = a, !.role = "admin", !.parent = up])

CreateOrganization(p) ==
    /\ job[p].at = "createOrg"
    /\ made + 1 \in Orgs
    /\ made' = made + 1
    /\ org' = org \cup {made'}
    /\ parent' = [parent EXCEPT ![made'] = job[p].parent]
    /\ job' = [job EXCEPT ![p] = [@ EXCEPT !.at = "setRole", !.org = made']]
    /\ UNCHANGED <<user, gone, bind, authz, ops, faults>>

\* The walk to the top reads one row at a time; here it reads them at once.
UpdateOrganizationFor(p, a, o, up) ==
    /\ requirePermission(a, o)
    /\ o \in org /\ (o = Root => up = None)
    /\ up # None => /\ up # o /\ requirePermission(a, up)
                    /\ Ancestors(up) \subseteq org
                    /\ o \notin Ancestors(up)
    /\ Accept(p, [Idle EXCEPT !.at = "move", !.org = o, !.parent = up])

\* Save again; the policy is left alone.
UpdateOrganization(p) ==
    /\ job[p].at = "move"
    /\ org' = org \cup {job[p].org}
    /\ parent' = [parent EXCEPT ![job[p].org] = job[p].parent]
    /\ stale' = TRUE
    /\ Finish(p)
    /\ UNCHANGED <<user, gone, made, bind, policy, lock, seen, ops, faults>>

DeleteOrganizationFor(p, a, o) ==
    /\ requirePermission(a, o)
    /\ o \in org \ {Root}
    /\ \A c \in org : parent[c] # o
    /\ Accept(p, [Idle EXCEPT !.at = "deleteOrg", !.org = o])

DeleteOrganization(p) ==
    /\ job[p].at = "deleteOrg"
    /\ bind' = [bind EXCEPT ![job[p].org] = [u \in Users |-> None]]
    /\ org' = org \ {job[p].org}
    /\ Goto(p, "reload")
    /\ UNCHANGED <<user, gone, made, parent, authz, ops, faults>>

----------------------------------------------------------------------------
\* Members.
Admins(o) == {u \in Users : bind[o][u] = "admin"}

UpsertOrganizationMemberFor(p, a, o, u, r) ==
    /\ requirePermission(a, o)
    /\ o \in org /\ u \in user
    /\ bind[o][u] = "admin" /\ r # "admin" => Cardinality(Admins(o)) > 1
    /\ Accept(p, [Idle EXCEPT !.at = "setRole", !.org = o, !.user = u, !.role = r])

RemoveOrganizationMemberFor(p, a, o, u) ==
    /\ requirePermission(a, o)
    /\ bind[o][u] # None
    /\ bind[o][u] = "admin" => Cardinality(Admins(o)) > 1
    /\ Accept(p, [Idle EXCEPT !.at = "removeMember", !.org = o, !.user = u])

DeleteMember(p) ==
    /\ job[p].at = "removeMember"
    /\ bind' = [bind EXCEPT ![job[p].org][job[p].user] = None]
    /\ Goto(p, "reload")
    /\ UNCHANGED <<user, gone, org, made, parent, authz, ops, faults>>

----------------------------------------------------------------------------
\* Mutant of reloadAuthorization: the bindings are read before the lock is taken.
readsUnlocked(p) ==
    /\ job[p].at = "reload"
    /\ seen' = [seen EXCEPT ![p] = bind]
    /\ Goto(p, "fill")
    /\ UNCHANGED <<rows, policy, stale, lock, ops, faults>>

\* reloadAuthorization: under the lock the policy is cleared and the bindings
\* are read ...
reloadAuthorization(p) ==
    /\ job[p].at = "reload" /\ lock = None
    /\ lock' = p /\ policy' = {}
    /\ seen' = [seen EXCEPT ![p] = bind]
    /\ Goto(p, "fill")
    /\ UNCHANGED <<rows, stale, ops, faults>>

\* ... and with the organizations of a second query they become groupings.
Fill(p) ==
    /\ job[p].at = "fill"
    /\ policy' = Groupings(seen[p]) /\ stale' = FALSE
    /\ lock' = None
    /\ seen' = [seen EXCEPT ![p] = NoBindings]
    /\ Finish(p)
    /\ UNCHANGED <<rows, ops, faults>>

\* A query fails: the policy stays empty and refuses everybody.
FillFails(p) ==
    /\ job[p].at = "fill" /\ faults < MaxFaults
    /\ faults' = faults + 1
    /\ policy' = {} /\ stale' = TRUE
    /\ lock' = None
    /\ seen' = [seen EXCEPT ![p] = NoBindings]
    /\ Finish(p)
    /\ UNCHANGED <<rows, ops>>

\* EnsureOrganizationBootstrap: who has no role at the root gets one.
Bootstrapped ==
    LET first == CHOOSE u \in user : \A x \in user : u <= x
    IN [bind EXCEPT ![Root] = [u \in Users |->
            IF u \in user /\ bind[Root][u] = None THEN IF u = first THEN "admin" ELSE "user"
            ELSE bind[Root][u]]]

Restart ==
    /\ faults < MaxFaults
    /\ faults' = faults + 1
    /\ bind' = Bootstrapped
    /\ policy' = Groupings(Bootstrapped) /\ stale' = FALSE /\ lock' = None
    /\ job' = [p \in Requests |-> Idle] /\ seen' = [p \in Requests |-> NoBindings]
    /\ UNCHANGED <<user, gone, org, made, parent, ops>>

----------------------------------------------------------------------------
\* The handlers.
handleUsersHTTP(p) ==
    \E a \in user, o \in Orgs, r \in Roles : CreateUserFor(p, a, o, r)

handleUserHTTP(p) ==
    \E a \in user, u \in Users :
        \/ \E r \in Roles : UpdateUserFor(p, a, u, r)
        \/ DeleteUserFor(p, a, u)

handleOrganizationsHTTP(p) ==
    \E a \in user, up \in Orgs : CreateOrganizationFor(p, a, up)

handleOrganizationHTTP(p) ==
    \E a \in user, o \in Orgs :
        \/ \E up \in Orgs \cup {None} : UpdateOrganizationFor(p, a, o, up)
        \/ DeleteOrganizationFor(p, a, o)

handleOrganizationMembersHTTP(p) ==
    \E a \in user, o \in Orgs, u \in Users, r \in Roles : UpsertOrganizationMemberFor(p, a, o, u, r)

handleOrganizationMemberHTTP(p) ==
    \E a \in user, o \in Orgs, u \in Users : RemoveOrganizationMemberFor(p, a, o, u)

Next ==
    \/ \E p \in Requests :
         \/ handleUsersHTTP(p) \/ handleUserHTTP(p)
         \/ handleOrganizationsHTTP(p) \/ handleOrganizationHTTP(p)
         \/ handleOrganizationMembersHTTP(p) \/ handleOrganizationMemberHTTP(p)
         \/ CreateUser(p) \/ UpdateUser(p) \/ DeleteUser(p) \/ removeUser(p)
         \/ setOrganizationRole(p)
         \/ CreateOrganization(p) \/ UpdateOrganization(p) \/ DeleteOrganization(p)
         \/ DeleteMember(p)
         \/ reloadAuthorization(p) \/ Fill(p) \/ FillFails(p)
    \/ Restart

Spec == Init /\ [][Next]_vars

----------------------------------------------------------------------------
Place == [at: {"idle", "createUser", "saveUser", "deleteUser", "removeUser", "setRole", "createOrg",
               "move", "deleteOrg", "removeMember", "reload", "fill"},
          org: Orgs \cup {None}, user: Users \cup {None}, role: Roles \cup {None}, parent: Orgs \cup {None}]

TypeOK ==
    /\ user \subseteq Users /\ gone \subseteq Users
    /\ org \subseteq Orgs /\ Root \in org /\ made \in Orgs
    /\ parent \in [Orgs -> Orgs \cup {None}]
    /\ bind \in [Orgs -> [Users -> Roles \cup {None}]]
    /\ policy \subseteq Users \X Roles \X (Orgs \cup {Global})
    /\ stale \in BOOLEAN
    /\ lock \in Requests \cup {None}
    /\ job \in [Requests -> Place]
    /\ ops \in 0..MaxOps /\ faults \in 0..MaxFaults

\* A change of a role, and its revocation, is in force when its request returns:
\* whenever no request stands between its commit and its rebuild, the policy is
\* what the bindings say - whatever rebuilds overlapped.  Moves do not rebuild,
\* and a failed rebuild refuses everybody.
PolicyIsCurrent ==
    LET Of(g) == {x \in g : x[1] \in Users \ gone}
        Committed(p) == job[p].at \in {"reload", "fill"} \/ (job[p].at = "setRole" /\ job[p].parent # None)
    IN
    (\A p \in Requests : ~Committed(p)) /\ ~stale => Of(policy) = Of(Groupings(bind))

\* "organization must keep at least one administrator", of the root.
RootKeepsAdministrator ==
    Admins(Root) # {}

\* "organization hierarchy cycle" is refused.
HierarchyHasNoCycle ==
    \A o \in org : ~isOrganizationDescendant(o, o)

\* "move child organizations first": nobody's parent is missing.
ParentsExist ==
    \A o \in org : parent[o] # None => parent[o] \in org
=============================================================================
