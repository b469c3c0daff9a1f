------------------------- MODULE MCControlPlane -------------------------
(***************************************************************************)
(* The control plane's components, each on small instances, as a disjoint  *)
(* union: the initial state chooses one, and only its steps are taken.     *)
(***************************************************************************)
EXTENDS Naturals, TLC

CONSTANTS None, Requests, Accounts, ssh, http, sql, e1, e2, d1, d2

VARIABLES component, v1, v2, v3, v4, v5, v6, v7, v8, v9, v10, v11, v12, v13

vars == <<component, v1, v2, v3, v4, v5, v6, v7, v8, v9, v10, v11, v12, v13>>

(* AccessLifecycle: applications, and the rows that are stored at first. *)
TypeOf == (ssh :> "ssh") @@ (http :> "http") @@ (sql :> "mysql")
Stored(app, proto, status, port) ==
    [status |-> status, port |-> port, proto |-> proto, app |-> app]

(* Rows written before the protocol and the port were stored, alone and     *)
(* beside a stopped access; an access of each runtime; a native one.        *)
OldRow == Stored(http, "", "running", 0)
OldAlone == <<OldRow, None>>
OldBesideStopped == <<OldRow, Stored(http, "http", "stopped", 1)>>
BothRunning == <<Stored(ssh, "tcp", "running", 1), Stored(http, "http", "running", 2)>>
Native == <<Stored(sql, "mysql", "running", 1), None>>

Faulty ==
    INSTANCE AccessLifecycle WITH Accesses <- {1, 2}, Apps <- {http}, Edges <- {e1}, Devices <- {d1},
        AppType <- TypeOf, EdgeOf <- (http :> e1), DeviceOf <- (http :> d1), NoRule <- None, NoRow
        <- None, InitRels <- {<<e1, d1, "host">>}, InitRows <- {OldAlone, OldBesideStopped}, MaxPort
        <- 2, Rules <- {"r"}, Requests <- {"h"}, Ops <- {"create", "update", "edge", "firewall",
        "deleteProxy"}, Faults <- {"write", "listen"}, MaxCrashes <- 1, rows <- v1, used <- v2, apps
        <- v3, edges <- v4, devices <- v5, rels <- v6, rules <- v7, fw <- v8, lsn <- v9, req <- v10,
        up <- v11, crashes <- v12
Served ==
    INSTANCE AccessLifecycle WITH Accesses <- {1, 2}, Apps <- {ssh, http}, Edges <- {e1}, Devices <-
        {d1}, AppType <- TypeOf, EdgeOf <- [a \in {ssh, http} |-> e1], DeviceOf <- [a \in {ssh,
        http} |-> d1], NoRule <- None, NoRow <- None, InitRels <- {<<e1, d1, "host">>}, InitRows <-
        {OldAlone}, MaxPort <- 2, Rules <- {}, Requests <- {"h"}, Ops <- {"create", "update",
        "edge", "deleteProxy", "deleteApp"}, Faults <- {}, MaxCrashes <- 1, rows <- v1, used <- v2,
        apps <- v3, edges <- v4, devices <- v5, rels <- v6, rules <- v7, fw <- v8, lsn <- v9, req <-
        v10, up <- v11, crashes <- v12
Cascade ==
    INSTANCE AccessLifecycle WITH Accesses <- {1, 2}, Apps <- {ssh, http, sql}, Edges <- {e1, e2},
        Devices <- {d1, d2}, AppType <- TypeOf, EdgeOf <- (ssh :> e1) @@ (http :> e2) @@ (sql :>
        e1), DeviceOf <- (ssh :> d1) @@ (http :> d1) @@ (sql :> d2), NoRule <- None, NoRow <- None,
        InitRels <- {<<e1, d1, "host">>, <<e2, d1, "host">>, <<e1, d2, "scan">>}, InitRows <-
        {BothRunning, Native}, MaxPort <- 2, Rules <- {}, Requests <- {"h"}, Ops <- {"deleteProxy",
        "deleteApp", "deleteEdge", "deleteDevice"}, Faults <- {"write"}, MaxCrashes <- 1, rows <-
        v1, used <- v2, apps <- v3, edges <- v4, devices <- v5, rels <- v6, rules <- v7, fw <- v8,
        lsn <- v9, req <- v10, up <- v11, crashes <- v12
Repair ==
    INSTANCE AccessLifecycle WITH Accesses <- {1}, Apps <- {http}, Edges <- {e1}, Devices <- {d1},
        AppType <- TypeOf, EdgeOf <- (http :> e1), DeviceOf <- (http :> d1), NoRule <- None, NoRow
        <- None, InitRels <- {<<e1, d1, "host">>}, InitRows <- {<<None>>, <<OldRow>>}, MaxPort <- 1,
        Rules <- {}, Ops <- {"create", "update", "edge", "deleteEdge"}, Faults <- {"lookup"},
        MaxCrashes <- 1, rows <- v1, used <- v2, apps <- v3, edges <- v4, devices <- v5, rels <- v6,
        rules <- v7, fw <- v8, lsn <- v9, req <- v10, up <- v11, crashes <- v12
Secrets ==
    INSTANCE Credentials WITH Users <- {"u"}, Requests <- {1, 2}, Blank <- None, kind <- v1, access <-
        v2, rows <- v3, nextId <- v4, req <- v5, erased <- v6
IAM ==
    INSTANCE OrgIAM WITH Users <- {1, 2}, Orgs <- {0, 1}, Existing <- {1, 2}, MaxOps <- 3, MaxFaults <-
        1, Global <- None, user <- v1, gone <- v2, org <- v3, made <- v4, parent <- v5, bind <- v6,
        policy <- v7, stale <- v8, lock <- v9, job <- v10, seen <- v11, ops <- v12, faults <- v13
Tree ==
    INSTANCE OrgIAM WITH Users <- {1, 2, 3}, Orgs <- {0, 1, 2}, Requests <- {"p"}, Existing <- {1, 2},
        MaxOps <- 3, MaxFaults <- 0, Global <- None, user <- v1, gone <- v2, org <- v3, made <- v4,
        parent <- v5, bind <- v6, policy <- v7, stale <- v8, lock <- v9, job <- v10, seen <- v11,
        ops <- v12, faults <- v13
Features ==
    INSTANCE FeaturePolicy WITH Writers <- {"p", "q"}, Readers <- {"r"}, MaxSaves <- 2, MaxReads <- 1,
        MaxFaults <- 1, granted <- v1, saved <- v2, policy <- v3, rebuilt <- v4, lock <- v5,
        featureMu <- v6, writer <- v7, reader <- v8, saves <- v9, reads <- v10, faults <- v11
Login ==
    INSTANCE UserAccounts WITH Passwords <- {"x", "y"}, Statuses <- {"active", "locked"}, Savers <-
        {"s"}, Logins <- {"l", "m"}, Creators <- {}, Bearers <- {}, Tokens <- {1, 2, 3},
        patMaxPerUser <- 2, MaxOps <- 3, row <- v1, last <- v2, token <- v3, used <- v4, job <- v5,
        creator <- v6, bearer <- v7, touching <- v8, ops <- v9
PAT ==
    INSTANCE UserAccounts WITH Passwords <- {"x", "y"}, Statuses <- {"active", "locked"}, Savers <- {},
        Logins <- {}, Creators <- {"c"}, Bearers <- {"a", "b"}, Tokens <- {1, 2, 3}, patMaxPerUser
        <- 2, MaxOps <- 3, row <- v1, last <- v2, token <- v3, used <- v4, job <- v5, creator <- v6,
        bearer <- v7, touching <- v8, ops <- v9
Tx ==
    INSTANCE DaoTransactions WITH Users <- {"u"}, Readers <- {"r"}, Nested <- {}, Workers <- {"p", "q"},
        Tasks <- {1, 2}, Modes <- {"all", "context", "result"}, mode <- v1, mu <- v2, conn <- v3, at
        <- v4, writes <- v5, stored <- v6, cancelled <- v7, todo <- v8, task <- v9, outcome <- v10,
        answer <- v11
Limited ==
    INSTANCE DaoTransactions WITH Users <- {}, Readers <- {"r"}, Nested <- {"n"}, Workers <- {"p", "q"},
        Tasks <- {1, 2, 3}, Modes <- {"limit"}, mode <- v1, mu <- v2, conn <- v3, at <- v4, writes
        <- v5, stored <- v6, cancelled <- v7, todo <- v8, task <- v9, outcome <- v10, answer <- v11

\* The variables that a component with k variables does not use.
Spare(k) ==
    /\ k < 7 => v7 = None
    /\ k < 8 => v8 = None
    /\ k < 9 => v9 = None
    /\ k < 10 => v10 = None
    /\ k < 11 => v11 = None
    /\ k < 12 => v12 = None
    /\ k < 13 => v13 = None
Keep(k) ==
    /\ k < 7 => UNCHANGED v7
    /\ k < 8 => UNCHANGED v8
    /\ k < 9 => UNCHANGED v9
    /\ k < 10 => UNCHANGED v10
    /\ k < 11 => UNCHANGED v11
    /\ k < 12 => UNCHANGED v12
    /\ k < 13 => UNCHANGED v13

Init ==
    \/ component = "faults" /\ Faulty!Init /\ Spare(12)
    \/ component = "served" /\ Served!Init /\ Spare(12)
    \/ component = "cascade" /\ Cascade!Init /\ Spare(12)
    \/ component = "repair" /\ Repair!Init /\ Spare(12)
    \/ component = "credentials" /\ Secrets!Init /\ Spare(6)
    \/ component = "organizations" /\ IAM!Init
    \/ component = "hierarchy" /\ Tree!Init
    \/ component = "features" /\ Features!Init /\ Spare(11)
    \/ component = "accounts" /\ Login!Init /\ Spare(9)
    \/ component = "tokens" /\ PAT!Init /\ Spare(9)
    \/ component = "transactions" /\ Tx!Init /\ Spare(11)
    \/ component = "limited" /\ Limited!Init /\ Spare(11)

Next ==
    /\ UNCHANGED component
    /\ \/ component = "faults" /\ Faulty!Next /\ Keep(12)
       \/ component = "served" /\ Served!Next /\ Keep(12)
       \/ component = "cascade" /\ Cascade!Next /\ Keep(12)
       \/ component = "repair" /\ Repair!Next /\ Keep(12)
       \/ component = "credentials" /\ Secrets!Next /\ Keep(6)
       \/ component = "organizations" /\ IAM!Next
       \/ component = "hierarchy" /\ Tree!Next
       \/ component = "features" /\ Features!Next /\ Keep(11)
       \/ component = "accounts" /\ Login!Next /\ Keep(9)
       \/ component = "tokens" /\ PAT!Next /\ Keep(9)
       \/ component = "transactions" /\ Tx!Next /\ Keep(11)
       \/ component = "limited" /\ Limited!Next /\ Keep(11)

Spec == Init /\ [][Next]_vars

Symmetry == Permutations(Requests) \cup Permutations(Accounts)

-----------------------------------------------------------------------------
(* Every component keeps its types. *)
TypeOK ==
    /\ component = "faults" => Faulty!TypeOK
    /\ component = "served" => Served!TypeOK
    /\ component = "cascade" => Cascade!TypeOK
    /\ component = "repair" => Repair!TypeOK
    /\ component = "credentials" => Secrets!TypeOK
    /\ component = "organizations" => IAM!TypeOK
    /\ component = "features" => Features!TypeOK
    /\ component = "accounts" => Login!TypeOK
    /\ component = "tokens" => PAT!TypeOK
    /\ component = "transactions" => Tx!TypeOK

(* When no request is under way, the listeners, the ports and the filters   *)
(* are those of the rows, whatever failed or crashed in between; an access  *)
(* that should be served is; a cascade that stops half-way orphans nothing  *)
(* (controlplane/proxy.go, edge.go, device.go, lifecycle.go).               *)
AccessesFollowRows ==
    /\ component = "faults" =>
         Faulty!ListenersFollowRows /\ Faulty!FirewallInSync /\ Faulty!PortsReserved
    /\ component = "served" =>
         Served!ListenersFollowRows /\ Served!EligibleIsServed /\ Served!PortsReserved
    /\ component = "cascade" => Cascade!NothingOrphaned

(* Secrets and tokens do not come back: a password that was erased, a token *)
(* that was revoked and a password that was changed stay so under requests  *)
(* that had read the row before (controlplane/webssh.go, webdata.go,        *)
(* iam/auth.go, pat.go), and a stored password fits its account.            *)
SecretsStaySecret ==
    /\ component = "credentials" =>
         /\ Secrets!OneConnectionPerAccount /\ Secrets!ErasedPasswordsStayErased
         /\ Secrets!PasswordFitsAccount /\ Secrets!StoredPasswordsDecrypt
    /\ component = "accounts" => Login!LoginsUndoNothing
    /\ component = "tokens" => PAT!RevokedTokensOpenNothing /\ PAT!TokenLimitHolds

(* What is enforced is what was saved: outside a rebuild the policy in      *)
(* memory is that of the bindings and of the feature rows, however rebuilds *)
(* overlap, fail or are interrupted (iam/organization.go, features.go);     *)
(* requests one after the other keep an administrator and the hierarchy.    *)
PolicyIsInForce ==
    /\ component = "organizations" => IAM!PolicyIsCurrent
    /\ component = "hierarchy" =>
         /\ Tree!RootKeepsAdministrator /\ Tree!HierarchyHasNoCycle /\ Tree!ParentsExist
    /\ component = "features" =>
         /\ Features!DependenciesHold /\ Features!SavedPolicyIsInForce
         /\ Features!FeaturesDoNotFlicker /\ Features!OrganizationsAreForAdministrators

(* A transaction keeps everything or nothing, and its manager's answer is   *)
(* final (dao/concurrent_transaction.go).                                   *)
RecordsAreConsistent ==
    /\ component = "transactions" => Tx!AllOrNothing /\ Tx!NilMeansCommitted /\ Tx!AnswerIsFinal
    /\ component = "limited" => Limited!NilMeansCommitted /\ Limited!AnswerIsFinal

(* A start repairs what concurrent requests left behind (lifecycle.go:      *)
(* ReconcileLifecycleState and the restores after it), and no late update   *)
(* of a token's last use revives a revoked one (iam/pat.go).                *)
RepairsAndRevocationsHold ==
    [][/\ component = "repair" => Repair!StartRepairs
       /\ component = "faults" => Faulty!StartRepairs
       /\ component = "tokens" => PAT!RevokedStays]_vars
=============================================================================
