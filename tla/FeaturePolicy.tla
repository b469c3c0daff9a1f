------------------------------ MODULE FeaturePolicy ------------------------------
(***************************************************************************)
(* The optional features of ordinary users (iam/features.go): an           *)
(* administrator saves a policy, the Casbin model is rebuilt, and browsers *)
(* ask one feature after the other what their account may use.             *)
(***************************************************************************)
EXTENDS Naturals

CONSTANTS
    Writers,      \* requests that save a policy
    Readers,      \* requests that list the features of an account
    MaxSaves, MaxReads, MaxFaults,
    None

\* featureCatalog, but for four features that need no other; "organizations" and "permissions" are not optional.
featureCatalog == {"filesRead", "filesUpload", "settingsRead", "settingsWrite"}
allFeatures == featureCatalog \cup {"permissions", "organizations"}
Order == <<"filesRead", "filesUpload", "settingsRead", "settingsWrite", "permissions", "organizations">>
Needs == {<<"filesUpload", "filesRead">>, <<"settingsWrite", "settingsRead">>}
Closed(s) == \A d \in Needs : d[1] \in s => d[2] \in s

AccountKinds == {"admin", "user", "unbound"}

VARIABLES
    granted,    \* the role "user" in iam_role_permissions
    saved,      \* ghost: the policy of the last save
    policy,     \* what Casbin knows of the role "user"
    rebuilt,    \* Casbin has its rows (of both roles); false while a rebuild clears them
    lock,       \* authorizationMu
    featureMu,
    writer,     \* [at, set]
    reader,     \* [at, who, view, lo, hi]: lo and hi are ghosts, see FeaturesDoNotFlicker
    saves, reads, faults

vars == <<granted, saved, policy, rebuilt, lock, featureMu, writer, reader, saves, reads, faults>>

NotWriting == [at |-> "idle", set |-> {}]
NotReading == [at |-> 0, who |-> None, view |-> {}, lo |-> {}, hi |-> {}]

\* An old version may have granted the organization pages to users.
Init ==
    /\ \E old \in {{}, {"organizations"}} :
         granted = old /\ policy = old
    /\ saved = {} /\ rebuilt = TRUE /\ lock = None /\ featureMu = None
    /\ writer = [p \in Writers |-> NotWriting]
    /\ reader = [p \in Readers |-> NotReading]
    /\ saves = 0 /\ reads = 0 /\ faults = 0

counters == <<saves, reads, faults>>

----------------------------------------------------------------------------

\* An administrator's request; a refused one changes nothing.
SetUserFeaturePolicy(p, set) ==
    /\ writer[p].at = "idle" /\ saves < MaxSaves
    /\ featureMu = None /\ lock = None /\ rebuilt
    /\ Closed(set)
    /\ featureMu' = p
    /\ writer' = [writer EXCEPT ![p] = [at |-> "replace", set |-> set]]
    /\ saves' = saves + 1
    /\ UNCHANGED <<granted, saved, policy, rebuilt, lock, reader, reads, faults>>

handleUserPermissionsHTTP(p) == \E set \in SUBSET featureCatalog : SetUserFeaturePolicy(p, set)

\* What a reader may be shown from now on, if the stored policy becomes s.
Witness(s) == [q \in Readers |-> IF reader[q].at = 0 THEN reader[q]
                                 ELSE [reader[q] EXCEPT !.lo = @ \cap s, !.hi = @ \cup s]]

\* Only rows of the catalog are replaced.
ReplaceIAMRolePermissionSubset(p) ==
    /\ writer[p].at = "replace"
    /\ granted' = (granted \ featureCatalog) \cup writer[p].set
    /\ saved' = writer[p].set
    /\ reader' = Witness(granted')
    /\ writer' = [writer EXCEPT ![p].at = "reload"]
    /\ UNCHANGED <<policy, rebuilt, lock, featureMu, counters>>

\* reset, under the lock ...
reloadAuthorization(p) ==
    /\ writer[p].at = "reload" /\ lock = None
    /\ lock' = p /\ rebuilt' = FALSE
    /\ writer' = [writer EXCEPT ![p].at = "fill"]
    /\ UNCHANGED <<granted, saved, policy, featureMu, reader, counters>>

\* ... and the permissions of the roles.
Fill(p) ==
    /\ writer[p].at = "fill"
    /\ policy' = granted /\ rebuilt' = TRUE /\ lock' = None
    /\ featureMu' = None
    /\ writer' = [writer EXCEPT ![p] = NotWriting]
    /\ UNCHANGED <<granted, saved, reader, counters>>

\* Only the administrators' grants are seeded.
ensureFeatureCatalog ==
    granted' = granted

Restart ==
    /\ faults < MaxFaults /\ faults' = faults + 1
    /\ ensureFeatureCatalog
    /\ policy' = granted' /\ rebuilt' = TRUE /\ lock' = None /\ featureMu' = None
    /\ writer' = [p \in Writers |-> NotWriting]
    /\ reader' = [p \in Readers |-> NotReading]
    /\ UNCHANGED <<saved, saves, reads>>

----------------------------------------------------------------------------
\* hasPermission of the account's own role, else of the role "user".
Enforced(who, f) == rebuilt /\ (who = "admin" \/ (who = "user" /\ f \in policy))

RequireFeature(who, f) ==
    /\ f = "organizations" => Enforced(who, "permissions")
    /\ Enforced(who, f)

BeginFeatures(p) ==
    /\ reader[p].at = 0 /\ reads < MaxReads
    /\ reads' = reads + 1
    /\ \E who \in AccountKinds :
         reader' = [reader EXCEPT ![p] = [at |-> 1, who |-> who, view |-> {},
                                          lo |-> granted \cap policy, hi |-> granted \cup policy]]
    /\ UNCHANGED <<granted, saved, policy, rebuilt, lock, featureMu, writer, saves, faults>>

\* One feature after the other, each under the read lock.
EffectiveFeatures(p) ==
    /\ reader[p].at \in 1..6 /\ lock = None
    /\ LET f == Order[reader[p].at] IN
       reader' = [reader EXCEPT ![p].at = @ + 1,
                                ![p].view = IF RequireFeature(reader[p].who, f) THEN @ \cup {f} ELSE @]
    /\ UNCHANGED <<granted, saved, policy, rebuilt, lock, featureMu, writer, counters>>

handlePermissionsHTTP(p) ==
    /\ reader[p].at = 7
    /\ reader' = [reader EXCEPT ![p] = NotReading]
    /\ UNCHANGED <<granted, saved, policy, rebuilt, lock, featureMu, writer, counters>>

Next ==
    \/ \E p \in Writers :
         \/ handleUserPermissionsHTTP(p) \/ ReplaceIAMRolePermissionSubset(p)
         \/ reloadAuthorization(p) \/ Fill(p)
    \/ \E p \in Readers : BeginFeatures(p) \/ EffectiveFeatures(p) \/ handlePermissionsHTTP(p)
    \/ Restart

Spec == Init /\ [][Next]_vars

----------------------------------------------------------------------------
TypeOK ==
    /\ granted \subseteq allFeatures /\ saved \subseteq featureCatalog /\ policy \subseteq allFeatures
    /\ rebuilt \in BOOLEAN
    /\ lock \in Writers \cup {None} /\ featureMu \in Writers \cup {None}
    /\ writer \in [Writers -> [at: {"idle", "replace", "reload", "fill"}, set: SUBSET featureCatalog]]
    /\ \A p \in Readers : reader[p].at \in 0..7 /\ reader[p].view \subseteq allFeatures
    /\ saves \in 0..MaxSaves /\ reads \in 0..MaxReads /\ faults \in 0..MaxFaults

\* "file upload requires file browsing permission", and changing the settings
\* reading them - stored or enforced, whatever saves overlap.
DependenciesHold ==
    Closed(granted) /\ Closed(policy)

\* "a saved empty policy survives restart": the catalog's rows are those of the
\* last save, and outside a save they are what is enforced.
SavedPolicyIsInForce ==
    /\ granted \cap featureCatalog = saved
    /\ (\A p \in Writers : writer[p].at \notin {"reload", "fill"}) => policy = granted

\* A rebuild never shows: a feature that every policy had while the browser asked
\* is listed, and one that none had is not.
FeaturesDoNotFlicker ==
    \A p \in Readers : reader[p].at = 7 =>
        LET v == reader[p].view \cap featureCatalog IN
        CASE reader[p].who = "admin" -> reader[p].view = allFeatures
          [] reader[p].who = "user" -> (reader[p].lo \cap featureCatalog) \subseteq v /\ v \subseteq reader[p].hi
          [] OTHER -> reader[p].view = {}

\* An old grant of the organization pages does not let users past the check for
\* the management of permissions.
OrganizationsAreForAdministrators ==
    \A p \in Readers : "organizations" \in reader[p].view => reader[p].who = "admin"
=============================================================================
