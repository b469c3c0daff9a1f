-------------------------------- MODULE AIGateway --------------------------------
(***************************************************************************)
(* Inference through the AI gateway: handleAIInference of                  *)
(* web/ai_gateway_http.go and AIService of controlplane/ai_gateway.go.     *)
(* One access with one key.  A request takes a grant, a slot, passes the   *)
(* key's token quota, is dialled through the connector and relayed while a *)
(* watcher revalidates the grant; what it used is recorded when it ends.   *)
(* Keys, quotas, models and the upstream configuration change meanwhile.   *)
(***************************************************************************)
EXTENDS Naturals, FiniteSets

CONSTANTS
    Requests,     \* inference requests
    Savers,       \* requests that save the upstream configuration
    Targets,      \* protocol, base path and TLS the configuration may name
    Limits,       \* token limits, a set of numbers
    Costs,        \* tokens a request may use, a set of numbers
    Slots,        \* capacity of aiSlots
    MaxRuns,      \* inference requests in all
    MaxAdmin,     \* administrative requests
    MaxFaults,    \* records that cannot be written and restarts
    None

VARIABLES
    key,       \* "none", "live" or "revoked" (also: expired)
    limit,     \* its token_limit
    used,      \* settled tokens of the key
    unknown,   \* some settled request of the key has no confirmed usage
    config,    \* ai_applications: [target, fp, key], key the target that the credential was entered for
    enabled, models,   \* ai_accesses
    slots,     \* tokens in aiSlots
    req,       \* the inference requests
    save,      \* [at, target, fp, key] of the savers
    spent,     \* ghost: tokens upstream really used
    lost,      \* ghost: those whose record was lost
    high,      \* ghost: the highest limit there was; None: there was none
    runs, admin, faults

vars == <<key, limit, used, unknown, config, enabled, models, slots, req, save, spent, lost, high, runs, admin, faults>>
settings == <<key, limit, config, enabled, models, save, high, admin>>
usage == <<used, unknown, spent, lost>>

NoRequest == [at |-> "idle", target |-> None, models |-> None, cred |-> None, ctx |-> "ok", watched |-> FALSE,
              conn |-> FALSE, cost |-> 0, known |-> FALSE]
NotSaving == [at |-> "idle", target |-> None, fp |-> None, key |-> None]

Max(S) == CHOOSE x \in S : \A y \in S : y <= x

Init ==
    /\ key = "none" /\ limit = None /\ used = 0 /\ unknown = FALSE
    /\ config = [target |-> None, fp |-> None, key |-> None]
    /\ enabled = TRUE /\ models = 0
    /\ slots = 0
    /\ req = [p \in Requests |-> NoRequest]
    /\ save = [p \in Savers |-> NotSaving]
    /\ spent = 0 /\ lost = 0 /\ high = 0
    /\ runs = 0 /\ admin = 0 /\ faults = 0

----------------------------------------------------------------------------
\* Administration.
Administer == admin < MaxAdmin /\ admin' = admin + 1
inference == <<used, unknown, slots, req, spent, lost, runs, faults>>

Raise(l) == high' = IF l = None \/ high = None THEN None ELSE Max({high, l})

CreateKey ==
    /\ Administer /\ key = "none" /\ enabled
    /\ key' = "live"
    /\ limit' \in Limits \cup {None} /\ Raise(limit')
    /\ UNCHANGED <<config, enabled, models, save, inference>>

UpdateKeyQuota ==
    /\ Administer /\ key = "live"
    /\ limit' \in (Limits \cup {None}) \ {limit} /\ Raise(limit')
    /\ UNCHANGED <<key, config, enabled, models, save, inference>>

\* Also what happens when the key expires.
RevokeKey ==
    /\ Administer /\ key = "live"
    /\ key' = "revoked"
    /\ UNCHANGED <<limit, config, enabled, models, save, high, inference>>

SaveAccess ==
    /\ Administer
    /\ \/ enabled' = ~enabled /\ UNCHANGED models
       \/ models' = 1 - models /\ UNCHANGED enabled
    /\ UNCHANGED <<key, limit, config, save, high, inference>>

\* The fingerprint binds a credential to the application's address, which never
\* changes, and to the target configuration.
aiFingerprint(t) == t

\* With a new credential, without one, or with the old one if the fingerprint
\* is still the same.
SaveApplication(p) ==
    /\ Administer /\ save[p].at = "idle"
    /\ \E t \in Targets, keep \in BOOLEAN, k \in Targets \cup {None} :
         /\ IF keep THEN k = config.key /\ (k # None => config.fp = aiFingerprint(t)) ELSE k \in {t, None}
         /\ save' = [save EXCEPT ![p] = [at |-> "write", target |-> t, fp |-> aiFingerprint(t), key |-> k]]
    /\ UNCHANGED <<key, limit, config, enabled, models, high, inference>>

SaveAIApplication(p) ==
    /\ save[p].at = "write"
    /\ config' = [target |-> save[p].target, fp |-> save[p].fp, key |-> save[p].key]
    /\ save' = [save EXCEPT ![p] = NotSaving]
    /\ UNCHANGED <<key, limit, enabled, models, high, admin, inference>>

handleAIGatewayHTTP == CreateKey \/ UpdateKeyQuota \/ RevokeKey \/ SaveAccess \/ \E p \in Savers : SaveApplication(p)

----------------------------------------------------------------------------
\* Inference.
Goto(p, l) == req' = [req EXCEPT ![p].at = l]
End(p) == req' = [req EXCEPT ![p] = NoRequest]

\* The key is looked up, the access is active.
Grant(p) ==
    /\ req[p].at = "idle" /\ runs < MaxRuns
    /\ runs' = runs + 1
    /\ key = "live" /\ enabled
    /\ req' = [req EXCEPT ![p] = [NoRequest EXCEPT !.at = "upstream", !.models = models]]
    /\ UNCHANGED <<settings, usage, slots, faults>>

\* The configuration must fit its fingerprint, and the credential opens only
\* under the fingerprint that it was sealed with.
upstream(p) ==
    /\ req[p].at = "upstream"
    /\ LET fp == aiFingerprint(config.target)
       IN IF config.target # None /\ fp = config.fp /\ (config.key # None => aiFingerprint(config.key) = fp)
          THEN req' = [req EXCEPT ![p].at = "slot", ![p].target = config.target, ![p].cred = config.key]
          ELSE End(p)
    /\ UNCHANGED <<settings, usage, slots, runs, faults>>

\* Without a free slot the request is refused, 429.
TakeSlot(p) ==
    /\ req[p].at = "slot"
    /\ IF slots < Slots
       THEN slots' = slots + 1 /\ Goto(p, "prepare")
       ELSE UNCHANGED slots /\ End(p)
    /\ UNCHANGED <<settings, usage, runs, faults>>

\* The body is read and converted; a bad one ends the request.
Prepare(p) ==
    /\ req[p].at = "prepare"
    /\ \/ Goto(p, "quota")
       \/ Goto(p, "release")
    /\ UNCHANGED <<settings, usage, slots, runs, faults>>

\* Mutant of CheckKeyQuota: usage that was never confirmed does not count.
ignoresUnknown(p) ==
    /\ req[p].at = "quota"
    /\ IF key = "live" /\ (limit # None => used < limit)
       THEN req' = [req EXCEPT ![p].at = "dial", ![p].watched = TRUE]
       ELSE Goto(p, "release")
    /\ UNCHANGED <<settings, usage, slots, runs, faults>>

\* One query for the limit and the settled usage.
GetAIKeyUsage == [limit |-> limit, used |-> used, unknown |-> unknown]

CheckKeyQuota(p) ==
    /\ req[p].at = "quota"
    /\ IF key = "live" /\ LET u == GetAIKeyUsage IN u.limit # None => u.used < u.limit /\ ~u.unknown
       THEN req' = [req EXCEPT ![p].at = "dial", ![p].watched = TRUE]
       ELSE Goto(p, "release")
    /\ UNCHANGED <<settings, usage, slots, runs, faults>>

\* Of the target only the address is compared, which is constant; a stream goes on
\* when the target configuration changes.
Revalidate(p) == key = "live" /\ enabled /\ models = req[p].models

\* The dialler revalidates before it opens the stream, which may fail.
Dial(p) ==
    /\ req[p].at = "dial"
    /\ \/ req[p].ctx = "ok" /\ Revalidate(p) /\ req' = [req EXCEPT ![p].at = "relay", ![p].conn = TRUE]
       \/ Goto(p, "record")
    /\ UNCHANGED <<settings, usage, slots, runs, faults>>

\* Upstream answers with a frame, which is written to the client ...
RelayFrame(p) ==
    /\ req[p].at = "relay" /\ req[p].conn
    /\ req[p].cost = 0
    /\ \E c \in Costs :
         /\ req' = [req EXCEPT ![p].at = "write", ![p].cost = c]
         /\ spent' = spent + c
    /\ UNCHANGED <<settings, used, unknown, lost, slots, runs, faults>>

\* ... who may be slow.
Written(p) ==
    /\ req[p].at = "write"
    /\ Goto(p, "relay")
    /\ UNCHANGED <<settings, usage, slots, runs, faults>>

\* The answer is complete, with or without usage.
Complete(p) ==
    /\ req[p].at = "relay" /\ req[p].conn /\ req[p].cost > 0
    /\ \E k \in BOOLEAN : req' = [req EXCEPT ![p].at = "record", ![p].conn = FALSE, ![p].known = k]
    /\ UNCHANGED <<settings, usage, slots, runs, faults>>

\* Upstream refuses or breaks off, or the connection was closed under the relay.
Interrupted(p) ==
    /\ req[p].at = "relay"
    /\ req' = [req EXCEPT ![p].at = "record", ![p].conn = FALSE]
    /\ UNCHANGED <<settings, usage, slots, runs, faults>>

\* The watcher asks every two seconds.
Watch(p) ==
    /\ req[p].watched /\ req[p].at \in {"dial", "relay", "write"} /\ req[p].ctx = "ok"
    /\ ~Revalidate(p)
    /\ req' = [req EXCEPT ![p].ctx = "cancelled"]
    /\ UNCHANGED <<settings, usage, slots, runs, faults>>

\* The client leaves, or five minutes pass.
ContextEnds(p) ==
    /\ req[p].at \in {"dial", "relay", "write"} /\ req[p].ctx = "ok"
    /\ req' = [req EXCEPT ![p].ctx = "cancelled"]
    /\ UNCHANGED <<settings, usage, slots, runs, faults>>

\* The transport closes the connection of a request whose context has ended.
TransportCloses(p) ==
    /\ req[p].conn /\ req[p].ctx = "cancelled"
    /\ req' = [req EXCEPT ![p].conn = FALSE]
    /\ UNCHANGED <<settings, usage, slots, runs, faults>>

\* Mutant of Record: a request whose usage is unknown records nothing.
skipsRecord(p) ==
    /\ req[p].at = "record"
    /\ used' = used + IF req[p].known THEN req[p].cost ELSE 0
    /\ Goto(p, "release")
    /\ UNCHANGED <<settings, unknown, lost, faults, spent, slots, runs>>

\* The deferred record, then the deferred release of the slot.
Record(p) ==
    /\ req[p].at = "record"
    /\ \/ /\ used' = used + IF req[p].known THEN req[p].cost ELSE 0
          /\ unknown' = (unknown \/ ~req[p].known)
          /\ UNCHANGED <<lost, faults>>
       \/ /\ faults < MaxFaults /\ faults' = faults + 1
          /\ lost' = lost + req[p].cost
          /\ UNCHANGED <<used, unknown>>
    /\ Goto(p, "release")
    /\ UNCHANGED <<settings, spent, slots, runs>>

Release(p) ==
    /\ req[p].at = "release"
    /\ slots' = slots - 1
    /\ End(p)
    /\ UNCHANGED <<settings, usage, runs, faults>>

Restart ==
    /\ faults < MaxFaults /\ faults' = faults + 1
    /\ LET cost[S \in SUBSET Requests] == IF S = {} THEN 0 ELSE LET p == CHOOSE x \in S : TRUE
                                                                IN req[p].cost + cost[S \ {p}]
       IN lost' = lost + cost[{p \in Requests : req[p].at # "release"}]
    /\ slots' = 0
    /\ req' = [p \in Requests |-> NoRequest]
    /\ save' = [p \in Savers |-> NotSaving]
    /\ UNCHANGED <<key, limit, used, unknown, config, enabled, models, spent, high, runs, admin>>

handleAIInference(p) ==
    \/ Grant(p) \/ upstream(p) \/ TakeSlot(p) \/ Prepare(p) \/ CheckKeyQuota(p) \/ Dial(p)
    \/ RelayFrame(p) \/ Written(p) \/ Complete(p) \/ Interrupted(p)
    \/ Record(p) \/ Release(p)

Next ==
    \/ handleAIGatewayHTTP
    \/ \E p \in Savers : SaveAIApplication(p)
    \/ \E p \in Requests : handleAIInference(p) \/ Watch(p) \/ ContextEnds(p) \/ TransportCloses(p)
    \/ Restart

Spec == Init /\ [][Next]_vars

----------------------------------------------------------------------------
Places == {"idle", "upstream", "slot", "prepare", "quota", "dial", "relay", "write", "record", "release"}

TypeOK ==
    /\ key \in {"none", "live", "revoked"} /\ limit \in Limits \cup {None}
    /\ used \in Nat /\ unknown \in BOOLEAN
    /\ config.target \in Targets \cup {None} /\ config.key \in Targets \cup {None}
    /\ enabled \in BOOLEAN /\ models \in 0..1
    /\ slots \in 0..Slots
    /\ \A p \in Requests : req[p].at \in Places /\ req[p].ctx \in {"ok", "cancelled"} /\ req[p].cost \in Costs \cup {0}
    /\ spent \in Nat /\ lost \in Nat
    /\ runs \in 0..MaxRuns /\ admin \in 0..MaxAdmin /\ faults \in 0..MaxFaults

\* A slot is taken exactly by the requests between TakeSlot and Release,
\* however they end.
SlotsAreReturned ==
    slots = Cardinality({p \in Requests : req[p].at \in {"prepare", "quota", "dial", "relay", "write", "record", "release"}})

\* A limited key can be overdrawn only by the requests that were admitted while
\* the limit was not reached, one for each slot - unless a record was lost.
OverdraftIsBounded ==
    high # None => spent <= lost + (IF high = 0 THEN 0 ELSE high - 1 + Slots * Max(Costs))

\* "TOKEN_USAGE_UNCONFIRMED": after an answer whose usage is not confirmed a
\* limited key admits nothing more, so that no limit is passed unnoticed.
AdmittedUnderKnownUsage ==
    \A p \in Requests : req[p].at = "quota" /\ req'[p].at = "dial" /\ limit # None => ~unknown

\* A credential is sent only under the target configuration that it was entered
\* for (TargetFingerprint), however savers and requests overlap.
CredentialStaysWithTarget ==
    \A p \in Requests : req[p].conn /\ req[p].cred # None => req[p].cred = req[p].target

\* "Revoke/disable cancels a running stream": when the key is revoked, or the
\* access disabled for good, no connection upstream stays open.
StreamIsEntitled(p) == ~req[p].conn \/ Revalidate(p)
=============================================================================
