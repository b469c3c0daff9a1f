---------------------------- MODULE ModelSettings ----------------------------
(***************************************************************************)
(* The global model configuration of the agent                             *)
(* (manager/agent/modelsettings): administrators save and test it while a  *)
(* turn of an agent session asks the configured provider, and asks again   *)
(* after an approval.                                                      *)
(*                                                                         *)
(* The configuration is one row, read and written by statements of its     *)
(* own.  It has two forms: a single provider, kept for the old interface   *)
(* and for the configuration file, and a list.  An administrator sees      *)
(* whether a key is stored and not the key itself, so a blank key in an    *)
(* update means the stored one.  Left out: the output language, which is   *)
(* carried along, the order of the list, and the seal of the row.          *)
(***************************************************************************)
EXTENDS Naturals, FiniteSets

CONSTANTS
    Admins,
    Ids,        \* provider IDs an administrator may give
    Types,      \* provider types an administrator may give
    Urls,       \* endpoints; "deepseek" is the one the old form knows by name
    Models,
    Keys,
    NoKey,      \* the blank key
    Clear,      \* the request to clear the key
    KeyInput,   \* what an administrator may send for a key
    MaxUpdates, \* how many updates are sent
    Nil         \* no row, no list, no single provider

VARIABLES
    updates,    \* how many updates were sent
    stored,     \* the configuration row, or Nil
    fallback,   \* the configuration of the file and the environment
    mu,         \* the administrator that holds Manager.mu, or Nil
    admin,      \* the requests of the administrators
    turn,       \* the turn of an agent session
    typed       \* endpoint and key pairs somebody has given together (history)

vars == <<updates, stored, fallback, mu, admin, turn, typed>>

AllTypes == Types \cup {"custom", "deepseek"}
AllIds == Ids \cup {"custom", "deepseek"}
SomeKey == Keys \cup {NoKey}
Provider == [type: AllTypes, url: Urls, models: SUBSET Models \ {{}}, model: Models, key: SomeKey]
Single == [url: Urls, model: Models, key: SomeKey]
IsConfig(c) ==
    /\ c.enabled \in BOOLEAN /\ c.default \in AllIds \cup {Nil} /\ c.single \in Single \cup {Nil}
    /\ c.list # Nil => /\ DOMAIN c.list \subseteq AllIds
                       /\ \A id \in DOMAIN c.list : c.list[id] \in Provider
Selection == [id: AllIds \cup {Nil}, model: Models \cup {Nil}]
Default == [id |-> Nil, model |-> Nil]
Request == [url: Urls, key: SomeKey, id: AllIds, model: Models]

\* What an administrator may send: entries without the stored keys.
EntryInput == [type: Types, url: Urls, models: SUBSET Models \ {{}}, model: Models, key: KeyInput]
Update == [enabled: BOOLEAN, default: Ids \cup {Nil}, single: {Nil},
           list: UNION {[S -> EntryInput] : S \in SUBSET Ids}]
          \cup [enabled: BOOLEAN, default: {Nil}, list: {Nil},
                single: [url: Urls, model: Models, key: KeyInput]]

Failed == [failed |-> TRUE]
Idle == [config |-> Nil, given |-> {}, request |-> Nil, at |-> "idle"]

Init ==
    /\ updates = 0
    /\ stored = Nil
    /\ \E on \in BOOLEAN, s \in Single \cup {Nil} :
           /\ fallback = [enabled |-> on, single |-> s, default |-> Nil, list |-> Nil]
           /\ typed = IF s # Nil /\ s.key # NoKey THEN {<<s.url, s.key>>} ELSE {}
    /\ mu = Nil
    /\ admin = [a \in Admins |-> Idle]
    /\ turn = [selection |-> Default, request |-> Nil, asked |-> {}, at |-> "idle"]

(* ---- the configuration ---- *)

\* load: what a reader of the row gets.
load == IF stored = Nil THEN fallback ELSE stored

\* normalize: a single provider as a list of one.
normalize(c) ==
    IF c.list = Nil /\ c.single # Nil
    THEN LET id == IF c.single.url = "deepseek" THEN "deepseek" ELSE "custom"
         IN  [c EXCEPT !.default = id,
                       !.list = [i \in {id} |-> [type |-> id, url |-> c.single.url,
                                                 models |-> {c.single.model}, model |-> c.single.model,
                                                 key |-> c.single.key]]]
    ELSE c

\* An empty list is omitted when the row is encoded, and is read back as none.
Encoded(c) == IF c.list # Nil /\ DOMAIN c.list = {} THEN [c EXCEPT !.list = Nil] ELSE c

KnownKey(c, id) == IF c.list # Nil /\ id \in DOMAIN c.list THEN c.list[id].key ELSE NoKey
SameService(c, id, e) == c.list[id].url = e.url /\ c.list[id].type = e.type

\* The entry an update makes of a provider.
Merged(old, id, e) ==
    [type |-> e.type, url |-> e.url, models |-> e.models, model |-> e.model,
     key |-> CASE e.key = Clear -> NoKey [] e.key = NoKey -> KnownKey(old, id) [] OTHER -> e.key]
ForwardsKey(old, id, e) ==
    /\ e.key = NoKey
    /\ KnownKey(old, id) # NoKey
    /\ ~SameService(old, id, e)

\* Mutant of mergeProviders: a stored key is kept when the provider moves.
forwardsKeys(old, u) ==
    IF \/ \E id \in DOMAIN u.list : u.list[id].model \notin u.list[id].models
       \/ DOMAIN u.list = {} /\ u.enabled
       \/ DOMAIN u.list # {} /\ u.default \notin DOMAIN u.list
    THEN Failed
    ELSE [enabled |-> u.enabled, single |-> Nil,
          default |-> IF DOMAIN u.list = {} THEN Nil ELSE u.default,
          list |-> [id \in DOMAIN u.list |-> Merged(old, id, u.list[id])]]

\* mergeProviders: the list of an update, with the stored keys it keeps.
mergeProviders(old, u) ==
    IF \/ \E id \in DOMAIN u.list :
              ForwardsKey(old, id, u.list[id]) \/ u.list[id].model \notin u.list[id].models
       \/ DOMAIN u.list = {} /\ u.enabled
       \/ DOMAIN u.list # {} /\ u.default \notin DOMAIN u.list
    THEN Failed
    ELSE [enabled |-> u.enabled, single |-> Nil,
          default |-> IF DOMAIN u.list = {} THEN Nil ELSE u.default,
          list |-> [id \in DOMAIN u.list |-> Merged(old, id, u.list[id])]]

\* candidate for the single form.
mergeSingle(old, u) ==
    LET oldKey == IF old.single # Nil THEN old.single.key ELSE NoKey
        blank == u.single.key = NoKey
    IN  IF blank /\ oldKey # NoKey /\ u.single.url # old.single.url
        THEN Failed
        ELSE [enabled |-> u.enabled, default |-> Nil, list |-> Nil,
              single |-> [url |-> u.single.url, model |-> u.single.model,
                          key |-> CASE u.single.key = Clear -> NoKey [] blank -> oldKey [] OTHER -> u.single.key]]

\* candidate: the configuration an update leads to, from what is stored now.
candidate(u) ==
    IF u.list # Nil THEN mergeProviders(normalize(load), u) ELSE mergeSingle(load, u)

\* resolveSelection, with the request the chosen provider is sent.
resolveSelection(config, selection) ==
    LET c == normalize(config)
        id == IF selection = Default THEN c.default ELSE selection.id
        known == c.list # Nil /\ id \in DOMAIN c.list
        model == IF selection.model = Nil THEN c.list[id].model ELSE selection.model
    IN  IF ~c.enabled \/ ~known THEN Failed
        ELSE IF model \notin c.list[id].models THEN Failed
        ELSE [url |-> c.list[id].url, key |-> c.list[id].key, id |-> id, model |-> model]

(* ---- the administrators ---- *)

Pairs(u) ==
    IF u.list # Nil
    THEN {<<u.list[id].url, u.list[id].key>> : id \in DOMAIN u.list}
    ELSE {<<u.single.url, u.single.key>>}

Sent(u) ==
    /\ updates < MaxUpdates
    /\ updates' = updates + 1
    /\ typed' = typed \cup {p \in Pairs(u) : p[2] \in Keys}
Write(a, u) ==
    /\ admin[a].at = "idle"
    /\ candidate(u) # Failed
    /\ admin' = [admin EXCEPT ![a] = [config |-> candidate(u), given |-> {p[2] : p \in Pairs(u)},
                                      request |-> Nil, at |-> "write"]]

\* Save, up to the write: the lock and the candidate.
Save(a, u) ==
    /\ Sent(u)
    /\ mu = Nil
    /\ Write(a, u)
    /\ mu' = a
    /\ UNCHANGED <<stored, fallback, turn>>

\* The rest of Save.  The write may fail.
WriteAgentModelConfig(a) ==
    /\ admin[a].at = "write"
    /\ \/ stored' = Encoded(admin[a].config) \/ UNCHANGED stored
    /\ admin' = [admin EXCEPT ![a] = Idle]
    /\ mu' = Nil
    /\ UNCHANGED <<updates, fallback, turn, typed>>

\* Test narrows the update to the provider it is about and asks it, without
\* the lock and without saving.
Narrowed(u, id) == [u EXCEPT !.list = [i \in {id} |-> u.list[id]], !.default = id]
Test(a, u) ==
    \E v \in IF u.list = Nil THEN {u} ELSE {Narrowed(u, id) : id \in DOMAIN u.list} :
        /\ Sent(u)
        /\ admin[a].at = "idle"
        /\ candidate(v) # Failed
        /\ admin' = [admin EXCEPT ![a].at = "probe", ![a].request =
                         resolveSelection([candidate(v) EXCEPT !.enabled = TRUE], Default)]
        /\ UNCHANGED <<stored, fallback, mu, turn>>

\* handleModelSettingsHTTP: an authorized administrator saves or tests an update.
handleModelSettingsHTTP(a, u) == Save(a, u) \/ Test(a, u)

\* The provider answers the probe, or the 20 seconds pass.
ProbeEnds(a) ==
    /\ admin[a].at = "probe"
    /\ admin' = [admin EXCEPT ![a] = Idle]
    /\ UNCHANGED <<updates, stored, fallback, mu, turn, typed>>

(* ---- the turn ---- *)

\* RunTurn: the user's choice, or the default, is resolved once for the turn.
RunTurn(selection) ==
    LET r == resolveSelection(load, selection)
    IN  /\ turn.at = "idle"
        /\ r # Failed
        /\ turn' = [turn EXCEPT !.selection = [id |-> r.id, model |-> r.model], !.at = "model"]
        /\ UNCHANGED <<updates, stored, fallback, mu, admin, typed>>

\* Generate: every model step reads the configuration again.
Generate ==
    LET r == resolveSelection(load, turn.selection)
    IN  /\ turn.at = "model"
        /\ turn' = IF r = Failed
                   THEN [turn EXCEPT !.at = "failed"]
                   ELSE [turn EXCEPT !.request = r, !.asked = @ \cup {[id |-> r.id, model |-> r.model]},
                                     !.at = "asking"]
        /\ UNCHANGED <<updates, stored, fallback, mu, admin, typed>>

\* The provider answers: the turn goes on, waits for an approval or ends.
Answer ==
    /\ turn.at = "asking"
    /\ \E next \in {"model", "waiting", "failed"} : turn' = [turn EXCEPT !.request = Nil, !.at = next]
    /\ UNCHANGED <<updates, stored, fallback, mu, admin, typed>>

\* ResolveApproval comes with no selection; the one of the turn is restored
\* from its first model step.
ResolveApproval ==
    /\ turn.at = "waiting"
    /\ turn' = [turn EXCEPT !.at = "model"]
    /\ UNCHANGED <<updates, stored, fallback, mu, admin, typed>>

Next ==
    \/ \E a \in Admins :
           \/ \E u \in Update : handleModelSettingsHTTP(a, u)
           \/ WriteAgentModelConfig(a)
           \/ ProbeEnds(a)
    \/ \E selection \in {Default} \cup [id: AllIds, model: Models] : RunTurn(selection)
    \/ Generate
    \/ Answer
    \/ ResolveApproval

Spec == Init /\ [][Next]_vars

(* ---- properties ---- *)

\* Types.  The row never holds an empty list, a read would not give it back,
\* and the lock is held exactly while a save is between its read and its write.
TypeOK ==
    /\ (stored # Nil => IsConfig(stored)) /\ IsConfig(fallback)
    /\ stored # Nil => stored.list = Nil \/ DOMAIN stored.list # {}
    /\ \A a \in Admins : admin[a].at = "write" <=> mu = a
    /\ turn.selection \in Selection
    /\ turn.request \in Request \cup {Nil}

\* "Never forward a saved credential to an edited endpoint": a key is sent, by
\* a turn or by a probe, only to an endpoint somebody has given it for, however
\* saves in both forms, probes and the configuration file follow each other
\* (candidate, mergeProviders, normalize).
KeysGoWhereTheyWereGiven ==
    \A r \in {turn.request} \cup {admin[a].request : a \in Admins} :
        r # Nil /\ r.key # NoKey => <<r.url, r.key>> \in typed

\* Every configuration an administrator has saved and enabled has a default
\* provider that resolves, so a turn without a choice does not fail
\* (mergeProviders, validate, resolveSelection).
SavedDefaultResolves ==
    stored # Nil /\ stored.enabled => resolveSelection(stored, Default) # Failed

\* A save keeps a key only if it is the one stored when it writes: two saves
\* at once never bring back a key that one of them has replaced or cleared
\* (Save holds mu over its read and its write).
KeptKeyIsCurrent ==
    \A a \in Admins :
           admin[a].at = "write" /\ stored' # stored =>
               LET new == normalize(stored')
                   old == normalize(load)
               IN  new.list # Nil =>
                       \A id \in DOMAIN new.list :
                           new.list[id].key \in admin[a].given \cup {KnownKey(old, id), NoKey}

\* A turn asks one model of one provider, whatever is saved while it runs or
\* waits for an approval (RunTurn pins the default, ResolveApproval restores it).
TurnKeepsItsModel == Cardinality(turn.asked) <= 1
==============================================================================
