---------------------------- MODULE ToolRegistry ----------------------------
(***************************************************************************)
(* The agent's tool engine (agent/tool/{registry,catalog,engine,source}.go)*)
(* Tools live in two tables: the registry, which hands out leases, and the *)
(* catalog, from which snapshots are built.  Engine.lifecycleMu orders the *)
(* calls that change a tool; a call that executes one takes the registry's *)
(* lock only, so it runs between the two halves of a life-cycle call.      *)
(* Each source has a SourceManager of its own, as liaison.go builds them.  *)
(*                                                                         *)
(* A registration is known by its generation.  Only registrations count:   *)
(* the other increments of Registry.generation are never read.             *)
(***************************************************************************)
EXTENDS Integers, FiniteSets

CONSTANTS
    Names,        \* model-visible names (namespace and name of a ToolID)
    Versions,
    Sources,
    Calls,        \* executions of tools, reused one after the other
    NoSource,
    MaxGen        \* bound on registrations

ToolID == Names \X Versions
ModelName(id) == id[1]

VARIABLES
    entry,     \* managedRegistration by generation; unused ones are absent
    registry,  \* [ToolID -> generation of the registered entry, 0 if none]
    catalog,   \* [ToolID -> generation (0 if absent), status, source]
    lock,      \* the source whose call holds Engine.lifecycleMu
    mgr,       \* [Sources -> the SourceManager and its call in progress]
    call       \* [Calls -> the execution and its lease]

vars == <<entry, registry, catalog, lock, mgr, call>>

Status == {"active", "disabled", "draining", "unloaded"}
NoTool == << >>
Absent == [gen |-> 0, status |-> "unloaded", src |-> NoSource]
Idle == [pc |-> "idle", then |-> "none", id |-> NoTool, status |-> "active",
         force |-> FALSE, complete |-> FALSE, todo |-> {}, drain |-> {},
         up |-> FALSE, loaded |-> {}]
NoCall == [pc |-> "idle", id |-> NoTool, gen |-> 0, cancelled |-> FALSE]

NextGen == Cardinality(DOMAIN entry) + 1

(* Registry.setStatus: what it refuses, and the status it sets.            *)
validStatusTransition(from, to) ==
    \/ from = to
    \/ from = "active" /\ to \in {"disabled", "draining"}
    \/ from = "disabled" /\ to \in {"active", "draining"}

CanSetStatus(id, to) ==
    /\ registry[id] # 0
    /\ validStatusTransition(entry[registry[id]].status, to)

SetEntryStatus(id, to) ==
    entry' = [entry EXCEPT ![registry[id]].status = to]

-----------------------------------------------------------------------------
(* SourceManager: the loops around the engine's calls.  m is a manager's   *)
(* record: its loaded tools, the engine call in progress (pc, id, status,  *)
(* force), what the call is for (then), and the tools still to go (todo).  *)

Done(m) ==
    [m EXCEPT !.pc = "idle", !.then = "none", !.id = NoTool, !.todo = {},
              !.status = "active", !.force = FALSE]

Call(m, pc, then, id) == [m EXCEPT !.pc = pc, !.then = then, !.id = id]

NextRollback(m) ==
    IF m.todo = {}
    THEN [Done(m) EXCEPT !.loaded = {}]
    ELSE [m EXCEPT !.pc = "next"]

(* What the manager does with the engine's answer: gone is ErrToolNotFound *)
Returned(m, ok, complete, gone) ==
    CASE m.then = "load" /\ ok ->
           IF m.todo = {}
           THEN [Done(m) EXCEPT !.up = TRUE, !.loaded = @ \cup {m.id}]
           ELSE [m EXCEPT !.pc = "next", !.loaded = @ \cup {m.id}]
      [] m.then = "load" /\ ~ok ->
           NextRollback([m EXCEPT !.then = "rollback", !.todo = m.loaded])
      [] m.then = "rollback" ->
           IF ok THEN NextRollback(m)
           ELSE NextRollback([m EXCEPT !.todo = {}])
      [] m.then = "upsert" ->
           [Done(m) EXCEPT !.loaded = IF ok THEN @ \cup {m.id} ELSE @]
      [] m.then = "status" -> Done(m)
      [] m.then = "unload" ->
           [Done(m) EXCEPT !.loaded = IF ok /\ complete THEN @ \ {m.id} ELSE @]
      [] m.then = "unloadAll" ->
           LET left == IF complete \/ gone THEN m.loaded \ {m.id} ELSE m.loaded
           IN  IF m.todo # {}
               THEN [m EXCEPT !.pc = "next", !.loaded = left]
               ELSE [Done(m) EXCEPT !.loaded = left, !.up = left # {}]

Return(s, ok, complete, gone) ==
    mgr' = [mgr EXCEPT ![s] = Returned(mgr[s], ok, complete, gone)]

Idling(s) == mgr[s].pc = "idle"

(* Load registers the tools of a source snapshot, at most one per name.    *)
Load(s) ==
    /\ Idling(s)
    /\ ~mgr[s].up
    /\ \E ids \in SUBSET ToolID :
         /\ ids # {}
         /\ mgr' = [mgr EXCEPT ![s] =
                      [@ EXCEPT !.pc = "next", !.then = "load", !.todo = ids,
                                !.loaded = {}]]
    /\ UNCHANGED <<entry, registry, catalog, lock, call>>

(* The loops of Load, of its rollback and of Unload pick the next tool.    *)
NextTool(s) ==
    /\ mgr[s].pc = "next"
    /\ \E id \in mgr[s].todo :
         mgr' = [mgr EXCEPT ![s] =
                   [@ EXCEPT !.pc = IF mgr[s].then = "load" THEN "register"
                                    ELSE "unload",
                             !.force = @ /\ mgr[s].then = "unloadAll",
                             !.id = id, !.todo = @ \ {id}]]
    /\ UNCHANGED <<entry, registry, catalog, lock, call>>

(* SourceManager.Apply: one event of a loaded source.                      *)
Apply(s) ==
    /\ Idling(s)
    /\ mgr[s].up
    /\ \/ \E id \in ToolID :
            mgr' = [mgr EXCEPT ![s] = Call(@, "replace", "upsert", id)]
       \/ \E id \in mgr[s].loaded, to \in {"active", "disabled"} :
            mgr' = [mgr EXCEPT ![s] =
                      [Call(@, "setStatus", "status", id)
                         EXCEPT !.status = to]]
       \/ \E id \in mgr[s].loaded, force \in BOOLEAN :
            mgr' = [mgr EXCEPT ![s] =
                      [Call(@, "unload", "unload", id) EXCEPT !.force = force]]
    /\ UNCHANGED <<entry, registry, catalog, lock, call>>

(* SourceManager.Unload of the whole source.                               *)
UnloadSource(s) ==
    /\ Idling(s)
    /\ mgr[s].up
    /\ \E force \in BOOLEAN :
         mgr' = [mgr EXCEPT ![s] =
                   IF @.loaded = {} THEN [@ EXCEPT !.up = FALSE]
                   ELSE [@ EXCEPT !.pc = "next", !.then = "unloadAll",
                                  !.todo = mgr[s].loaded, !.force = force]]
    /\ UNCHANGED <<entry, registry, catalog, lock, call>>

-----------------------------------------------------------------------------
(* Engine.register, under lifecycleMu.                                     *)

byModelName(name) ==
    {id \in ToolID : catalog[id].gen # 0 /\ ModelName(id) = name}

BeginRegister(s) ==
    /\ mgr[s].pc \in {"register", "replace"}
    /\ lock = NoSource
    /\ LET existing == byModelName(ModelName(mgr[s].id))
       IN  IF mgr[s].pc = "register" /\ existing # {}
           THEN /\ Return(s, FALSE, FALSE, FALSE)
                /\ UNCHANGED lock
           ELSE /\ lock' = s
                /\ mgr' = [mgr EXCEPT ![s] =
                             [@ EXCEPT !.pc = "drain", !.drain = existing]]
    /\ UNCHANGED <<entry, registry, catalog, call>>

(* Replacing drains the other versions of the name, in both tables.        *)
DrainReplaced(s) ==
    /\ mgr[s].pc = "drain"
    /\ \E id \in mgr[s].drain :
         IF catalog[id].src # s
         THEN /\ mgr' = [mgr EXCEPT ![s] =
                           Returned([@ EXCEPT !.drain = {}], FALSE, FALSE, FALSE)]
              /\ lock' = NoSource
              /\ UNCHANGED entry
         ELSE /\ IF id # mgr[s].id /\ registry[id] # 0
                 THEN SetEntryStatus(id, "draining")
                 ELSE UNCHANGED entry
              /\ mgr' = [mgr EXCEPT ![s] =
                           IF id = @.id THEN [@ EXCEPT !.drain = @ \ {id}]
                           ELSE [@ EXCEPT !.pc = "drained", !.drain = @ \ {id},
                                          !.todo = {id}]]
              /\ UNCHANGED lock
    /\ UNCHANGED <<registry, catalog, call>>

DrainReplacedCatalog(s) ==
    /\ mgr[s].pc = "drained"
    /\ \E id \in mgr[s].todo :
         catalog' = [catalog EXCEPT ![id].status = "draining"]
    /\ mgr' = [mgr EXCEPT ![s] = [@ EXCEPT !.pc = "drain", !.todo = {}]]
    /\ UNCHANGED <<entry, registry, lock, call>>

(* Registry.register: a new entry; one it replaces keeps its leases but is *)
(* no longer reachable.                                                    *)
RegisterEntry(s) ==
    /\ mgr[s].pc = "drain"
    /\ mgr[s].drain = {}
    /\ NextGen <= MaxGen
    /\ registry' = [registry EXCEPT ![mgr[s].id] = NextGen]
    /\ entry' = [g \in DOMAIN entry \cup {NextGen} |->
                   IF g \in DOMAIN entry THEN entry[g]
                   ELSE [id |-> mgr[s].id, status |-> "active", inFlight |-> {}]]
    /\ mgr' = [mgr EXCEPT ![s].pc = "upsertCatalog"]
    /\ UNCHANGED <<catalog, lock, call>>

(* Catalog.upsert with the generation just given out.                      *)
UpsertCatalog(s) ==
    /\ mgr[s].pc = "upsertCatalog"
    /\ catalog' = [catalog EXCEPT ![mgr[s].id] =
                     [gen |-> registry[mgr[s].id], status |-> "active",
                      src |-> s]]
    /\ Return(s, TRUE, FALSE, FALSE)
    /\ lock' = NoSource
    /\ UNCHANGED <<entry, registry, call>>

(* Engine.Enable and Engine.Disable.                                       *)
SetStatus(s) ==
    /\ mgr[s].pc = "setStatus"
    /\ lock = NoSource
    /\ IF CanSetStatus(mgr[s].id, mgr[s].status)
       THEN /\ SetEntryStatus(mgr[s].id, mgr[s].status)
            /\ mgr' = [mgr EXCEPT ![s].pc = "statusCatalog"]
            /\ lock' = s
       ELSE /\ Return(s, FALSE, FALSE, registry[mgr[s].id] = 0)
            /\ UNCHANGED <<entry, lock>>
    /\ UNCHANGED <<registry, catalog, call>>

SetStatusCatalog(s) ==
    /\ mgr[s].pc = "statusCatalog"
    /\ catalog' = [catalog EXCEPT ![mgr[s].id].status = mgr[s].status]
    /\ Return(s, TRUE, FALSE, FALSE)
    /\ lock' = NoSource
    /\ UNCHANGED <<entry, registry, call>>

(* Engine.Unload: the registry half, then the catalog half.                *)
Unload(s) ==
    /\ mgr[s].pc = "unload"
    /\ lock = NoSource
    /\ LET id == mgr[s].id
           g == registry[id]
       IN  IF g = 0
           THEN /\ Return(s, FALSE, FALSE, TRUE)
                /\ UNCHANGED <<entry, registry, lock, call>>
           ELSE LET complete == entry[g].inFlight = {}
                IN  /\ entry' = [entry EXCEPT ![g].status =
                                   IF complete THEN "unloaded" ELSE "draining"]
                    /\ registry' = IF complete THEN [registry EXCEPT ![id] = 0]
                                   ELSE registry
                    /\ call' = [c \in Calls |->
                                  IF mgr[s].force /\ c \in entry[g].inFlight
                                  THEN [call[c] EXCEPT !.cancelled = TRUE]
                                  ELSE call[c]]
                    /\ mgr' = [mgr EXCEPT ![s] =
                                 [@ EXCEPT !.pc = "unloadCatalog",
                                           !.complete = complete]]
                    /\ lock' = s
    /\ UNCHANGED catalog

UnloadCatalog(s) ==
    /\ mgr[s].pc = "unloadCatalog"
    /\ catalog' = [catalog EXCEPT ![mgr[s].id] =
                     IF mgr[s].complete THEN Absent
                     ELSE [@ EXCEPT !.status = "draining"]]
    /\ mgr' = [mgr EXCEPT ![s] =
                 Returned([@ EXCEPT !.complete = FALSE], TRUE, mgr[s].complete, FALSE)]
    /\ lock' = NoSource
    /\ UNCHANGED <<entry, registry, call>>

-----------------------------------------------------------------------------
(* Executions.                                                             *)

(* Catalog.snapshot, of which the call uses one active tool.               *)
BuildSnapshot(c) ==
    /\ call[c].pc = "idle"
    /\ \E id \in ToolID :
         /\ catalog[id].gen # 0
         /\ catalog[id].status = "active"
         /\ call' = [call EXCEPT ![c] =
                       [pc |-> "exposed", id |-> id, gen |-> catalog[id].gen,
                        cancelled |-> FALSE]]
    /\ UNCHANGED <<entry, registry, catalog, lock, mgr>>

(* Mutant of CanAcquire: the generation is not compared.                   *)
CanAcquireAnyGeneration(id, gen) ==
    /\ registry[id] # 0
    /\ entry[registry[id]].status = "active"

(* Registry.acquire's three refusals.                                      *)
CanAcquire(id, gen) ==
    /\ registry[id] # 0
    /\ entry[registry[id]].status = "active"
    /\ registry[id] = gen

(* Engine.execute: policy denies the call, acquire refuses it, or it runs. *)
Execute(c) ==
    /\ call[c].pc = "exposed"
    /\ \/ /\ call' = [call EXCEPT ![c] = NoCall]
          /\ UNCHANGED entry
       \/ /\ CanAcquire(call[c].id, call[c].gen)
          /\ entry' = [entry EXCEPT ![registry[call[c].id]].inFlight = @ \cup {c}]
          /\ call' = [call EXCEPT ![c].pc = "running"]
    /\ UNCHANGED <<registry, catalog, lock, mgr>>

(* Registry.release: the last lease of a draining entry unloads it.        *)
released(g, c) ==
    LET left == entry[g].inFlight \ {c}
    IN  [entry[g] EXCEPT
           !.inFlight = left,
           !.status = IF @ = "draining" /\ left = {} THEN "unloaded" ELSE @]

(* The executor returned, with a result or an error; the lease is dropped. *)
Release(c) ==
    /\ call[c].pc = "running"
    /\ \E g \in DOMAIN entry :
         /\ c \in entry[g].inFlight
         /\ entry' = [entry EXCEPT ![g] = released(g, c)]
         /\ registry' =
              IF released(g, c).status = "unloaded" /\ registry[entry[g].id] = g
              THEN [registry EXCEPT ![entry[g].id] = 0] ELSE registry
    /\ call' = [call EXCEPT ![c] = NoCall]
    /\ UNCHANGED <<catalog, lock, mgr>>

-----------------------------------------------------------------------------
Init ==
    /\ entry = [g \in {} |-> 0]
    /\ registry = [id \in ToolID |-> 0]
    /\ catalog = [id \in ToolID |-> Absent]
    /\ lock = NoSource
    /\ mgr = [s \in Sources |-> Idle]
    /\ call = [c \in Calls |-> NoCall]

Manage(s) ==
    \/ NextTool(s)
    \/ BeginRegister(s) \/ DrainReplaced(s) \/ DrainReplacedCatalog(s)
    \/ RegisterEntry(s) \/ UpsertCatalog(s)
    \/ SetStatus(s) \/ SetStatusCatalog(s)
    \/ Unload(s) \/ UnloadCatalog(s)

Next ==
    \/ \E s \in Sources : Load(s) \/ Apply(s) \/ UnloadSource(s) \/ Manage(s)
    \/ \E c \in Calls : BuildSnapshot(c) \/ Execute(c) \/ Release(c)

Spec == Init /\ [][Next]_vars

-----------------------------------------------------------------------------
(* Each variable keeps its type: the registry and the catalog refer to     *)
(* generations given out, leases to executions that run.                   *)
TypeOK ==
    /\ DOMAIN entry \subseteq 1 .. MaxGen
    /\ \A g \in DOMAIN entry :
         entry[g] \in [id : ToolID, status : Status, inFlight : SUBSET Calls]
    /\ \A id \in ToolID :
         /\ registry[id] \in {0} \cup DOMAIN entry
         /\ catalog[id].gen \in {0} \cup DOMAIN entry
    /\ lock \in Sources \cup {NoSource}
    /\ \A c \in Calls :
         call[c].pc = "running" <=>
           \E g \in DOMAIN entry : c \in entry[g].inFlight

(* Between life-cycle calls the two tables agree: a registered tool is     *)
(* listed with its generation and status, and an entry that release has    *)
(* unloaded behind the catalog's back is only ever listed as draining, so  *)
(* no snapshot offers a tool that acquire would not know.                  *)
TablesAgree ==
    lock = NoSource =>
      \A id \in ToolID :
        /\ registry[id] # 0 =>
             /\ catalog[id].gen = registry[id]
             /\ catalog[id].status = entry[registry[id]].status
        /\ registry[id] = 0 /\ catalog[id].gen # 0 =>
             catalog[id].status = "draining"

(* The model sees at most one usable tool of a name, and only one source   *)
(* ever owns a name: register refuses a taken name, Replace drains the     *)
(* other versions and a drained version cannot be enabled again.           *)
OneToolPerName ==
    \A id1, id2 \in ToolID :
      ModelName(id1) = ModelName(id2) /\ id1 # id2 =>
        /\ ~(/\ registry[id1] # 0 /\ entry[registry[id1]].status # "draining"
             /\ registry[id2] # 0 /\ entry[registry[id2]].status # "draining")
        /\ catalog[id1].gen # 0 /\ catalog[id2].gen # 0 =>
             catalog[id1].src = catalog[id2].src

(* An entry leaves the registry as unloaded only when nothing runs on it,  *)
(* and every running call holds a lease of the very generation its         *)
(* snapshot exposed.                                                       *)
LeasesHeld ==
    \A g \in DOMAIN entry :
      /\ entry[g].status = "unloaded" =>
           entry[g].inFlight = {} /\ registry[entry[g].id] # g
      /\ \A c \in entry[g].inFlight : call[c].gen = g /\ call[c].id = entry[g].id

(* Every tool the agent may call belongs to a loaded source's list, or to  *)
(* the list a source is still building: a failed Load takes back what it   *)
(* registered.                                                             *)
ActiveToolsOwned ==
    \A id \in ToolID :
      registry[id] # 0 /\ entry[registry[id]].status # "draining" =>
        \E s \in Sources : id \in mgr[s].loaded \/ id = mgr[s].id

(* "Unload stops new calls immediately": no step gives a lease of an entry *)
(* that is disabled, draining, unloaded or no longer registered.           *)
LeaseIsTimely ==
    \A g \in DOMAIN entry :
         \/ entry'[g].inFlight \subseteq entry[g].inFlight
         \/ entry[g].status = "active" /\ registry[entry[g].id] = g

-----------------------------------------------------------------------------

(* A tool that drains while calls run on it is unloaded in the end: the    *)
(* last release does it, whatever was replaced or loaded meanwhile.        *)
Draining(g) == g \in DOMAIN entry /\ entry[g].status = "draining" /\ entry[g].inFlight # {}
Unloaded(g) == g \in DOMAIN entry /\ entry[g].status = "unloaded"

(* Every call of a source manager returns, although managers wait for one  *)
(* another at lifecycleMu: none of them waits for an execution.            *)
Managing(s) == mgr[s].pc # "idle" /\ Cardinality(DOMAIN entry) < MaxGen
ManagerReturned(s) == mgr[s].pc = "idle" \/ Cardinality(DOMAIN entry) = MaxGen

=============================================================================
