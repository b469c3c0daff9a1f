# Liaison: a TLA+ verification project

Liaison publishes services that sit behind connectors (edges) and lets an LLM
agent work on the connections. This directory holds TLA+ modules for the parts
of the system that keep state, the TLC configurations that check them on small
instances, and TLAPS proofs of the main invariants for every instance.

`PROJECT.json` lists the parts of the system, the runs, the source lines of
every definition, the hazards of the code with the properties that cover them,
and the theorems.

## The system and its modules

A browser or a client program reaches a service through an *access*: a
listener of the manager whose traffic goes through a connector to the target.
The manager keeps its rows in one SQLite database on one connection
(`SetMaxOpenConns(1)`), so that transactions are serial; the rows, the
listeners, the sessions in memory and the connectors change in separate steps.

**The agent.** `handleAgentTurnHTTP` calls `Service.RunTurn`, which checks the
session's live connection and calls `Loop.run`. The loop alternates model
calls and tool calls and persists each step. A call that policy gates is
frozen in an approval row and the handler returns. A second request,
`ResolveApproval`, decides it and carries the turn on, or ends it.

| Module | Code (under `src/pkg/liaison/manager` unless a path is given) | State and actions |
|---|---|---|
| `AgentStore` | `agent/runtime/types.go`, `durable_store.go`, `durable_approval.go` | the rows: sessions, turns, steps, approvals; one operator per store call |
| `AgentRuntime` | `agent/runtime/loop.go`, `context.go`, `agent/application`, `web/agent_http.go` | handlers as processes, `req[r]` their locals, one action per call they make |
| `SessionContract` | the promise of `StartTurn` and `TransitionTurn` | the abstract session that `AgentRuntime` implements |
| `ToolRegistry`, `ToolDisclosure` | `agent/tool` | registry, catalog, leases and managers; what a model is shown |
| `AccessSessions` | `accesssession`, `agent/application`, `agent/executor` | live connections, generations, snapshots, calls that resolve them |
| `EventBroker` | `agent/runtime/events.go`, `web/agent_http.go` | bounded channels, slow subscribers, revoked clients |
| `Assistance`, `ModelSettings`, `ModelStream` | `agent/assistance`, `agent/modelsettings`, `agent/model` | completion lanes; saved settings against turns; streamed answers |
| `ShellContext` | `web/webssh_context.go` | the scanner of shell marks and what is kept of it |

**The control plane.**

| Module | Code | State and actions |
|---|---|---|
| `AccessLifecycle` | `controlplane/{proxy,edge,application,device,lifecycle,firewall}.go` | rows, listeners, filters; every request statement by statement, errors, crash and start |
| `Credentials`, `AuditLog` | `controlplane/{webssh,webdata}.go`, `web/audit_http.go` | stored passwords; entries and the pages read of them |
| `OrgIAM`, `FeaturePolicy`, `UserAccounts` | `iam` | organizations, roles and the rebuilt policy; features; one account and its tokens |
| `DaoTransactions` | `src/pkg/liaison/repo/dao` | lock, connection, transactions and the concurrent manager |

**The planes that carry traffic.**

| Module | Code | State and actions |
|---|---|---|
| `HTTPProxy`, `HTTPRelay` | `src/pkg/entry/http` | listeners against deletion; one connection with keep-alive and WebSocket |
| `Gatekeeper`, `DBGateway`, `SSHGateway` | `src/pkg/entry/{transport,dbgateway,sshgateway}` | listeners, sessions, bridges, audit |
| `TrafficMeter` | `traffic`, `src/pkg/entry` counters | bytes from a connection to a row |
| `AIGateway`, `AIRequests`, `AIRelay` | `controlplane/ai_gateway.go`, `web/ai_gateway_http.go`, `aigateway` | keys, slots, quota; translation of requests and of answers |

**Browser sessions and connectors.**

| Module | Code | State and actions |
|---|---|---|
| `WebSSHSession`, `WebDesktopSession`, `WebDataSession`, `FileSessions` | `web/web*_http.go`, `web/webssh_files_store.go`, `sftpfiles` | tokens, active sessions, goroutines, timers |
| `ScanTask`, `ScanRange` | `frontierbound/task.go`, `controlplane/edge.go`, `src/pkg/edge/scanner` | task rows against reports and expiry; one scan |
| `EdgePresence`, `DeviceInventory`, `Fingerprint` | `frontierbound/{oob,device}.go`, `src/pkg/edge/reporter`, `utils` | presence, machines, their reports |
| `EdgeSupervisor` | `src/desktop-client/src-tauri` | supervisors, poller, sign-in, commands |

**Correspondence.** A module keeps the names of the functions and fields it
models where TLA+ allows it. A handler is split at the calls between which
others may take steps: database statements, locks, channel operations, model,
tool and network calls. What it does in between is one action. Locals that are
read later are fields of the process's record. Data that no property tells
apart (prompts, bytes, messages) is a member of a small set or left out.
Definitions for libraries (`rproxy`, `x/crypto/ssh`, `io.Copy`) follow from
how the code uses them and are marked external in the map. Definitions whose
comment begins with *Mutant of* are not part of a model: each is a plausible
error in the definition after it, and a property of a run fails with it.

**Failure.** Model, tool, network and, where the code handles them, database
errors may happen at any call. `Disconnect` cancels a request's context; from
then on its database and event calls fail, except those made with
`context.WithoutCancel` (`failTurn`, the deferred function, `FailStep`).
`Crash` and restart actions keep the rows and drop everything else. A database
call of the agent loop that fails on a live context is not modelled.

## Runs

The agent loop has runs of its own, on module `AgentRuntimeInv` (the model with
the invariants of the proofs and the symmetry of its model values). The other
components do not share variables with one another, and are checked in groups:
a group's initial state picks a component and only that component's actions
are taken. Its states are the disjoint union of the components' states, so a
group checks what separate runs would. It does not check interactions between
the components of a group; what crosses a boundary (a policy change, a closed
connection, a deleted row) is an action inside the module that has to cope with
it. TLC's coverage reports a group's next-state relation as one action; the
coverage of the actions inside was looked at separately, and each of them is
taken in some run.

| Run | What it checks |
|---|---|
| `turns` | two requests, two turns, one approval, two model steps, one fault: the invariants of the loop, `IInv` and `TurnsInv`, `FinishedTurnFrozen`, and that the runtime implements `SessionContract` |
| `liveness` | one turn with a connection, one fault: `RequestsReturn`, `StartedTurnSettles` |
| `agent_services` | tools, connections, events, completion lanes, settings, streamed answers |
| `control_plane` | accesses with faults, crash, cascades and repair; credentials, accounts, organizations, features, transactions |
| `traffic` | the HTTP, TCP, SSH, database and AI planes, counters |
| `endpoints` | browser sessions, file transfers, shell context, audit logs |
| `connectors` | scans, presence, inventory, fingerprints, desktop client |
| `endings` | liveness: what is cut ends, what was begun returns |
| `settling` | liveness: what waits is served, what was asked for comes true |
| `atomic_approval`, `paired_history`, `webssh_reset` | violations, see below |

A group's property is the conjunction of its components' properties of one
kind; the definitions are in the components' modules, each with the behaviour
it is about. The system may really stop (all turns, tokens or connections
used), so deadlock is not checked; that something must go on is stated by the
liveness properties.

**Bounds.** Two of each kind of process suffice for a race between one that
acts and one that overtakes it; where an order of three matters (a create, a
delete and a second create; two sign-ins and a change of server) the bound is
three. Limits of the code (buffer sizes, slots, sessions per user, recorded
commands) are set to one or two, so that they are reached. Version numbers,
generations, clocks and counters are bounded by named constants that appear in
the guards; each bound lets the counter pass through the states in which an old
and a new value exist together. Octets have two bits in `ScanRange` so that
carries and every prefix length occur. `MaxModelSteps` is a parameter of the
code; two rounds reach the budget and go on after a tool call. `MaxFaults`
bounds cancellations, crashes and errors. Some instances are given twice with
different bounds (`keys` and `choice`, `tasks` and `faults`, `quota` and
`target`) because each needs another constant to be large. `credentials` has
one user with two accounts: every statement of that code is restricted to the
rows of the calling user.

**Fairness.** A goroutine that can run does: weak fairness of each step of a
handler, loop or timer. It includes that a call with a deadline returns: model
and tool calls (HTTP timeouts, `TimeoutMiddleware`), negotiations, probes,
statements. `Manage` of `ToolRegistry` has strong fairness, because Go's mutex
does not starve a waiter. Nothing is assumed of people, browsers, clients,
targets, connectors that leave, or new requests. `StartedTurnSettles` is
restricted to behaviours without faults because a cancelled or crashed handler
may leave a turn open (see the hazards in `PROJECT.json`). In `endings` the
sessions' peers may be silent for ever.

**Symmetry** is used in runs that check invariants and action properties only,
and over model values that no definition tells apart.

## Where the code and its comments differ

* `ResolveApproval` "atomically decides a pending approval and either resumes
  the frozen invocation or terminates the waiting turn". The approval is
  visible before its turn is parked. A decision in that window is recorded,
  but its effect is refused because the turn is not waiting yet; the turn then
  parks with an approval that cannot be decided again (`atomic_approval`).
* `completedHistory` restores completed turns "preserving tool-call/result
  pairs". A response with a gated call followed by another call loses the
  second: the resumed turn completes with an unanswered call
  (`paired_history`).
* A reset of an access's trusted host key is the way the user is told to
  reconnect, but the soft-deleted row keeps its place in the unique index, and
  no new key can be recorded (`webssh_reset`).

Other differences met while modelling, which the models contain and for which
no run is kept:

* the listeners restored at start are open before their filters are
  (`controlplane/lifecycle.go:100`), although `liaison.go:195` speaks of
  avoiding that window; a stored native database access keeps the manager from
  starting (`entry/entry.go:127`);
* a failed `tls.Listen` is lost in a shadowed `err` (`entry/http/server.go:132`);
  frames read ahead of a WebSocket upgrade are dropped (633) and one direction
  of the relay is not counted (822);
* the collectors' "last flush" may run against a closed database
  (`traffic_collector.go:131`) and the planes' last report is not made
  (`gatekeeper.go:330`); an SSH exit status can be dropped (`gateway.go:343`)
  and a first typed line left unrecorded (413);
* a scan task that failed can be written back as running (`task.go:102`), and
  the network and broadcast addresses of a /28 are scanned (`scanner.go:347`);
  a heartbeat can show a connector online after its offline call (`oob.go:41`);
* a second `Begin` before the first `Commit` waits for ever (`dao.go:277`);
* checks made before the transaction they guard: the last administrator, the
  hierarchy's cycle and its children (`organization.go:708`, 610, 650), the
  number of tokens (`pat.go:53`);
* a connector that returns to an earlier machine collides with a soft-deleted
  relation (`frontierbound/device.go:240`); a device is found by an address it
  no longer has (`dao_device.go:73`);
* a saved account without a password cuts its request off
  (`webssh_http.go:297`);
* the desktop client's popup can show Paused after a sign-out, a sign-in can
  outlive a change of server, and the poller can watch another connector
  (`lib.rs:307`, 225, 426).

A group's property is stated where these do not interfere: `hierarchy` has
requests one after the other, `tokens` one creator, `settling`'s inventory no
return to an earlier machine, and `presence` no edits where it must settle.

## Proofs

The proofs are for every value of the constants that satisfies the named
assumptions. A proof has one lemma per action or per group of actions that
change the same thing, and lemmas about what a step leaves alone.

### The agent loop

`AgentRuntimeInv` holds the invariants and the lemmas about rows,
`AgentRuntimeProofs` the proof of `IInv`, `AgentRuntimeTurns` that of
`TurnsInv`, and `AgentRuntimeTheorems` what follows from both. The assumptions
are `TurnsAssumption`, `SessionsAssumption`, `ApprovalsAssumption` and
`BoundsAssumption`: the empty IDs are not IDs, there is a session, and the
bounds are numbers.

| Theorem | States |
|---|---|
| `Invariance`, `TypeCorrect` | `Spec => []IInv`, `Spec => []TypeOK` |
| `LockCorrect` | `ActiveTurnLock`: a session's `ActiveTurnID` is its one open turn |
| `DriverCorrect` | `SingleDriver`: no two requests drive a turn |
| `ApprovalCorrect` | `ExecutionFollowsApproval`: a gated tool starts at most once, after its approval was granted and used up |
| `TurnsInvariance` | `Spec => []TurnsInv` |
| `CleanCompletion` | `CompletedTurnIsClean`: a completed turn has only completed steps |
| `DrivenWhileCalm` | `RunningTurnIsDriven`: without cancellations and crashes an open turn that does not wait has a driver |
| `FinishedFrozen` | `FinishedTurnFrozen`: no step changes a finished turn |
| `Refinement` | `ImplementsContract`: every step is a step of `SessionContract` or leaves it alone |

None of these invariants is inductive alone. That a tool does not start twice
needs that the step about to execute has not run and is named by no approval
(`FreshCallOK`), that an approval which is not consumed names a step that has
not run (`ApprovalsOK`), and that only one request acts on a decided approval
(`Exclusive`, which rests on `Decide` comparing the status). That a turn has
one driver needs the status each program point implies (`DrivenTurnOK`): a
second request can take a turn only while it waits, and a waiting turn's
driver holds its decided approval. That archiving respects the lock needs that
a request which still holds the stored version saw no active turn
(`ArchiveOK`). `IInv` is the conjunction.

That a completed turn is clean needs to know, at every program point, which
steps of the driven turn are over: all but the active one, or all
(`StepsInv`). That an open turn is driven needs that the rows at each program
point let its next call succeed (`CalmInv`): versions held are versions
stored, as long as nobody else changes the row, which is `SingleDriver` again.
`TurnsInv` is `StepsInv /\ CalmInv` and is inductive relative to `IInv`.

### Access sessions

`AccessSessions` ends with the proof of `LiveInv`, for any users, access IDs,
sessions, calls and number of connections. `ConstantsOK` says that the nil
value is neither a connection nor a session. Theorems: `LiveInvariance`,
`CallsReachTheirConnection`, `RegistryIsLive`, `TurnsStartLive`.

`CallReachesItsConnection` is not inductive: nothing in it keeps a stored
snapshot from meeting a later connection with the same ID and generation.
`Known(k)` does: the generation of a connection is at most the ID's counter,
which only grows, and no other live connection has its ID and generation.
`LiveInv` states it of every live connection, every snapshot and every
connection a request holds, and states at each stage what the request has
checked. From it follows the step that matters (`SameGeneration`): a handle
with the snapshot's ID and generation *is* the snapshot's connection. A version
of `Register` that restarts the counter of a free ID breaks it.

### The database gateway

`DBGateway` ends with the proof of `GatewayInv`, for any number of listener
objects, clients and places (finitely many clients). Theorems:
`GatewayInvariance`, `PlacesAreNotLost`, `DeletedIsClosed`,
`ListenersKnownAndTLSOnly`.

That a closed `done` channel means closed sockets needs where each session's
listener is: a queued session belongs to a loop that accepts, one under way to
a loop that accepts or drains (`SessOK`), and a loop is done only when none of
its sessions is under way. That places are not lost is a count over a finite
set which every step leaves alone, raises by one or lowers by one (`Places`).
That a running listener has its entry needs that a deletion removes only the
entry of a listener that is done.

### What is only model-checked

* Liveness under fairness (`liveness`, `endings`, `settling`): out of the
  prover's reach.
* What sorting and folding compute (the selection of tools in
  `ToolDisclosure`, the fingerprint in `Fingerprint`), which would need
  induction over data.
* The invariants and action properties of the other components. They are
  checked on the instances above and are not proved for larger ones.

## Not modelled

The web user interface; generated API code; configuration, logging and signal
handling; the protocol clients of the data workspaces and provider wire formats
other than the two streaming ones; password hashing, JWTs and mail templates;
CIDR matching; header rewriting; the bytes a session relays. They keep no state
that others share, or are the work of libraries. `PROJECT.json` says of every
part what is left out.
