-------------------------------- MODULE ScanTask --------------------------------
(***************************************************************************)
(* Application scans: a task row that the control plane creates            *)
(* (controlplane/edge.go), that a connector works on (edge/scanner) and    *)
(* reports about (frontierbound/task.go), and that a timer, the offline    *)
(* callback, stopping the connector and a manager restart may fail.  None  *)
(* of these reads the status in the statement that changes it.             *)
(***************************************************************************)
EXTENDS Naturals, FiniteSets

CONSTANTS
    Tasks,        \* task ids, 1..n, in the order of creation
    Scans,        \* scans the connector can have under way
    MaxFaults,    \* lost connections, restarts and stops
    None

Open == {"pending", "running"}
Status == Open \cup {"none", "completed", "failed"}

VARIABLES
    edge,      \* the connector's row
    task,      \* the task rows
    reopened,  \* ghost: tasks whose final status a report overwrote with "running"
    create,    \* the request that creates a task
    expiry,    \* each task's expiry goroutine
    sweep,     \* the offline callback and the stop of the connector, failing tasks
    report,    \* the report handler of each scan
    conn,      \* the connector is connected
    scan,      \* the connector's scan goroutines
    pull,      \* the pull at the connector's start
    faults

vars == <<edge, task, reopened, create, expiry, sweep, report, conn, scan, pull, faults>>

Sweeps == {"offline", "stop"}
IdleCreate == [at |-> "idle", task |-> None, answer |-> None]
IdleSweep == [at |-> "idle", todo |-> {}]
NoReport == [at |-> "none", task |-> None, status |-> None]
NoScan == [at |-> "free", task |-> None]

Init ==
    /\ edge = [status |-> "running", online |-> TRUE]
    /\ task = [t \in Tasks |-> [status |-> "none", result |-> "empty"]]
    /\ reopened = {}
    /\ create = IdleCreate
    /\ expiry = [t \in Tasks |-> "none"]
    /\ sweep = [w \in Sweeps |-> IdleSweep]
    /\ report = [s \in Scans |-> NoReport]
    /\ conn = TRUE
    /\ scan = [s \in Scans |-> NoScan]
    /\ pull = [at |-> "idle", task |-> None]
    /\ faults = 0

OpenTasks == {t \in Tasks : task[t].status \in Open}

UpdateTaskResult(t, status, result) ==
    /\ task' = [task EXCEPT ![t] = [status |-> status, result |-> result]]
    /\ reopened' = IF status = "running" /\ task[t].status \notin Open THEN reopened \cup {t} ELSE reopened

UpdateTaskError(t) ==
    /\ task' = [task EXCEPT ![t].status = "failed"]
    /\ UNCHANGED reopened

----------------------------------------------------------------------------
\* The connector.  scan() refuses a task whose goroutine is still there.
Known == {scan[s].task : s \in Scans} \ {None}

\* Mutant of StartScan: a task that is already known is scanned again.
ignoresKnown(t, s) ==
    /\ scan[s].at = "free" /\ report[s].at = "none"
    /\ scan' = [scan EXCEPT ![s] = [at |-> "starting", task |-> t]]

StartScan(t, s) ==
    /\ scan[s].at = "free" /\ report[s].at = "none"
    /\ t \notin Known
    /\ scan' = [scan EXCEPT ![s] = [at |-> "starting", task |-> t]]

Ported(s) == scan[s].at \in {"starting", "finishing"}
AfterReport(s) == IF scan[s].at = "starting" THEN [scan[s] EXCEPT !.at = "scanning"] ELSE NoScan

\* The goroutine's call fails: it ends without another word, its handler may go on.
CallFails(s) ==
    /\ Ported(s) /\ faults < MaxFaults
    /\ scan' = [scan EXCEPT ![s] = NoScan]
    /\ faults' = faults + 1
    /\ UNCHANGED <<edge, task, reopened, create, expiry, sweep, report, conn, pull>>

\* scanWithGo ends; on an error nothing is reported.
scanWithGo(s) ==
    /\ scan[s].at = "scanning"
    /\ \/ scan' = [scan EXCEPT ![s].at = "finishing"]
       \/ scan' = [scan EXCEPT ![s] = NoScan]
    /\ UNCHANGED <<edge, task, reopened, create, expiry, sweep, report, conn, pull, faults>>

\* pullTaskScanApplication on both sides: the first open task of the connector ...
pullTaskScanApplication ==
    /\ pull.at = "due" /\ conn
    /\ pull' = IF OpenTasks = {} THEN [at |-> "idle", task |-> None]
               ELSE [at |-> "answered", task |-> CHOOSE t \in OpenTasks : \A u \in OpenTasks : t <= u]
    /\ UNCHANGED <<edge, task, reopened, create, expiry, sweep, report, conn, scan, faults>>

\* ... is scanned, unless it is being scanned already.
PullScan ==
    /\ pull.at = "answered"
    /\ \/ \E s \in Scans : StartScan(pull.task, s)
       \/ pull.task \in Known /\ UNCHANGED scan
    /\ pull' = [at |-> "idle", task |-> None]
    /\ UNCHANGED <<edge, task, reopened, create, expiry, sweep, report, conn, faults>>

----------------------------------------------------------------------------
\* The report handler reads the task and refuses a failed one ...
reportTaskScanApplication(s) ==
    /\ Ported(s) /\ conn /\ report[s].at = "none"
    /\ IF task[scan[s].task].status = "failed"
       THEN \* the scanner looks at the call's error and not at the answer's
            scan' = [scan EXCEPT ![s] = AfterReport(s)] /\ UNCHANGED report
       ELSE /\ report' = [report EXCEPT ![s] = [at |-> "checked", task |-> scan[s].task,
                                status |-> IF scan[s].at = "starting" THEN "running" ELSE "completed"]]
            /\ UNCHANGED scan
    /\ UNCHANGED <<edge, task, reopened, create, expiry, sweep, conn, pull, faults>>

\* ... and writes what was reported, whatever the task is by now.
WriteReport(s) ==
    LET t == report[s].task IN
    /\ report[s].at = "checked"
    /\ UpdateTaskResult(t, report[s].status, IF report[s].status = "completed" THEN "apps" ELSE "empty")
    /\ report' = [report EXCEPT ![s] = NoReport]
    /\ scan' = IF scan[s].task = t /\ Ported(s) THEN [scan EXCEPT ![s] = AfterReport(s)] ELSE scan
    /\ UNCHANGED <<edge, create, expiry, sweep, conn, pull, faults>>

----------------------------------------------------------------------------
\* CreateEdgeScanApplicationTask looks at the connector's row ...
CheckEdge ==
    /\ create.at = "idle" /\ create.answer = None
    /\ create' = IF edge.status = "running" /\ edge.online
                 THEN [create EXCEPT !.at = "checked"] ELSE [create EXCEPT !.answer = "error"]
    /\ UNCHANGED <<edge, task, reopened, expiry, sweep, report, conn, scan, pull, faults>>

\* ... stores the task and starts its timer ...
CreateTask(t) ==
    /\ create.at = "checked"
    /\ task[t].status = "none" /\ \A u \in Tasks : u < t => task[u].status # "none"
    /\ task' = [task EXCEPT ![t] = [status |-> "pending", result |-> "empty"]]
    /\ expiry' = [expiry EXCEPT ![t] = "sleeping"]
    /\ create' = [create EXCEPT !.at = "created", !.task = t]
    /\ UNCHANGED <<edge, reopened, sweep, report, conn, scan, pull, faults>>

\* ... and sends it to the connector.  The call may fail before or after the
\* connector has acted on it.
EmitScanApplications ==
    /\ create.at = "created"
    /\ \/ /\ conn
          /\ \E s \in Scans : StartScan(create.task, s)
          /\ \/ create' = [create EXCEPT !.at = "answered", !.answer = "task"] /\ UNCHANGED faults
             \/ faults < MaxFaults /\ create' = [create EXCEPT !.at = "failed"] /\ faults' = faults + 1
       \/ /\ conn /\ create.task \in Known
          /\ create' = [create EXCEPT !.at = "failed"]
          /\ UNCHANGED <<scan, faults>>
       \/ /\ ~conn
          /\ create' = [create EXCEPT !.at = "failed"]
          /\ UNCHANGED <<scan, faults>>
    /\ UNCHANGED <<edge, task, reopened, expiry, sweep, report, conn, pull>>

\* A failed call fails the task.  The error it returns is the one of the update,
\* so that the caller is told of a failure when there are two.
EmitFailed ==
    /\ create.at = "failed"
    /\ \/ /\ UpdateTaskError(create.task)
          /\ create' = [create EXCEPT !.at = "answered", !.answer = "nil"]
          /\ UNCHANGED faults
       \/ /\ faults < MaxFaults
          /\ create' = [create EXCEPT !.at = "answered", !.answer = "error"]
          /\ faults' = faults + 1
          /\ UNCHANGED <<task, reopened>>
    /\ UNCHANGED <<edge, expiry, sweep, report, conn, scan, pull>>

Return ==
    /\ create.answer # None
    /\ create' = IdleCreate
    /\ UNCHANGED <<edge, task, reopened, expiry, sweep, report, conn, scan, pull, faults>>

\* The expiry goroutine reads the status ...
ExpireRead(t) ==
    /\ expiry[t] = "sleeping"
    /\ expiry' = [expiry EXCEPT ![t] = IF task[t].status \in Open THEN "fired" ELSE "over"]
    /\ UNCHANGED <<edge, task, reopened, create, sweep, report, conn, scan, pull, faults>>

\* ... and fails an open task.
ExpireWrite(t) ==
    /\ expiry[t] = "fired"
    /\ UpdateTaskError(t)
    /\ expiry' = [expiry EXCEPT ![t] = "over"]
    /\ UNCHANGED <<edge, create, sweep, report, conn, scan, pull, faults>>

----------------------------------------------------------------------------
\* The connection is lost, with or without the connector's process.
Disconnect ==
    /\ conn /\ faults < MaxFaults
    /\ conn' = FALSE
    /\ faults' = faults + 1
    /\ \/ UNCHANGED <<scan, pull>>
       \/ scan' = [s \in Scans |-> NoScan] /\ pull' = [at |-> "due", task |-> None]
    /\ UNCHANGED <<edge, task, reopened, create, expiry, sweep, report>>

Connect ==
    /\ ~conn
    /\ conn' = TRUE
    /\ edge' = [edge EXCEPT !.online = TRUE]
    /\ UNCHANGED <<task, reopened, create, expiry, sweep, report, scan, pull, faults>>

\* offline: the row, and then the open tasks one by one.
offline ==
    /\ ~conn /\ edge.online /\ sweep["offline"].at = "idle"
    /\ edge' = [edge EXCEPT !.online = FALSE]
    /\ sweep' = [sweep EXCEPT !["offline"] = [at |-> "failing", todo |-> OpenTasks]]
    /\ UNCHANGED <<task, reopened, create, expiry, report, conn, scan, pull, faults>>

\* UpdateEdge to stopped: failActiveEdgeTasks comes before the row.
failActiveEdgeTasks ==
    /\ edge.status = "running" /\ sweep["stop"].at = "idle" /\ faults < MaxFaults
    /\ sweep' = [sweep EXCEPT !["stop"] = [at |-> "failing", todo |-> OpenTasks]]
    /\ faults' = faults + 1
    /\ UNCHANGED <<edge, task, reopened, create, expiry, report, conn, scan, pull>>

SweepTask(w, t) ==
    /\ sweep[w].at = "failing" /\ t \in sweep[w].todo
    /\ UpdateTaskError(t)
    /\ sweep' = [sweep EXCEPT ![w].todo = @ \ {t}]
    /\ UNCHANGED <<edge, create, expiry, report, conn, scan, pull, faults>>

SweepDone(w) ==
    /\ sweep[w].at = "failing" /\ sweep[w].todo = {}
    /\ sweep' = [sweep EXCEPT ![w] = IdleSweep]
    /\ edge' = IF w = "stop" THEN [edge EXCEPT !.status = "stopped"] ELSE edge
    /\ UNCHANGED <<task, reopened, create, expiry, report, conn, scan, pull, faults>>

StartEdge ==
    /\ edge.status = "stopped"
    /\ edge' = [edge EXCEPT !.status = "running"]
    /\ UNCHANGED <<task, reopened, create, expiry, sweep, report, conn, scan, pull, faults>>

\* checkTask, before the manager serves again.
checkTask ==
    [t \in Tasks |-> IF task[t].status \in Open THEN [task[t] EXCEPT !.status = "failed"] ELSE task[t]]

\* The manager stops and starts again: its handlers and timers are gone.
Restart ==
    /\ faults < MaxFaults
    /\ faults' = faults + 1
    /\ create' = IdleCreate
    /\ expiry' = [t \in Tasks |-> IF task[t].status = "none" THEN "none" ELSE "over"]
    /\ sweep' = [w \in Sweeps |-> IdleSweep]
    /\ report' = [s \in Scans |-> NoReport]
    /\ task' = checkTask
    /\ UNCHANGED <<edge, reopened, conn, scan, pull>>

----------------------------------------------------------------------------
Next ==
    \/ \E s \in Scans : CallFails(s) \/ scanWithGo(s) \/ reportTaskScanApplication(s) \/ WriteReport(s)
    \/ \E t \in Tasks : CreateTask(t) \/ ExpireRead(t) \/ ExpireWrite(t)
    \/ \E w \in Sweeps : SweepDone(w) \/ \E t \in Tasks : SweepTask(w, t)
    \/ pullTaskScanApplication \/ PullScan
    \/ CheckEdge \/ EmitScanApplications \/ EmitFailed \/ Return
    \/ Disconnect \/ Connect \/ offline \/ failActiveEdgeTasks \/ StartEdge \/ Restart

Spec == Init /\ [][Next]_vars

----------------------------------------------------------------------------
TypeOK ==
    /\ edge \in [status: {"running", "stopped"}, online: BOOLEAN]
    /\ task \in [Tasks -> [status: Status, result: {"empty", "apps"}]]
    /\ reopened \subseteq Tasks
    /\ create \in [at: {"idle", "checked", "created", "failed", "answered"}, task: Tasks \cup {None},
                   answer: {None, "task", "nil", "error"}]
    /\ expiry \in [Tasks -> {"none", "sleeping", "fired", "over"}]
    /\ sweep \in [Sweeps -> [at: {"idle", "failing"}, todo: SUBSET Tasks]]
    /\ report \in [Scans -> [at: {"none", "checked"}, task: Tasks \cup {None}, status: {None, "running", "completed"}]]
    /\ conn \in BOOLEAN
    /\ scan \in [Scans -> [at: {"free", "starting", "scanning", "finishing"}, task: Tasks \cup {None}]]
    /\ pull \in [at: {"idle", "due", "answered"}, task: Tasks \cup {None}]
    /\ faults \in 0..MaxFaults

\* However a task reaches the connector - sent, pulled after a start, sent again
\* because the first answer was lost - its networks are scanned by one goroutine
\* at a time (scanner.tasks).
OneScanPerTask ==
    \A s, u \in Scans : s # u /\ scan[s].task # None => scan[s].task # scan[u].task

\* An open task has a timer that will close it, over restarts too; only a report
\* that was checked before the task was closed, and written after, escapes it.
OpenTaskIsWatched ==
    \A t \in OpenTasks : expiry[t] \in {"sleeping", "fired"} \/ t \in reopened

\* A task that is not reopened behind the timer's back is closed eventually,
\* although scans end without a report, reports are lost and connectors vanish.
TaskIsOpen(t) == task[t].status \in Open
TaskSettled(t) == task[t].status \notin Open \/ t \in reopened

=============================================================================
