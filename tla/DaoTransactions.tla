----------------------------- MODULE DaoTransactions -----------------------------
(***************************************************************************)
(* Transactions of the data layer (repo/dao: dao.go, transaction.go,       *)
(* concurrent_transaction.go).  The pool has one connection, which a       *)
(* transaction keeps until it ends; Begin waits for it with the root dao's *)
(* lock in its hand, which every other statement passes through.  The      *)
(* concurrent transaction manager runs tasks, each in a transaction of its *)
(* own, in one of four modes.                                              *)
(***************************************************************************)
EXTENDS Naturals, FiniteSets

CONSTANTS
    Users,      \* callers of WithTransaction and WithTransactionContext
    Readers,    \* callers that use the root dao without a transaction
    Nested,     \* callers that begin a second transaction before the first ends
    Workers,    \* goroutines of the manager
    Tasks,      \* tasks given to the manager; as many as Workers, or more in mode "limit"
    Modes,
    None

Txs == Users \cup Workers \cup Nested
Procs == Txs \cup Readers

VARIABLES
    mode,       \* which of the manager's functions is called
    mu,         \* holder of the root dao's lock
    conn,       \* the transaction or statement that has the connection
    at,         \* where each process is
    writes,     \* statements of each open transaction that are not committed
    stored,     \* statements of each process that are committed
    cancelled,  \* users, and None for the manager's caller, whose context is done
    todo,       \* tasks not taken yet
    task,       \* the task of each worker
    outcome,    \* what became of each task
    answer      \* what the manager has returned: None, "nil", "error", "context"

vars == <<mode, mu, conn, at, writes, stored, cancelled, todo, task, outcome, answer>>

Init ==
    /\ mode \in Modes
    /\ mu = None /\ conn = None
    /\ at = [p \in Procs |-> IF p \in Workers THEN "take" ELSE "start"]
    /\ writes = [p \in Txs |-> 0]
    /\ stored = [p \in Txs |-> 0]
    /\ cancelled = {}
    /\ todo = Tasks
    /\ task = [w \in Workers |-> None]
    /\ outcome = [t \in Tasks |-> "none"]
    /\ answer = None

manager == <<mode, todo, task, outcome, answer>>
Goto(p, l) == at' = [at EXCEPT ![p] = l]

----------------------------------------------------------------------------
\* Begin takes the lock of the root dao ...
Begin(p) ==
    /\ at[p] = "begin" /\ mu = None
    /\ mu' = p
    /\ Goto(p, "connect")
    /\ UNCHANGED <<manager, conn, writes, stored, cancelled>>

\* ... and waits for the connection.
Connected(p) ==
    /\ at[p] = "connect" /\ conn = None
    /\ conn' = p /\ mu' = None
    /\ Goto(p, "run")
    /\ UNCHANGED <<manager, writes, stored, cancelled>>

\* A statement of a transaction; a transaction here has two of them.
Exec(p) ==
    /\ at[p] = "run" /\ writes[p] < 2
    /\ writes' = [writes EXCEPT ![p] = @ + 1]
    /\ UNCHANGED <<manager, mu, conn, at, stored, cancelled>>

Commit(p) ==
    /\ stored' = [stored EXCEPT ![p] = @ + writes[p]]
    /\ writes' = [writes EXCEPT ![p] = 0]
    /\ conn' = None

Rollback(p) ==
    /\ writes' = [writes EXCEPT ![p] = 0]
    /\ conn' = None
    /\ UNCHANGED stored

----------------------------------------------------------------------------
\* WithTransactionContext looks at the context before it begins ...
WithTransactionContext(u) ==
    /\ at[u] = "start"
    /\ Goto(u, IF u \in cancelled THEN "done" ELSE "begin")
    /\ UNCHANGED <<manager, mu, conn, writes, stored, cancelled>>

\* The function fails or panics: its transaction is rolled back.
FnFails(u) ==
    /\ at[u] = "run"
    /\ Rollback(u)
    /\ Goto(u, "done")
    /\ UNCHANGED <<manager, mu, cancelled>>

\* ... and again before it commits.
FnReturns(u) ==
    /\ at[u] = "run" /\ writes[u] = 2
    /\ IF u \in cancelled THEN Rollback(u) ELSE Commit(u) \/ Rollback(u)
    /\ Goto(u, "done")
    /\ UNCHANGED <<manager, mu, cancelled>>

Cancel(c) ==
    /\ c \notin cancelled
    /\ cancelled' = cancelled \cup {c}
    /\ UNCHANGED <<manager, mu, conn, at, writes, stored>>

\* A caller without a transaction passes the lock, then needs the connection.
getDB(r) ==
    /\ at[r] = "start" /\ mu = None
    /\ Goto(r, "query")
    /\ UNCHANGED <<manager, mu, conn, writes, stored, cancelled>>

\* Mutant of Query: the connection is not given back.
leaksConnection(r) ==
    /\ at[r] = "query" /\ conn = None
    /\ conn' = r
    /\ Goto(r, "done")
    /\ UNCHANGED <<manager, mu, writes, stored, cancelled>>

Query(r) ==
    /\ at[r] = "query" /\ conn = None
    /\ Goto(r, "done")
    /\ UNCHANGED <<manager, mu, conn, writes, stored, cancelled>>

\* The README's fourth example: a second Begin before the first Commit.
BeginFirst(n) ==
    /\ at[n] = "start" /\ mu = None /\ conn = None
    /\ conn' = n
    /\ Goto(n, "begin")
    /\ UNCHANGED <<manager, mu, writes, stored, cancelled>>

----------------------------------------------------------------------------
\* The manager.  A goroutine has one task, in mode "limit" it takes one after
\* the other.
Take(w) ==
    /\ at[w] = "take"
    /\ \/ \E t \in todo :
            /\ todo' = todo \ {t}
            /\ task' = [task EXCEPT ![w] = t]
            /\ Goto(w, "begin")
       \/ todo = {} /\ Goto(w, "done") /\ UNCHANGED <<todo, task>>
    /\ UNCHANGED <<mode, mu, conn, writes, stored, cancelled, outcome, answer>>

Next1(w) == IF mode = "limit" THEN "take" ELSE "done"

TaskFails(w) ==
    /\ at[w] = "run"
    /\ Rollback(w)
    /\ outcome' = [outcome EXCEPT ![task[w]] = "failed"]
    /\ Goto(w, Next1(w))
    /\ UNCHANGED <<mode, mu, cancelled, todo, task, answer>>

\* A panic is recovered after the rollback and leaves no error; the goroutine ends.
TaskPanics(w) ==
    /\ at[w] = "run"
    /\ Rollback(w)
    /\ outcome' = [outcome EXCEPT ![task[w]] = "panicked"]
    /\ Goto(w, "done")
    /\ UNCHANGED <<mode, mu, cancelled, todo, task, answer>>

\* Mutant of TaskReturns: a failed COMMIT is reported as success.
losesCommitError(w) ==
    /\ at[w] = "run" /\ writes[w] = 2
    /\ \/ Commit(w) /\ outcome' = [outcome EXCEPT ![task[w]] = "committed"]
       \/ Rollback(w) /\ UNCHANGED outcome
    /\ Goto(w, Next1(w))
    /\ UNCHANGED <<mode, mu, cancelled, todo, task, answer>>

TaskReturns(w) ==
    /\ at[w] = "run" /\ writes[w] = 2
    /\ \/ Commit(w) /\ outcome' = [outcome EXCEPT ![task[w]] = "committed"]
       \/ Rollback(w) /\ outcome' = [outcome EXCEPT ![task[w]] = "failed"]
    /\ Goto(w, Next1(w))
    /\ UNCHANGED <<mode, mu, cancelled, todo, task, answer>>

Failed == \E t \in Tasks : outcome[t] = "failed"

\* The four functions differ in when they return and with what.
ExecuteConcurrent ==
    /\ mode = "all" /\ answer = None
    /\ \A w \in Workers : at[w] = "done"
    /\ answer' = IF Failed THEN "error" ELSE "nil"
    /\ UNCHANGED <<mode, mu, conn, at, writes, stored, cancelled, todo, task, outcome>>

ExecuteConcurrentWithContext ==
    /\ mode = "context" /\ answer = None
    /\ \/ None \in cancelled /\ answer' = "context"
       \/ (\A w \in Workers : at[w] = "done") /\ answer' = IF Failed THEN "error" ELSE "nil"
    /\ UNCHANGED <<mode, mu, conn, at, writes, stored, cancelled, todo, task, outcome>>

ExecuteConcurrentWithLimit ==
    /\ mode = "limit" /\ answer = None
    /\ \A w \in Workers : at[w] = "done"
    /\ answer' = IF Failed THEN "error" ELSE "nil"
    /\ UNCHANGED <<mode, mu, conn, at, writes, stored, cancelled, todo, task, outcome>>

ExecuteConcurrentWithResult ==
    /\ mode = "result" /\ answer = None
    /\ \A w \in Workers : at[w] = "done"
    /\ answer' = IF Failed THEN "error" ELSE "nil"
    /\ UNCHANGED <<mode, mu, conn, at, writes, stored, cancelled, todo, task, outcome>>

Return ==
    ExecuteConcurrent \/ ExecuteConcurrentWithContext \/ ExecuteConcurrentWithLimit \/ ExecuteConcurrentWithResult

Step(p) == Begin(p) \/ Connected(p) \/ Exec(p)
UserStep(u) == WithTransactionContext(u) \/ FnFails(u) \/ FnReturns(u)
ReaderStep(r) == getDB(r) \/ Query(r)
WorkerStep(w) == Take(w) \/ TaskFails(w) \/ TaskPanics(w) \/ TaskReturns(w)

Next ==
    \/ \E p \in Txs : Step(p)
    \/ \E u \in Users : UserStep(u)
    \/ \E c \in Users \cup {None} : Cancel(c)
    \/ \E r \in Readers : ReaderStep(r)
    \/ \E n \in Nested : BeginFirst(n)
    \/ \E w \in Workers : WorkerStep(w)
    \/ Return

Spec == Init /\ [][Next]_vars

----------------------------------------------------------------------------
TypeOK ==
    /\ mode \in Modes
    /\ mu \in Txs \cup {None} /\ conn \in Txs \cup {None}
    /\ at \in [Procs -> {"start", "take", "begin", "connect", "run", "query", "done"}]
    /\ writes \in [Txs -> 0..2]
    /\ \A p \in Txs : stored[p] <= 2 * Cardinality(Tasks)
    /\ cancelled \subseteq Users \cup {None}
    /\ todo \subseteq Tasks /\ task \in [Workers -> Tasks \cup {None}]
    /\ outcome \in [Tasks -> {"none", "committed", "failed", "panicked"}]
    /\ answer \in {None, "nil", "error", "context"}

\* A transaction keeps all of its statements or none, however it ends: by an
\* error, a panic, a cancelled context or a failed commit.
AllOrNothing ==
    \A p \in Txs : stored[p] % 2 = 0

\* The manager answers without an error only if every task was committed, or
\* panicked; tasks that nobody took are left over in mode "limit" when the
\* panics have taken every worker away.
NilMeansCommitted ==
    answer = "nil" =>
        \A t \in Tasks : \/ outcome[t] \in {"committed", "panicked"}
                         \/ mode = "limit" /\ t \in todo
                            /\ Cardinality({x \in Tasks : outcome[x] = "panicked"}) = Cardinality(Workers)

\* Except for a cancelled context, nothing of the manager runs after its answer.
AnswerIsFinal ==
    answer \in {"nil", "error"} => \A w \in Workers : at[w] = "done" /\ conn # w

\* Nobody waits for ever: the lock and the connection come round to every caller.
CallerFinished(p) == at[p] = "done"

=============================================================================
