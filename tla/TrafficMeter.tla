------------------------------ MODULE TrafficMeter ------------------------------
(***************************************************************************)
(* Where relayed bytes go: a metered connection (trafficconn) adds to      *)
(* its own counters, flushes them into the TCP plane's table               *)
(* (gatekeeper) or straight into the collector, the plane hands its table  *)
(* to the collector once a minute, and the collector writes rows.  At      *)
(* shutdown liaison.Close stops the collector and closes the database.     *)
(* One unit stands for the bytes of one read or write.                     *)
(***************************************************************************)
EXTENDS Naturals, FiniteSets, FiniteSetsExt

CONSTANTS
    Conns,      \* metered connections
    Planed,     \* those of them that the TCP plane dialled
    MaxUnits,   \* units relayed in all
    InsertFails \* whether CreateTrafficMetric may fail while the database is open

VARIABLES
    conn,       \* per connection: its counter, open, and what each flush has swapped out
    plane,      \* Gatekeeper.trafficStats
    reporting,  \* what Gatekeeper.flushAndReport took out
    stats,      \* TrafficCollector.stats
    flushing,   \* what each running flush of the collector took out
    rows,       \* the rows written
    lost,       \* units whose insert failed
    relayed,    \* all units relayed
    loop,       \* the collector's flushLoop
    phase       \* how far liaison.Close has come

vars == <<conn, plane, reporting, stats, flushing, rows, lost, relayed, loop, phase>>

Flushers == {"io", "tick", "close"}
Collectors == {"loop"} \cup Conns
Units == 0..MaxUnits
Conn == [count: Units, open: BOOLEAN, moving: {0, 1}, late: Units, taken: [Flushers -> Units], persist: BOOLEAN]

Init ==
    /\ conn = [c \in Conns |-> [count |-> 0, open |-> TRUE, moving |-> 0, late |-> 0,
                                taken |-> [f \in Flushers |-> 0], persist |-> FALSE]]
    /\ plane = 0 /\ reporting = 0 /\ stats = 0
    /\ flushing = [f \in Collectors |-> 0]
    /\ rows = 0 /\ lost = 0 /\ relayed = 0
    /\ loop = "running" /\ phase = "running"

above == <<plane, reporting>>
collector == <<stats, flushing, rows, lost, loop>>

(* ---- trafficconn ---- *)

\* Read and Write move bytes on the inner connection ...
Read(c) ==
    /\ phase # "exited" /\ conn[c].open /\ conn[c].moving = 0 /\ relayed < MaxUnits
    /\ conn' = [conn EXCEPT ![c].moving = 1]
    /\ relayed' = relayed + 1
    /\ UNCHANGED <<above, collector, phase>>

\* ... and then add them to the counter, which may be after Close has flushed.
Add(c) ==
    /\ phase # "exited" /\ conn[c].moving = 1
    /\ conn' = [conn EXCEPT ![c] = [@ EXCEPT !.moving = 0, !.count = @ + 1,
                                             !.late = IF conn[c].open THEN @ ELSE @ + 1]]
    /\ UNCHANGED <<above, collector, relayed, phase>>

\* flush swaps the counter out.  It is called when a Read or Write fails, by
\* the ticker and by Close.
flush(c, f) ==
    /\ phase # "exited"
    /\ conn[c].count > 0 /\ conn[c].taken[f] = 0
    /\ conn' = [conn EXCEPT ![c].count = 0, ![c].taken[f] = conn[c].count]

flushLoop(c) ==
    /\ \/ flush(c, "tick")
       \/ flush(c, "io")
    /\ UNCHANGED <<above, collector, relayed, phase>>

\* Only a recorder that can persist is asked to: the collector is, the plane's
\* adapter is not.
Close(c) ==
    /\ phase # "exited" /\ conn[c].open
    /\ conn[c].taken["close"] = 0
    /\ conn' = [conn EXCEPT ![c] = [@ EXCEPT !.open = FALSE, !.count = 0, !.persist = c \notin Planed,
                                             !.taken = [@ EXCEPT !["close"] = conn[c].count]]]
    /\ UNCHANGED <<above, collector, relayed, phase>>

\* ---- Gatekeeper.recordTraffic and TrafficCollector.RecordTraffic ----
recordTraffic(c, f) ==
    /\ phase # "exited"
    /\ conn[c].taken[f] > 0 /\ c \in Planed
    /\ plane' = plane + conn[c].taken[f]
    /\ conn' = [conn EXCEPT ![c].taken[f] = 0]
    /\ UNCHANGED <<reporting, collector, relayed, phase>>

RecordTraffic(c, f) ==
    /\ phase # "exited"
    /\ conn[c].taken[f] > 0 /\ c \notin Planed
    /\ stats' = stats + conn[c].taken[f]
    /\ conn' = [conn EXCEPT ![c].taken[f] = 0]
    /\ UNCHANGED <<above, flushing, rows, lost, relayed, loop, phase>>

(* ---- the plane's report ---- *)

\* Gatekeeper.reportLoop ticks; its stop channel is closed by nothing that
\* liaison.Close calls.
flushAndReport ==
    /\ phase # "exited" /\ plane > 0 /\ reporting = 0
    /\ reporting' = plane
    /\ plane' = 0
    /\ UNCHANGED <<conn, collector, relayed, phase>>

Report ==
    /\ phase # "exited" /\ reporting > 0
    /\ stats' = stats + reporting
    /\ reporting' = 0
    /\ UNCHANGED <<conn, plane, flushing, rows, lost, relayed, loop, phase>>

(* ---- the collector ---- *)

\* Mutant of Take: the table is cleared after it was written.
clearsAfterInsert(f) ==
    /\ phase # "exited" /\ stats > 0 /\ flushing[f] = 0
    /\ flushing' = [flushing EXCEPT ![f] = stats]
    /\ UNCHANGED stats

\* TrafficCollector.flush: copied and cleared under the lock.
Take(f) ==
    /\ phase # "exited" /\ stats > 0 /\ flushing[f] = 0
    /\ flushing' = [flushing EXCEPT ![f] = stats]
    /\ stats' = 0

\* The ticker's flush, and the last one once Stop closed the channel.
TickFlush ==
    /\ loop \in {"running", "last"}
    /\ Take("loop")
    /\ UNCHANGED <<conn, above, rows, lost, relayed, loop, phase>>

\* Flush, called when a metered connection has closed.
Flush(c) ==
    /\ conn[c].persist /\ conn[c].taken["close"] = 0
    /\ IF stats = 0 THEN phase # "exited" /\ UNCHANGED <<stats, flushing>> ELSE Take(c)
    /\ conn' = [conn EXCEPT ![c].persist = FALSE]
    /\ UNCHANGED <<above, rows, lost, relayed, loop, phase>>

\* The rows are inserted outside the lock; a failed insert is only logged.
CreateTrafficMetric(f) ==
    /\ phase # "exited" /\ flushing[f] > 0
    /\ \/ /\ phase # "dbClosed"
          /\ rows' = rows + flushing[f] /\ lost' = lost
       \/ /\ InsertFails \/ phase = "dbClosed"
          /\ rows' = rows /\ lost' = lost + flushing[f]
    /\ flushing' = [flushing EXCEPT ![f] = 0]
    /\ UNCHANGED <<conn, above, stats, relayed, loop, phase>>

LoopReturns ==
    /\ phase # "exited"
    /\ loop = "last" /\ flushing["loop"] = 0 /\ stats = 0
    /\ loop' = "returned"
    /\ UNCHANGED <<conn, above, stats, flushing, rows, lost, relayed, phase>>

(* ---- liaison.Close ---- *)

\* Stop closes the channel and waits for nothing.
Stop ==
    /\ phase = "running"
    /\ phase' = "stopped" /\ loop' = "last"
    /\ UNCHANGED <<conn, above, stats, flushing, rows, lost, relayed>>

CloseRepo ==
    /\ phase = "stopped"
    /\ phase' = "dbClosed"
    /\ UNCHANGED <<conn, above, collector, relayed>>

Exit ==
    /\ phase = "dbClosed"
    /\ phase' = "exited"
    /\ UNCHANGED <<conn, above, collector, relayed>>

Next ==
    \/ \E c \in Conns : Read(c) \/ Add(c) \/ flushLoop(c) \/ Close(c) \/ Flush(c)
    \/ \E c \in Conns, f \in Flushers : recordTraffic(c, f) \/ RecordTraffic(c, f)
    \/ flushAndReport \/ Report \/ TickFlush \/ LoopReturns
    \/ \E f \in Collectors : CreateTrafficMetric(f)
    \/ Stop \/ CloseRepo \/ Exit

Spec == Init /\ [][Next]_vars

\* The ticker of an open connection.
Tick(c) == flushLoop(c) /\ conn[c].open

(* ---- properties ---- *)

\* Every variable keeps its type.
TypeOK ==
    /\ conn \in [Conns -> Conn]
    /\ plane \in Units /\ reporting \in Units /\ stats \in Units
    /\ flushing \in [Collectors -> Units]
    /\ rows \in Units /\ lost \in Units /\ relayed \in Units
    /\ loop \in {"running", "last", "returned"}
    /\ phase \in {"running", "stopped", "dbClosed", "exited"}

Held ==
    MapThenSumSet(LAMBDA c : conn[c].count + conn[c].moving + MapThenSumSet(LAMBDA f : conn[c].taken[f], Flushers), Conns)
      + plane + reporting + stats + MapThenSumSet(LAMBDA f : flushing[f], Collectors)

\* Every unit that was relayed is in exactly one place: a counter, a table, a
\* flush under way, a row, or a failed insert.  The four hand-overs (counter,
\* plane, collector, database) copy and clear without dropping or doubling,
\* whatever flushes overlap.
TrafficConserved == relayed = Held + rows + lost

\* Once every metered session has closed, all they relayed is written (or its
\* insert failed) and nothing stays behind in a counter or a table, unless the
\* process is shut down meanwhile.  What a Read that was under way adds after
\* Close has flushed may stay in the counter for good.
AllClosed == \A c \in Conns : ~conn[c].open
AllStored == Held <= MapThenSumSet(LAMBDA c : conn[c].late, Conns) \/ phase # "running"

================================================================================
