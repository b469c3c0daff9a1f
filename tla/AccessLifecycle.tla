-------------------------- MODULE AccessLifecycle --------------------------
(* Accesses (proxies), their applications, connectors (edges) and devices: *)
(* the rows in the database, the listeners of the entry layer, and the     *)
(* source filters in memory, under the control plane's request handlers,   *)
(* crashes of the manager and its start-up (controlplane/proxy.go,         *)
(* lifecycle.go, edge.go, application.go, device.go, firewall.go,          *)
(* access_protocol.go; entry/entry.go and its three listeners).            *)
(*                                                                         *)
(* No handler holds a lock: it reads what it needs, then changes rows,     *)
(* listeners and filters one call at a time.  A handler is modelled as the *)
(* plan of the calls it still has to make and the calls it makes instead   *)
(* when one of them fails (undo).  The reads before the first change are   *)
(* one step.  Every write of the database, and every listen, may fail when *)
(* Faults says so; reads do not, closing a listener does not.              *)
EXTENDS Integers, Sequences, FiniteSets, SequencesExt

CONSTANTS
    Accesses,       \* row identifiers of accesses (never reused)
    Apps,           \* applications
    Edges,          \* connectors
    Devices,        \* devices
    AppType,        \* the type of an application
    EdgeOf,         \* the connector of an application
    DeviceOf,       \* the device of an application
    InitRows,       \* access tables the manager may find at its first start
    InitRels,       \* which connector runs on, or found, which device
    MaxPort,        \* ports are 1..MaxPort, 0 is "no port"
    Rules,          \* source filters
    NoRule, NoRow,
    Requests,       \* concurrent requests
    Ops,            \* the requests that are made
    Faults,         \* which calls may fail: "write", "listen", "lookup"
    MaxCrashes

VARIABLES
    rows,       \* the access table
    used,       \* identifiers given out
    apps,       \* applications that exist
    edges,      \* status of each connector
    devices,    \* devices that exist
    rels,       \* relations of connectors and devices: host, or found by a scan
    rules,      \* the filter table
    fw,         \* firewall.Manager's map, in memory
    lsn,        \* the listeners: of each runtime, the port of each access
    req,        \* what each request has left to do
    up,         \* "down", "starting", "up", "failed"
    crashes

db == <<rows, used, apps, edges, devices, rels, rules>>
vars == <<db, fw, lsn, req, up, crashes>>

Boot == "boot"
Procs == Requests \cup {Boot}
Ports == 1 .. MaxPort
Runtimes == {"tcp", "http", "ssh"}
Protocols == {"tcp", "http", "ssh", "webssh", "web", "mysql"}

Row == [status: {"running", "stopped"}, port: 0 .. MaxPort,
        proto: Protocols \cup {""}, app: Apps]

-----------------------------------------------------------------------------
(* Access protocols *)

\* Browser access (SSH, desktops, databases) exists for these types.
isWebOnlyCapable(type) == type \in {"ssh", "mysql"}

requiresPublicPort(proto) == proto \notin {"webssh", "web"}

webProtocol(type) == IF type = "ssh" THEN "webssh" ELSE "web"

validProtocol(proto, type) ==
    CASE proto = "tcp" -> TRUE
      [] proto = "http" -> type = "http"
      [] proto \in {"ssh", "webssh"} -> type = "ssh"
      [] proto = "mysql" -> type = "mysql"
      [] proto = "web" -> isWebOnlyCapable(type)

\* The protocol a request selects; none when the request is refused.  The
\* native database protocol is only found in old rows.
normalize(raw, type, port, expose) ==
    LET proto == IF raw # "" THEN raw
                 ELSE IF type = "http" THEN "http"
                 ELSE IF isWebOnlyCapable(type) /\ port = 0 /\ ~expose
                      THEN webProtocol(type)
                 ELSE "tcp"
    IN  {q \in {proto} : validProtocol(q, type) /\ q # "mysql"}

\* What a row means: rows older than the column derive it.
effective(row) ==
    LET type == AppType[row.app]
    IN  CASE row.proto # "" -> row.proto
          [] row.proto = "" /\ type = "http" -> "http"
          [] row.proto = "" /\ type # "http" /\ row.port = 0
             /\ isWebOnlyCapable(type) -> webProtocol(type)
          [] OTHER -> "tcp"

\* unifiedProxyManager: which listener serves the access; the native
\* database protocols have none.
runtimeFor(row) ==
    CASE effective(row) = "mysql" -> "none"
      [] effective(row) \in {"ssh", "http"} -> effective(row)
      [] OTHER -> "tcp"

\* proxyRuntimeEligible.
eligible(row) ==
    IF row.status # "running" \/ ~requiresPublicPort(effective(row))
    THEN "no"
    ELSE CASE edges[EdgeOf[row.app]] = "gone" -> "error"
           [] edges[EdgeOf[row.app]] = "stopped" -> "no"
           [] edges[EdgeOf[row.app]] = "running" -> "yes"

Live == {p \in Accesses : rows[p] # NoRow}

\* findProxyPortConflict, negated.
portAvailable(port, p) == \A q \in Live \ {p} : rows[q].port # port

Listening(p) == {r \in Runtimes : lsn[r][p] # 0}

\* The operating system's view: a port has one listener.
osFree(port) == \A r \in Runtimes, q \in Accesses : lsn[r][q] # port

\* allocateAvailableProxyPort: bindable at this moment and in no other row.
allocatable(p) == {port \in Ports : osFree(port) /\ portAvailable(port, p)}

-----------------------------------------------------------------------------
(* Requests as plans *)

\* One call: what it is, the access, application, connector or device it is
\* about, the row it carries, and whether its error is ignored.
call(i, x, row, soft) == [i |-> i, x |-> x, row |-> row, soft |-> soft]
do(i, x) == call(i, x, NoRow, FALSE)
doRow(i, p, row) == call(i, p, row, FALSE)
soft(c) == [c EXCEPT !.soft = TRUE]

Nothing == [plan |-> << >>, undo |-> << >>, seen |-> {}]
Idle(h) == req[h].plan = << >>
Next1(h, i) == ~Idle(h) /\ Head(req[h].plan).i = i
cur(h) == Head(req[h].plan)

Begin(h, plan, undo) ==
    req' = [req EXCEPT ![h] = [plan |-> plan, undo |-> undo, seen |-> {}]]

\* A request with nothing left to do.
Go(h, plan, undo) ==
    req' = [req EXCEPT ![h] = IF plan = << >> THEN Nothing
                              ELSE [@ EXCEPT !.plan = plan, !.undo = undo]]

\* The call succeeded: the calls more come next, and if a later one fails
\* und is done before what had to be undone already.
Done(h, more, und) == Go(h, more \o Tail(req[h].plan), und \o req[h].undo)

\* The call failed: the rest is dropped, unless the error is ignored.
Failed(h) == IF cur(h).soft THEN Done(h, << >>, << >>)
             ELSE Go(h, req[h].undo, << >>)

\* A cascade visits a resource once (lifecycleDeleteTracker).
Visit(h, x, more) ==
    IF x \in req[h].seen THEN Done(h, << >>, << >>)
    ELSE req' = [req EXCEPT ![h].plan = more \o Tail(@), ![h].seen = @ \cup {x}]

\* The identifiers of a set of accesses, in the order the table gives them.
inOrder(S) == SetToSortSeq(S, LAMBDA p, q : p < q)

Calls(S, C(_)) == LET s == inOrder(S) IN [n \in 1 .. Len(s) |-> C(s[n])]

Open(h, op) == up = "up" /\ h # Boot /\ Idle(h) /\ op \in Ops

-----------------------------------------------------------------------------
(* Requests: what a handler reads, and the calls it will make *)

CreateProxy(h) ==
    /\ Open(h, "create")
    /\ \E p \in Accesses \ used, a \in apps, raw \in Protocols \cup {""},
          port \in 0 .. MaxPort, expose \in BOOLEAN :
        /\ edges[EdgeOf[a]] # "gone"
        /\ p = CHOOSE q \in Accesses \ used : \A o \in Accesses \ used : q <= o
        /\ \E proto \in normalize(raw, AppType[a], port, expose) :
           \E own \in IF ~requiresPublicPort(proto) THEN {0}
                      ELSE IF port > 0 THEN {port} ELSE allocatable(0) :
            /\ own > 0 => portAvailable(own, 0)
            /\ LET row == [status |-> "running", port |-> own,
                           proto |-> proto, app |-> a]
               IN  Begin(h, <<doRow("insert", p, row)>>
                              \o IF edges[EdgeOf[a]] = "running"
                                 THEN <<doRow("start", p, row)>> ELSE << >>,
                         << >>)
            /\ used' = used \cup {p}
    /\ UNCHANGED <<rows, apps, edges, devices, rels, rules, fw, lsn, up, crashes>>

\* The port an update leads to, given the protocol it leads to.
updatedPorts(p, proto, in) ==
    LET old == rows[p].port
        own == effective([rows[p] EXCEPT !.proto = proto])
        wanted == IF in.port = old \/ portAvailable(in.port, p)
                  THEN {in.port} ELSE {}
    IN  IF in.expose = "no" THEN IF requiresPublicPort(own) THEN {} ELSE {0}
        ELSE IF in.expose = "unset" /\ in.raw # "" /\ ~requiresPublicPort(own)
             THEN {0}
        ELSE IF in.port > 0 THEN wanted
        ELSE IF old = 0 /\ (in.expose = "yes" \/ in.raw # "")
             THEN allocatable(p)
        ELSE {old}

updatedRows(p, in) ==
    LET type == AppType[rows[p].app]
        protos == IF in.raw # ""
                  THEN normalize(in.raw, type, in.port, in.expose = "yes")
                  ELSE IF in.expose # "unset" /\ isWebOnlyCapable(type)
                  THEN {IF in.expose = "yes" THEN "tcp" ELSE webProtocol(type)}
                  ELSE {rows[p].proto}
        status == IF in.status = "" THEN rows[p].status ELSE in.status
    IN  UNION {{[status |-> status, port |-> port, proto |-> proto,
                 app |-> rows[p].app] : port \in updatedPorts(p, proto, in)}
               : proto \in protos}

UpdateInputs ==
    [raw: Protocols \cup {""}, port: 0 .. MaxPort,
     expose: {"unset", "yes", "no"}, status: {"", "running", "stopped"}]

\* The listener is moved before the row is written; a failure moves it back.
updatePlan(p, old, new) ==
    LET changed == new # old
    IN  (IF changed /\ old.status = "running"
         THEN <<doRow("stop", p, old)>> ELSE << >>)
        \o (IF changed /\ eligible(new) = "yes"
            THEN <<doRow("start", p, new)>> ELSE << >>)
        \o <<doRow("write", p, new)>>

updateUndo(p, old, new) ==
    IF new # old /\ eligible(old) = "yes"
    THEN <<soft(doRow("start", p, old))>> ELSE << >>

UpdateProxy(h) ==
    /\ Open(h, "update")
    /\ \E p \in Live :
        /\ rows[p].app \in apps
        /\ \E new \in UNION {updatedRows(p, in) : in \in UpdateInputs} :
            /\ eligible(new) # "error"
            /\ Begin(h, updatePlan(p, rows[p], new), updateUndo(p, rows[p], new))
    /\ UNCHANGED <<db, fw, lsn, up, crashes>>

BeginCascade(h, op, i, x) ==
    /\ Open(h, op)
    /\ Begin(h, <<do(i, x)>>, << >>)
    /\ UNCHANGED <<db, fw, lsn, up, crashes>>

DeleteProxy(h) == \E p \in Live : BeginCascade(h, "deleteProxy", "delProxy", p)

DeleteApplication(h) == \E a \in apps : BeginCascade(h, "deleteApp", "delApp", a)

DeleteEdge(h) ==
    \E e \in Edges : edges[e] # "gone"
                     /\ BeginCascade(h, "deleteEdge", "delEdge", e)

DeleteDevice(h) ==
    \E d \in devices : BeginCascade(h, "deleteDevice", "delDevice", d)

OfEdge(e) == {p \in Live : rows[p].app \in apps /\ EdgeOf[rows[p].app] = e}

\* Disabling a connector closes its listeners first, enabling it opens them
\* after the row says so.
UpdateEdge(h) ==
    /\ Open(h, "edge")
    /\ \E e \in Edges :
        \/ /\ edges[e] = "running"
           /\ Begin(h, Calls({p \in OfEdge(e) : rows[p].status = "running"},
                             LAMBDA p : doRow("stop", p, rows[p]))
                         \o <<do("disable", e)>>, << >>)
        \/ /\ edges[e] = "stopped"
           /\ Begin(h, <<do("enable", e), do("startEdge", e)>>, << >>)
    /\ UNCHANGED <<db, fw, lsn, up, crashes>>

UpsertProxyFirewall(h) ==
    /\ Open(h, "firewall")
    /\ \E p \in Live, rule \in Rules :
        Begin(h, <<do("setRule", <<p, rule>>)>>
                 \o IF rows[p].port > 0 THEN <<do("allow", <<p, rule>>)>>
                    ELSE << >>, << >>)
    /\ UNCHANGED <<db, fw, lsn, up, crashes>>

DeleteProxyFirewall(h) ==
    /\ Open(h, "firewall")
    /\ \E p \in Live :
        Begin(h, <<do("delRule", p)>>
                 \o IF rows[p].port > 0 THEN <<do("revoke", p)>> ELSE << >>,
              << >>)
    /\ UNCHANGED <<db, fw, lsn, up, crashes>>

-----------------------------------------------------------------------------
(* The calls *)

\* A database write that fails changes nothing.
Write(h, i, effect, more, und) ==
    /\ Next1(h, i)
    /\ \/ effect /\ Done(h, more, und)
       \/ "write" \in Faults /\ Failed(h) /\ UNCHANGED db
    /\ UNCHANGED <<fw, lsn, up, crashes>>

SetRows(f) == rows' = f /\ UNCHANGED <<used, apps, edges, devices, rels, rules>>

\* A new row, removed again when the listener cannot be started.
InsertRow(h) ==
    Write(h, "insert", SetRows([rows EXCEPT ![cur(h).x] = cur(h).row]),
          << >>, <<soft(do("delRow", cur(h).x))>>)

\* An update of a row that was deleted meanwhile matches nothing.
WriteRow(h) ==
    Write(h, "write",
          SetRows([rows EXCEPT ![cur(h).x] =
                     IF @ = NoRow THEN @ ELSE cur(h).row]), << >>, << >>)

DeleteRow(h) ==
    Write(h, "delRow", SetRows([rows EXCEPT ![cur(h).x] = NoRow]), << >>, << >>)

SetRule(h) ==
    Write(h, "setRule",
          /\ rules' = [rules EXCEPT ![cur(h).x[1]] = cur(h).x[2]]
          /\ UNCHANGED <<rows, used, apps, edges, devices, rels>>, << >>, << >>)

DeleteRule(h) ==
    Write(h, "delRule",
          /\ rules' = [rules EXCEPT ![cur(h).x] = NoRule]
          /\ UNCHANGED <<rows, used, apps, edges, devices, rels>>, << >>, << >>)

SetEdge(h, i, status, und) ==
    Write(h, i,
          /\ edges' = [edges EXCEPT ![cur(h).x] = IF @ = "gone" THEN @ ELSE status]
          /\ UNCHANGED <<rows, used, apps, devices, rels, rules>>, << >>, und)

EdgeWrite(h) ==
    \/ SetEdge(h, "disable", "stopped", << >>)
    \/ SetEdge(h, "enable", "running", <<soft(do("disable", cur(h).x))>>)
    \/ SetEdge(h, "rmEdge", "gone", << >>)

RemoveApp(h) ==
    Write(h, "rmApp",
          /\ apps' = apps \ {cur(h).x}
          /\ UNCHANGED <<rows, used, edges, devices, rels, rules>>, << >>, << >>)

RemoveDevice(h) ==
    Write(h, "rmDevice",
          /\ devices' = devices \ {cur(h).x}
          /\ rels' = {t \in rels : t[2] # cur(h).x}
          /\ UNCHANGED <<rows, used, apps, edges, rules>>, << >>, << >>)

RemoveRels(h) ==
    Write(h, "rmRels",
          /\ rels' = {t \in rels : t[1] # cur(h).x}
          /\ UNCHANGED <<rows, used, apps, edges, devices, rules>>, << >>, << >>)

\* firewall.Manager's map.
Filter(h, i, p, rule) ==
    /\ Next1(h, i)
    /\ fw' = [fw EXCEPT ![p] = rule]
    /\ Done(h, << >>, << >>)
    /\ UNCHANGED <<db, lsn, up, crashes>>

Allow(h) == Filter(h, "allow", cur(h).x[1], cur(h).x[2])

Revoke(h) == Filter(h, "revoke", cur(h).x, NoRule)

\* stopProxyRuntime: all three servers are asked, then the filter goes.
StopRuntime(h) ==
    /\ Next1(h, "stop")
    /\ lsn' = [r \in Runtimes |-> [lsn[r] EXCEPT ![cur(h).x] = 0]]
    /\ fw' = IF cur(h).row.port > 0 THEN [fw EXCEPT ![cur(h).x] = NoRule] ELSE fw
    /\ Done(h, << >>, << >>)
    /\ UNCHANGED <<db, up, crashes>>

\* What follows a listener that was opened: its filter, and for a port the
\* system chose, the row (startAndPersistProxyRuntime).
afterListen(c, port) ==
    LET row == [c.row EXCEPT !.port = port]
    IN  (IF port > 0 THEN <<do("apply", c.x)>> ELSE << >>)
        \o IF c.i = "startSave" /\ c.row.port = 0 /\ port > 0
           THEN <<doRow("write", c.x, row)>> ELSE << >>

\* The update's own write follows with the port the listener was given.
withPort(plan, p, port) ==
    [n \in 1 .. Len(plan) |->
        IF plan[n].i = "write" /\ plan[n].x = p
        THEN [plan[n] EXCEPT !.row.port = port] ELSE plan[n]]

Opened(h, port) ==
    LET c == cur(h)
        row == [c.row EXCEPT !.port = port]
    IN  Go(h, afterListen(c, port) \o withPort(Tail(req[h].plan), c.x, port),
           <<soft(doRow("stop", c.x, row))>> \o req[h].undo)

\* The TCP and the HTTP server keep the listener they have for an access;
\* the SSH gateway opens the new one and closes the old one.
ListenTo(h, r, port) ==
    LET c == cur(h)
    IN  /\ osFree(port)
        /\ IF c.row.port = 0 /\ ~portAvailable(port, c.x)
           THEN /\ Failed(h)
                /\ fw' = [fw EXCEPT ![c.x] = NoRule]
                /\ lsn' = [q \in Runtimes |-> [lsn[q] EXCEPT ![c.x] = 0]]
           ELSE /\ Opened(h, port)
                /\ lsn' = [lsn EXCEPT ![r][c.x] = port]
                /\ UNCHANGED fw

\* startProxyRuntime.
StartRuntime(h) ==
    /\ Next1(h, "start") \/ Next1(h, "startSave")
    /\ LET c == cur(h)
           r == runtimeFor(c.row)
       IN  \/ /\ eligible(c.row) = "no"
              /\ Done(h, << >>, << >>) /\ UNCHANGED <<fw, lsn>>
           \/ /\ eligible(c.row) = "error"
              /\ Failed(h) /\ UNCHANGED <<fw, lsn>>
           \/ /\ eligible(c.row) = "yes" /\ r = "none"
              /\ fw' = [fw EXCEPT ![c.x] = rules[c.x]]
              /\ Failed(h) /\ UNCHANGED lsn
           \/ /\ eligible(c.row) = "yes" /\ r \in {"tcp", "http"}
              /\ lsn[r][c.x] # 0
              /\ Opened(h, c.row.port) /\ UNCHANGED <<fw, lsn>>
           \/ /\ eligible(c.row) = "yes" /\ r # "none"
              /\ r = "ssh" \/ lsn[r][c.x] = 0
              /\ \/ \E port \in IF c.row.port = 0 THEN Ports ELSE {c.row.port} :
                       ListenTo(h, r, port)
                 \/ /\ \/ "listen" \in Faults
                       \/ c.row.port # 0 /\ ~osFree(c.row.port)
                       \/ c.row.port = 0 /\ \A port \in Ports : ~osFree(port)
                    /\ Failed(h) /\ UNCHANGED <<fw, lsn>>
    /\ UNCHANGED <<db, up, crashes>>

\* reapplyFirewall; a failed lookup is logged.
ReapplyFirewall(h) ==
    /\ Next1(h, "apply")
    /\ \/ fw' = [fw EXCEPT ![cur(h).x] = rules[cur(h).x]]
       \/ "lookup" \in Faults /\ UNCHANGED fw
    /\ Done(h, << >>, << >>)
    /\ UNCHANGED <<db, lsn, up, crashes>>

\* startEdgeProxies.
StartEdge(h) ==
    /\ Next1(h, "startEdge")
    /\ Done(h, Calls({p \in OfEdge(cur(h).x) : rows[p].status = "running"},
                     LAMBDA p : doRow("startSave", p, rows[p])), << >>)
    /\ UNCHANGED <<db, fw, lsn, up, crashes>>

-----------------------------------------------------------------------------
(* Cascades *)

deleteProxyCalls(p) ==
    <<doRow("stop", p, rows[p]), do("delRule", p), do("delRow", p)>>

each(S, i) == LET s == SetToSeq(S) IN [n \in 1 .. Len(s) |-> do(i, s[n])]

\* Mutant of deleteEdgeCalls: the connector goes before what hangs on it.
DeleteEdgeFirst(e) ==
    <<do("rmEdge", e)>> \o each({a \in apps : EdgeOf[a] = e}, "delApp")
      \o <<do("listDevices", e), do("rmRels", e)>>

deleteEdgeCalls(e) ==
    each({a \in apps : EdgeOf[a] = e}, "delApp")
      \o <<do("rmEdge", e), do("listDevices", e), do("rmRels", e)>>

\* A device is the edge's own when no connector outside this deletion
\* is related to it.
owned(h, e, d) ==
    /\ d \notin req[h].seen
    /\ \A t \in rels : t[2] = d => t[1] \in req[h].seen \cup {e}

Kept == UNCHANGED <<db, fw, lsn, up, crashes>>

deleteProxyCascade(h) ==
    /\ Next1(h, "delProxy")
    /\ IF cur(h).x \notin req[h].seen /\ rows[cur(h).x] = NoRow
       THEN Failed(h)
       ELSE Visit(h, cur(h).x,
                  IF cur(h).x \in req[h].seen THEN << >>
                  ELSE deleteProxyCalls(cur(h).x))
    /\ Kept

deleteApplicationCascade(h) ==
    /\ Next1(h, "delApp")
    /\ Visit(h, cur(h).x,
             Calls({p \in Live : rows[p].app = cur(h).x},
                   LAMBDA p : do("delProxy", p)) \o <<do("rmApp", cur(h).x)>>)
    /\ Kept

deleteEdgeCascade(h) ==
    /\ Next1(h, "delEdge")
    /\ Visit(h, cur(h).x, deleteEdgeCalls(cur(h).x))
    /\ Kept

\* The connector's devices are listed once and visited in any order.
deleteEdgeOwnedDevicesCascade(h) ==
    /\ \/ /\ Next1(h, "listDevices")
          /\ LET e == cur(h).x
                 S == {t[2] : t \in {u \in rels : u[1] = e}}
             IN  Done(h, <<do("devices", <<e, S>>)>>, << >>)
       \/ /\ Next1(h, "devices")
          /\ LET e == cur(h).x[1]
                 S == cur(h).x[2]
             IN  IF S = {} THEN Done(h, << >>, << >>)
                 ELSE \E d \in S :
                        Done(h, (IF owned(h, e, d) THEN <<do("delDevice", d)>>
                                 ELSE << >>)
                                \o <<do("devices", <<e, S \ {d}>>)>>, << >>)
    /\ Kept

deleteDeviceCascade(h) ==
    /\ \/ /\ Next1(h, "delDevice")
          /\ Visit(h, cur(h).x,
                   each({e \in Edges : <<e, cur(h).x, "host">> \in rels},
                        "delEdge")
                     \o <<do("delDeviceApps", cur(h).x),
                          do("rmDevice", cur(h).x)>>)
       \/ /\ Next1(h, "delDeviceApps")
          /\ Done(h, each({a \in apps : DeviceOf[a] = cur(h).x}, "delApp"),
                  << >>)
    /\ Kept

Cascade(h) ==
    \/ deleteProxyCascade(h) \/ deleteApplicationCascade(h)
    \/ deleteEdgeCascade(h) \/ deleteEdgeOwnedDevicesCascade(h)
    \/ deleteDeviceCascade(h)

-----------------------------------------------------------------------------
(* Crash and start-up *)

Closed == [r \in Runtimes |-> [p \in Accesses |-> 0]]
NoFilter == [p \in Accesses |-> NoRule]

\* The process ends: what was in memory is gone, the database stays.
Gone(how) ==
    /\ req' = [h \in Procs |-> Nothing]
    /\ lsn' = Closed /\ fw' = NoFilter /\ up' = how
    /\ UNCHANGED db

Crash ==
    /\ up \in {"up", "starting"} /\ crashes < MaxCrashes
    /\ crashes' = crashes + 1
    /\ Gone("down")

\* NewLiaison, NewEntry: repair, listeners, filters, then requests are served.
StartUp ==
    /\ up = "down"
    /\ up' = "starting"
    /\ Begin(Boot, <<do("reconcile", 0), do("restore", 0), do("rules", 0)>>,
             <<do("exit", 0)>>)
    /\ UNCHANGED <<db, fw, lsn, crashes>>

\* A row whose application or connector is gone is deleted.
invalid(p) == rows[p].app \notin apps \/ eligible(rows[p]) = "error"

\* Mutant of Reconcile: the rows whose application is gone are kept.
ReconcileKeepsOrphans ==
    /\ Next1(Boot, "reconcile")
    /\ Done(Boot, << >>, << >>)
    /\ UNCHANGED <<db, fw, lsn, up, crashes>>

\* ReconcileLifecycleState.
Reconcile ==
    /\ Next1(Boot, "reconcile")
    /\ Done(Boot,
            FoldLeft(LAMBDA calls, p : calls \o
                       IF invalid(p)
                       THEN <<doRow("stop", p, rows[p]), soft(do("delRule", p)),
                              soft(do("delRow", p))>>
                       ELSE IF eligible(rows[p]) = "no"
                       THEN <<doRow("stop", p, rows[p])>> ELSE << >>,
                     << >>, inOrder(Live)), << >>)
    /\ UNCHANGED <<db, fw, lsn, up, crashes>>

\* RestoreProxyListeners: an error is returned by NewLiaison, and the process
\* exits.
Restore ==
    /\ Next1(Boot, "restore")
    /\ Done(Boot, Calls({p \in Live : ~invalid(p) /\ eligible(rows[p]) = "yes"},
                        LAMBDA p : doRow("startSave", p, rows[p])), << >>)
    /\ UNCHANGED <<db, fw, lsn, up, crashes>>

Exit ==
    /\ Next1(Boot, "exit")
    /\ Gone("failed")
    /\ UNCHANGED crashes

\* RestoreFirewallRules, after which the web server serves.
RestoreRules ==
    /\ Next1(Boot, "rules")
    /\ fw' = [p \in Accesses |->
                IF rules[p] = NoRule \/ rows[p] = NoRow THEN fw[p]
                ELSE IF rows[p].app \notin apps THEN fw[p]
                ELSE IF eligible(rows[p]) = "yes" THEN rules[p] ELSE NoRule]
    /\ req' = [req EXCEPT ![Boot] = Nothing]
    /\ up' = "up"
    /\ UNCHANGED <<db, lsn, crashes>>

\* The service manager starts the process again.
Retry ==
    /\ up = "failed" /\ crashes < MaxCrashes
    /\ crashes' = crashes + 1 /\ up' = "down"
    /\ UNCHANGED <<db, fw, lsn, req>>

Init ==
    /\ rows \in InitRows
    /\ used = {p \in Accesses : rows[p] # NoRow}
    /\ apps = Apps /\ edges = [e \in Edges |-> "running"] /\ devices = Devices
    /\ rels = InitRels
    /\ rules \in [Accesses -> Rules \cup {NoRule}]
    /\ \A p \in Accesses : rows[p] = NoRow => rules[p] = NoRule
    /\ fw = NoFilter /\ lsn = Closed
    /\ req = [h \in Procs |-> Nothing]
    /\ up = "down" /\ crashes = 0

Request(h) ==
    \/ CreateProxy(h) \/ UpdateProxy(h) \/ DeleteProxy(h)
    \/ DeleteApplication(h) \/ DeleteEdge(h) \/ DeleteDevice(h)
    \/ UpdateEdge(h) \/ UpsertProxyFirewall(h) \/ DeleteProxyFirewall(h)

Call(h) ==
    \/ InsertRow(h) \/ WriteRow(h) \/ DeleteRow(h) \/ SetRule(h)
    \/ DeleteRule(h) \/ EdgeWrite(h) \/ RemoveApp(h) \/ RemoveDevice(h)
    \/ RemoveRels(h) \/ Allow(h) \/ Revoke(h) \/ StopRuntime(h) \/ StartRuntime(h)
    \/ ReapplyFirewall(h) \/ StartEdge(h) \/ Cascade(h)

Next ==
    \/ \E h \in Procs : Request(h) \/ Call(h)
    \/ Crash \/ StartUp \/ Reconcile \/ Restore \/ Exit \/ RestoreRules \/ Retry

Spec == Init /\ [][Next]_vars

-----------------------------------------------------------------------------
(* Properties *)

TypeOK ==
    /\ rows \in [Accesses -> Row \cup {NoRow}]
    /\ apps \subseteq Apps /\ devices \subseteq Devices
    /\ edges \in [Edges -> {"running", "stopped", "gone"}]
    /\ rules \in [Accesses -> Rules \cup {NoRule}]
    /\ fw \in [Accesses -> Rules \cup {NoRule}]
    /\ lsn \in [Runtimes -> [Accesses -> 0 .. MaxPort]]
    /\ up \in {"down", "starting", "up", "failed"}
    /\ up # "up" => \A h \in Requests : Idle(h)

Quiet == up = "up" /\ \A h \in Procs : Idle(h)

\* The database's part of a row is complete.
Rooted(p) == rows[p].app \in apps /\ edges[EdgeOf[rows[p].app]] # "gone"

\* Both switches are on: the access's own, and its connector's.
Enabled(p) ==
    /\ rows[p].status = "running" /\ rows[p].app \in apps
    /\ edges[EdgeOf[rows[p].app]] = "running"

\* When no request is being handled, every open listener is that of a row
\* that says so: running, on that port, of that protocol, its connector
\* enabled.  Whatever failed in between (UpdateProxy, UpdateEdge and
\* CreateProxy undo what they did).
ListenersFollowRows ==
    Quiet => \A p \in Accesses, r \in Runtimes : lsn[r][p] # 0 =>
        /\ rows[p] # NoRow /\ Enabled(p)
        /\ runtimeFor(rows[p]) = r /\ rows[p].port = lsn[r][p]

\* When no call fails, an access that should be served is served: the
\* connector's switch, the access's own switch and a restart bring every
\* listener back.
EligibleIsServed ==
    Quiet /\ Faults = {} => \A p \in Live :
        Enabled(p) /\ requiresPublicPort(effective(rows[p])) => Listening(p) # {}

\* When no request is being handled an open listener is filtered by the rule
\* the database has for it (reapplyFirewall keeps the memory "in sync with
\* DB-side state across restarts").
FirewallInSync ==
    Quiet => \A p \in Live : Listening(p) # {} => fw[p] = rules[p]

\* Rows are removed children first, so that no error in the middle of a
\* cascade leaves an access without its application, or an application
\* without its connector or its device (deleteDeviceCascade and below).
NothingOrphaned ==
    /\ \A p \in Live : rows[p].app \in apps
    /\ \A a \in apps : edges[EdgeOf[a]] # "gone" /\ DeviceOf[a] \in devices

\* Two accesses do not reserve the same public port (ensureProxyPortAvailable,
\* PROXY_PORT_CONFLICT), stopped or not.
PortsReserved ==
    \A p, q \in Live : p # q /\ rows[p].port # 0 => rows[p].port # rows[q].port

\* Whatever concurrent requests left behind, a manager that has started has
\* no access without application or connector, no listener that its row does
\* not ask for, and every filter in place (ReconcileLifecycleState,
\* RestoreProxyListeners, RestoreFirewallRules).
StartRepairs ==
    up = "starting" /\ up' = "up" =>
      /\ "write" \in Faults \/ \A p \in Live' : Rooted(p)'
      /\ \A p \in Accesses, r \in Runtimes : lsn[r][p] # 0 =>
          /\ rows[p] # NoRow /\ Enabled(p)
          /\ runtimeFor(rows[p]) = r /\ rows[p].port = lsn[r][p]
          /\ fw'[p] = rules[p]

=============================================================================
