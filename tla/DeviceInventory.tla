----------------------------- MODULE DeviceInventory -----------------------------
(***************************************************************************)
(* The inventory of devices: reporter/device.go of the connector reports   *)
(* the machine it runs on, frontierbound/device.go keeps one row for each  *)
(* fingerprint, its interfaces, its relation to the connector and who may  *)
(* see it, in one transaction.  The store has one connection, so that      *)
(* transactions do not interleave; reports, deletions and readers do.      *)
(***************************************************************************)
EXTENDS Naturals, Sequences, FiniteSets

CONSTANTS
    Edges,         \* connectors
    Machines,      \* fingerprints
    Addresses,     \* of interfaces
    Users,         \* who may have a relation to a connector
    MaxDevices,    \* rows of devices
    MaxChanges,    \* changes of the world: machines, addresses, sharing, deletions
    MaxFaults,     \* reports that are lost
    Readers,       \* devices are listed and applications created
    Return,        \* a connector may run again on a machine that it has left
    None

VARIABLES
    machine,       \* the machine a connector runs on
    left,          \* ghost: the machines it has left
    addrs,         \* the addresses of a machine
    registered,    \* the connector exists and may call
    shared,        \* users with a relation to the connector
    msg,           \* the report under way: [fp, ifs] or None
    dev,           \* devices: [fp, live, fresh, online, ifs, old, subs]; old: deleted interfaces
    host, deleted, \* relations of type host, live and soft-deleted: <<connector, device>>
    cascade,       \* devices whose connectors are deleted and they are not yet
    pending,       \* status updates on their way: <<device, online>>
    shown,         \* [dev, online]: what a reader saw last
    found,         \* [ip, dev]: the last device that CreateApplication looked up
    changes, faults

world == <<machine, left, addrs>>
vars == <<machine, left, addrs, registered, shared, msg, dev, host, deleted, cascade, pending, shown, found, changes, faults>>

Init ==
    /\ machine \in [Edges -> Machines] /\ left = [e \in Edges |-> {}]
    /\ addrs \in [Machines -> {{a} : a \in Addresses}] /\ \A m, n \in Machines : m # n => addrs[m] # addrs[n]
    /\ registered = [e \in Edges |-> TRUE]
    /\ shared = [e \in Edges |-> {}]
    /\ msg = [e \in Edges |-> None]
    /\ dev = <<>> /\ host = {} /\ deleted = {} /\ cascade = {} /\ pending = {}
    /\ shown = None /\ found = None
    /\ changes = 0 /\ faults = 0

Devices == DOMAIN dev
Live == {d \in Devices : dev[d].live}

----------------------------------------------------------------------------
\* The world around the connectors.
Change == changes < MaxChanges /\ changes' = changes + 1

Move(e) ==
    /\ Change
    /\ \E m \in Machines \ {machine[e]} :
         /\ Return \/ m \notin left[e]
         /\ machine' = [machine EXCEPT ![e] = m]
         /\ left' = [left EXCEPT ![e] = @ \cup {machine[e]}]
    /\ UNCHANGED <<addrs, registered, shared, msg, dev, host, deleted, cascade, pending, shown, found, faults>>

\* An address goes from one machine to another.
Renumber ==
    /\ Change
    /\ \E m, n \in Machines : \E a \in addrs[m] :
         /\ m # n
         /\ addrs' = [addrs EXCEPT ![m] = @ \ {a}, ![n] = @ \cup {a}]
    /\ UNCHANGED <<machine, left, registered, shared, msg, dev, host, deleted, cascade, pending, shown, found, faults>>

Share(e) ==
    /\ Change
    /\ \E u \in Users \ shared[e] : shared' = [shared EXCEPT ![e] = @ \cup {u}]
    /\ UNCHANGED <<world, registered, msg, dev, host, deleted, cascade, pending, shown, found, faults>>

\* A minute passes without a heartbeat of the device.
Age(d) ==
    /\ Readers /\ d \in Live /\ dev[d].fresh
    /\ dev' = [dev EXCEPT ![d].fresh = FALSE]
    /\ UNCHANGED <<world, registered, shared, msg, host, deleted, cascade, pending, shown, found, changes, faults>>

----------------------------------------------------------------------------
\* The connector.  getDevice takes the fingerprint and the interfaces ...
getDevice(e) == [fp |-> machine[e], ifs |-> addrs[machine[e]]]

\* ... and the loop reports them, every hour and five seconds after a failure.
loopReportDevice(e) ==
    /\ msg[e] = None
    /\ msg' = [msg EXCEPT ![e] = getDevice(e)]
    /\ UNCHANGED <<world, registered, shared, dev, host, deleted, cascade, pending, shown, found, changes, faults>>

\* The call fails, or its answer is an error: repeatDeviceReport waits.
repeatDeviceReport(e) ==
    /\ msg[e] # None
    /\ \/ faults < MaxFaults /\ faults' = faults + 1
       \/ ~registered[e] /\ UNCHANGED faults
    /\ msg' = [msg EXCEPT ![e] = None]
    /\ UNCHANGED <<world, registered, shared, dev, host, deleted, cascade, pending, shown, found, changes>>

----------------------------------------------------------------------------

\* The manager.
GetDeviceByFingerprint(f) == {d \in Live : dev[d].fp = f}

UpdateDeviceHeartbeat(r) == [r EXCEPT !.fresh = TRUE, !.online = TRUE]

\* Rows of the interfaces: missing ones are created, others soft-deleted.
UpdateInterfaces(r, ifs) == [r EXCEPT !.ifs = ifs, !.old = @ \cup (r.ifs \ ifs)]

\* Mutant of RelateHost: the relation it replaces stays.
copiesOldHost(e, d) ==
    /\ host' = host \cup {<<e, d>>}
    /\ deleted' = deleted \cup {r \in host : r[1] = e /\ r[2] # d}

\* One host for each connector.
RelateHost(e, d) ==
    IF <<e, d>> \in host
    THEN UNCHANGED <<host, deleted>>
    ELSE LET old == {r \in host : r[1] = e}
         IN /\ host' = (host \ old) \cup {<<e, d>>}
            /\ deleted' = deleted \cup old

InheritRelations(e, r) == [r EXCEPT !.subs = @ \cup shared[e]]

\* One transaction.  The unique index of the relations counts soft-deleted rows
\* too: a relation that was deleted cannot be created again, and the transaction
\* rolls back.
reportDevice(e) ==
    /\ msg[e] # None /\ registered[e]
    /\ LET m == msg[e]
           S == GetDeviceByFingerprint(m.fp)
           d == IF S = {} THEN Len(dev) + 1 ELSE CHOOSE x \in S : \A y \in S : x <= y
           new == [fp |-> m.fp, live |-> TRUE, fresh |-> FALSE, online |-> FALSE, ifs |-> {}, old |-> {}, subs |-> {}]
           row == InheritRelations(e, UpdateInterfaces(UpdateDeviceHeartbeat(IF S = {} THEN new ELSE dev[d]), m.ifs))
       IN /\ d <= MaxDevices
          /\ IF <<e, d>> \in deleted
             THEN UNCHANGED <<dev, host, deleted>>
             ELSE RelateHost(e, d) /\ dev' = IF S = {} THEN Append(dev, row) ELSE [dev EXCEPT ![d] = row]
    /\ msg' = [msg EXCEPT ![e] = None]
    /\ UNCHANGED <<world, registered, shared, cascade, pending, shown, found, changes, faults>>

\* Only the heartbeat is told apart, and it does not set the status.  If the device
\* is deleted after it was found, nothing is updated.
reportDeviceUsage(e) ==
    /\ registered[e]
    /\ \E d \in GetDeviceByFingerprint(machine[e]) :
         dev' = [dev EXCEPT ![d].fresh = TRUE]
    /\ UNCHANGED <<world, registered, shared, msg, host, deleted, cascade, pending, shown, found, changes, faults>>

----------------------------------------------------------------------------
\* A deletion takes the connectors that run on the device first ...
deleteDeviceCascade(d) ==
    /\ Change /\ d \in Live \ cascade
    /\ LET gone == {e \in Edges : <<e, d>> \in host}
           rels == {r \in host : r[1] \in gone}
       IN /\ registered' = [e \in Edges |-> registered[e] /\ e \notin gone]
          /\ host' = host \ rels /\ deleted' = deleted \cup rels
    /\ cascade' = cascade \cup {d}
    /\ UNCHANGED <<world, shared, msg, dev, pending, shown, found, faults>>

\* ... and then the device with its interfaces and relations.
DeleteDevice(d) ==
    /\ d \in cascade
    /\ dev' = [dev EXCEPT ![d].live = FALSE, ![d].old = @ \cup dev[d].ifs, ![d].ifs = {}, ![d].subs = {}]
    /\ LET rels == {r \in host : r[2] = d}
       IN host' = host \ rels /\ deleted' = deleted \cup rels
    /\ cascade' = cascade \ {d}
    /\ UNCHANGED <<world, registered, shared, msg, pending, shown, found, changes, faults>>

----------------------------------------------------------------------------

\* Readers.  The status shown is that of the heartbeat; the row follows later.
updateDeviceOnlineStatusByHeartbeat(d) == dev[d].fresh

ListDevices(d) ==
    /\ Readers /\ d \in Live
    /\ LET on == updateDeviceOnlineStatusByHeartbeat(d)
       IN /\ shown' = [dev |-> d, online |-> on]
          /\ pending' = IF dev[d].online = on THEN pending ELSE pending \cup {<<d, on>>}
    /\ UNCHANGED <<world, registered, shared, msg, dev, host, deleted, cascade, found, changes, faults>>

WriteStatus ==
    /\ \E w \in pending :
         /\ pending' = pending \ {w}
         /\ dev' = IF dev[w[1]].live THEN [dev EXCEPT ![w[1]].online = w[2]] ELSE dev
    /\ UNCHANGED <<world, registered, shared, msg, host, deleted, cascade, shown, found, changes, faults>>

\* The join does not look at deleted_at of the interfaces.
GetDeviceByIP(a) == {d \in Live : a \in dev[d].ifs \cup dev[d].old}

\* CreateApplication files the application under the first of them.
CreateApplication ==
    /\ Readers
    /\ \E a \in Addresses :
         LET S == GetDeviceByIP(a)
         IN found' = [ip |-> a, dev |-> IF S = {} THEN None ELSE CHOOSE x \in S : \A y \in S : x <= y]
    /\ UNCHANGED <<world, registered, shared, msg, dev, host, deleted, cascade, pending, shown, changes, faults>>

Connector(e) == loopReportDevice(e) \/ repeatDeviceReport(e)

Next ==
    \/ Renumber
    \/ \E e \in Edges : Move(e) \/ Share(e) \/ Connector(e) \/ reportDevice(e) \/ reportDeviceUsage(e)
    \/ \E d \in Devices : Age(d) \/ deleteDeviceCascade(d) \/ DeleteDevice(d) \/ ListDevices(d)
    \/ WriteStatus \/ CreateApplication

Spec == Init /\ [][Next]_vars

----------------------------------------------------------------------------
TypeOK ==
    /\ machine \in [Edges -> Machines] /\ addrs \in [Machines -> SUBSET Addresses]
    /\ registered \in [Edges -> BOOLEAN] /\ shared \in [Edges -> SUBSET Users]
    /\ Len(dev) <= MaxDevices
    /\ \A d \in Devices : dev[d].fp \in Machines /\ dev[d].ifs \subseteq Addresses /\ dev[d].subs \subseteq Users
    /\ host \cap deleted = {} /\ host \cup deleted \subseteq Edges \X Devices
    /\ cascade \subseteq Devices /\ pending \subseteq Devices \X BOOLEAN

\* "A connector can have only one device of type host" (reportDevice).
OneHostPerEdge == \A r, s \in host : r[1] = s[1] => r = s

\* "The fingerprint identifies a machine": two connectors on one machine, or a
\* connector that reports again after a deletion, do not make two devices of it.
OneDevicePerFingerprint == \A c, d \in Live : dev[c].fp = dev[d].fp => c = d

\* A relation does not outlive its device, whatever is reported during a deletion.
RelationsHaveDevices == \A r \in host : r[2] \in Live

\* The status shown is right although the column lags behind and late updates
\* overwrite it.
ShownFollowsHeartbeat ==
    shown' # shown => shown'.online = dev[shown'.dev].fresh

Settled(e) ==
    \E d \in Live :
        /\ dev[d].fp = machine[e] /\ <<e, d>> \in host
        /\ dev[d].ifs = addrs[machine[e]]
        /\ shared[e] \subseteq dev[d].subs

\* "If the fingerprint changes, the relation is built anew": once the world is
\* still, every connector is related to the device of its machine, which has the
\* right interfaces and is visible to all who may see the connector.
InventorySettled(e) == registered[e] => Settled(e)
=============================================================================
