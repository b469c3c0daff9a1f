------------------------------- MODULE Fingerprint -------------------------------
(***************************************************************************)
(* What a connector reports of its machine: GetFingerprint of              *)
(* utils/fingerprint.go and getDeviceEthernetInterface of                  *)
(* reporter/device.go.  The machine's hardware is fixed; links go up and   *)
(* down, addresses and virtual interfaces come and go, and the system      *)
(* lists interfaces, processors and disks in any order.                    *)
(***************************************************************************)
EXTENDS Naturals, Sequences, SequencesExt, TLC

CONSTANTS
    OSes,       \* subset of {"linux", "darwin"}
    Nics,       \* interfaces: [id, text, number, kind, mac, p2p]; text and number: ranks of the name
    Cpus,       \* processor descriptions, numbers in the order of their text
    Disks,      \* disks: [name, serial, virtual]; serial 0: none
    None

VARIABLES
    os,
    nics, cpus, disks,   \* what the system lists, in the order in which it does
    up, addrs,           \* the interfaces that are up, the addresses of each
    fp,                  \* the last fingerprint
    ifs                  \* the interfaces reported of this state, or None

vars == <<os, nics, cpus, disks, up, addrs, fp, ifs>>

Addr == {{"v6"}, {"v4", "linkLocal"}, {"linkLocal"}}

\* Some of the physical interfaces are built in.
Init ==
    /\ os \in OSes
    /\ nics \in UNION {SetToSeqs(S) : S \in SUBSET {n \in Nics : n.kind = "physical"}}
    /\ cpus \in UNION {SetToSeqs(S) : S \in SUBSET Cpus}
    /\ disks \in UNION {SetToSeqs(S) : S \in SUBSET Disks}
    /\ up = {} /\ addrs = [n \in Nics |-> {"v6"}]
    /\ fp = None /\ ifs = None

\* The machine.  Its hardware stays, all else may change.
Swap(s, k) == [s EXCEPT ![k] = s[k + 1], ![k + 1] = s[k]]

Reorder ==
    \/ \E k \in 1..Len(nics) - 1 : nics' = Swap(nics, k) /\ UNCHANGED <<cpus, disks>>
    \/ \E k \in 1..Len(cpus) - 1 : cpus' = Swap(cpus, k) /\ UNCHANGED <<nics, disks>>
    \/ \E k \in 1..Len(disks) - 1 : disks' = Swap(disks, k) /\ UNCHANGED <<nics, cpus>>

Plug(n) ==
    /\ n.kind # "physical"
    /\ nics' = IF n \in ToSet(nics) THEN SelectSeq(nics, LAMBDA x : x # n) ELSE Append(nics, n)
    /\ UNCHANGED <<cpus, disks>>

World ==
    /\ \/ (Reorder \/ \E n \in Nics : Plug(n)) /\ UNCHANGED <<up, addrs>>
       \/ /\ \E n \in ToSet(nics) : up' = (up \ {n}) \cup ({n} \ up)
          /\ UNCHANGED <<nics, cpus, disks, addrs>>
       \/ /\ \E n \in ToSet(nics), a \in Addr : addrs' = [addrs EXCEPT ![n] = a]
          /\ UNCHANGED <<nics, cpus, disks, up>>
    /\ ifs' = None
    /\ UNCHANGED <<os, fp>>

----------------------------------------------------------------------------
\* The platform's test for a physical interface.  On macOS the names of
\* physical ones begin with "en", elsewhere certain names are excluded.
IsLinuxPhysicalInterface(n) == n.kind = "physical" /\ n.mac
IsMacPhysicalInterface(n) == n.kind = "physical" /\ n.mac
Physical(n) == IF os = "darwin" THEN IsMacPhysicalInterface(n) ELSE IsLinuxPhysicalInterface(n)

\* "Does not check UP".
isVirtualInterface(n) == n.kind = "loopback" \/ ~n.mac \/ n.p2p \/ ~Physical(n)

\* Two names are compared as text, on macOS by their number.
Before(m, n) == IF os = "darwin" THEN m.number < n.number ELSE m.text < n.text

FirstTwo(s) == SubSeq(s, 1, IF Len(s) > 2 THEN 2 ELSE Len(s))

\* The first two interfaces by name; if there are none, point-to-point ones too.
MACs(list) ==
    LET real == SelectSeq(list, LAMBDA n : ~isVirtualInterface(n))
        used == IF real # <<>> THEN real
                ELSE SelectSeq(list, LAMBDA n : n.kind # "loopback" /\ n.mac /\ Physical(n))
        sorted == SortSeq(used, Before)
    IN FirstTwo([k \in DOMAIN sorted |-> sorted[k].id])

\* The different descriptions, sorted.
CpuID(list) == SetToSortSeq(ToSet(list), <)

\* Mutant of DiskIDs: serial numbers are taken in the order they are listed.
asListed(list) ==
    LET real == SelectSeq(list, LAMBDA d : d.serial # 0 /\ ~d.virtual)
    IN IF real = <<>> THEN <<"hostname">> ELSE FirstTwo([k \in DOMAIN real |-> real[k].serial])

\* The first two disks by name that have a serial number; the hostname otherwise.
DiskIDs(list) ==
    LET real == SelectSeq(list, LAMBDA d : d.serial # 0 /\ ~d.virtual)
        sorted == SortSeq(real, LAMBDA c, d : c.name < d.name)
    IN IF real = <<>> THEN <<"hostname">> ELSE FirstTwo([k \in DOMAIN sorted |-> sorted[k].serial])

GetFingerprint ==
    IF MACs(nics) = <<>> THEN "error"
    ELSE [macs |-> MACs(nics), cpu |-> CpuID(cpus), disk |-> DiskIDs(disks)]

----------------------------------------------------------------------------

\* Loopback addresses stay on the loopback interface, link-local ones nowhere.
Addresses(n) == addrs[n] \ {"linkLocal"}

\* Physical interfaces that are up and have an IPv4 address, and loopback ones.
getDeviceEthernetInterface ==
    {n \in ToSet(nics) :
        /\ n.kind = "loopback" \/ (Physical(n) /\ n \in up)
        /\ Addresses(n) # {}
        /\ "v4" \in Addresses(n) \/ n.kind = "loopback"}

getDevice ==
    /\ ifs = None
    /\ fp' = GetFingerprint
    /\ ifs' = {[nic |-> n, addrs |-> Addresses(n)] : n \in getDeviceEthernetInterface}
    /\ UNCHANGED <<os, nics, cpus, disks, up, addrs>>

Next == World \/ getDevice
Spec == Init /\ [][Next]_vars

----------------------------------------------------------------------------
\* "All components are sorted, so that the fingerprint is stable": as long as the
\* hardware is the same, so is the fingerprint, whatever the order of the lists,
\* the links, the addresses and the virtual interfaces are.
FingerprintStays ==
    fp # None => fp' = fp

\* Virtual interfaces are not reported, nor is an interface that is down, and no
\* address that means nothing elsewhere.
ReportIsReachable ==
    ifs # None =>
        \A i \in ifs :
            /\ "linkLocal" \notin i.addrs /\ i.addrs # {}
            /\ i.nic.kind # "virtual"
            /\ i.nic.kind = "physical" => i.nic \in up /\ "v4" \in i.addrs
=============================================================================
