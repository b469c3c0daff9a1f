-------------------------------- MODULE ScanRange --------------------------------
(***************************************************************************)
(* One scan on the connector (edge/scanner, scanWithGo): the list of hosts *)
(* of a network, octet by octet, a dispatcher that feeds hosts and ports   *)
(* into a bounded channel, and workers that probe them.  Addresses have    *)
(* two octets of OctetBits bits instead of four of eight.                  *)
(***************************************************************************)
EXTENDS Naturals, Sequences, FiniteSets, SequencesExt

CONSTANTS
    OctetBits,
    Nets,        \* the networks a task may name: <<address, prefix length>>
    Ports,       \* the port list, a sequence
    Workers,     \* maxWorkers
    QueueSize,   \* capacity of taskChan
    None, Gone

Base == 2^OctetBits
Octet == 0..(Base - 1)
Address == Octet \X Octet
Bits == 2 * OctetBits
Number(ip) == ip[1] * Base + ip[2]

VARIABLES
    net,      \* the network of the task
    cursor,   \* the loop variable of getIPsFromNets
    ips,      \* the hosts found so far
    at,       \* scanWithGo: "listing", "scanning", "returned"
    next,     \* the dispatcher's place in hosts x ports
    queue,    \* taskChan
    closed,   \* taskChan is closed
    worker,   \* what each worker probes, or None; Gone when it has left
    alive,    \* ghost: the probes that were answered
    result    \* ScannedApplications

vars == <<net, cursor, ips, at, next, queue, closed, worker, alive, result>>

Mask(ip, ones) == LET size == 2^(Bits - ones)
                      n == (Number(ip) \div size) * size
                  IN <<n \div Base, n % Base>>
InNet(n, ip) == Mask(ip, n[2]) = Mask(n[1], n[2])

Init ==
    /\ net \in Nets
    /\ cursor = Mask(net[1], net[2])
    /\ ips = <<>> /\ at = "listing"
    /\ next = 1 /\ queue = <<>> /\ closed = FALSE
    /\ worker = [w \in Workers |-> None]
    /\ alive = {} /\ result = <<>>

\* The last octet first; an octet that wraps to zero carries.
inc(ip) == LET low == (ip[2] + 1) % Base IN
           <<IF low > 0 THEN ip[1] ELSE (ip[1] + 1) % Base, low>>

\* Only a network within one last octet, and only the octet's ends.
isNetworkOrBroadcast(ip, n) == n[2] >= OctetBits /\ ip[2] \in {0, Base - 1}

getIPsFromNets ==
    /\ at = "listing"
    /\ IF InNet(net, cursor)
       THEN /\ ips' = IF isNetworkOrBroadcast(cursor, net) THEN ips ELSE Append(ips, cursor)
            /\ cursor' = inc(cursor)
            /\ UNCHANGED at
       ELSE at' = "scanning" /\ UNCHANGED <<cursor, ips>>
    /\ UNCHANGED <<net, next, queue, closed, worker, alive, result>>

Job(k) == <<ips[((k - 1) \div Len(Ports)) + 1], Ports[((k - 1) % Len(Ports)) + 1]>>
Jobs == Len(ips) * Len(Ports)

\* The dispatcher waits for room in the channel and closes it at the end.
Dispatch ==
    /\ at = "scanning" /\ ~closed
    /\ IF next <= Jobs
       THEN Len(queue) < QueueSize /\ queue' = Append(queue, Job(next)) /\ next' = next + 1 /\ UNCHANGED closed
       ELSE closed' = TRUE /\ UNCHANGED <<queue, next>>
    /\ UNCHANGED <<net, cursor, ips, at, worker, alive, result>>

\* A worker takes what there is and leaves when the channel is closed and empty.
Take(w) ==
    /\ at = "scanning" /\ worker[w] = None
    /\ \/ queue # <<>> /\ worker' = [worker EXCEPT ![w] = Head(queue)] /\ queue' = Tail(queue)
       \/ queue = <<>> /\ closed /\ worker' = [worker EXCEPT ![w] = Gone] /\ UNCHANGED queue
    /\ UNCHANGED <<net, cursor, ips, at, next, closed, alive, result>>

Probing(w) == worker[w] \notin {None, Gone}

\* scanTCP or scanUDP: the service answers or not.
Silent(w) ==
    /\ Probing(w)
    /\ worker' = [worker EXCEPT ![w] = None]
    /\ UNCHANGED <<net, cursor, ips, at, next, queue, closed, alive, result>>

Answers(w) ==
    /\ Probing(w)
    /\ alive' = alive \cup {worker[w]}
    /\ result' = Append(result, worker[w])
    /\ worker' = [worker EXCEPT ![w] = None]
    /\ UNCHANGED <<net, cursor, ips, at, next, queue, closed>>

\* wg.Wait covers the dispatcher and every worker.
Return ==
    /\ at = "scanning" /\ closed /\ \A w \in Workers : worker[w] = Gone
    /\ at' = "returned"
    /\ UNCHANGED <<net, cursor, ips, next, queue, closed, worker, alive, result>>

Next == getIPsFromNets \/ Dispatch \/ Return \/ \E w \in Workers : Take(w) \/ Silent(w) \/ Answers(w)

Spec == Init /\ [][Next]_vars

----------------------------------------------------------------------------
Hosts == {ip \in Address : InNet(net, ip)}

TypeOK ==
    /\ net \in Nets /\ cursor \in Address
    /\ ips \in Seq(Address) /\ Len(ips) <= Base * Base
    /\ at \in {"listing", "scanning", "returned"}
    /\ next \in 1..(Jobs + 1) /\ closed \in BOOLEAN
    /\ Len(queue) <= QueueSize
    /\ worker \in [Workers -> (Address \X ToSet(Ports)) \cup {None, Gone}]
    /\ alive \subseteq Address \X ToSet(Ports)

\* When scanWithGo returns, it reports every service that answered a probe once:
\* nothing is left in the channel or with a worker (the WaitGroup).
ResultIsComplete ==
    at = "returned" => IsInjective(result) /\ ToSet(result) = alive /\ queue = <<>>

\* Every address of the network is listed once, in order, except for the last
\* octet's two ends in a network that lies within one last octet.
HostsAreListed ==
    at # "listing" =>
        /\ \A i, j \in DOMAIN ips : i < j => Number(ips[i]) < Number(ips[j])
        /\ ToSet(ips) = {ip \in Hosts : net[2] < OctetBits \/ ip[2] \notin {0, Base - 1}}

\* A scan ends for every network: the list, the channel and the workers run dry.
ScanReturned == at = "returned"

=============================================================================
