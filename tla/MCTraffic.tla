------------------------- MODULE MCTraffic -------------------------
(***************************************************************************)
(* The planes that carry the users' traffic, each on small instances, as a *)
(* disjoint union: the initial state chooses one component.                *)
(***************************************************************************)
EXTENDS Naturals

CONSTANTS None

VARIABLES component, v1, v2, v3, v4, v5, v6, v7, v8, v9, v10, v11, v12, v13, v14, v15, v16

vars == <<component, v1, v2, v3, v4, v5, v6, v7, v8, v9, v10, v11, v12, v13, v14, v15, v16>>

(* One of two model names is an alias of the key's. *)
Served == [a \in {"fast"} |-> "model-1"]

HTTP ==
    INSTANCE HTTPProxy WITH Ids <- {"i", "j"}, Ports <- {80}, Insts <- {1, 2}, Conns <- {"c", "d"}, mu
        <- v1, proxies <- v2, idxPort <- v3, inst <- v4, conn <- v5, deleter <- v6, rules <- v7,
        busy <- v8, panicked <- v9
Relay ==
    INSTANCE HTTPRelay WITH Conns <- {"c"}, MaxSent <- 2, MaxRequests <- 3, conn <- v1, stats <- v2,
        report <- v3, collected <- v4, recorded <- v5
TCP ==
    INSTANCE Gatekeeper WITH Ids <- {"i", "j"}, Ports <- {"p", "q"}, Insts <- {1, 2, 3}, Conns <- {"c"},
        mu <- v1, proxies <- v2, idxPort <- v3, appMap <- v4, inst <- v5, conn <- v6, rules <- v7,
        closed <- v8
Meter ==
    INSTANCE TrafficMeter WITH Conns <- {"c", "d"}, Planed <- {"c"}, MaxUnits <- 3, InsertFails <- TRUE,
        conn <- v1, plane <- v2, reporting <- v3, stats <- v4, flushing <- v5, rows <- v6, lost <-
        v7, relayed <- v8, loop <- v9, phase <- v10
SSH ==
    INSTANCE SSHGateway WITH Sessions <- {"s", "t"}, Ups <- {1}, MaxOut <- 0, Busy <- {"s"}, conn <- v1,
        ups <- v2, audit <- v3, sess <- v4
Bridge ==
    INSTANCE SSHGateway WITH Sessions <- {"s"}, Ups <- {1, 2}, MaxOut <- 2, Busy <- {"s"}, conn <- v1,
        ups <- v2, audit <- v3, sess <- v4
DB ==
    INSTANCE DBGateway WITH Gens <- {1, 2}, Clients <- {"c", "d"}, Slots <- 1, Protocol <- "postgresql",
        listener <- v1, closed <- v2, gen <- v3, sess <- v4, slots <- v5, allowed <- v6, deleter <-
        v7, closer <- v8
MySQL ==
    INSTANCE DBGateway WITH Gens <- {1}, Clients <- {"c"}, Slots <- 1, Protocol <- "mysql", listener <-
        v1, closed <- v2, gen <- v3, sess <- v4, slots <- v5, allowed <- v6, deleter <- v7, closer
        <- v8
ASSUME DatabaseConstants == DB!ConstantsOK /\ MySQL!ConstantsOK
Quota ==
    INSTANCE AIGateway WITH Requests <- {"p", "q"}, Savers <- {"s"}, Targets <- {"a"}, Limits <- {1, 3},
        Costs <- {1, 2}, Slots <- 1, MaxRuns <- 3, MaxAdmin <- 3, MaxFaults <- 1, key <- v1, limit
        <- v2, used <- v3, unknown <- v4, config <- v5, enabled <- v6, models <- v7, slots <- v8,
        req <- v9, save <- v10, spent <- v11, lost <- v12, high <- v13, runs <- v14, admin <- v15,
        faults <- v16
Target ==
    INSTANCE AIGateway WITH Requests <- {"p"}, Savers <- {"s", "t"}, Targets <- {"a", "b"}, Limits <-
        {}, Costs <- {1, 2}, Slots <- 1, MaxRuns <- 2, MaxAdmin <- 4, MaxFaults <- 0, key <- v1,
        limit <- v2, used <- v3, unknown <- v4, config <- v5, enabled <- v6, models <- v7, slots <-
        v8, req <- v9, save <- v10, spent <- v11, lost <- v12, high <- v13, runs <- v14, admin <-
        v15, faults <- v16
Answers ==
    INSTANCE AIRelay WITH Counts <- {0, 1}, MaxEvents <- 5, protocol <- v1, stream <- v2, started <- v3,
        finished <- v4, usage <- v5, client <- v6, told <- v7, over <- v8, at <- v9, status <- v10,
        events <- v11
Converted ==
    INSTANCE AIRequests WITH Aliases <- {"fast", "other"}, Upstream <- Served, MaxMessages <- 2, in <-
        v1, metered <- v2, out <- v3

\* The variables that a component with k variables does not use.
Spare(k) ==
    /\ k < 4 => v4 = None
    /\ k < 5 => v5 = None
    /\ k < 6 => v6 = None
    /\ k < 7 => v7 = None
    /\ k < 8 => v8 = None
    /\ k < 9 => v9 = None
    /\ k < 10 => v10 = None
    /\ k < 11 => v11 = None
    /\ k < 12 => v12 = None
    /\ k < 13 => v13 = None
    /\ k < 14 => v14 = None
    /\ k < 15 => v15 = None
    /\ k < 16 => v16 = None
Keep(k) ==
    /\ k < 4 => UNCHANGED v4
    /\ k < 5 => UNCHANGED v5
    /\ k < 6 => UNCHANGED v6
    /\ k < 7 => UNCHANGED v7
    /\ k < 8 => UNCHANGED v8
    /\ k < 9 => UNCHANGED v9
    /\ k < 10 => UNCHANGED v10
    /\ k < 11 => UNCHANGED v11
    /\ k < 12 => UNCHANGED v12
    /\ k < 13 => UNCHANGED v13
    /\ k < 14 => UNCHANGED v14
    /\ k < 15 => UNCHANGED v15
    /\ k < 16 => UNCHANGED v16

Init ==
    \/ component = "http" /\ HTTP!Init /\ Spare(9)
    \/ component = "relay" /\ Relay!Init /\ Spare(5)
    \/ component = "tcp" /\ TCP!Init /\ Spare(8)
    \/ component = "meter" /\ Meter!Init /\ Spare(10)
    \/ component = "ssh" /\ SSH!Init /\ Spare(4)
    \/ component = "bridge" /\ Bridge!Init /\ Spare(4)
    \/ component = "database" /\ DB!Init /\ Spare(8)
    \/ component = "mysql" /\ MySQL!Init /\ Spare(8)
    \/ component = "quota" /\ Quota!Init
    \/ component = "target" /\ Target!Init
    \/ component = "answers" /\ Answers!Init /\ Spare(11)
    \/ component = "requests" /\ Converted!Init /\ Spare(3)

Next ==
    /\ UNCHANGED component
    /\ \/ component = "http" /\ HTTP!Next /\ Keep(9)
       \/ component = "relay" /\ Relay!Next /\ Keep(5)
       \/ component = "tcp" /\ TCP!Next /\ Keep(8)
       \/ component = "meter" /\ Meter!Next /\ Keep(10)
       \/ component = "ssh" /\ SSH!Next /\ Keep(4)
       \/ component = "bridge" /\ Bridge!Next /\ Keep(4)
       \/ component = "database" /\ DB!Next /\ Keep(8)
       \/ component = "mysql" /\ MySQL!Next /\ Keep(8)
       \/ component = "quota" /\ Quota!Next
       \/ component = "target" /\ Target!Next
       \/ component = "answers" /\ Answers!Next /\ Keep(11)
       \/ component = "requests" /\ Converted!Next /\ Keep(3)

Spec == Init /\ [][Next]_vars

-----------------------------------------------------------------------------
(* Every component keeps its types. *)
TypeOK ==
    /\ component = "http" => HTTP!TypeOK
    /\ component = "relay" => Relay!TypeOK
    /\ component = "tcp" => TCP!TypeOK
    /\ component = "meter" => Meter!TypeOK
    /\ component = "ssh" => SSH!TypeOK
    /\ component = "bridge" => Bridge!TypeOK
    /\ component = "database" => DB!TypeOK
    /\ component = "quota" => Quota!TypeOK
    /\ component = "target" => Target!TypeOK
    /\ component = "answers" => Answers!TypeOK

(* A plane's tables, sockets and sessions agree: an access that was deleted *)
(* serves nobody and keeps neither its listener nor its port, although      *)
(* accepting, stopping, timing out and creating again overlap               *)
(* (entry/http/server.go, entry/transport/gatekeeper.go,                    *)
(* entry/dbgateway/gateway.go).                                             *)
DeletedAccessServesNobody ==
    /\ component = "http" =>
         /\ HTTP!StoppedProxyServesNobody /\ HTTP!CleanDeleteLeavesNothing /\ HTTP!MapsAgree
    /\ component = "tcp" => TCP!ListenersAreServed
    /\ component = "database" =>
         /\ DB!SlotsAreHeld /\ DB!DoneMeansClosed
         /\ DB!RunningListenersAreKnown /\ DB!OnlyTLSIsRelayed
    /\ component = "mysql" => MySQL!DoneMeansClosed /\ MySQL!OnlyTLSIsRelayed

(* A database session under way has a listener whose loop will wait for it, *)
(* one in the queue a loop that accepts, one that is over holds no end, and *)
(* the places are counted: the inductive invariant of DBGateway.            *)
GatewayInv ==
    /\ component = "database" => DB!GatewayInv
    /\ component = "mysql" => MySQL!GatewayInv

(* Nothing is counted twice or lost on its way: requests and bytes pass     *)
(* from the counters to the report without a gap (recordTraffic,            *)
(* flushAndReport, trafficconn), a session that was not cut delivers all    *)
(* output and its audit rows pair (entry/sshgateway/gateway.go).            *)
TrafficIsAccountedFor ==
    /\ component = "relay" =>
         Relay!NoTrafficLost /\ Relay!RequestsCountedOnce /\ Relay!NoStreamLeaks
    /\ component = "meter" => Meter!TrafficConserved
    /\ component = "ssh" => SSH!AuditRowsPair /\ SSH!OnlyLateLoginsOutliveTheClient
    /\ component = "bridge" => Bridge!NoOutputLost

(* The AI gateway keeps its limits and its word: slots come back, a limit   *)
(* is overdrawn by at most one request per slot, a credential goes only to  *)
(* its target, an interrupted answer is not made a success, and a converted *)
(* request loses nothing (aigateway, web/ai_gateway_http.go).               *)
AIGatewayKeepsItsWord ==
    /\ component = "quota" => Quota!SlotsAreReturned /\ Quota!OverdraftIsBounded
    /\ component = "target" => Target!CredentialStaysWithTarget
    /\ component = "answers" =>
         Answers!NoSyntheticDone /\ Answers!OutcomesAgree /\ Answers!ConfirmedUsageIsTrue
    /\ component = "requests" =>
         /\ Converted!NothingIsDropped /\ Converted!OnlyAllowedModels
         /\ Converted!MeteredStreamsReportUsage

(* "TOKEN_USAGE_UNCONFIRMED" (CheckKeyQuota): after an answer whose usage   *)
(* is not confirmed no step admits a request of a limited key.              *)
UnconfirmedUsageStopsKey == [][component = "quota" => Quota!AdmittedUnderKnownUsage]_vars
=============================================================================
