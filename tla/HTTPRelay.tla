------------------------------- MODULE HTTPRelay -------------------------------
(***************************************************************************)
(* One HTTP access (entry/http/server.go) from the accepted connection to  *)
(* the traffic report: keep-alive requests, each on a stream of its own,   *)
(* WebSocket upgrades with two copying goroutines, and the counters that   *)
(* reportLoop takes out once a minute.  Lengths are abstracted: a request, *)
(* a response, an upgrade and a relayed message count 1 each.              *)
(***************************************************************************)
EXTENDS Naturals, FiniteSets, FiniteSetsExt

CONSTANTS Conns, MaxSent, MaxRequests

VARIABLES
    conn,       \* the handler of each connection
    stats,      \* Server.trafficStats: [in, out] of the access
    report,     \* what flushAndReport has taken out and not yet handed on
    collected,  \* what the traffic collector was given
    recorded    \* what recordTraffic was called with, in all

vars == <<conn, stats, report, collected, recorded>>

Count == [in: Nat, out: Nat]
Zero == [in |-> 0, out |-> 0]
Plus(a, b) == [in |-> a.in + b.in, out |-> a.out + b.out]

Stages == {"reading", "opening", "addressing", "sending", "waiting", "writing", "recording",
           "upgrading", "relaying", "settling", "counting", "ended"}
\* sent, buffered, down: messages the target has sent, those that sit in the
\* response reader's buffer, those still in the stream.  up, upDone, downDone:
\* the same for the client and the results of the two io.Copy calls.
Conn == [at: Stages, ws: BOOLEAN, client: BOOLEAN, stream: BOOLEAN, target: BOOLEAN,
         requests: 0..MaxRequests, answered: 0..MaxRequests, counted: Count,
         sent: 0..MaxSent, down: 0..MaxSent, buffered: 0..MaxSent, delivered: 0..MaxSent,
         up: 0..MaxSent, forwarded: 0..MaxSent, bytesIn: 0..MaxSent, bytesOut: 0..MaxSent,
         copies: SUBSET {"up", "down"}]
Fresh == [at |-> "reading", ws |-> FALSE, client |-> TRUE, stream |-> FALSE, target |-> FALSE,
          requests |-> 0, answered |-> 0, counted |-> Zero, sent |-> 0, down |-> 0,
          buffered |-> 0, delivered |-> 0, up |-> 0, forwarded |-> 0, bytesIn |-> 0,
          bytesOut |-> 0, copies |-> {}]

Init ==
    /\ conn = [c \in Conns |-> Fresh]
    /\ stats = Zero
    /\ report = Zero
    /\ collected = Zero
    /\ recorded = Zero

traffic == <<stats, report, collected, recorded>>
Set(c, r) == conn' = [conn EXCEPT ![c] = r]
\* The deferred closes of the stream and of the client connection.
Ended(r) == [r EXCEPT !.at = "ended", !.stream = FALSE, !.client = FALSE]

(* ---- handleConnection ---- *)

\* http.ReadRequest: a request, or the end of the connection.
handleConnection(c) ==
    /\ conn[c].at = "reading"
    /\ \/ /\ conn[c].client /\ conn[c].requests < MaxRequests
          /\ \E ws \in BOOLEAN :
               Set(c, [conn[c] EXCEPT !.at = "opening", !.ws = ws, !.requests = @ + 1])
       \/ /\ ~conn[c].client
          /\ Set(c, Ended(conn[c]))
    /\ UNCHANGED traffic

\* The 30-second read deadline of an idle connection.
ReadTimeout(c) ==
    /\ conn[c].at = "reading"
    /\ Set(c, Ended(conn[c]))
    /\ UNCHANGED traffic

\* frontierBound.OpenStream: the connector answers, or the client gets a 500
\* and the connection ends.
OpenStream(c) ==
    /\ conn[c].at = "opening"
    /\ \/ Set(c, [conn[c] EXCEPT !.at = "addressing", !.stream = TRUE, !.target = TRUE])
       \/ Set(c, Ended(conn[c]))
    /\ UNCHANGED traffic

\* The target's address is written first.
writeDstInfo(c) ==
    /\ conn[c].at = "addressing"
    /\ \/ Set(c, [conn[c] EXCEPT !.at = "sending"])
       \/ Set(c, Ended(conn[c]))
    /\ UNCHANGED traffic

\* Then the request, rewritten for the target.
sendRequest(c) ==
    /\ conn[c].at = "sending"
    /\ \/ Set(c, [conn[c] EXCEPT !.at = "waiting"])
       \/ Set(c, Ended(conn[c]))
    /\ UNCHANGED traffic

\* The response is read.  The reader's buffer may
\* already hold messages that follow the response headers.
readResponse(c) ==
    /\ conn[c].at = "waiting"
    /\ \/ \E b \in 0..conn[c].down :
            Set(c, [conn[c] EXCEPT !.at = IF conn[c].ws THEN "upgrading" ELSE "writing",
                                   !.buffered = IF conn[c].ws THEN b ELSE 0,
                                   !.down = IF conn[c].ws THEN @ - b ELSE 0])
       \/ Set(c, Ended(conn[c]))
    /\ UNCHANGED traffic

\* resp.Write fails when the client has gone.
handleRequest(c) ==
    /\ conn[c].at = "writing"
    /\ IF conn[c].client
       THEN Set(c, [conn[c] EXCEPT !.at = "recording", !.answered = @ + 1])
       ELSE Set(c, Ended(conn[c]))
    /\ UNCHANGED traffic

\* Under Server.mu: the counters of the access grow.
recordTraffic(c, r, n) ==
    /\ stats' = Plus(stats, n)
    /\ recorded' = Plus(recorded, n)
    /\ Set(c, [r EXCEPT !.counted = Plus(@, n)])
    /\ UNCHANGED <<report, collected>>

\* The request is counted, its stream closed, and the client may send another.
FinishRequest(c) ==
    /\ conn[c].at = "recording"
    /\ \E keepAlive \in BOOLEAN :
         LET r == [conn[c] EXCEPT !.at = "reading", !.stream = FALSE, !.target = FALSE]
         IN  recordTraffic(c, IF keepAlive THEN r ELSE Ended(r), [in |-> 1, out |-> 1])

(* ---- handleWebSocket ---- *)

\* The upgrade response is written and the two copies start.
Upgrade(c) ==
    /\ conn[c].at = "upgrading"
    /\ IF conn[c].client
       THEN Set(c, [conn[c] EXCEPT !.at = "relaying", !.copies = {"up", "down"}])
       ELSE Set(c, Ended(conn[c]))
    /\ UNCHANGED traffic

CopyUp(c) ==
    /\ "up" \in conn[c].copies /\ conn[c].stream /\ conn[c].target
    /\ conn[c].up > 0
    /\ Set(c, [conn[c] EXCEPT !.up = @ - 1, !.forwarded = @ + 1])
    /\ UNCHANGED traffic

CopyDown(c) ==
    /\ "down" \in conn[c].copies /\ conn[c].client
    /\ conn[c].down > 0
    /\ Set(c, [conn[c] EXCEPT !.down = @ - 1, !.delivered = @ + 1])
    /\ UNCHANGED traffic

\* io.Copy returns when reading its source ends or fails, or when it has
\* something to write and cannot; only then is its count known.
CopyEnds(c, dir) ==
    /\ dir \in conn[c].copies
    /\ IF dir = "up" THEN \/ ~conn[c].client /\ (conn[c].up = 0 \/ conn[c].at = "ended")
                          \/ ~(conn[c].stream /\ conn[c].target) /\ conn[c].up > 0
                     ELSE \/ ~conn[c].stream
                          \/ ~conn[c].target /\ conn[c].down = 0
                          \/ ~conn[c].client /\ conn[c].down > 0
    /\ Set(c, [conn[c] EXCEPT !.copies = @ \ {dir},
                              !.bytesIn = IF dir = "up" THEN conn[c].forwarded ELSE @,
                              !.bytesOut = IF dir = "down" THEN conn[c].delivered ELSE @])
    /\ UNCHANGED traffic

\* <-errChan: the first of the two copies is enough.
handleWebSocket(c) ==
    /\ conn[c].at = "relaying"
    /\ conn[c].copies # {"up", "down"}
    /\ Set(c, [conn[c] EXCEPT !.at = "settling"])
    /\ UNCHANGED traffic

\* The ten milliseconds are over, whatever the other copy did meanwhile.
Settle(c) ==
    /\ conn[c].at = "settling"
    /\ Set(c, [conn[c] EXCEPT !.at = "counting"])
    /\ UNCHANGED traffic

CountRelay(c) ==
    /\ conn[c].at = "counting"
    /\ recordTraffic(c, Ended(conn[c]),
                     [in |-> conn[c].bytesIn + 1, out |-> conn[c].bytesOut + 1])

(* ---- reportLoop ---- *)

\* flushAndReport copies and clears the counters under the lock ...
flushAndReport ==
    /\ report = Zero
    /\ stats # Zero
    /\ report' = stats
    /\ stats' = Zero
    /\ UNCHANGED <<conn, collected, recorded>>

\* ... and hands them to the collector outside it.
Report ==
    /\ report # Zero
    /\ collected' = Plus(collected, report)
    /\ report' = Zero
    /\ UNCHANGED <<conn, stats, recorded>>

(* ---- the two ends ---- *)

ClientSends(c) ==
    /\ conn[c].client /\ conn[c].at = "relaying"
    /\ conn[c].up + conn[c].forwarded < MaxSent
    /\ Set(c, [conn[c] EXCEPT !.up = @ + 1])
    /\ UNCHANGED traffic

ClientCloses(c) ==
    /\ conn[c].client
    /\ Set(c, [conn[c] EXCEPT !.client = FALSE])
    /\ UNCHANGED traffic

\* Once it has the upgrade request, the target may send at any time.
TargetSends(c) ==
    /\ conn[c].stream /\ conn[c].target /\ conn[c].ws
    /\ conn[c].at \in {"waiting", "upgrading", "relaying"}
    /\ conn[c].sent < MaxSent
    /\ Set(c, [conn[c] EXCEPT !.sent = @ + 1, !.down = @ + 1])
    /\ UNCHANGED traffic

TargetCloses(c) ==
    /\ conn[c].target /\ conn[c].at \in {"upgrading", "relaying", "settling"}
    /\ Set(c, [conn[c] EXCEPT !.target = FALSE])
    /\ UNCHANGED traffic

Handler(c) ==
    \/ handleConnection(c) \/ OpenStream(c) \/ writeDstInfo(c) \/ sendRequest(c)
    \/ handleRequest(c) \/ FinishRequest(c) \/ Upgrade(c) \/ handleWebSocket(c)
    \/ Settle(c) \/ CountRelay(c)
Copy(c) == CopyUp(c) \/ CopyDown(c) \/ \E d \in {"up", "down"} : CopyEnds(c, d)

Next ==
    \/ \E c \in Conns : Handler(c) \/ readResponse(c) \/ Copy(c) \/ ReadTimeout(c) \/ ClientSends(c)
                        \/ ClientCloses(c) \/ TargetSends(c) \/ TargetCloses(c)
    \/ flushAndReport
    \/ Report

Spec == Init /\ [][Next]_vars

(* ---- properties ---- *)

\* Every variable keeps its type.
TypeOK ==
    /\ conn \in [Conns -> Conn]
    /\ stats \in Count /\ report \in Count /\ collected \in Count /\ recorded \in Count

\* Nothing that was recorded is lost or reported twice while the server runs,
\* although the counters are handed on outside the lock.
NoTrafficLost == recorded = Plus(stats, Plus(report, collected))

\* An access is charged for the requests it answered, each once, and never for
\* more than a WebSocket relay delivered.
RequestsCountedOnce ==
    \A c \in Conns :
        LET due == conn[c].answered - (IF conn[c].at = "recording" THEN 1 ELSE 0)
        IN  /\ ~conn[c].ws => conn[c].counted = [in |-> due, out |-> due]
            /\ conn[c].ws => conn[c].counted.out <= due + conn[c].delivered + 1

\* A handler that has returned, or waits for the next request, holds no
\* stream to the connector.
NoStreamLeaks ==
    \A c \in Conns : conn[c].at \in {"reading", "opening", "ended"} => ~conn[c].stream

\* When a WebSocket client leaves, the stream to its target is closed and both
\* copies end, although the target never hangs up by itself.
ClientLeft(c) == conn[c].at = "relaying" /\ ~conn[c].client
RelayOver(c) == conn[c].at = "ended" /\ ~conn[c].stream /\ conn[c].copies = {}

================================================================================
