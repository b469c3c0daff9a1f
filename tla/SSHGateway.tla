------------------------------- MODULE SSHGateway -------------------------------
(***************************************************************************)
(* One connection through the native SSH gateway                           *)
(* (entry/sshgateway/gateway.go): the handshake that logs in at the target *)
(* with the client's password, or later with its forwarded agent, the      *)
(* sessions bridged over the one upstream connection, the audit rows and   *)
(* the end of it all.  Output is counted in units.                         *)
(***************************************************************************)
EXTENDS Naturals, FiniteSets

CONSTANTS
    Sessions, Ups, MaxOut, None,
    Busy    \* the sessions in which the target and the client say anything

VARIABLES
    conn,    \* connectionAuth and the state of handleConnection
    ups,     \* upstream SSH connections that are open
    audit,   \* audit rows: open_session, failed open_session, close_session
    sess     \* the bridgeSession goroutines

vars == <<conn, ups, audit, sess>>

Conn == [at: {"handshake", "serving", "closing", "ended"}, client: BOOLEAN, ctx: BOOLEAN,
         method: {"none", "password", "agent"}, up: Ups \cup {None}, opened: BOOLEAN,
         once: {"new", "running", "ok", "failed"}, late: BOOLEAN]
Stages == {"none", "accepted", "authing", "marking", "opening", "bridging", "aborting",
           "finishing", "waiting", "done"}
\* runner: executes authenticateWithAgent; tgt: the target channel is open on our
\* side; eof, closed, status: what the target has sent; buf: output under way;
\* got: output written to the client; creq: the client's channel is open;
\* outDone, reqs, cancelled: the copy's and the request forwarder's progress;
\* cut: the client or the gateway aborted the session.
Sess == [at: Stages, runner: BOOLEAN, tgt: BOOLEAN, eof: BOOLEAN, closed: BOOLEAN,
         status: {"none", "sent", "given"}, sent: 0..MaxOut, buf: 0..MaxOut, got: 0..MaxOut,
         stdin: BOOLEAN, creq: BOOLEAN, outDone: BOOLEAN, reqs: BOOLEAN, cancelled: BOOLEAN,
         cut: BOOLEAN]
NoSess == [at |-> "none", runner |-> FALSE, tgt |-> FALSE, eof |-> FALSE, closed |-> FALSE,
           status |-> "none", sent |-> 0, buf |-> 0, got |-> 0, stdin |-> TRUE, creq |-> TRUE,
           outDone |-> FALSE, reqs |-> FALSE, cancelled |-> FALSE, cut |-> FALSE]

Init ==
    /\ conn = [at |-> "handshake", client |-> TRUE, ctx |-> TRUE, method |-> "none",
               up |-> None, opened |-> FALSE, once |-> "new", late |-> FALSE]
    /\ ups = {}
    /\ audit = [open |-> 0, failed |-> 0, close |-> 0]
    /\ sess = [s \in Sessions |-> NoSess]

Put(s, r) == sess' = [sess EXCEPT ![s] = r]
Running == {"bridging", "aborting", "finishing", "waiting"}

(* ---- handleConnection ---- *)

\* PublicKeyCallback accepts any key; the target decides later.
PublicKeyCallback ==
    /\ conn.at = "handshake" /\ conn.client /\ conn.method # "password"
    /\ conn' = [conn EXCEPT !.method = "agent", !.up = None]
    /\ UNCHANGED <<ups, audit, sess>>

\* Mutant of markOpenAndAudit: the open row is written every time.
marksAlways(c, a) ==
    /\ conn' = [c EXCEPT !.opened = TRUE]
    /\ audit' = [a EXCEPT !.open = @ + 1]

\* markOpened: the row of an opened session is written once.
markOpenAndAudit(c, a) ==
    /\ conn' = [c EXCEPT !.opened = TRUE]
    /\ audit' = IF c.opened THEN a ELSE [a EXCEPT !.open = @ + 1]

\* PasswordCallback logs in at the target with the client's password.
PasswordCallback ==
    /\ conn.at = "handshake" /\ conn.client /\ conn.method # "password"
    /\ \/ \E u \in Ups \ ups :
            /\ ups' = (ups \ {conn.up}) \cup {u}
            /\ markOpenAndAudit([conn EXCEPT !.method = "password", !.up = u], audit)
       \/ /\ audit.failed < 1
          /\ audit' = [audit EXCEPT !.failed = @ + 1]
          /\ UNCHANGED <<conn, ups>>
    /\ UNCHANGED sess

\* ssh.NewServerConn returns; when it failed, the login at the target is undone.
handleConnection ==
    /\ conn.at = "handshake"
    /\ \/ /\ conn.client /\ conn.method # "none"
          /\ conn' = [conn EXCEPT !.at = "serving"]
          /\ UNCHANGED ups
       \/ /\ ~conn.client
          /\ conn' = [conn EXCEPT !.at = "ended", !.up = None, !.ctx = FALSE]
          /\ ups' = ups \ {conn.up}
    /\ UNCHANGED <<audit, sess>>

\* The channel stream ends with the connection: close_session is written for
\* an opened connection ...
CloseAudit ==
    /\ conn.at = "serving" /\ ~conn.client
    /\ conn' = [conn EXCEPT !.at = "closing"]
    /\ audit' = IF conn.opened THEN [audit EXCEPT !.close = @ + 1] ELSE audit
    /\ UNCHANGED <<ups, sess>>

\* ... and connectionAuth.close takes the upstream connection down.
close ==
    /\ conn.at = "closing"
    /\ conn' = [conn EXCEPT !.at = "ended", !.up = None, !.ctx = FALSE,
                            !.late = conn.once = "running"]
    /\ ups' = ups \ {conn.up}
    /\ UNCHANGED <<audit, sess>>

\* The maximum duration: the context ends and with it the server connection.
MaxDuration ==
    /\ conn.at = "serving" /\ conn.ctx
    /\ conn' = [conn EXCEPT !.ctx = FALSE, !.client = FALSE]
    /\ UNCHANGED <<ups, audit, sess>>

\* The client disconnects, or idleConn's deadline passes.
ClientLeaves ==
    /\ conn.client
    /\ conn' = [conn EXCEPT !.client = FALSE]
    /\ UNCHANGED <<ups, audit, sess>>

(* ---- bridgeSession: login with the forwarded agent ---- *)

OpenSession(s) ==
    /\ conn.at = "serving" /\ conn.client /\ sess[s].at = "none"
    /\ Put(s, [NoSess EXCEPT !.at = "accepted"])
    /\ UNCHANGED <<conn, ups, audit>>

\* Without an upstream the first request must ask for the agent.
FirstRequest(s) ==
    /\ sess[s].at = "accepted"
    /\ \/ conn.up # None /\ Put(s, [sess[s] EXCEPT !.at = "opening"])
       \/ conn.up = None /\ conn.method = "agent" /\ Put(s, [sess[s] EXCEPT !.at = "authing"])
       \/ conn.up = None /\ Put(s, [sess[s] EXCEPT !.at = "done"])
    /\ UNCHANGED <<conn, ups, audit>>

\* agentOnce: the first session runs the login, the others wait for it.  A client
\* that has gone has no agent any more.
authenticateWithAgent(s) ==
    /\ sess[s].at = "authing"
    /\ \/ /\ conn.once = "new"
          /\ conn' = [conn EXCEPT !.once = IF conn.client THEN "running" ELSE "failed"]
          /\ Put(s, [sess[s] EXCEPT !.runner = TRUE])
       \/ /\ conn.once \in {"ok", "failed"}
          /\ Put(s, [sess[s] EXCEPT !.at = "marking"])
          /\ UNCHANGED conn
    /\ UNCHANGED <<ups, audit>>

\* The login runs beside the connection and, once the agent has signed, may
\* succeed after its end.
openUpstreamWithAgent(s) ==
    /\ sess[s].at = "authing" /\ sess[s].runner /\ conn.once = "running"
    /\ \/ \E u \in Ups \ ups :
            /\ ups' = ups \cup {u}
            /\ conn' = [conn EXCEPT !.once = "ok", !.up = u]
       \/ conn' = [conn EXCEPT !.once = "failed"] /\ UNCHANGED ups
    /\ Put(s, [sess[s] EXCEPT !.at = "marking"])
    /\ UNCHANGED audit

AfterLogin(s) ==
    /\ sess[s].at = "marking"
    /\ IF conn.once = "ok"
       THEN /\ markOpenAndAudit(conn, audit)
            /\ Put(s, [sess[s] EXCEPT !.at = "opening"])
       ELSE /\ audit' = [audit EXCEPT !.failed = @ + 1]
            /\ Put(s, [sess[s] EXCEPT !.at = "done"])
            /\ UNCHANGED conn
    /\ UNCHANGED ups

(* ---- bridgeSession: the bridge ---- *)

OpenChannel(s) ==
    /\ sess[s].at = "opening"
    /\ \/ /\ conn.up # None
          /\ Put(s, [sess[s] EXCEPT !.at = "bridging", !.tgt = TRUE, !.reqs = TRUE])
       \/ Put(s, [sess[s] EXCEPT !.at = "done"])
    /\ UNCHANGED <<conn, ups, audit>>

\* copyAndCloseWrite of the target's output.
CopyOut(s) ==
    /\ sess[s].at \in Running /\ ~sess[s].outDone /\ sess[s].buf > 0
    /\ conn.client /\ sess[s].creq
    /\ Put(s, [sess[s] EXCEPT !.buf = @ - 1, !.got = @ + 1])
    /\ UNCHANGED <<conn, ups, audit>>

copyAndCloseWrite(s) ==
    /\ sess[s].at \in Running /\ ~sess[s].outDone
    /\ \/ sess[s].buf = 0 /\ (sess[s].eof \/ sess[s].closed \/ ~sess[s].tgt \/ conn.up = None)
       \/ sess[s].buf > 0 /\ (~conn.client \/ ~sess[s].creq)
    /\ Put(s, [sess[s] EXCEPT !.outDone = TRUE])
    /\ UNCHANGED <<conn, ups, audit>>

\* forwardTargetRequests: the exit status is a request of the target.
forwardTargetRequests(s) ==
    /\ sess[s].at \in Running /\ sess[s].reqs
    /\ \/ /\ sess[s].status = "sent"
          /\ Put(s, [sess[s] EXCEPT !.status = IF conn.client THEN "given" ELSE "none"])
       \/ /\ sess[s].cancelled \/ (sess[s].status # "sent" /\ (sess[s].closed \/ conn.up = None))
          /\ Put(s, [sess[s] EXCEPT !.reqs = FALSE])
    /\ UNCHANGED <<conn, ups, audit>>

\* The end of the output, the end of the client's requests, or the context.
bridgeSession(s) ==
    /\ sess[s].at = "bridging"
    /\ \/ sess[s].outDone /\ Put(s, [sess[s] EXCEPT !.at = "finishing"])
       \/ /\ ~sess[s].creq \/ ~conn.client \/ ~conn.ctx
          /\ Put(s, [sess[s] EXCEPT !.at = "aborting", !.tgt = FALSE, !.cut = TRUE])
    /\ UNCHANGED <<conn, ups, audit>>

Aborted(s) ==
    /\ sess[s].at = "aborting" /\ sess[s].outDone
    /\ Put(s, [sess[s] EXCEPT !.at = "finishing"])
    /\ UNCHANGED <<conn, ups, audit>>

\* The target channel is closed and the request forwarder cancelled ...
Finish(s) ==
    /\ sess[s].at = "finishing"
    /\ Put(s, [sess[s] EXCEPT !.at = "waiting", !.tgt = FALSE, !.cancelled = TRUE])
    /\ UNCHANGED <<conn, ups, audit>>

\* ... and awaited; the client's channel closes last.
Return(s) ==
    /\ sess[s].at = "waiting" /\ ~sess[s].reqs
    /\ Put(s, [NoSess EXCEPT !.at = "done", !.creq = FALSE, !.cut = sess[s].cut,
                             !.status = sess[s].status, !.sent = sess[s].sent, !.got = sess[s].got])
    /\ UNCHANGED <<conn, ups, audit>>

(* ---- the two ends of a session ---- *)

TargetSends(s) ==
    /\ s \in Busy
    /\ sess[s].at \in {"bridging", "finishing"} /\ sess[s].tgt /\ ~sess[s].closed /\ conn.up # None
    /\ \/ ~sess[s].eof /\ sess[s].sent < MaxOut
          /\ Put(s, [sess[s] EXCEPT !.sent = @ + 1, !.buf = @ + 1])
       \/ ~sess[s].eof /\ Put(s, [sess[s] EXCEPT !.eof = TRUE])
       \/ sess[s].status = "none" /\ Put(s, [sess[s] EXCEPT !.status = "sent"])
       \/ sess[s].eof /\ sess[s].status # "none" /\ Put(s, [sess[s] EXCEPT !.closed = TRUE])
    /\ UNCHANGED <<conn, ups, audit>>

ClientSends(s) ==
    /\ s \in Busy
    /\ sess[s].at = "bridging" /\ conn.client
    /\ \/ sess[s].stdin /\ Put(s, [sess[s] EXCEPT !.stdin = FALSE])
       \/ sess[s].creq /\ Put(s, [sess[s] EXCEPT !.creq = FALSE, !.cut = TRUE])
    /\ UNCHANGED <<conn, ups, audit>>

Server == PublicKeyCallback \/ PasswordCallback
Bridge(s) ==
    \/ copyAndCloseWrite(s) \/ bridgeSession(s) \/ Aborted(s) \/ Finish(s) \/ Return(s)

Next ==
    \/ Server \/ handleConnection \/ CloseAudit \/ close \/ MaxDuration \/ ClientLeaves
    \/ \E s \in Sessions :
         \/ OpenSession(s) \/ FirstRequest(s) \/ authenticateWithAgent(s)
         \/ openUpstreamWithAgent(s) \/ AfterLogin(s) \/ OpenChannel(s) \/ CopyOut(s)
         \/ forwardTargetRequests(s) \/ Bridge(s) \/ TargetSends(s) \/ ClientSends(s)

Spec == Init /\ [][Next]_vars

(* ---- properties ---- *)

\* Every variable keeps its type.
TypeOK ==
    /\ conn \in Conn
    /\ ups \in SUBSET Ups
    /\ audit \in [open: 0..1, failed: 0..(1 + Cardinality(Sessions)), close: 0..1]
    /\ sess \in [Sessions -> Sess]

\* A close_session row is written only for a connection that was opened, and
\* however many sessions log in with the agent, one open_session row is.
AuditRowsPair ==
    /\ audit.open <= 1
    /\ audit.close = 1 => conn.opened
    /\ conn.opened => audit.open >= 1

\* When the connection has ended, its upstream is closed.  The one exception
\* is an agent login that was still under way: setUpstream then stores a
\* connection nobody closes.
OnlyLateLoginsOutliveTheClient == conn.at = "ended" /\ ups # {} => conn.late

\* A session that no side aborted delivers all the target's output, although
\* the client's standard input ended before it.
NoOutputLost ==
    \A s \in Sessions :
        sess[s].at = "done" /\ ~sess[s].cut /\ conn.client => sess[s].got = sess[s].sent

\* When the client has gone or its time is over, every bridge ends and its
\* target channel is closed, although the target says nothing.
BridgeIsCut(s) == sess[s].at \in Running /\ (~conn.client \/ ~conn.ctx)
BridgeIsOver(s) == sess[s].at = "done" /\ ~sess[s].tgt

================================================================================
