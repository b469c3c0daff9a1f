-------------------------- MODULE WebDesktopSession --------------------------
(***************************************************************************)
(* The browser remote desktop (manager/web/webdesktop_http.go): a token    *)
(* becomes a connection to guacd, and guacd dials back to a local listener *)
(* whose bridge goroutine opens the stream to the target.  The goroutine   *)
(* that serves the browser (`pc') and the bridge (`bridge') share nothing  *)
(* but the context and the listener; guacd, which is external, ties the    *)
(* two connections together.                                               *)
(***************************************************************************)
EXTENDS Naturals

CONSTANTS Tokens, Proxies

VARIABLES
    status,   \* effective status of each access
    store,    \* tokens in webDesktopSessionStore.sessions
    active,   \* <<proxy, token>> pairs in webDesktopSessionStore.active
    sess,     \* the webDesktopSession of each token
    pc,       \* where handleWebDesktopConnectHTTP is with the token
    listening,\* tokens whose local listener is open
    bridge,   \* where the bridge goroutine of the token is
    local,    \* tokens whose local connection from guacd is open
    done,     \* tokens whose context is cancelled
    handles,  \* tokens registered with the agent's access sessions
    audits,   \* what the audit log says of each token
    closer    \* the stop or delete request of each access

vars == <<status, store, active, sess, pc, listening, bridge, local, done, handles, audits, closer>>
storeVars == <<store, active, done>>
bridgeVars == <<listening, bridge, local>>

Session == [proxy: Proxies, secret: BOOLEAN, live: BOOLEAN]
Stages == {"unused", "checked", "stored", "consumed", "registered", "bridged",
           "dialled", "ready", "serving", "ended"}
Closer == [at: {"idle", "written", "cancelling"}, cancels: SUBSET Tokens]
Idle == [at |-> "idle", cancels |-> {}]
\* How often the audit log holds each line about a token.
Tally == [open: 0..1, failed: 0..1, close: 0..1]

Init ==
    /\ status = [p \in Proxies |-> "active"]
    /\ store = {}
    /\ active = {}
    /\ sess \in {[t \in Tokens |-> [proxy |-> f[t], secret |-> FALSE, live |-> TRUE]] :
                 f \in [Tokens -> Proxies]}
    /\ pc = [t \in Tokens |-> "unused"]
    /\ listening = {}
    /\ bridge = [t \in Tokens |-> "none"]
    /\ local = {}
    /\ done = {}
    /\ handles = {}
    /\ audits = [t \in Tokens |-> [open |-> 0, failed |-> 0, close |-> 0]]
    /\ closer = [p \in Proxies |-> Idle]

Goto(t, stage) == pc' = [pc EXCEPT ![t] = stage]
Audit(t, what) == audits' = [audits EXCEPT ![t][what] = @ + 1]
Zeroed(ts) == [t \in Tokens |-> IF t \in ts THEN [sess[t] EXCEPT !.secret = FALSE]
                                            ELSE sess[t]]

\* loadWebDesktopTarget finds the access and computes it active.
Usable(p) == status[p] = "active"

(* ---- the access ---- *)

WriteRow(p, to) ==
    /\ status[p] \in {"active", "offline"}
    /\ closer[p] = Idle
    /\ status' = [status EXCEPT ![p] = to]
    /\ closer' = [closer EXCEPT ![p].at = "written"]
    /\ UNCHANGED <<storeVars, sess, pc, bridgeVars, handles, audits>>

\* The locked part of closeByProxy.
closeByProxy(p) ==
    LET pending == {t \in store : sess[t].proxy = p} IN
    /\ closer[p].at = "written"
    /\ store' = store \ pending
    /\ sess' = Zeroed(pending)
    /\ pc' = [t \in Tokens |-> IF t \in pending THEN "ended" ELSE pc[t]]
    /\ active' = {a \in active : a[1] # p}
    /\ closer' = [closer EXCEPT ![p] = [at |-> "cancelling",
                                        cancels |-> {a[2] : a \in {b \in active : b[1] = p}}]]
    /\ UNCHANGED <<status, done, bridgeVars, handles, audits>>

CancelAll(p) ==
    /\ closer[p].at = "cancelling"
    /\ done' = done \cup closer[p].cancels
    /\ closer' = [closer EXCEPT ![p] = Idle]
    /\ UNCHANGED <<status, store, active, sess, pc, bridgeVars, handles, audits>>

Restart(p) ==
    /\ status[p] = "stopped"
    /\ status' = [status EXCEPT ![p] = "active"]
    /\ UNCHANGED <<storeVars, sess, pc, bridgeVars, handles, audits, closer>>

Connector(p) ==
    /\ \/ status[p] = "active" /\ status' = [status EXCEPT ![p] = "offline"]
       \/ status[p] = "offline" /\ status' = [status EXCEPT ![p] = "active"]
    /\ UNCHANGED <<storeVars, sess, pc, bridgeVars, handles, audits, closer>>

(* ---- a token ---- *)

\* handleCreateWebDesktopSessionHTTP up to the last check of the target.
CheckTarget(t) ==
    /\ pc[t] = "unused"
    /\ Usable(sess[t].proxy)
    /\ Goto(t, "checked")
    /\ UNCHANGED <<status, storeVars, sess, bridgeVars, handles, audits, closer>>

\* create: sweep the expired tokens, then store this one with its password.
create(t) ==
    LET stale == {u \in store : ~sess[u].live} IN
    /\ pc[t] = "checked"
    /\ store' = (store \ stale) \cup {t}
    /\ sess' = [Zeroed(stale) EXCEPT ![t].secret = TRUE]
    /\ pc' = [u \in Tokens |-> IF u = t THEN "stored" ELSE IF u \in stale THEN "ended" ELSE pc[u]]
    /\ UNCHANGED <<status, active, done, bridgeVars, handles, audits, closer>>

Expire(t) ==
    /\ t \in store
    /\ sess[t].live
    /\ sess' = [sess EXCEPT ![t].live = FALSE]
    /\ UNCHANGED <<status, storeVars, pc, bridgeVars, handles, audits, closer>>

consume(t) ==
    /\ pc[t] = "stored"
    /\ store' = store \ {t}
    /\ \/ sess[t].live /\ Goto(t, "consumed") /\ UNCHANGED sess
       \/ ~sess[t].live /\ Goto(t, "ended") /\ sess' = Zeroed({t})
    /\ UNCHANGED <<status, active, done, bridgeVars, handles, audits, closer>>

\* What the deferred calls of the connect handler and of runWebDesktop undo.
\* Closing the connection to guacd does not close guacd's local connection:
\* guacd does that.
Leave(t) ==
    /\ Goto(t, "ended")
    /\ sess' = Zeroed({t})
    /\ active' = active \ {<<sess[t].proxy, t>>}
    /\ done' = done \cup {t}
    /\ handles' = handles \ {t}
    /\ listening' = listening \ {t}
    /\ UNCHANGED <<status, store, closer>>

\* The upgrade fails, or runWebDesktop starts and registers its cancel.
registerActive(t) ==
    /\ pc[t] = "consumed"
    /\ UNCHANGED <<bridge, local, audits>>
    /\ \/ Leave(t)
       \/ /\ Goto(t, "registered")
          /\ active' = active \cup {<<sess[t].proxy, t>>}
          /\ UNCHANGED <<status, store, sess, done, handles, closer, listening>>

\* startWebDesktopTargetBridge: listen and leave one goroutine to accept.
startWebDesktopTargetBridge(t) ==
    /\ pc[t] = "registered"
    /\ UNCHANGED local
    /\ \/ Leave(t) /\ Audit(t, "failed") /\ UNCHANGED bridge
       \/ /\ Goto(t, "bridged")
          /\ listening' = listening \cup {t}
          /\ bridge' = [bridge EXCEPT ![t] = "accepting"]
          /\ UNCHANGED <<status, storeVars, sess, handles, audits, closer>>

\* Dial guacd and send the tunnel's identifier.
DialGuacd(t) ==
    /\ pc[t] = "bridged"
    /\ UNCHANGED <<bridge, local>>
    /\ \/ Leave(t) /\ Audit(t, "failed")
       \/ /\ Goto(t, "dialled")
          /\ UNCHANGED <<status, storeVars, sess, listening, handles, audits, closer>>

\* handshakeGuacd ends with the connect instruction; then the agent handle.
handshakeGuacd(t) ==
    /\ pc[t] = "dialled"
    /\ UNCHANGED <<bridge, local>>
    /\ \/ Leave(t) /\ Audit(t, "failed")
       \/ /\ Goto(t, "ready")
          /\ handles' = handles \cup {t}
          /\ UNCHANGED <<status, storeVars, sess, listening, audits, closer>>

\* The credential is saved or touched, the password wiped, the session audited.
OpenSession(t) ==
    /\ pc[t] = "ready"
    /\ sess' = Zeroed({t})
    /\ Audit(t, "open")
    /\ Goto(t, "serving")
    /\ UNCHANGED <<status, storeVars, bridgeVars, handles, closer>>

\* The select of runWebDesktop: cancelled, or one of the two copies ended.
runWebDesktop(t) ==
    /\ pc[t] = "serving"
    /\ Leave(t)
    /\ Audit(t, "close")
    /\ UNCHANGED <<bridge, local>>

(* ---- the bridge goroutine ---- *)

\* guacd dials the listener once it has the connect instruction.
Accept(t) ==
    /\ bridge[t] = "accepting"
    /\ t \in listening
    /\ pc[t] \in {"ready", "serving"}
    /\ bridge' = [bridge EXCEPT ![t] = "accepted"]
    /\ local' = local \cup {t}
    /\ UNCHANGED <<status, storeVars, sess, pc, listening, handles, audits, closer>>

\* The select sees the context end, or the closed listener.  A connection that
\* was accepted at that moment stays in the channel, and nobody closes it.
BridgeGivesUp(t) ==
    /\ \/ bridge[t] = "accepting" /\ (t \in done \/ t \notin listening)
       \/ bridge[t] = "accepted" /\ t \in done
    /\ bridge' = [bridge EXCEPT ![t] = "over"]
    /\ listening' = listening \ {t}
    /\ UNCHANGED <<status, storeVars, sess, pc, local, handles, audits, closer>>

\* OpenWebDesktopStream checks the access again.  Without a stream the local
\* connection is closed, and guacd sees that.
OpenWebDesktopStream(t) ==
    /\ bridge[t] = "accepted"
    /\ UNCHANGED <<status, storeVars, sess, pc, handles, audits, closer>>
    /\ \/ /\ bridge' = [bridge EXCEPT ![t] = "over"]
          /\ local' = local \ {t}
          /\ listening' = listening \ {t}
       \/ /\ Usable(sess[t].proxy)
          /\ bridge' = [bridge EXCEPT ![t] = "copying"]
          /\ UNCHANGED <<listening, local>>

\* copyConnPair ends when either side does, and closes both.
copyConnPair(t) ==
    /\ bridge[t] = "copying"
    /\ bridge' = [bridge EXCEPT ![t] = "over"]
    /\ local' = local \ {t}
    /\ listening' = listening \ {t}
    /\ UNCHANGED <<status, storeVars, sess, pc, handles, audits, closer>>

Connection(t) ==
    \/ registerActive(t) \/ startWebDesktopTargetBridge(t) \/ DialGuacd(t)
    \/ handshakeGuacd(t) \/ OpenSession(t)

Next ==
    \/ \E p \in Proxies :
          \/ \E to \in {"stopped", "deleted"} : WriteRow(p, to)
          \/ closeByProxy(p) \/ CancelAll(p) \/ Restart(p) \/ Connector(p)
    \/ \E t \in Tokens :
          \/ CheckTarget(t) \/ create(t) \/ Expire(t) \/ consume(t) \/ Connection(t)
          \/ runWebDesktop(t) \/ Accept(t) \/ BridgeGivesUp(t)
          \/ OpenWebDesktopStream(t) \/ copyConnPair(t)

\* The tunnel ends when its context is cancelled or its local connection is closed,
\* and guacd drops the local connection when the tunnel is closed.
StopServing(t) == runWebDesktop(t) /\ (t \in done \/ bridge[t] = "over")
StopBridge(t) == copyConnPair(t) /\ pc[t] = "ended"

Spec == Init /\ [][Next]_vars

(* ---- properties ---- *)

TypeOK ==
    /\ status \in [Proxies -> {"active", "offline", "stopped", "deleted"}]
    /\ sess \in [Tokens -> Session]
    /\ pc \in [Tokens -> Stages]
    /\ bridge \in [Tokens -> {"none", "accepting", "accepted", "copying", "over"}]
    /\ \A s \in {store, listening, local, done, handles} : s \subseteq Tokens
    /\ active \subseteq Proxies \X Tokens
    /\ audits \in [Tokens -> Tally]
    /\ closer \in [Proxies -> Closer]

\* Once the request that stopped or deleted an access has closed its sessions,
\* no bridge of that access copies to its target under a live context: the
\* bridge that was not yet connected meets the status, the others are cancelled.
StoppedAccessIsCut ==
    \A p \in Proxies, t \in Tokens :
        (/\ status[p] \in {"stopped", "deleted"}
         /\ closer[p] = Idle
         /\ sess[t].proxy = p
         /\ bridge[t] = "copying") => t \in done

\* Every desktop session that got past the upgrade has exactly one outcome in
\* the audit log by the time it is over, and an opened one is closed once.
EveryAttemptAudited ==
    \A t \in Tokens :
        /\ audits[t].open + audits[t].failed <= 1
        /\ bridge[t] # "none" /\ pc[t] = "ended" => audits[t].open + audits[t].failed = 1
        /\ audits[t].close = IF audits[t].open = 1 /\ pc[t] = "ended" THEN 1 ELSE 0

\* A password is in memory only for a token in the store or a connection that
\* is still being set up.
SecretsAreWiped ==
    \A t \in Tokens :
        sess[t].secret => t \in store \/ pc[t] \in {"consumed", "registered", "bridged",
                                                    "dialled", "ready"}

\* The two goroutines of a session end together: the bridge and its listener do
\* not outlive the browser's connection, and the sessions that are registered
\* when their access is stopped all end.
Ended(t) == pc[t] = "ended"
BridgeIsOver(t) == bridge[t] \in {"none", "over"} /\ t \notin listening
CutOff(t) == <<sess[t].proxy, t>> \in active /\ closer[sess[t].proxy].at = "written"
=============================================================================
