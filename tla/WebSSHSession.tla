---------------------------- MODULE WebSSHSession ----------------------------
(***************************************************************************)
(* The browser terminal: one-time session tokens, the goroutine that       *)
(* serves a connected terminal, and the cutting of an access's sessions    *)
(* when the access is stopped or deleted                                   *)
(* (manager/web/webssh_http.go, controlplane/webssh.go).                   *)
(*                                                                         *)
(* A token lives in the store from its creation until it is consumed,      *)
(* swept or cut; the goroutine that consumed it registers a cancel         *)
(* function in `active'.  The access row is written by another request,    *)
(* which closes the access's sessions only afterwards.                     *)
(***************************************************************************)
EXTENDS Naturals, FiniteSets

CONSTANTS Tokens, Proxies, Keys, NoKey

VARIABLES
    status,   \* effective status of each access, as GetWebSSHTarget computes it
    proto,    \* its access protocol
    trusted,  \* its trusted host key
    buried,   \* accesses whose host key row is soft-deleted
    saved,    \* accesses with a saved credential
    store,    \* tokens in webSSHSessionStore.sessions
    active,   \* <<proxy, token>> pairs in webSSHSessionStore.active
    sess,     \* the webSSHSession of each token
    pc,       \* where the goroutine holding the token is
    done,     \* tokens whose context is cancelled
    handles,  \* tokens registered with the agent's access sessions
    audits,   \* what the audit log says of each token
    closer    \* the stop or delete request of each access, if one is running

vars == <<status, proto, trusted, buried, saved, store, active, sess, pc, done,
          handles, audits, closer>>
accessVars == <<status, proto, closer>>
storeVars == <<store, active, done>>

Session == [proxy: Proxies, secret: BOOLEAN, live: BOOLEAN, save: BOOLEAN,
            key: Keys \cup {NoKey}]
\* The stages of runWebSSH between two calls that another goroutine can see.
Stages == {"unused", "checked", "stored", "consumed", "registered", "opened",
           "trusting", "keyed", "client", "serving", "ended"}
\* The stages in which a stream to the target is open.
Streaming == {"opened", "trusting", "keyed", "client", "serving"}
Closer == [at: {"idle", "written", "cancelling"}, cancels: SUBSET Tokens]
Idle == [at |-> "idle", cancels |-> {}]

\* How often the audit log holds each line about a token.
Tally == [open: 0..1, failed: 0..1, close: 0..1]

Init ==
    /\ status = [p \in Proxies |-> "active"]
    /\ proto = [p \in Proxies |-> "webssh"]
    /\ trusted = [p \in Proxies |-> NoKey]
    /\ buried = {}
    /\ saved = {}
    /\ store = {}
    /\ active = {}
    /\ sess \in {[t \in Tokens |-> [proxy |-> f[t], secret |-> FALSE, live |-> TRUE,
                                    save |-> FALSE, key |-> NoKey]] :
                 f \in [Tokens -> Proxies]}
    /\ pc = [t \in Tokens |-> "unused"]
    /\ done = {}
    /\ handles = {}
    /\ audits = [t \in Tokens |-> [open |-> 0, failed |-> 0, close |-> 0]]
    /\ closer = [p \in Proxies |-> Idle]

Goto(t, stage) == pc' = [pc EXCEPT ![t] = stage]
Audit(t, what) == audits' = [audits EXCEPT ![t][what] = @ + 1]
Zeroed(ts) == [t \in Tokens |-> IF t \in ts THEN [sess[t] EXCEPT !.secret = FALSE]
                                            ELSE sess[t]]

\* loadWebSSHTarget finds the access, its application and its connector.
Loads(p) == status[p] # "deleted"

(* ---- the requests that write the access row ---- *)

\* UpdateProxy with status "stopped", or DeleteProxy: the row first, then the
\* sessions of the access.
WriteRow(p, to) ==
    /\ status[p] \in {"active", "offline"}
    /\ closer[p] = Idle
    /\ to \in {"stopped", "deleted"}
    /\ status' = [status EXCEPT ![p] = to]
    /\ closer' = [closer EXCEPT ![p].at = "written"]
    /\ UNCHANGED <<proto, trusted, buried, saved, storeVars, sess, pc, handles, audits>>

\* The locked part of closeByProxy: both tables forget the access.
closeByProxy(p) ==
    LET pending == {t \in store : sess[t].proxy = p} IN
    /\ closer[p].at = "written"
    /\ store' = store \ pending
    /\ sess' = Zeroed(pending)
    /\ pc' = [t \in Tokens |-> IF t \in pending THEN "ended" ELSE pc[t]]
    /\ active' = {a \in active : a[1] # p}
    /\ closer' = [closer EXCEPT ![p] = [at |-> "cancelling",
                                        cancels |-> {a[2] : a \in {b \in active : b[1] = p}}]]
    /\ UNCHANGED <<status, proto, trusted, buried, saved, done, handles, audits>>

\* Its cancels run after the lock is released.
CancelAll(p) ==
    /\ closer[p].at = "cancelling"
    /\ done' = done \cup closer[p].cancels
    /\ closer' = [closer EXCEPT ![p] = Idle]
    /\ UNCHANGED <<status, proto, trusted, buried, saved, store, active, sess, pc, handles, audits>>

\* UpdateProxy with status "running"; the connector going away and coming back.
Restart(p) ==
    /\ status[p] = "stopped"
    /\ status' = [status EXCEPT ![p] = "active"]
    /\ UNCHANGED <<proto, trusted, buried, saved, storeVars, sess, pc, handles, audits, closer>>

Connector(p) ==
    /\ \/ status[p] = "active" /\ status' = [status EXCEPT ![p] = "offline"]
       \/ status[p] = "offline" /\ status' = [status EXCEPT ![p] = "active"]
    /\ UNCHANGED <<proto, trusted, buried, saved, storeVars, sess, pc, handles, audits, closer>>

ChangeProtocol(p) ==
    /\ Loads(p)
    /\ proto' = [proto EXCEPT ![p] = IF @ = "webssh" THEN "websftp" ELSE "webssh"]
    /\ UNCHANGED <<status, trusted, buried, saved, storeVars, sess, pc, handles, audits, closer>>

\* The user resets the trusted key: the row is soft-deleted, and its unique
\* index on the access keeps it in the way of a new one.
DeleteWebSSHHostKey(p) ==
    /\ Loads(p)
    /\ trusted[p] # NoKey
    /\ trusted' = [trusted EXCEPT ![p] = NoKey]
    /\ buried' = buried \cup {p}
    /\ UNCHANGED <<accessVars, saved, storeVars, sess, pc, handles, audits>>

DeleteWebSSHCredential(p) ==
    /\ Loads(p)
    /\ p \in saved
    /\ saved' = saved \ {p}
    /\ UNCHANGED <<accessVars, trusted, buried, storeVars, sess, pc, handles, audits>>

(* ---- a token and the terminal it opens ---- *)

\* handleCreateWebSSHSessionHTTP up to the last check of the target.
CheckTarget(t) ==
    LET p == sess[t].proxy IN
    /\ pc[t] = "unused"
    /\ status[p] = "active"
    /\ proto[p] = "webssh"
    /\ \E save \in BOOLEAN, useSaved \in BOOLEAN :
          /\ useSaved => p \in saved
          /\ sess' = [sess EXCEPT ![t].save = save /\ ~useSaved]
    /\ Goto(t, "checked")
    /\ UNCHANGED <<accessVars, trusted, buried, saved, storeVars, handles, audits>>

\* create: sweep the expired tokens, then store this one with its password.
create(t) ==
    LET stale == {u \in store : ~sess[u].live} IN
    /\ pc[t] = "checked"
    /\ store' = (store \ stale) \cup {t}
    /\ sess' = [Zeroed(stale) EXCEPT ![t].secret = TRUE]
    /\ pc' = [u \in Tokens |-> IF u = t THEN "stored" ELSE IF u \in stale THEN "ended" ELSE pc[u]]
    /\ UNCHANGED <<accessVars, trusted, buried, saved, active, done, handles, audits>>

\* The sixty seconds of a stored token pass.
Expire(t) ==
    /\ t \in store
    /\ sess[t].live
    /\ sess' = [sess EXCEPT ![t].live = FALSE]
    /\ UNCHANGED <<accessVars, trusted, buried, saved, storeVars, pc, handles, audits>>

\* consume: the token is spent whether or not it has expired.
consume(t) ==
    /\ pc[t] = "stored"
    /\ store' = store \ {t}
    /\ \/ /\ sess[t].live
          /\ Goto(t, "consumed")
          /\ UNCHANGED sess
       \/ /\ ~sess[t].live
          /\ Goto(t, "ended")
          /\ sess' = Zeroed({t})
    /\ UNCHANGED <<accessVars, trusted, buried, saved, active, done, handles, audits>>

\* What the deferred calls of handleWebSSHConnectHTTP and runWebSSH undo.
Leave(t) ==
    /\ Goto(t, "ended")
    /\ sess' = Zeroed({t})
    /\ active' = active \ {<<sess[t].proxy, t>>}
    /\ done' = done \cup {t}
    /\ handles' = handles \ {t}
    /\ UNCHANGED store

\* The WebSocket upgrade fails, or runWebSSH starts and registers its cancel.
registerActive(t) ==
    /\ pc[t] = "consumed"
    /\ UNCHANGED <<accessVars, trusted, buried, saved, audits>>
    /\ \/ Leave(t)
       \/ /\ Goto(t, "registered")
          /\ active' = active \cup {<<sess[t].proxy, t>>}
          /\ UNCHANGED <<store, sess, done, handles>>

\* Mutant of OpenWebSSHStream: the target is not read again.
opensUnchecked(t) ==
    /\ pc[t] = "registered"
    /\ UNCHANGED <<accessVars, trusted, buried, saved, audits, storeVars, sess, handles>>
    /\ Goto(t, "opened")

\* OpenWebSSHStream reads the target again.  A target that cannot be loaded
\* leaves nothing to audit; one that is not active, or whose connector refuses
\* the stream, is an audited failure; a WebSFTP access is refused in silence.
OpenWebSSHStream(t) ==
    LET p == sess[t].proxy IN
    /\ pc[t] = "registered"
    /\ UNCHANGED <<accessVars, trusted, buried, saved>>
    /\ \/ ~Loads(p) /\ Leave(t) /\ UNCHANGED audits
       \/ Loads(p) /\ Leave(t) /\ Audit(t, "failed")
       \/ status[p] = "active" /\ proto[p] = "websftp" /\ Leave(t) /\ UNCHANGED audits
       \/ /\ status[p] = "active"
          /\ proto[p] = "webssh"
          /\ Goto(t, "opened")
          /\ UNCHANGED <<storeVars, sess, handles, audits>>

\* UpsertWebSSHHostKey looks for a live row to overwrite, else inserts one.
canTrust(p) == trusted[p] # NoKey \/ p \notin buried

\* A failed handshake: the password is wiped and the failure audited.
HandshakeFails(t) ==
    /\ pc[t] \in {"opened", "trusting", "keyed"}
    /\ pc[t] = "trusting" => ~Loads(sess[t].proxy) \/ ~canTrust(sess[t].proxy)
    /\ Leave(t)
    /\ Audit(t, "failed")
    /\ UNCHANGED <<accessVars, trusted, buried, saved>>

\* webSSHHostKeyCallback: compare with the trusted key, or go and trust it.
HostKey(t, k) ==
    LET p == sess[t].proxy IN
    /\ pc[t] = "opened"
    /\ Loads(p)
    /\ trusted[p] \in {NoKey, k}
    /\ Goto(t, IF trusted[p] = k THEN "keyed" ELSE "trusting")
    /\ sess' = [sess EXCEPT ![t].key = k]
    /\ UNCHANGED <<accessVars, trusted, buried, saved, storeVars, handles, audits>>

\* TrustWebSSHHostKey, and the upsert under it.
TrustWebSSHHostKey(t) ==
    LET p == sess[t].proxy IN
    /\ pc[t] = "trusting"
    /\ Loads(p)
    /\ canTrust(p)
    /\ trusted' = [trusted EXCEPT ![p] = sess[t].key]
    /\ Goto(t, "keyed")
    /\ UNCHANGED <<accessVars, buried, saved, storeVars, sess, handles, audits>>

\* The target accepts the password: the credential is saved if asked and if the
\* access is still there, the password wiped, the agent handle registered.
Authenticate(t) ==
    LET p == sess[t].proxy IN
    /\ pc[t] = "keyed"
    /\ saved' = IF sess[t].save /\ Loads(p) THEN saved \cup {p} ELSE saved
    /\ sess' = Zeroed({t})
    /\ handles' = handles \cup {t}
    /\ Goto(t, "client")
    /\ UNCHANGED <<accessVars, trusted, buried, storeVars, audits>>

\* Session, pipes, pseudo-terminal and shell.  Only the shell's failure is
\* audited.
startWebSSHShell(t) ==
    /\ pc[t] = "client"
    /\ UNCHANGED <<accessVars, trusted, buried, saved>>
    /\ \/ Leave(t) /\ UNCHANGED audits
       \/ Leave(t) /\ Audit(t, "failed")
       \/ Goto(t, "serving") /\ Audit(t, "open") /\ UNCHANGED <<storeVars, sess, handles>>

\* Mutant of runWebSSH: the end of a cancelled session is audited twice.
auditsTwice(t) ==
    /\ pc[t] = "serving"
    /\ Leave(t)
    /\ audits' = [audits EXCEPT ![t].close = IF t \in done THEN 2 ELSE 1]
    /\ UNCHANGED <<accessVars, trusted, buried, saved>>

\* The serving loop ends: cancelled, the shell exited, or the browser went away.
runWebSSH(t) ==
    /\ pc[t] = "serving"
    /\ Leave(t)
    /\ Audit(t, "close")
    /\ UNCHANGED <<accessVars, trusted, buried, saved>>

Connection(t) ==
    \/ registerActive(t) \/ OpenWebSSHStream(t) \/ HandshakeFails(t)
    \/ \E k \in Keys : HostKey(t, k)
    \/ TrustWebSSHHostKey(t) \/ Authenticate(t) \/ startWebSSHShell(t)
    \/ runWebSSH(t)

Next ==
    \/ \E p \in Proxies :
          \/ \E to \in {"stopped", "deleted"} : WriteRow(p, to)
          \/ closeByProxy(p) \/ CancelAll(p) \/ Restart(p) \/ Connector(p)
          \/ ChangeProtocol(p) \/ DeleteWebSSHHostKey(p) \/ DeleteWebSSHCredential(p)
    \/ \E t \in Tokens :
          CheckTarget(t) \/ create(t) \/ Expire(t) \/ consume(t) \/ Connection(t)

\* The serving loop sees its cancelled context.
StopServing(t) == runWebSSH(t) /\ t \in done

Spec == Init /\ [][Next]_vars

(* ---- properties ---- *)

TypeOK ==
    /\ status \in [Proxies -> {"active", "offline", "stopped", "deleted"}]
    /\ proto \in [Proxies -> {"webssh", "websftp"}]
    /\ trusted \in [Proxies -> Keys \cup {NoKey}]
    /\ buried \subseteq Proxies
    /\ saved \subseteq Proxies
    /\ store \subseteq Tokens
    /\ active \subseteq Proxies \X Tokens
    /\ sess \in [Tokens -> Session]
    /\ pc \in [Tokens -> Stages]
    /\ done \subseteq Tokens
    /\ handles \subseteq Tokens
    /\ audits \in [Tokens -> Tally]
    /\ closer \in [Proxies -> Closer]

\* Once the request that stopped or deleted an access has closed its sessions,
\* no terminal of that access goes on with an uncancelled context, including
\* the one that was between consume and registerActive when the tables were
\* emptied: it meets the status when it opens its stream.
StoppedAccessIsCut ==
    \A p \in Proxies, t \in Tokens :
        (/\ status[p] \in {"stopped", "deleted"}
         /\ closer[p] = Idle
         /\ sess[t].proxy = p
         /\ pc[t] \in Streaming) => t \in done

\* A password is in memory only for a token still in the store or a connection
\* that has not finished its handshake; whatever ended a token wiped it and
\* took it out of both tables and of the agent's handles.
NothingLeftBehind ==
    \A t \in Tokens :
        /\ sess[t].secret => t \in store \/ pc[t] \in {"consumed", "registered", "opened",
                                                       "trusting", "keyed"}
        /\ pc[t] = "ended" => /\ t \notin store \cup handles
                              /\ \A p \in Proxies : <<p, t>> \notin active

\* The audit log tells one story about a token: at most one outcome of opening
\* it, and a session that was opened is closed exactly once, when it ends.
AuditsBalance ==
    \A t \in Tokens :
        /\ audits[t].open + audits[t].failed <= 1
        /\ audits[t].close = IF audits[t].open = 1 /\ pc[t] = "ended" THEN 1 ELSE 0

\* A terminal of an access that is stopped or deleted comes to an end: the cut
\* reaches it, whatever stage of the connection it was in.
CutOff(t) == pc[t] \in Streaming /\ status[sess[t].proxy] \in {"stopped", "deleted"}
Ended(t) == pc[t] = "ended"

\* A connection that found no trusted key gets its own trusted, unless the
\* access is gone: after the trusted fingerprint is reset, the next connection
\* records the new key, as the message of webSSHHostKeyCallback tells the user.
ResetAllowsReconnect ==
    [][\A t \in Tokens :
          pc[t] = "trusting" /\ pc'[t] = "ended" => status[sess[t].proxy] = "deleted"]_vars
=============================================================================
