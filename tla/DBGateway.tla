-------------------------------- MODULE DBGateway --------------------------------
(***************************************************************************)
(* The native database gateway: listeners and sessions                     *)
(* (entry/dbgateway/gateway.go) and the negotiation that only lets TLS     *)
(* through (manager/dbgateway/relay.go).  One access is created, deleted   *)
(* and created again, concurrently with its clients, with changes of the   *)
(* source policy and with the shutdown of the gateway.                     *)
(***************************************************************************)
EXTENDS Naturals, FiniteSetTheorems, TLAPS

CONSTANTS
    Gens,       \* listener objects, 1..n, made one after the other
    Clients,    \* client connections
    Slots,      \* capacity of Gateway.slots
    Protocol,   \* "mysql" or "postgresql"
    None

VARIABLES
    listener,   \* Gateway.listeners at the access, or None
    closed,     \* Gateway.closed
    gen,        \* the listener objects
    sess,       \* the client connections and their handlers
    slots,      \* taken places of Gateway.slots
    allowed,    \* the source policy admits the clients
    deleter,    \* a call of DeleteProxy
    closer      \* a call of Close: the objects it waits for

vars == <<listener, closed, gen, sess, slots, allowed, deleter, closer>>

\* at: CreateProxy holds the entry, the loop accepts, it waits for its
\* sessions, done is closed.  ctx: not cancelled.  ln: the socket listens.
Gen == [at: {"none", "registered", "serving", "draining", "done"}, ctx: BOOLEAN, ln: BOOLEAN]
Stages == {"none", "queued", "checking", "dialing", "addressing", "greeting", "request", "answer",
           "hello", "relaying", "closing", "returning", "gone"}
\* plain: the client's bytes are not TLS; sent: what reached the database.
Sess == [at: Stages, gen: Gens \cup {None}, ctx: BOOLEAN, client: BOOLEAN, up: BOOLEAN,
         copies: 0..2, plain: BOOLEAN, sent: BOOLEAN, watched: BOOLEAN]

Init ==
    /\ listener = None /\ closed = FALSE
    /\ gen = [k \in Gens |-> [at |-> "none", ctx |-> TRUE, ln |-> FALSE]]
    /\ sess = [c \in Clients |-> [at |-> "none", gen |-> None, ctx |-> TRUE, client |-> FALSE,
                                  up |-> FALSE, copies |-> 0, plain |-> FALSE, sent |-> FALSE,
                                  watched |-> FALSE]]
    /\ slots = 0
    /\ allowed = TRUE
    /\ deleter = None
    /\ closer = None

others == <<slots, allowed, deleter, closer>>
Active == {"checking", "dialing", "addressing", "greeting", "request", "answer", "hello",
           "relaying", "closing", "returning"}
Of(k) == {c \in Clients : sess[c].gen = k /\ sess[c].at \in Active}
Live(c) == sess[c].ctx /\ gen[sess[c].gen].ctx

(* ---- listeners ---- *)

\* The entry is made before the socket: a second creation is refused, and a
\* deletion that comes in between finds it.
CreateProxy(k) ==
    /\ gen[k].at = "none" /\ \A j \in Gens : j < k => gen[j].at # "none"
    /\ ~closed /\ listener = None
    /\ listener' = k
    /\ gen' = [gen EXCEPT ![k].at = "registered"]
    /\ UNCHANGED <<closed, sess, others>>

\* ListenConfig.Listen; on failure the entry goes and done is closed.
Listen(k) ==
    /\ gen[k].at = "registered"
    /\ \/ /\ ~\E j \in Gens : gen[j].ln
          /\ gen' = [gen EXCEPT ![k].at = "serving", ![k].ln = TRUE]
          /\ UNCHANGED listener
       \/ /\ gen' = [gen EXCEPT ![k].at = "done", ![k].ctx = FALSE]
          /\ listener' = None
    /\ UNCHANGED <<closed, sess, others>>

\* context.AfterFunc closes the socket of a cancelled listener.
AfterCancel(k) ==
    /\ gen[k].at = "serving" /\ ~gen[k].ctx /\ gen[k].ln
    /\ gen' = [gen EXCEPT ![k].ln = FALSE]
    /\ UNCHANGED <<listener, closed, sess, others>>

Dial(c, k) ==
    /\ sess[c].at = "none" /\ gen[k].ln
    /\ \E p \in BOOLEAN :
         sess' = [sess EXCEPT ![c] = [@ EXCEPT !.at = "queued", !.gen = k, !.client = TRUE, !.plain = p]]
    /\ UNCHANGED <<listener, closed, gen, others>>

\* serve: a session takes a place or is closed at once.
serve(c) ==
    /\ sess[c].at = "queued" /\ gen[sess[c].gen].at = "serving" /\ gen[sess[c].gen].ln
    /\ IF slots < Slots
       THEN /\ slots' = slots + 1
            /\ sess' = [sess EXCEPT ![c].at = "checking"]
       ELSE /\ sess' = [sess EXCEPT ![c] = [@ EXCEPT !.at = "gone", !.client = FALSE]]
            /\ UNCHANGED slots
    /\ UNCHANGED <<listener, closed, gen, allowed, deleter, closer>>

\* Accept failed: the deferred cancel, and the wait for the sessions.
Drain(k) ==
    /\ gen[k].at = "serving" /\ ~gen[k].ln
    /\ gen' = [gen EXCEPT ![k].at = "draining", ![k].ctx = FALSE]
    /\ sess' = [c \in Clients |-> IF sess[c].at = "queued" /\ sess[c].gen = k
                                  THEN [sess[c] EXCEPT !.at = "gone", !.client = FALSE] ELSE sess[c]]
    /\ UNCHANGED <<listener, closed, others>>

Done(k) ==
    /\ gen[k].at = "draining" /\ Of(k) = {}
    /\ gen' = [gen EXCEPT ![k].at = "done"]
    /\ UNCHANGED <<listener, closed, sess, others>>

\* DeleteProxy cancels what it finds and waits without the lock ...
DeleteProxy ==
    /\ deleter = None /\ listener # None
    /\ deleter' = listener
    /\ gen' = [gen EXCEPT ![listener].ctx = FALSE]
    /\ UNCHANGED <<listener, closed, sess, slots, allowed, closer>>

\* Mutant of Deleted: whatever entry there is now is removed.
removesAnyEntry ==
    /\ deleter # None /\ gen[deleter].at = "done"
    /\ listener' = None
    /\ deleter' = None
    /\ UNCHANGED <<closed, gen, sess, slots, allowed, closer>>

\* ... and removes its own entry only.
Deleted ==
    /\ deleter # None /\ gen[deleter].at = "done"
    /\ listener' = IF listener = deleter THEN None ELSE listener
    /\ deleter' = None
    /\ UNCHANGED <<closed, gen, sess, slots, allowed, closer>>

\* The caller's context ends first: the listener goes down all the same.
GiveUp ==
    /\ deleter # None /\ gen[deleter].at # "done"
    /\ deleter' = None
    /\ UNCHANGED <<listener, closed, gen, sess, slots, allowed, closer>>

Close ==
    /\ ~closed
    /\ closed' = TRUE
    /\ closer' = listener
    /\ gen' = IF listener = None THEN gen ELSE [gen EXCEPT ![listener].ctx = FALSE]
    /\ UNCHANGED <<listener, sess, slots, allowed, deleter>>

Closed ==
    /\ closer # None /\ gen[closer].at = "done"
    /\ closer' = None
    /\ UNCHANGED <<listener, closed, gen, sess, slots, allowed, deleter>>

(* ---- handle ---- *)

Put(c, r) == sess' = [sess EXCEPT ![c] = r] /\ UNCHANGED <<listener, closed, gen, others>>

\* The source policy is asked before the connector is.
handle(c) ==
    /\ sess[c].at = "checking"
    /\ IF gen[sess[c].gen].ctx /\ allowed
       THEN Put(c, [sess[c] EXCEPT !.at = "dialing", !.watched = TRUE])
       ELSE Put(c, [sess[c] EXCEPT !.at = "returning"])

\* Mutant of PolicyTick: the policy is only looked at while the target is dialled.
checksBeforeDial(c) ==
    /\ sess[c].watched /\ sess[c].ctx /\ ~allowed
    /\ sess[c].at = "dialing"
    /\ Put(c, [sess[c] EXCEPT !.ctx = FALSE])

\* The policy goroutine's ticker.
PolicyTick(c) ==
    /\ sess[c].watched /\ sess[c].ctx /\ ~allowed
    /\ sess[c].at \in Active
    /\ Put(c, [sess[c] EXCEPT !.ctx = FALSE])

\* context.AfterFunc closes both ends.
AfterFunc(c) ==
    /\ sess[c].at \in Active \ {"checking"} /\ ~Live(c)
    /\ sess[c].client \/ sess[c].up
    /\ Put(c, [sess[c] EXCEPT !.client = FALSE, !.up = FALSE])

\* OpenStream with a ten-second limit.
OpenStream(c) ==
    /\ sess[c].at = "dialing"
    /\ \/ Live(c) /\ Put(c, [sess[c] EXCEPT !.at = "addressing", !.up = TRUE])
       \/ Put(c, [sess[c] EXCEPT !.at = "returning"])

writeAll(c) ==
    /\ sess[c].at = "addressing"
    /\ \/ /\ sess[c].up
          /\ Put(c, [sess[c] EXCEPT !.at = IF Protocol = "mysql" THEN "greeting" ELSE "request"])
       \/ Put(c, [sess[c] EXCEPT !.at = "returning"])

(* ---- Relay ---- *)

Ends(c) == sess[c].client /\ sess[c].up

\* mysqlGreetingTLS: the server speaks first and must offer TLS.
mysqlGreetingTLS(c) ==
    /\ sess[c].at = "greeting" /\ Ends(c)
    /\ Put(c, [sess[c] EXCEPT !.at = "request"])

\* RequireMySQLTLS and RequirePostgresTLS: the client must ask for TLS.
RequireTLS(c) ==
    /\ sess[c].at = "request" /\ Ends(c)
    /\ Put(c, [sess[c] EXCEPT !.at = IF Protocol = "mysql" THEN "hello" ELSE "answer"])

\* A PostgreSQL server that declines TLS ends the session.
PostgresAnswer(c) ==
    /\ sess[c].at = "answer" /\ Ends(c)
    /\ Put(c, [sess[c] EXCEPT !.at = "hello"])

\* The first record after the request must be a TLS handshake.
Relay(c) ==
    /\ sess[c].at = "hello" /\ Ends(c)
    /\ IF sess[c].plain THEN Put(c, [sess[c] EXCEPT !.at = "returning"])
       ELSE Put(c, [sess[c] EXCEPT !.at = "relaying", !.sent = TRUE, !.copies = 2])

\* The ten-second deadline, a malformed packet, or an end that is closed.
NegotiationFails(c) ==
    /\ sess[c].at \in {"greeting", "request", "answer", "hello"}
    /\ Put(c, [sess[c] EXCEPT !.at = "returning"])

\* The first copy to end closes both ends, so the second ends too.
copyStream(c) ==
    /\ sess[c].at = "relaying" /\ ~Ends(c)
    /\ Put(c, [sess[c] EXCEPT !.at = "closing", !.client = FALSE, !.up = FALSE, !.copies = @ - 1])

SecondCopy(c) ==
    /\ sess[c].at = "closing" /\ sess[c].copies = 1 /\ ~sess[c].client /\ ~sess[c].up
    /\ Put(c, [sess[c] EXCEPT !.at = "returning", !.copies = 0])

\* The deferred calls: context, policy goroutine, both ends, the place.
Return(c) ==
    /\ sess[c].at = "returning"
    /\ slots' = slots - 1
    /\ sess' = [sess EXCEPT ![c] = [@ EXCEPT !.at = "gone", !.client = FALSE, !.up = FALSE,
                                             !.ctx = FALSE, !.watched = FALSE]]
    /\ UNCHANGED <<listener, closed, gen, allowed, deleter, closer>>

(* ---- the ends and the policy ---- *)

Hangup(c) ==
    /\ sess[c].at \in Active
    /\ \/ sess[c].client /\ Put(c, [sess[c] EXCEPT !.client = FALSE])
       \/ sess[c].up /\ Put(c, [sess[c] EXCEPT !.up = FALSE])

SetPolicy ==
    /\ allowed' = ~allowed
    /\ UNCHANGED <<listener, closed, gen, sess, slots, deleter, closer>>

Loop(k) == Listen(k) \/ AfterCancel(k) \/ Drain(k) \/ Done(k)
Negotiate(c) == mysqlGreetingTLS(c) \/ RequireTLS(c) \/ PostgresAnswer(c) \/ Relay(c) \/ NegotiationFails(c)
Session(c) ==
    handle(c) \/ OpenStream(c) \/ writeAll(c) \/ Negotiate(c) \/ copyStream(c) \/ SecondCopy(c) \/ Return(c)

Next ==
    \/ \E k \in Gens : CreateProxy(k) \/ Loop(k)
    \/ \E c \in Clients, k \in Gens : Dial(c, k)
    \/ \E c \in Clients : serve(c) \/ Session(c) \/ PolicyTick(c) \/ AfterFunc(c) \/ Hangup(c)
    \/ DeleteProxy \/ Deleted \/ GiveUp \/ Close \/ Closed \/ SetPolicy

Spec == Init /\ [][Next]_vars

(* ---- properties ---- *)

\* Every variable keeps its type.
TypeOK ==
    /\ listener \in Gens \cup {None} /\ closed \in BOOLEAN
    /\ gen \in [Gens -> Gen]
    /\ sess \in [Clients -> Sess]
    /\ slots \in 0..Slots
    /\ allowed \in BOOLEAN
    /\ deleter \in Gens \cup {None} /\ closer \in Gens \cup {None}

\* Every session under way holds one place and no place is lost.
SlotsAreHeld == slots = Cardinality({c \in Clients : sess[c].at \in Active})

\* "Disabling/deleting access closes pending negotiation and active relay
\* sessions": once a listener's done channel is closed its socket is closed and
\* none of its sessions holds an end open.
DoneMeansClosed ==
    \A k \in Gens : gen[k].at = "done" =>
        ~gen[k].ln /\ \A c \in Clients : sess[c].gen = k => ~sess[c].client /\ ~sess[c].up

\* The entry is never lost while its listener runs, whatever deletions overlap:
\* otherwise a second listener could be made that no deletion would find.
RunningListenersAreKnown ==
    \A k \in Gens : gen[k].at \in {"registered", "serving"} => listener = k

\* Nothing but TLS reaches the database after the negotiation.
OnlyTLSIsRelayed == \A c \in Clients : sess[c].sent => ~sess[c].plain

\* A deletion, and the gateway's Close, return although the sessions' peers
\* are silent.
Deleting(k) == deleter = k
Closing(k) == closer = k

\* A session whose source is no longer admitted ends, unless it is admitted
\* again.
SessionRevoked(c) == sess[c].at = "relaying" /\ ~allowed
SessionGone(c) == sess[c].at = "gone" \/ allowed

-----------------------------------------------------------------------------
(* Why the four invariants hold for any number of listeners, clients and   *)
(* places.                                                                 *)

\* None is the nil of a pointer.
ConstantsOK ==
    /\ None \notin Gens /\ Gens \subseteq Nat
    /\ IsFiniteSet(Clients) /\ Slots \in Nat

\* The socket of a listener object is open only while its loop accepts.
GenOK(g) == g.ln => g.at = "serving"

\* A session that has not begun or is over holds nothing; one in the queue has
\* a loop that accepts, and one under way has a loop that will wait for it.
SessOK(r) ==
    /\ r.at = "none" => ~r.client /\ ~r.up /\ ~r.sent
    /\ r.at = "gone" => ~r.client /\ ~r.up
    /\ r.at = "queued" => ~r.up /\ r.gen \in Gens /\ gen[r.gen].at = "serving"
    /\ r.at \in Active => r.gen \in Gens /\ gen[r.gen].at \in {"serving", "draining"}
    /\ r.at = "relaying" => r.copies = 2
    /\ r.sent => ~r.plain

\* The inductive invariant.
GatewayInv ==
    /\ TypeOK
    /\ SlotsAreHeld
    /\ RunningListenersAreKnown
    /\ \A k \in Gens : GenOK(gen[k])
    /\ \A c \in Clients : SessOK(sess[c])

LEMMA Parts ==
    ASSUME GatewayInv
    PROVE  /\ listener \in Gens \cup {None} /\ closed \in BOOLEAN
           /\ gen \in [Gens -> Gen] /\ sess \in [Clients -> Sess]
           /\ slots \in 0..Slots /\ allowed \in BOOLEAN
           /\ deleter \in Gens \cup {None} /\ closer \in Gens \cup {None}
           /\ \A k \in Gens : GenOK(gen[k])
           /\ \A c \in Clients : SessOK(sess[c])
           /\ \A k \in Gens : gen[k].at \in {"registered", "serving"} => listener = k
BY Zenon DEF GatewayInv, TypeOK, RunningListenersAreKnown

LEMMA InitGateway == ASSUME ConstantsOK, Init PROVE GatewayInv
<1>1. TypeOK
  <2>1. gen \in [Gens -> Gen]
    BY DEF Init, Gen
  <2>2. sess \in [Clients -> Sess]
    BY DEF Init, Sess, Stages
  <2>3. slots \in 0..Slots
    BY DEF Init, ConstantsOK
  <2>4. QED
    BY Zenon, <2>1, <2>2, <2>3 DEF Init, TypeOK
<1>2. {c \in Clients : sess[c].at \in Active} = {}
  BY DEF Init, Active
<1>3. SlotsAreHeld
  BY <1>2, FS_EmptySet DEF SlotsAreHeld, Init
<1>4. RunningListenersAreKnown /\ \A k \in Gens : GenOK(gen[k])
  BY DEF Init, RunningListenersAreKnown, GenOK
<1>5. \A c \in Clients : SessOK(sess[c])
  BY DEF Init, SessOK, Active
<1>6. QED
  BY Zenon, <1>1, <1>3, <1>4, <1>5 DEF GatewayInv

\* A step of one session that neither begins nor ends it.
LEMMA PutStep ==
    ASSUME GatewayInv, NEW c \in Clients, NEW r \in Sess, Put(c, r), SessOK(r),
           sess[c].at \in Active <=> r.at \in Active
    PROVE  GatewayInv'
<1>1. /\ sess' = [sess EXCEPT ![c] = r] /\ UNCHANGED <<listener, closed, gen>>
      /\ UNCHANGED <<slots, allowed, deleter, closer>>
  BY DEF Put, others
<1>2. sess' \in [Clients -> Sess] /\ \A d \in Clients : sess'[d] = IF d = c THEN r ELSE sess[d]
  BY <1>1, Parts
<1>3. {d \in Clients : sess'[d].at \in Active} = {d \in Clients : sess[d].at \in Active}
  BY Zenon, <1>2
<1>4. SlotsAreHeld'
  BY Zenon, <1>1, <1>3 DEF GatewayInv, SlotsAreHeld, Active
<1>5. ASSUME NEW d \in Clients PROVE SessOK(sess[d])'
  <2>1. PICK t : t = sess'[d] /\ (t = r \/ t = sess[d])
    BY Zenon, <1>2
  <2>2. SessOK(t)
    BY Zenon, <2>1, Parts
  <2>3. QED
    BY <1>1, <2>1, <2>2 DEF SessOK
<1>6. TypeOK' /\ RunningListenersAreKnown' /\ \A k \in Gens : GenOK(gen[k])'
  BY Zenon, <1>1, <1>2 DEF GatewayInv, TypeOK, RunningListenersAreKnown, GenOK
<1>7. QED
  BY Zenon, <1>4, <1>5, <1>6 DEF GatewayInv

\* A session under way stays under way, with the loop that waits for it.
LEMMA MoveStep ==
    ASSUME GatewayInv, NEW c \in Clients, sess[c].at \in Active,
           NEW r \in Sess, Put(c, r), r.at \in Active, r.gen = sess[c].gen,
           r.at = "relaying" => r.copies = 2, r.sent => ~r.plain
    PROVE  GatewayInv'
<1>1. r.gen \in Gens /\ gen[r.gen].at \in {"serving", "draining"}
  BY Zenon, Parts DEF SessOK
<1>2. r.at \notin {"none", "gone", "queued"}
  BY DEF Active
<1>3. SessOK(r)
  BY Zenon, <1>1, <1>2 DEF SessOK
<1>4. QED
  BY Zenon, <1>3, PutStep

LEMMA SessFacts ==
    ASSUME GatewayInv, NEW c \in Clients
    PROVE  /\ sess[c] \in Sess /\ (sess[c].sent => ~sess[c].plain)
           /\ sess[c].at = "relaying" => sess[c].copies = 2
BY Zenon, Parts DEF SessOK

LEMMA CopyRecords ==
    ASSUME NEW s \in Sess, NEW to \in Stages, NEW n \in 0..2
    PROVE  /\ [s EXCEPT !.at = to, !.copies = n] \in Sess
           /\ [s EXCEPT !.at = to, !.sent = TRUE, !.copies = n] \in Sess
           /\ [s EXCEPT !.at = to, !.client = FALSE, !.up = FALSE, !.copies = n] \in Sess
BY DEF Sess

\* The calls of handle up to the relay.
LEMMA NegotiateGateway ==
    ASSUME GatewayInv, NEW c \in Clients, handle(c) \/ OpenStream(c) \/ writeAll(c) \/ Negotiate(c)
    PROVE  GatewayInv'
<1>1. PICK s : s = sess[c] /\ s \in Sess /\ (s.sent => ~s.plain)
  BY Zenon, SessFacts
<1>2. s.at \in Active
  BY <1>1 DEF handle, OpenStream, writeAll, Negotiate, mysqlGreetingTLS, RequireTLS,
              PostgresAnswer, Relay, NegotiationFails, Active
<1>3. ASSUME NEW to \in Active \ {"relaying"}, NEW w \in BOOLEAN, NEW u \in BOOLEAN,
             Put(c, [s EXCEPT !.at = to, !.watched = w, !.up = u])
      PROVE  GatewayInv'
  <2>1. PICK r : r = [s EXCEPT !.at = to, !.watched = w, !.up = u]
    BY Zenon
  <2>2. /\ r \in Sess /\ r.at = to /\ r.gen = s.gen /\ r.sent = s.sent /\ r.plain = s.plain
    BY <1>1, <1>3, <2>1 DEF Sess, Stages, Active
  <2>3. QED
    BY Zenon, <1>1, <1>2, <1>3, <2>1, <2>2, MoveStep
<1>5. ASSUME NEW to \in Active \ {"relaying"}, Put(c, [s EXCEPT !.at = to])
      PROVE  GatewayInv'
  <2>1. [s EXCEPT !.at = to] = [s EXCEPT !.at = to, !.watched = s.watched, !.up = s.up]
    BY <1>1 DEF Sess
  <2>2. s.watched \in BOOLEAN /\ s.up \in BOOLEAN
    BY <1>1 DEF Sess
  <2>3. QED
    BY Zenon, <1>3, <1>5, <2>1, <2>2
<1>6. CASE handle(c)
  <2>1. CASE Put(c, [s EXCEPT !.at = "dialing", !.watched = TRUE])
    <3>1. [s EXCEPT !.at = "dialing", !.watched = TRUE]
            = [s EXCEPT !.at = "dialing", !.watched = TRUE, !.up = s.up] /\ s.up \in BOOLEAN
      BY <1>1 DEF Sess
    <3>2. "dialing" \in Active \ {"relaying"}
      BY DEF Active
    <3>3. QED
      BY Zenon, <1>3, <2>1, <3>1, <3>2
  <2>2. CASE Put(c, [s EXCEPT !.at = "returning"])
    BY <1>5, <2>2 DEF Active
  <2>3. QED
    BY Zenon, <1>1, <1>6, <2>1, <2>2 DEF handle
<1>7. CASE OpenStream(c)
  <2>1. CASE Put(c, [s EXCEPT !.at = "addressing", !.up = TRUE])
    <3>1. [s EXCEPT !.at = "addressing", !.up = TRUE]
            = [s EXCEPT !.at = "addressing", !.watched = s.watched, !.up = TRUE]
          /\ s.watched \in BOOLEAN
      BY <1>1 DEF Sess
    <3>2. "addressing" \in Active \ {"relaying"}
      BY DEF Active
    <3>3. QED
      BY Zenon, <1>3, <2>1, <3>1, <3>2
  <2>2. CASE Put(c, [s EXCEPT !.at = "returning"])
    BY <1>5, <2>2 DEF Active
  <2>3. QED
    BY Zenon, <1>1, <1>7, <2>1, <2>2 DEF OpenStream
<1>8. CASE writeAll(c) \/ mysqlGreetingTLS(c) \/ RequireTLS(c) \/ PostgresAnswer(c)
           \/ NegotiationFails(c)
  <2>1. PICK to \in {"greeting", "request", "answer", "hello", "returning"} :
                 Put(c, [s EXCEPT !.at = to])
    BY <1>1, <1>8 DEF writeAll, mysqlGreetingTLS, RequireTLS, PostgresAnswer, NegotiationFails
  <2>2. to \in Active \ {"relaying"}
    BY DEF Active
  <2>3. QED
    BY Zenon, <1>5, <2>1, <2>2
<1>9. CASE Relay(c)
  <2>1. CASE s.plain
    <3>1. Put(c, [s EXCEPT !.at = "returning"])
      BY Zenon, <1>1, <1>9, <2>1 DEF Relay
    <3>2. QED
      BY <1>5, <3>1 DEF Active
  <2>2. CASE ~s.plain
    <3>1. PICK r : r = [s EXCEPT !.at = "relaying", !.sent = TRUE, !.copies = 2]
      BY Zenon
    <3>2. Put(c, r)
      BY Zenon, <1>1, <1>9, <2>2, <3>1 DEF Relay
    <3>3. r.at = "relaying" /\ r.gen = s.gen /\ r.copies = 2 /\ r.plain = s.plain
      BY <1>1, <3>1 DEF Sess
    <3>4. r \in Sess
      <4>1. "relaying" \in Stages /\ 2 \in 0..2
        BY DEF Stages
      <4>2. QED
        BY Zenon, <1>1, <3>1, <4>1, CopyRecords
    <3>5. r.at \in Active
      BY <3>3 DEF Active
    <3>6. QED
      BY Zenon, <1>1, <1>2, <2>2, <3>2, <3>3, <3>4, <3>5, MoveStep
  <2>3. QED
    BY Zenon, <2>1, <2>2
<1>10. QED
  BY Zenon, <1>6, <1>7, <1>8, <1>9 DEF Negotiate

\* The policy's ticker, the closing of the ends and the end of the copies.
LEMMA EndGateway ==
    ASSUME GatewayInv, NEW c \in Clients,
           PolicyTick(c) \/ AfterFunc(c) \/ Hangup(c) \/ copyStream(c) \/ SecondCopy(c)
    PROVE  GatewayInv'
<1>1. PICK s : /\ s = sess[c] /\ s \in Sess /\ (s.sent => ~s.plain)
               /\ s.at = "relaying" => s.copies = 2
  BY Zenon, SessFacts
<1>2. s.at \in Active
  BY <1>1 DEF PolicyTick, AfterFunc, Hangup, copyStream, SecondCopy, Active
<1>3. ASSUME NEW ctx \in BOOLEAN, NEW client \in BOOLEAN, NEW up \in BOOLEAN,
             NEW r, r = [s EXCEPT !.ctx = ctx, !.client = client, !.up = up], Put(c, r)
      PROVE  GatewayInv'
  <2>1. /\ r \in Sess /\ r.at = s.at /\ r.gen = s.gen /\ r.sent = s.sent /\ r.plain = s.plain
        /\ r.copies = s.copies
    BY <1>1, <1>3 DEF Sess
  <2>2. QED
    BY Zenon, <1>1, <1>2, <1>3, <2>1, MoveStep
<1>4. s.ctx \in BOOLEAN /\ s.client \in BOOLEAN /\ s.up \in BOOLEAN
  BY <1>1 DEF Sess
<1>5. CASE PolicyTick(c)
  <2>1. [s EXCEPT !.ctx = FALSE] = [s EXCEPT !.ctx = FALSE, !.client = s.client, !.up = s.up]
    BY <1>1 DEF Sess
  <2>2. QED
    BY Zenon, <1>1, <1>3, <1>4, <1>5, <2>1 DEF PolicyTick
<1>6. CASE AfterFunc(c) \/ Hangup(c)
  <2>1. /\ [s EXCEPT !.client = FALSE, !.up = FALSE]
             = [s EXCEPT !.ctx = s.ctx, !.client = FALSE, !.up = FALSE]
        /\ [s EXCEPT !.client = FALSE] = [s EXCEPT !.ctx = s.ctx, !.client = FALSE, !.up = s.up]
        /\ [s EXCEPT !.up = FALSE] = [s EXCEPT !.ctx = s.ctx, !.client = s.client, !.up = FALSE]
    BY <1>1 DEF Sess
  <2>2. \/ Put(c, [s EXCEPT !.client = FALSE, !.up = FALSE])
        \/ Put(c, [s EXCEPT !.client = FALSE])
        \/ Put(c, [s EXCEPT !.up = FALSE])
    BY Zenon, <1>1, <1>6 DEF AfterFunc, Hangup
  <2>3. QED
    BY Zenon, <1>3, <1>4, <2>1, <2>2
<1>7. CASE copyStream(c) \/ SecondCopy(c)
  <2>1. PICK r : /\ Put(c, r)
                 /\ \/ /\ s.at = "relaying"
                       /\ r = [s EXCEPT !.at = "closing", !.client = FALSE, !.up = FALSE,
                                        !.copies = s.copies - 1]
                    \/ r = [s EXCEPT !.at = "returning", !.copies = 0]
    BY Zenon, <1>1, <1>7 DEF copyStream, SecondCopy
  <2>2. r.at \in {"closing", "returning"} /\ r.gen = s.gen /\ r.sent = s.sent /\ r.plain = s.plain
    BY <1>1, <2>1 DEF Sess
  <2>3. r \in Sess
    <3>1. "closing" \in Stages /\ "returning" \in Stages /\ 0 \in 0..2
      BY DEF Stages
    <3>2. s.at = "relaying" => s.copies - 1 \in 0..2
      BY <1>1
    <3>3. PICK n : n = s.copies - 1
      BY Zenon
    <3>4. CASE s.at = "relaying" /\ r = [s EXCEPT !.at = "closing", !.client = FALSE,
                                                  !.up = FALSE, !.copies = n]
      BY Zenon, <1>1, <3>1, <3>2, <3>3, <3>4, CopyRecords
    <3>5. CASE r = [s EXCEPT !.at = "returning", !.copies = 0]
      BY Zenon, <1>1, <3>1, <3>5, CopyRecords
    <3>6. QED
      BY Zenon, <2>1, <3>3, <3>4, <3>5
  <2>4. r.at \in Active /\ r.at # "relaying"
    BY <2>2 DEF Active
  <2>5. QED
    BY Zenon, <1>1, <1>2, <2>1, <2>2, <2>3, <2>4, MoveStep
<1>8. QED
  BY Zenon, <1>5, <1>6, <1>7

\* The sessions that hold a place, with one more or one less.
LEMMA Places ==
    ASSUME ConstantsOK, GatewayInv, NEW c \in Clients, NEW r \in Sess,
           sess' = [sess EXCEPT ![c] = r]
    PROVE  /\ sess[c].at \notin Active /\ r.at \in Active =>
                Cardinality({d \in Clients : sess'[d].at \in Active}) = slots + 1
           /\ sess[c].at \in Active /\ r.at \notin Active =>
                /\ Cardinality({d \in Clients : sess'[d].at \in Active}) = slots - 1
                /\ slots > 0
<1>1. PICK A : A = {d \in Clients : sess[d].at \in Active}
  BY Zenon
<1>2. PICK B : B = {d \in Clients : sess'[d].at \in Active}
  BY Zenon
<1>3. \A d \in Clients : sess'[d] = IF d = c THEN r ELSE sess[d]
  BY Parts
<1>4. A \subseteq Clients /\ IsFiniteSet(Clients) /\ slots = Cardinality(A)
  BY Zenon, <1>1 DEF ConstantsOK, GatewayInv, SlotsAreHeld
<1>5. IsFiniteSet(A)
  BY Zenon, <1>4, FS_Subset
<1>6. CASE sess[c].at \notin Active /\ r.at \in Active
  <2>1. B = A \cup {c} /\ c \notin A
    BY Zenon, <1>1, <1>2, <1>3, <1>6
  <2>2. QED
    BY <1>2, <1>4, <1>5, <1>6, <2>1, FS_AddElement
<1>7. CASE sess[c].at \in Active /\ r.at \notin Active
  <2>1. B = A \ {c} /\ c \in A
    BY Zenon, <1>1, <1>2, <1>3, <1>7
  <2>2. Cardinality(A) \in Nat /\ Cardinality(A) # 0 /\ Cardinality(B) = Cardinality(A) - 1
    BY <1>5, <2>1, FS_RemoveElement, FS_EmptySet, FS_CardinalityType
  <2>3. QED
    BY <1>2, <1>4, <1>7, <2>2
<1>8. QED
  BY Zenon, <1>6, <1>7

\* A step of one session that takes a place or gives it back.
LEMMA PlaceStep ==
    ASSUME GatewayInv, NEW c \in Clients, NEW r \in Sess, SessOK(r),
           sess' = [sess EXCEPT ![c] = r],
           slots' = Cardinality({d \in Clients : sess'[d].at \in Active}), slots' \in 0..Slots,
           UNCHANGED <<listener, closed, gen, allowed, deleter, closer>>
    PROVE  GatewayInv'
<1>1. UNCHANGED <<listener, closed, gen>> /\ UNCHANGED <<allowed, deleter, closer>>
  OBVIOUS
<1>2. sess' \in [Clients -> Sess] /\ \A d \in Clients : sess'[d] = IF d = c THEN r ELSE sess[d]
  BY Parts
<1>3. SlotsAreHeld'
  BY Zenon DEF SlotsAreHeld, Active
<1>4. ASSUME NEW d \in Clients PROVE SessOK(sess[d])'
  <2>1. PICK t : t = sess'[d] /\ (t = r \/ t = sess[d])
    BY Zenon, <1>2
  <2>2. SessOK(t)
    BY Zenon, <2>1, Parts
  <2>3. QED
    BY <1>1, <2>1, <2>2 DEF SessOK
<1>5. TypeOK' /\ RunningListenersAreKnown' /\ \A k \in Gens : GenOK(gen[k])'
  BY Zenon, <1>1, <1>2 DEF GatewayInv, TypeOK, RunningListenersAreKnown, GenOK
<1>6. QED
  BY Zenon, <1>3, <1>4, <1>5 DEF GatewayInv

LEMMA DialGateway ==
    ASSUME GatewayInv, NEW c \in Clients, NEW k \in Gens, Dial(c, k)
    PROVE  GatewayInv'
<1>1. PICK s : s = sess[c] /\ s \in Sess /\ s.at = "none" /\ ~s.sent /\ ~s.up
  BY Zenon, Parts DEF SessOK, Dial
<1>2. PICK p \in BOOLEAN : sess' = [sess EXCEPT ![c] =
                 [sess[c] EXCEPT !.at = "queued", !.gen = k, !.client = TRUE, !.plain = p]]
  BY DEF Dial
<1>3. PICK r : r = [s EXCEPT !.at = "queued", !.gen = k, !.client = TRUE, !.plain = p]
  BY Zenon
<1>4. r \in Sess /\ r.at = "queued" /\ r.gen = k /\ r.sent = s.sent /\ r.up = s.up
  BY <1>1, <1>3 DEF Sess, Stages
<1>5. gen[k].at = "serving"
  BY Zenon, Parts DEF GenOK, Dial
<1>6. Put(c, r)
  BY Zenon, <1>1, <1>2, <1>3 DEF Dial, Put
<1>7. r.at \notin Active /\ s.at \notin Active
  BY <1>1, <1>4 DEF Active
<1>8. SessOK(r)
  BY <1>1, <1>4, <1>5, <1>7 DEF SessOK
<1>9. QED
  BY Zenon, <1>1, <1>4, <1>6, <1>7, <1>8, PutStep

\* A place is taken only while one is free.
LEMMA ServeGateway ==
    ASSUME ConstantsOK, GatewayInv, NEW c \in Clients, serve(c)
    PROVE  GatewayInv'
<1>1. PICK s : /\ s = sess[c] /\ s \in Sess /\ s.at = "queued" /\ (s.sent => ~s.plain)
               /\ s.gen \in Gens /\ gen[s.gen].at = "serving"
  BY Zenon, Parts DEF SessOK, serve
<1>2. s.at \notin Active
  BY <1>1 DEF Active
<1>3. CASE slots < Slots
  <2>1. PICK r : r = [s EXCEPT !.at = "checking"]
    BY Zenon
  <2>2. /\ r \in Sess /\ r.at = "checking" /\ r.gen = s.gen /\ r.sent = s.sent
        /\ r.plain = s.plain
    BY <1>1, <2>1 DEF Sess, Stages
  <2>3. r.at \in Active
    BY <2>2 DEF Active
  <2>4. SessOK(r)
    BY <1>1, <2>2 DEF SessOK
  <2>5. /\ sess' = [sess EXCEPT ![c] = r] /\ slots' = slots + 1
        /\ UNCHANGED <<listener, closed, gen, allowed, deleter, closer>>
    BY <1>1, <1>3, <2>1 DEF serve
  <2>6. slots' \in 0..Slots
    BY <1>3, <2>5, Parts DEF ConstantsOK
  <2>7. slots' = Cardinality({d \in Clients : sess'[d].at \in Active})
    BY Zenon, <1>1, <1>2, <2>2, <2>3, <2>5, Places
  <2>8. QED
    BY Zenon, <2>2, <2>4, <2>5, <2>6, <2>7, PlaceStep
<1>4. CASE ~(slots < Slots)
  <2>1. PICK r : r = [s EXCEPT !.at = "gone", !.client = FALSE]
    BY Zenon
  <2>2. /\ r \in Sess /\ r.at = "gone" /\ ~r.client /\ r.up = s.up /\ r.sent = s.sent
        /\ r.plain = s.plain
    BY <1>1, <2>1 DEF Sess, Stages
  <2>3. r.at \notin Active
    BY <2>2 DEF Active
  <2>4. ~s.up
    BY Zenon, <1>1, Parts DEF SessOK
  <2>5. SessOK(r)
    BY Zenon, <1>1, <2>2, <2>3, <2>4 DEF SessOK
  <2>6. Put(c, r)
    BY <1>1, <1>4, <2>1 DEF serve, Put, others
  <2>7. QED
    BY Zenon, <1>1, <1>2, <2>2, <2>3, <2>5, <2>6, PutStep
<1>5. QED
  BY Zenon, <1>3, <1>4

\* The deferred calls give the place back.
LEMMA ReturnGateway ==
    ASSUME ConstantsOK, GatewayInv, NEW c \in Clients, Return(c)
    PROVE  GatewayInv'
<1>1. PICK s : s = sess[c] /\ s \in Sess /\ s.at = "returning" /\ (s.sent => ~s.plain)
  BY Zenon, SessFacts DEF Return
<1>2. PICK r : r = [s EXCEPT !.at = "gone", !.client = FALSE, !.up = FALSE, !.ctx = FALSE,
                             !.watched = FALSE]
  BY Zenon
<1>3. /\ r \in Sess /\ r.at = "gone" /\ ~r.client /\ ~r.up /\ r.sent = s.sent
      /\ r.plain = s.plain
  BY <1>1, <1>2 DEF Sess, Stages
<1>4. s.at \in Active /\ r.at \notin Active /\ r.at \notin {"none", "queued", "relaying"}
  BY <1>1, <1>3 DEF Active
<1>5. SessOK(r)
  BY Zenon, <1>1, <1>3, <1>4 DEF SessOK
<1>6. /\ sess' = [sess EXCEPT ![c] = r] /\ slots' = slots - 1
      /\ UNCHANGED <<listener, closed, gen, allowed, deleter, closer>>
  BY Zenon, <1>1, <1>2 DEF Return
<1>7. slots' = Cardinality({d \in Clients : sess'[d].at \in Active}) /\ slots > 0
  BY Zenon, <1>1, <1>3, <1>4, <1>6, Places
<1>8. slots' \in 0..Slots
  BY <1>6, <1>7, Parts DEF ConstantsOK
<1>9. QED
  BY Zenon, <1>3, <1>5, <1>6, <1>7, <1>8, PlaceStep

\* A step of one listener object under which the sessions keep their loop.
LEMMA GenStep ==
    ASSUME GatewayInv, NEW k \in Gens, NEW g \in Gen, gen' = [gen EXCEPT ![k] = g], GenOK(g),
           gen[k].at = "serving" => g.at = "serving",
           gen[k].at \in {"serving", "draining"} /\ Of(k) # {} => g.at \in {"serving", "draining"},
           RunningListenersAreKnown',
           listener' \in Gens \cup {None}, closed' \in BOOLEAN,
           deleter' \in Gens \cup {None}, closer' \in Gens \cup {None},
           UNCHANGED <<sess, slots, allowed>>
    PROVE  GatewayInv'
<1>1. UNCHANGED <<sess, slots, allowed>>
  OBVIOUS
<1>2. gen' \in [Gens -> Gen] /\ \A j \in Gens : gen'[j] = IF j = k THEN g ELSE gen[j]
  BY Parts
<1>3. TypeOK'
  BY Zenon, <1>1, <1>2, Parts DEF TypeOK
<1>4. SlotsAreHeld'
  BY Zenon, <1>1 DEF GatewayInv, SlotsAreHeld, Active
<1>5. ASSUME NEW j \in Gens PROVE GenOK(gen[j])'
  BY Zenon, <1>2, Parts DEF GenOK
<1>6. ASSUME NEW c \in Clients PROVE SessOK(sess[c])'
  <2>1. PICK s : s = sess[c] /\ s = sess'[c] /\ SessOK(s)
    BY Zenon, <1>1, Parts
  <2>2. s.at = "queued" => gen'[s.gen].at = "serving"
    BY Zenon, <1>2, <2>1 DEF SessOK
  <2>3. s.at \in Active => gen'[s.gen].at \in {"serving", "draining"}
    <3>1. s.at \in Active /\ s.gen = k => Of(k) # {}
      BY Zenon, <2>1 DEF Of
    <3>2. QED
      BY Zenon, <1>2, <2>1, <3>1 DEF SessOK
  <2>4. QED
    BY <2>1, <2>2, <2>3 DEF SessOK
<1>7. QED
  BY Zenon, <1>3, <1>4, <1>5, <1>6 DEF GatewayInv

LEMMA CreateGateway ==
    ASSUME ConstantsOK, GatewayInv, NEW k \in Gens, CreateProxy(k)
    PROVE  GatewayInv'
<1>1. PICK g : g = [gen[k] EXCEPT !.at = "registered"]
  BY Zenon
<1>2. gen[k] \in Gen /\ gen[k].at = "none" /\ ~gen[k].ln
  BY Parts DEF CreateProxy, GenOK
<1>3. g \in Gen /\ g.at = "registered" /\ g.ln = gen[k].ln
  BY <1>1, <1>2 DEF Gen
<1>4. /\ gen' = [gen EXCEPT ![k] = g] /\ UNCHANGED <<sess, slots, allowed>> /\ GenOK(g)
      /\ listener' = k /\ listener = None /\ UNCHANGED <<closed, deleter, closer>>
  BY <1>1, <1>2, <1>3 DEF CreateProxy, others, GenOK
<1>5. \A j \in Gens : gen'[j] = IF j = k THEN g ELSE gen[j]
  BY <1>4, Parts
<1>6. RunningListenersAreKnown'
  BY Zenon, <1>4, <1>5, Parts DEF RunningListenersAreKnown, ConstantsOK
<1>7. QED
  BY <1>2, <1>3, <1>4, <1>6, Parts, GenStep

\* When the socket cannot be opened the entry goes with its listener object.
LEMMA ListenGateway ==
    ASSUME ConstantsOK, GatewayInv, NEW k \in Gens, Listen(k)
    PROVE  GatewayInv'
<1>1. gen[k] \in Gen /\ gen[k].at = "registered" /\ ~gen[k].ln /\ listener = k
  BY Zenon, Parts DEF Listen, GenOK
<1>2. /\ UNCHANGED <<sess, slots, allowed>> /\ UNCHANGED <<closed, deleter, closer>>
      /\ closed' \in BOOLEAN /\ deleter' \in Gens \cup {None} /\ closer' \in Gens \cup {None}
  BY Parts DEF Listen, others
<1>3. CASE gen' = [gen EXCEPT ![k].at = "serving", ![k].ln = TRUE] /\ UNCHANGED listener
  <2>1. PICK g : g = [gen[k] EXCEPT !.at = "serving", !.ln = TRUE]
    BY Zenon
  <2>2. g \in Gen /\ g.at = "serving" /\ g.ln
    BY <1>1, <2>1 DEF Gen
  <2>3. gen' = [gen EXCEPT ![k] = g] /\ GenOK(g) /\ listener' = listener
    BY <1>3, <2>1, <2>2 DEF GenOK
  <2>4. \A j \in Gens : gen'[j] = IF j = k THEN g ELSE gen[j]
    BY <2>3, Parts
  <2>5. RunningListenersAreKnown'
    BY Zenon, <1>1, <2>3, <2>4, Parts DEF RunningListenersAreKnown
  <2>6. QED
    BY <1>1, <1>2, <2>2, <2>3, <2>5, GenStep
<1>4. CASE gen' = [gen EXCEPT ![k].at = "done", ![k].ctx = FALSE] /\ listener' = None
  <2>1. PICK g : g = [gen[k] EXCEPT !.at = "done", !.ctx = FALSE]
    BY Zenon
  <2>2. g \in Gen /\ g.at = "done" /\ g.ln = gen[k].ln
    BY <1>1, <2>1 DEF Gen
  <2>3. gen' = [gen EXCEPT ![k] = g] /\ GenOK(g) /\ listener' \in Gens \cup {None}
    BY <1>1, <1>4, <2>1, <2>2 DEF GenOK
  <2>4. \A j \in Gens : gen'[j] = IF j = k THEN g ELSE gen[j]
    BY <2>3, Parts
  <2>5. g.at \notin {"registered", "serving"}
    BY <2>2
  <2>6. RunningListenersAreKnown'
    BY Zenon, <1>1, <2>4, <2>5, Parts DEF RunningListenersAreKnown
  <2>7. QED
    BY <1>1, <1>2, <2>2, <2>3, <2>6, GenStep
<1>5. QED
  BY Zenon, <1>3, <1>4 DEF Listen

\* A listener object is cancelled, its socket closed: its place stays.
LEMMA CancelGateway ==
    ASSUME GatewayInv, NEW k \in Gens, NEW g \in Gen, gen' = [gen EXCEPT ![k] = g],
           g.at = gen[k].at, g.ln => gen[k].ln, UNCHANGED <<listener, sess, slots, allowed>>,
           closed' \in BOOLEAN, deleter' \in Gens \cup {None}, closer' \in Gens \cup {None}
    PROVE  GatewayInv'
<1>1. GenOK(g)
  BY Zenon, Parts DEF GenOK
<1>2. \A j \in Gens : gen'[j] = IF j = k THEN g ELSE gen[j]
  BY Parts
<1>3. UNCHANGED listener /\ listener' \in Gens \cup {None} /\ UNCHANGED <<sess, slots, allowed>>
  BY Parts
<1>4. RunningListenersAreKnown'
  BY Zenon, <1>2, <1>3, Parts DEF RunningListenersAreKnown
<1>5. QED
  BY Zenon, <1>1, <1>3, <1>4, GenStep

LEMMA StopGateway ==
    ASSUME ConstantsOK, GatewayInv,
           DeleteProxy \/ Close \/ \E k \in Gens : AfterCancel(k)
    PROVE  GatewayInv'
<1>1. CASE \E k \in Gens : AfterCancel(k)
  <2>1. PICK k \in Gens : AfterCancel(k)
    BY <1>1
  <2>2. PICK g : g = [gen[k] EXCEPT !.ln = FALSE]
    BY Zenon
  <2>3. g \in Gen /\ g.at = gen[k].at /\ ~g.ln
    BY <2>2, Parts DEF Gen
  <2>4. /\ gen' = [gen EXCEPT ![k] = g] /\ UNCHANGED <<listener, sess, slots, allowed>>
        /\ closed' \in BOOLEAN /\ deleter' \in Gens \cup {None} /\ closer' \in Gens \cup {None}
    BY <2>1, <2>2, Parts DEF AfterCancel, others
  <2>5. QED
    BY Zenon, <2>3, <2>4, CancelGateway
<1>2. CASE (DeleteProxy \/ Close) /\ listener # None
  <2>1. listener \in Gens
    BY Zenon, <1>2, Parts
  <2>2. PICK k \in Gens : k = listener
    BY Zenon, <2>1
  <2>3. PICK g : g = [gen[k] EXCEPT !.ctx = FALSE]
    BY Zenon
  <2>4. g \in Gen /\ g.at = gen[k].at /\ g.ln = gen[k].ln
    BY <2>3, Parts DEF Gen
  <2>5. /\ gen' = [gen EXCEPT ![k] = g] /\ UNCHANGED <<listener, sess, slots, allowed>>
        /\ closed' \in BOOLEAN /\ deleter' \in Gens \cup {None} /\ closer' \in Gens \cup {None}
    BY <1>2, <2>2, <2>3, Parts DEF DeleteProxy, Close
  <2>6. QED
    BY Zenon, <2>4, <2>5, CancelGateway
<1>3. CASE Close /\ listener = None
  <2>1. UNCHANGED <<gen, sess, slots, listener>> /\ TypeOK'
    BY <1>3, Parts DEF Close, TypeOK
  <2>2. UNCHANGED <<gen, sess, slots, listener>>
    BY <2>1
  <2>3. SlotsAreHeld' /\ RunningListenersAreKnown' /\ \A k \in Gens : GenOK(gen[k])'
    BY Zenon, <2>2 DEF GatewayInv, SlotsAreHeld, RunningListenersAreKnown, GenOK, Active
  <2>4. \A c \in Clients : SessOK(sess[c])'
    BY <2>2, Parts DEF SessOK
  <2>5. QED
    BY Zenon, <2>1, <2>3, <2>4 DEF GatewayInv
<1>4. QED
  BY Zenon, <1>1, <1>2, <1>3 DEF DeleteProxy

\* The loop ends: the connections in its queue are closed, its sessions stay.
LEMMA DrainGateway ==
    ASSUME GatewayInv, NEW k \in Gens, Drain(k)
    PROVE  GatewayInv'
<1>1. PICK g : g = [gen[k] EXCEPT !.at = "draining", !.ctx = FALSE]
  BY Zenon
<1>2. gen[k] \in Gen /\ gen[k].at = "serving" /\ ~gen[k].ln
  BY Zenon, Parts DEF Drain
<1>3. g \in Gen /\ g.at = "draining" /\ g.ln = gen[k].ln
  BY <1>1, <1>2 DEF Gen
<1>4. gen' = [gen EXCEPT ![k] = g]
  BY Zenon, <1>1 DEF Drain
<1>5. UNCHANGED <<listener, closed>> /\ UNCHANGED <<slots, allowed, deleter, closer>>
  BY DEF Drain, others
<1>6. gen' \in [Gens -> Gen] /\ \A j \in Gens : gen'[j] = IF j = k THEN g ELSE gen[j]
  BY <1>3, <1>4, Parts
<1>7. ASSUME NEW c \in Clients
      PROVE  /\ sess'[c] \in Sess /\ SessOK(sess[c])'
             /\ sess'[c].at \in Active <=> sess[c].at \in Active
  <2>1. PICK s : s = sess[c] /\ s \in Sess /\ SessOK(s)
    BY Zenon, Parts
  <2>2. PICK r : r = sess'[c] /\ r = IF s.at = "queued" /\ s.gen = k
                                     THEN [s EXCEPT !.at = "gone", !.client = FALSE] ELSE s
    BY Zenon, <2>1 DEF Drain
  <2>3. CASE s.at = "queued" /\ s.gen = k
    <3>1. /\ r \in Sess /\ r.at = "gone" /\ ~r.client /\ r.up = s.up /\ r.sent = s.sent
          /\ r.plain = s.plain
      BY <2>1, <2>2, <2>3 DEF Sess, Stages
    <3>2. r.at \notin Active /\ s.at \notin Active /\ r.at \notin {"none", "queued", "relaying"}
      BY <2>3, <3>1 DEF Active
    <3>3. ~r.up /\ (r.sent => ~r.plain)
      BY Zenon, <2>1, <2>3, <3>1 DEF SessOK
    <3>4. QED
      BY <2>1, <2>2, <3>1, <3>2, <3>3 DEF SessOK
  <2>4. CASE ~(s.at = "queued" /\ s.gen = k)
    <3>1. r = s
      BY Zenon, <2>2, <2>4
    <3>2. s.at = "queued" => gen'[s.gen].at = "serving"
      BY Zenon, <1>6, <2>1, <2>4 DEF SessOK
    <3>3. s.at \in Active => gen'[s.gen].at \in {"serving", "draining"}
      BY Zenon, <1>3, <1>6, <2>1 DEF SessOK
    <3>4. QED
      BY <2>1, <2>2, <3>1, <3>2, <3>3 DEF SessOK
  <2>5. QED
    BY Zenon, <2>3, <2>4
<1>8. sess' \in [Clients -> Sess]
  BY <1>7 DEF Drain
<1>9. {c \in Clients : sess'[c].at \in Active} = {c \in Clients : sess[c].at \in Active}
  BY Zenon, <1>7
<1>10. SlotsAreHeld'
  BY Zenon, <1>5, <1>9 DEF GatewayInv, SlotsAreHeld, Active
<1>11. RunningListenersAreKnown'
  <2>1. g.at \notin {"registered", "serving"}
    BY <1>3
  <2>2. QED
    BY Zenon, <1>5, <1>6, <2>1, Parts DEF RunningListenersAreKnown
<1>12. \A j \in Gens : GenOK(gen[j])'
  BY Zenon, <1>2, <1>3, <1>6, Parts DEF GenOK
<1>13. TypeOK'
  BY Zenon, <1>5, <1>6, <1>8, Parts DEF TypeOK
<1>14. QED
  BY Zenon, <1>7, <1>10, <1>11, <1>12, <1>13 DEF GatewayInv

\* The done channel is closed when no session of the loop is under way.
LEMMA DoneGateway ==
    ASSUME GatewayInv, NEW k \in Gens, Done(k)
    PROVE  GatewayInv'
<1>1. PICK g : g = [gen[k] EXCEPT !.at = "done"]
  BY Zenon
<1>2. gen[k] \in Gen /\ gen[k].at = "draining" /\ ~gen[k].ln /\ Of(k) = {}
  BY Parts DEF Done, GenOK
<1>3. g \in Gen /\ g.at = "done" /\ g.ln = gen[k].ln
  BY <1>1, <1>2 DEF Gen
<1>4. /\ gen' = [gen EXCEPT ![k] = g] /\ GenOK(g) /\ UNCHANGED <<sess, slots, allowed>>
      /\ listener' = listener /\ listener' \in Gens \cup {None} /\ closed' \in BOOLEAN
      /\ deleter' \in Gens \cup {None} /\ closer' \in Gens \cup {None}
  BY <1>1, <1>2, <1>3, Parts DEF Done, others, GenOK
<1>5. \A j \in Gens : gen'[j] = IF j = k THEN g ELSE gen[j]
  BY <1>4, Parts
<1>6. g.at \notin {"registered", "serving"}
  BY <1>3
<1>7. RunningListenersAreKnown'
  BY Zenon, <1>4, <1>5, <1>6, Parts DEF RunningListenersAreKnown
<1>8. QED
  BY <1>2, <1>3, <1>4, <1>7, GenStep

\* A deletion that returns, or gives up, removes its own entry or none.
LEMMA WaitGateway ==
    ASSUME GatewayInv, Deleted \/ GiveUp \/ Closed \/ SetPolicy \/ UNCHANGED vars
    PROVE  GatewayInv'
<1>1. UNCHANGED <<gen, sess, slots>>
  BY DEF Deleted, GiveUp, Closed, SetPolicy, vars
<1>2. TypeOK'
  BY Parts DEF Deleted, GiveUp, Closed, SetPolicy, vars, TypeOK
<1>3. \/ UNCHANGED listener
      \/ deleter # None /\ gen[deleter].at = "done" /\ listener = deleter
  BY DEF Deleted, GiveUp, Closed, SetPolicy, vars
<1>4. RunningListenersAreKnown'
  BY <1>1, <1>3, Parts DEF RunningListenersAreKnown
<1>5. SlotsAreHeld' /\ \A k \in Gens : GenOK(gen[k])'
  BY Zenon, <1>1 DEF GatewayInv, SlotsAreHeld, GenOK, Active
<1>6. \A c \in Clients : SessOK(sess[c])'
  BY <1>1, Parts DEF SessOK
<1>7. QED
  BY Zenon, <1>2, <1>4, <1>5, <1>6 DEF GatewayInv

LEMMA NextGateway ==
    ASSUME ConstantsOK, GatewayInv, [Next]_vars
    PROVE  GatewayInv'
<1>1. ASSUME NEW k \in Gens, CreateProxy(k) \/ Loop(k) PROVE GatewayInv'
  BY Zenon, <1>1, CreateGateway, ListenGateway, StopGateway, DrainGateway, DoneGateway DEF Loop
<1>2. ASSUME NEW c \in Clients, NEW k \in Gens, Dial(c, k) PROVE GatewayInv'
  BY Zenon, <1>2, DialGateway
<1>3. ASSUME NEW c \in Clients, serve(c) \/ Session(c) \/ PolicyTick(c) \/ AfterFunc(c) \/ Hangup(c)
      PROVE  GatewayInv'
  BY Zenon, <1>3, ServeGateway, NegotiateGateway, EndGateway, ReturnGateway DEF Session
<1>4. CASE DeleteProxy \/ Close
  BY Zenon, <1>4, StopGateway
<1>5. CASE Deleted \/ GiveUp \/ Closed \/ SetPolicy \/ UNCHANGED vars
  BY Zenon, <1>5, WaitGateway
<1>6. QED
  BY Zenon, <1>1, <1>2, <1>3, <1>4, <1>5 DEF Next

\* For any number of listener objects, clients and places, every interleaving
\* of creation, deletion, shutdown, accepting, negotiation, relay and policy
\* checks keeps the invariant.
THEOREM GatewayInvariance ==
    ASSUME ConstantsOK PROVE Spec => []GatewayInv
<1>1. Init => GatewayInv
  BY Zenon, InitGateway
<1>2. GatewayInv /\ [Next]_vars => GatewayInv'
  BY Zenon, NextGateway
<1>3. QED
  BY <1>1, <1>2, PTL DEF Spec

\* For every instance the places of Gateway.slots that are taken are exactly
\* the sessions under way: none is lost on any way out of handle.
THEOREM PlacesAreNotLost ==
    ASSUME ConstantsOK PROVE Spec => []SlotsAreHeld
<1>1. GatewayInv => SlotsAreHeld
  BY Zenon DEF GatewayInv
<1>2. QED
  BY <1>1, GatewayInvariance, PTL

\* For every instance, once a listener's done channel is closed, which is when
\* DeleteProxy returns nil, its socket and its sessions' ends are closed.
THEOREM DeletedIsClosed ==
    ASSUME ConstantsOK PROVE Spec => []DoneMeansClosed
<1>1. GatewayInv => DoneMeansClosed
  <2>1. SUFFICES ASSUME GatewayInv, NEW k \in Gens, gen[k].at = "done"
                 PROVE  ~gen[k].ln /\ \A c \in Clients : sess[c].gen = k => ~sess[c].client /\ ~sess[c].up
    BY Zenon DEF DoneMeansClosed
  <2>2. ~gen[k].ln
    BY <2>1, Parts DEF GenOK
  <2>3. ASSUME NEW c \in Clients, sess[c].gen = k PROVE ~sess[c].client /\ ~sess[c].up
    <3>1. sess[c] \in Sess /\ SessOK(sess[c])
      BY Zenon, <2>1, Parts
    <3>2. sess[c].at \in {"none", "queued", "gone"} \cup Active
      BY <3>1 DEF Sess, Stages, Active
    <3>3. sess[c].at \in {"none", "gone"}
      BY <2>1, <2>3, <3>1, <3>2 DEF SessOK
    <3>4. QED
      BY Zenon, <3>1, <3>3 DEF SessOK
  <2>4. QED
    BY Zenon, <2>2, <2>3
<1>2. QED
  BY <1>1, GatewayInvariance, PTL

\* For every instance a listener that runs has its entry in Gateway.listeners,
\* so that at most one runs and a deletion finds it, and nothing but TLS is
\* relayed to a database.
THEOREM ListenersKnownAndTLSOnly ==
    ASSUME ConstantsOK PROVE Spec => [](RunningListenersAreKnown /\ OnlyTLSIsRelayed)
<1>1. GatewayInv => RunningListenersAreKnown /\ OnlyTLSIsRelayed
  BY Zenon DEF GatewayInv, SessOK, OnlyTLSIsRelayed
<1>2. QED
  BY <1>1, GatewayInvariance, PTL
================================================================================
