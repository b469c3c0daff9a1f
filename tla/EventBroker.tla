------------------------------ MODULE EventBroker ------------------------------
(***************************************************************************)
(* Live events of the agent runtime (agent/runtime/events.go) and the      *)
(* server-sent event handler that streams them (web/agent_http.go).  A     *)
(* publisher must never wait for a browser: the channel of a slow          *)
(* subscriber is closed.  Three parties may end a subscription: Publish,   *)
(* the handler's deferred Close, and the goroutine that watches the        *)
(* request's context.                                                      *)
(***************************************************************************)
EXTENDS Naturals, Sequences, SequencesExt

CONSTANTS Clients, Sessions, BufferSize, MaxID

VARIABLES
    nextID,       \* EventBroker.nextID, shared by events and subscriptions
    subscribers,  \* clients in EventBroker.subscribers
    log,          \* the events published: <<sequence, session>>
    chan,         \* the channels of each client's subscription
    client,       \* the handler of each client
    written,      \* the events written to each client
    may,          \* clients whose user may read the session
    revoked,      \* nextID when the permission was last withdrawn
    panicked      \* a closed channel was closed again or sent to

vars == <<nextID, subscribers, log, chan, client, written, may, revoked, panicked>>

Chan == [events: Seq(1..MaxID), open: BOOLEAN, done: {"open", "ended", "slow"}]
Client == [at: {"idle", "restored", "waiting", "taken", "checked", "closing", "ended"},
           session: Sessions, sub: 0..MaxID, event: 0..MaxID, gone: BOOLEAN,
           watcher: {"none", "watching", "cancelling", "ended"}, once: BOOLEAN]

Init ==
    /\ nextID = 0
    /\ subscribers = {}
    /\ log = <<>>
    /\ chan = [c \in Clients |-> [events |-> <<>>, open |-> TRUE, done |-> "open"]]
    /\ client \in {[c \in Clients |-> [at |-> "idle", session |-> f[c], sub |-> 0, event |-> 0,
                      gone |-> FALSE, watcher |-> "none", once |-> FALSE]] : f \in [Clients -> Sessions]}
    /\ written = [c \in Clients |-> <<>>]
    /\ may = Clients
    /\ revoked = [c \in Clients |-> 0]
    /\ panicked = FALSE

broker == <<nextID, subscribers, log, chan, panicked>>
perms == <<may, revoked>>

\* A subscriber that is no longer in the map is left alone.
removeSubscriberLocked(cs, reason) ==
    LET rs == cs \cap subscribers
    IN  /\ subscribers' = subscribers \ rs
        /\ chan' = [c \in Clients |-> IF c \in rs THEN [chan[c] EXCEPT !.open = FALSE, !.done = reason]
                                                  ELSE chan[c]]
        /\ panicked' = (panicked \/ \E c \in rs : ~chan[c].open)

\* Mutant of Publish: a subscriber with a full channel loses the event.
dropsForSlow(s) ==
    LET id == nextID + 1
        ready == {c \in subscribers : client[c].session = s /\ Len(chan[c].events) < BufferSize}
    IN  /\ id \in 1..MaxID
        /\ nextID' = id
        /\ log' = Append(log, <<id, s>>)
        /\ chan' = [c \in Clients |-> IF c \in ready THEN [chan[c] EXCEPT !.events = Append(@, id)]
                                                     ELSE chan[c]]
        /\ UNCHANGED <<subscribers, panicked, client, written, perms>>

\* Mutant of Publish: the event is numbered one ahead and reaches nobody.
reusesSequence(s) ==
    LET id == nextID + 1
    IN  /\ nextID < MaxID
        /\ nextID' = id
        /\ log' = Append(log, <<id + 1, s>>)
        /\ UNCHANGED <<subscribers, chan, panicked, client, written, perms>>

\* A subscriber without room is removed, the others get the event.
Publish(s) ==
    LET id == nextID + 1
        reached == {c \in subscribers : client[c].session = s}
        slow == {c \in reached : Len(chan[c].events) >= BufferSize}
    IN  /\ id \in 1..MaxID
        /\ nextID' = id
        /\ log' = Append(log, <<id, s>>)
        /\ subscribers' = subscribers \ slow
        /\ chan' = [c \in Clients |->
                      IF c \in slow THEN [chan[c] EXCEPT !.open = FALSE, !.done = "slow"]
                      ELSE IF c \in reached THEN [chan[c] EXCEPT !.events = Append(@, id)]
                      ELSE chan[c]]
        /\ panicked' = (panicked \/ \E c \in reached : ~chan[c].open)
        /\ UNCHANGED <<client, written, perms>>

\* GetSession: the client reads the stored session before it subscribes.
handleAgentSessionEventsHTTP(c) ==
    /\ client[c].at = "idle"
    /\ client' = [client EXCEPT ![c].at = IF c \in may THEN "restored" ELSE "ended"]
    /\ UNCHANGED <<broker, written, perms>>

Subscribe(c) ==
    /\ client[c].at = "restored"
    /\ nextID < MaxID
    /\ IF client[c].gone
       THEN /\ client' = [client EXCEPT ![c].at = "ended"]
            /\ UNCHANGED <<nextID, subscribers>>
       ELSE /\ nextID' = nextID + 1
            /\ subscribers' = subscribers \cup {c}
            /\ client' = [client EXCEPT ![c].at = "waiting", ![c].sub = nextID + 1,
                                        ![c].watcher = "watching"]
    /\ UNCHANGED <<log, chan, panicked, written, perms>>

\* The select of the streaming loop: an event, the closed channel, the
\* keep-alive tick, or the end of the request.
TakeEvent(c) ==
    /\ client[c].at = "waiting"
    /\ IF chan[c].events # <<>>
       THEN /\ client' = [client EXCEPT ![c].at = "taken", ![c].event = Head(chan[c].events)]
            /\ chan' = [chan EXCEPT ![c].events = Tail(@)]
       ELSE /\ ~chan[c].open
            /\ client' = [client EXCEPT ![c].at = "closing"]
            /\ UNCHANGED chan
    /\ UNCHANGED <<nextID, subscribers, log, panicked, written, perms>>

KeepAlive(c) ==
    /\ client[c].at = "waiting"
    /\ c \notin may
    /\ client' = [client EXCEPT ![c].at = "closing"]
    /\ UNCHANGED <<broker, written, perms>>

RequestDone(c) ==
    /\ client[c].at = "waiting"
    /\ client[c].gone
    /\ client' = [client EXCEPT ![c].at = "closing"]
    /\ UNCHANGED <<broker, written, perms>>

\* AuthorizeSession, before every event.
checkAccess(c) ==
    /\ client[c].at = "taken"
    /\ client' = [client EXCEPT ![c].at = IF c \in may THEN "checked" ELSE "closing"]
    /\ UNCHANGED <<broker, written, perms>>

\* The write fails when the client is gone.
writeAgentSSE(c) ==
    /\ client[c].at = "checked"
    /\ \/ /\ client' = [client EXCEPT ![c].at = "waiting"]
          /\ written' = [written EXCEPT ![c] = Append(@, client[c].event)]
       \/ /\ client[c].gone
          /\ client' = [client EXCEPT ![c].at = "closing"]
          /\ UNCHANGED written
    /\ UNCHANGED <<broker, perms>>

\* The deferred Close; once.Do runs the removal for one of the two callers.
CloseSubscription(c) ==
    /\ client[c].at = "closing"
    /\ client' = [client EXCEPT ![c].at = "ended", ![c].once = TRUE]
    /\ IF client[c].once THEN UNCHANGED <<subscribers, chan, panicked>>
                         ELSE removeSubscriberLocked({c}, "ended")
    /\ UNCHANGED <<nextID, log, written, perms>>

\* The goroutine that Subscribe starts: either channel may be ready.
Watch(c) ==
    /\ client[c].watcher = "watching"
    /\ \/ client[c].gone /\ client' = [client EXCEPT ![c].watcher = "cancelling"]
       \/ ~chan[c].open /\ client' = [client EXCEPT ![c].watcher = "ended"]
    /\ UNCHANGED <<broker, written, perms>>

WatcherCancels(c) ==
    /\ client[c].watcher = "cancelling"
    /\ client' = [client EXCEPT ![c].watcher = "ended", ![c].once = TRUE]
    /\ IF client[c].once THEN UNCHANGED <<subscribers, chan, panicked>>
                         ELSE removeSubscriberLocked({c}, "ended")
    /\ UNCHANGED <<nextID, log, written, perms>>

\* The browser goes away; the context of a request that returned is done too.
Disconnect(c) ==
    /\ ~client[c].gone
    /\ client[c].at # "idle"
    /\ client' = [client EXCEPT ![c].gone = TRUE]
    /\ UNCHANGED <<broker, written, perms>>

SetPermission(c) ==
    /\ may' = IF c \in may THEN may \ {c} ELSE may \cup {c}
    /\ revoked' = [revoked EXCEPT ![c] = IF c \in may THEN nextID ELSE @]
    /\ UNCHANGED <<broker, client, written>>

Handler(c) ==
    \/ handleAgentSessionEventsHTTP(c) \/ Subscribe(c) \/ TakeEvent(c) \/ RequestDone(c)
    \/ checkAccess(c) \/ CloseSubscription(c)
Watcher(c) == Watch(c) \/ WatcherCancels(c)

Next ==
    \/ \E s \in Sessions : Publish(s)
    \/ \E c \in Clients : Handler(c) \/ writeAgentSSE(c) \/ KeepAlive(c) \/ Watcher(c) \/ Disconnect(c) \/ SetPermission(c)

Spec == Init /\ [][Next]_vars

\* net/http cancels the context of a request whose handler has returned.
ContextEnds(c) == client[c].at = "ended" /\ Disconnect(c)

(* ---- properties ---- *)

\* Every variable keeps its type.
TypeOK ==
    /\ nextID \in 0..MaxID
    /\ subscribers \subseteq Clients
    /\ log \in Seq((1..MaxID) \X Sessions)
    /\ chan \in [Clients -> Chan]
    /\ client \in [Clients -> Client]
    /\ written \in [Clients -> Seq(1..MaxID)]
    /\ may \subseteq Clients
    /\ revoked \in [Clients -> 0..MaxID]
    /\ panicked \in BOOLEAN

\* Publish, the handler's Close and the context watcher never close a channel
\* twice and never send to a closed one, in whatever order they come.
NoDoubleClose == ~panicked

\* The events of a session since the client subscribed.
Since(c) ==
    LET own == SelectSeq(log, LAMBDA e : e[2] = client[c].session /\ e[1] > client[c].sub)
    IN  [i \in DOMAIN own |-> own[i][1]]
Received(c) ==
    written[c] \o (IF client[c].at \in {"taken", "checked"} THEN <<client[c].event>> ELSE <<>>)
               \o chan[c].events

\* While a client is subscribed it misses nothing: what it was sent, what its
\* handler holds and what its channel buffers are together all the events of
\* the session since Subscribe, in order.  A client that was removed has a
\* prefix of them: a slow client loses the tail of a stream, never its middle.
StreamHasNoHoles ==
    \A c \in Clients : client[c].sub > 0 =>
        /\ c \in subscribers /\ client[c].at \in {"waiting", "taken", "checked"} =>
             Received(c) = Since(c)
        /\ IsPrefix(written[c], Since(c))

\* No event published after the permission was withdrawn is written while it
\* stays withdrawn: the handler checks again for every event.
RevokedClientSeesNothingNew ==
    \A c \in Clients \ may : \A i \in DOMAIN written[c] : written[c][i] <= revoked[c]

\* A client that disconnects is unsubscribed, and the goroutine that watched
\* its request ends, even if the handler is stuck.
ClientGone(c) == client[c].gone /\ client[c].sub > 0
ClientRemoved(c) == c \notin subscribers /\ client[c].watcher = "ended"
================================================================================
