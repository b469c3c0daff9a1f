--------------------------------- MODULE AIRelay ---------------------------------
(***************************************************************************)
(* How upstream's answer reaches the client: RelaySSE, relayOllama and     *)
(* RelayMessagesSSE for streams, RewriteJSON and its relatives for a JSON  *)
(* answer, and the end of handleAIInference.  Upstream may send anything,  *)
(* break off at any point, and the client may go away.                     *)
(***************************************************************************)
EXTENDS Naturals

CONSTANTS
    Counts,       \* token counts upstream may report
    MaxEvents,    \* events of a stream
    None

Protocols == {"openai", "anthropic", "messages", "ollama"}

\* The events each protocol tells apart; "bad" is what none of them accepts.
Kinds(p) ==
    CASE p = "openai" -> {"chunk", "done", "bad"}
      [] p = "ollama" -> {"record", "last", "bad"}
      [] OTHER -> {"ping", "start", "block", "end", "stop", "bad"}

VARIABLES
    protocol, stream,
    started, finished,    \* locals of the relay
    usage,                \* [input, output, complete]
    client,               \* what the client has: [frames, done, error]
    told,                 \* ghost: the counts upstream reported last
    over,                 \* ghost: upstream has ended its answer properly
    at, status, events

vars == <<protocol, stream, started, finished, usage, client, told, over, at, status, events>>

Init ==
    /\ protocol \in Protocols /\ stream \in BOOLEAN
    /\ started = FALSE /\ finished = FALSE
    /\ usage = [input |-> None, output |-> None, complete |-> FALSE]
    /\ client = [frames |-> 0, done |-> FALSE, error |-> FALSE]
    /\ told = [input |-> None, output |-> None] /\ over = FALSE
    /\ at = "relay" /\ status = 502 /\ events = 0

----------------------------------------------------------------------------
\* Counts that upstream reports with an event; what is missing stays unknown.
Report(i, o) == [input |-> IF i = None THEN told.input ELSE i, output |-> IF o = None THEN told.output ELSE o]

observeUsage(i, o) ==
    [usage EXCEPT !.input = IF i = None THEN @ ELSE i, !.output = IF o = None THEN @ ELSE o]

\* The same of the native protocol, which adds the cached tokens to the input.
nativeUsage(i, o) == observeUsage(i, o)

\* Ollama's last line replaces what was known of the usage.
ollamaPayload(i, o) == [usage EXCEPT !.input = i, !.output = o]

Fail == at' = "failed"

\* What is sent to the client arrives, or the client is gone.
Emit(n, d) ==
    \/ client' = [client EXCEPT !.frames = @ + n, !.done = d] /\ at' = IF d THEN "returned" ELSE "relay"
    \/ UNCHANGED client /\ Fail
Delivered == at' = "returned"

\* One OpenAI event.
dispatchOpenAI(k, i, o) ==
    \/ /\ k = "chunk"
       /\ started' = TRUE
       /\ usage' = observeUsage(i, o) /\ told' = Report(i, o)
       /\ Emit(1, FALSE)
       /\ UNCHANGED <<finished, over>>
    \/ /\ k = "done" /\ started
       /\ Emit(0, TRUE)
       /\ usage' = [usage EXCEPT !.complete = Delivered] /\ over' = TRUE
       /\ UNCHANGED <<started, finished, told>>
    \/ /\ k = "bad" \/ (k = "done" /\ ~started)
       /\ Fail /\ UNCHANGED <<started, finished, usage, client, told, over>>

\* One Anthropic event, converted; "end" is message_delta with a stop reason.
dispatchAnthropic(k, i, o) ==
    \/ /\ k = "ping"
       /\ UNCHANGED <<started, finished, usage, client, told, over, at>>
    \/ /\ k = "start" /\ ~started
       /\ started' = TRUE
       /\ usage' = observeUsage(i, o) /\ told' = Report(i, o)
       /\ Emit(1, FALSE)
       /\ UNCHANGED <<finished, over>>
    \/ /\ k = "block" /\ started
       /\ Emit(1, FALSE)
       /\ UNCHANGED <<started, finished, usage, told, over>>
    \/ /\ k = "end" /\ started
       /\ finished' = TRUE
       /\ usage' = observeUsage(i, o) /\ told' = Report(i, o)
       /\ Emit(1, FALSE)
       /\ UNCHANGED <<started, over>>
    \/ /\ k = "stop" /\ finished
       /\ Emit(0, TRUE)
       /\ usage' = [usage EXCEPT !.complete = Delivered] /\ over' = TRUE
       /\ UNCHANGED <<started, finished, told>>
    \/ /\ \/ k = "bad" \/ (k = "start" /\ started)
          \/ (k \in {"block", "end"} /\ ~started) \/ (k = "stop" /\ ~finished)
       /\ Fail /\ UNCHANGED <<started, finished, usage, client, told, over>>

\* One native event, passed on with its name.
RelayMessagesSSE(k, i, o) ==
    \/ /\ k = "ping"
       /\ Emit(1, FALSE) /\ UNCHANGED <<started, finished, usage, told, over>>
    \/ /\ k = "start" /\ ~started
       /\ started' = TRUE
       /\ usage' = nativeUsage(i, o) /\ told' = Report(i, o)
       /\ Emit(1, FALSE)
       /\ UNCHANGED <<finished, over>>
    \/ /\ k = "block" /\ started /\ ~finished
       /\ Emit(1, FALSE)
       /\ UNCHANGED <<started, finished, usage, told, over>>
    \/ /\ k = "end" /\ started
       /\ finished' = TRUE
       /\ usage' = nativeUsage(i, o) /\ told' = Report(i, o)
       /\ Emit(1, FALSE)
       /\ UNCHANGED <<started, over>>
    \/ /\ k = "stop" /\ started /\ finished
       /\ Emit(1, TRUE)
       /\ usage' = [usage EXCEPT !.complete = Delivered] /\ over' = TRUE
       /\ UNCHANGED <<started, finished, told>>
    \/ /\ \/ k = "bad" \/ (k = "start" /\ started)
          \/ (k = "block" /\ (~started \/ finished))
          \/ (k = "end" /\ ~started) \/ (k = "stop" /\ ~finished)
       /\ Fail /\ UNCHANGED <<started, finished, usage, client, told, over>>

\* One line of Ollama's; the last has the counts, as far as there are any, and
\* is followed by [DONE].
relayOllama(k, i, o) ==
    \/ /\ k = "record"
       /\ Emit(1, FALSE)
       /\ UNCHANGED <<started, finished, usage, told, over>>
    \/ /\ k = "last"
       /\ told' = [input |-> i, output |-> o] /\ over' = TRUE
       /\ Emit(1, TRUE) \/ (client' = [client EXCEPT !.frames = @ + 1] /\ Fail)
       /\ usage' = [ollamaPayload(i, o) EXCEPT !.complete = Delivered]
       /\ UNCHANGED <<started, finished>>
    \/ /\ k = "bad"
       /\ Fail /\ UNCHANGED <<started, finished, usage, client, told, over>>

StreamEvent ==
    /\ at = "relay" /\ stream /\ events < MaxEvents
    /\ events' = events + 1
    /\ \E k \in Kinds(protocol), i, o \in Counts \cup {None} :
         CASE protocol = "openai" -> dispatchOpenAI(k, i, o)
           [] protocol = "anthropic" -> dispatchAnthropic(k, i, o)
           [] protocol = "messages" -> RelayMessagesSSE(k, i, o)
           [] OTHER -> relayOllama(k, i, o)
    /\ UNCHANGED <<protocol, stream, status>>

\* Upstream's content type is not a stream: 502.
NotAStream ==
    /\ at = "relay" /\ stream /\ events = 0
    /\ at' = "refused"
    /\ UNCHANGED <<protocol, stream, started, finished, usage, client, told, over, status, events>>

\* The stream ends, or a read fails, before the relay has returned.
EndOfFile ==
    /\ at = "relay" /\ stream
    /\ Fail
    /\ UNCHANGED <<protocol, stream, started, finished, usage, client, told, over, status, events>>

\* A whole answer: an error, an answer without a proper end, or one with counts.
RewriteJSON ==
    /\ at = "relay" /\ ~stream
    /\ \E good \in BOOLEAN, i, o \in Counts \cup {None} :
         /\ usage' = [input |-> i, output |-> o, complete |-> good]
         /\ told' = [input |-> i, output |-> o] /\ over' = good
         /\ at' = IF good THEN "body" ELSE "refused"
    /\ UNCHANGED <<protocol, stream, started, finished, client, status, events>>

\* The body is written; if the client is gone, its usage counts as unconfirmed.
WriteBody ==
    /\ at = "body"
    /\ \/ client' = [client EXCEPT !.done = TRUE] /\ at' = "returned" /\ UNCHANGED usage
       \/ at' = "ended" /\ usage' = [usage EXCEPT !.complete = FALSE] /\ UNCHANGED client
    /\ UNCHANGED <<protocol, stream, started, finished, told, over, status, events>>

\* 502 for an answer that cannot be used.
RefuseBody ==
    /\ at = "refused"
    /\ client' = [client EXCEPT !.error = TRUE]
    /\ at' = "ended"
    /\ UNCHANGED <<protocol, stream, started, finished, usage, told, over, status, events>>

\* The error frame of an interrupted stream, if the client is still there.
Interrupted ==
    /\ at = "failed"
    /\ client' \in {client, [client EXCEPT !.error = TRUE]}
    /\ at' = "ended"
    /\ UNCHANGED <<protocol, stream, started, finished, usage, told, over, status, events>>

\* A context that ends after the answer only changes the recorded status, to 499.
Succeeded ==
    /\ at = "returned"
    /\ status' = 200 /\ at' = "ended"
    /\ UNCHANGED <<protocol, stream, started, finished, usage, client, told, over, events>>

Next ==
    \/ StreamEvent \/ NotAStream \/ EndOfFile \/ RewriteJSON \/ WriteBody \/ RefuseBody \/ Interrupted \/ Succeeded

Spec == Init /\ [][Next]_vars

----------------------------------------------------------------------------
Token == Counts \cup {None}

TypeOK ==
    /\ protocol \in Protocols /\ stream \in BOOLEAN /\ started \in BOOLEAN /\ finished \in BOOLEAN
    /\ usage \in [input: Token, output: Token, complete: BOOLEAN]
    /\ client \in [frames: 0..MaxEvents, done: BOOLEAN, error: BOOLEAN]
    /\ told \in [input: Token, output: Token] /\ over \in BOOLEAN
    /\ at \in {"relay", "failed", "returned", "body", "refused", "ended"}
    /\ status \in {200, 502} /\ events \in 0..MaxEvents

\* "An interrupted stream never gains a synthetic successful [DONE]": the client
\* sees a proper end only if upstream ended its answer properly.
NoSyntheticDone ==
    client.done => over

\* The end, the error frame and the recorded status agree.
OutcomesAgree ==
    at = "ended" => /\ ~(client.done /\ client.error)
                    /\ (status = 200) = client.done

\* What is settled as confirmed usage was delivered, and its counts are the ones
\* upstream reported last.
ConfirmedUsageIsTrue ==
    at = "ended" /\ usage.complete =>
        /\ client.done
        /\ usage.input = told.input /\ usage.output = told.output
=============================================================================
