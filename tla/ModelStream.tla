----------------------------- MODULE ModelStream -----------------------------
(***************************************************************************)
(* The answer of a model provider as it is read from the wire              *)
(* (manager/agent/model/openai.go, anthropic.go and tool_names.go).  The   *)
(* provider sends pieces of text and pieces of tool calls, interleaved as  *)
(* it likes; the connection may break, which a cancelled turn does too, or *)
(* be closed at any point; the sink that streams text to the browser may   *)
(* fail.  Text and arguments are counted, not spelled: the arguments of a  *)
(* call are valid JSON exactly when all their pieces have arrived.         *)
(***************************************************************************)
EXTENDS Naturals, FiniteSets, Sequences

CONSTANTS
    Calls,      \* how many tool calls the provider makes at most
    Pieces,     \* how many pieces the arguments of a call have
    Texts,      \* how many pieces of text
    Tools,      \* the tools of the request, by the runtime's names
    Plain       \* the ones whose names may stand on the wire as they are

VARIABLES
    format,     \* "openai" or "anthropic"
    calls,      \* the provider: the tool of each call it makes
    sent,       \* the provider: pieces of each call sent so far, the head included
    said,       \* the provider: pieces of text sent so far
    wire,       \* "requested", "open", "finished" after the end mark, "closed", "broken"
    text, shown,    \* the reader: pieces in the result and pieces streamed
    pending,    \* the reader: the calls seen so far, by index
    order,      \* the reader: their indexes in order of appearance (anthropic)
    outcome,    \* "reading", "failed" or "accepted"
    result      \* the tools called in the accepted answer

provider == <<format, calls, sent, said, wire>>
reader == <<text, shown, pending, order>>
vars == <<provider, reader, outcome, result>>

(* ---- names ---- *)

\* encodeToolNames: a name the wire does not allow becomes its digest, and the
\* answer is translated back before the call is authorized.
alias(tool) == IF tool \in Plain THEN <<"name", tool>> ELSE <<"digest", tool>>

restoreNames(name) ==
    IF \E t \in Tools : alias(t) = name
    THEN CHOOSE t \in Tools : alias(t) = name
    ELSE name[2]

(* ---- the provider ---- *)

Init ==
    /\ format \in {"openai", "anthropic"}
    /\ calls \in UNION {[1..n -> Tools] : n \in 0..Calls}
    /\ sent = [i \in DOMAIN calls |-> 0] /\ said = 0
    /\ wire = "requested"
    /\ text = 0 /\ shown = 0
    /\ pending = <<>> /\ order = <<>>
    /\ outcome = "reading" /\ result = <<>>

Reading == outcome = "reading" /\ wire = "open"
Fail == outcome' = "failed" /\ UNCHANGED reader
Finished == said = Texts /\ \A i \in DOMAIN calls : sent[i] = Pieces + 1

\* Generate of both providers: the request is refused, or its answer is read.
Generate ==
    /\ wire = "requested" /\ outcome = "reading"
    /\ \/ wire' = "open" /\ UNCHANGED outcome
       \/ outcome' = "failed" /\ UNCHANGED wire
    /\ UNCHANGED <<format, calls, sent, said, reader, result>>

\* A piece of text: it joins the result and is streamed; the sink may fail.
TextDelta ==
    /\ Reading /\ said < Texts
    /\ said' = said + 1
    /\ \/ /\ text' = text + 1 /\ shown' = shown + 1
          /\ UNCHANGED <<pending, order, outcome>>
       \/ Fail
    /\ UNCHANGED <<format, calls, sent, wire, result>>

Known(i) == i \in DOMAIN pending
Put(i, call) == pending' = [j \in DOMAIN pending \cup {i} |-> IF j = i THEN call ELSE pending[j]]

\* The loop of decodeEventStream on a fragment of a call.
ToolFragment(i) ==
    /\ Put(i, IF ~Known(i) THEN [tool |-> alias(calls[i]), args |-> 0]
              ELSE [pending[i] EXCEPT !.args = @ + 1])
    /\ UNCHANGED <<text, shown, order>>

\* The loop of readAnthropicStream on the start of a block and on its pieces.
ContentBlock(i) ==
    /\ Put(i, IF ~Known(i) THEN [tool |-> alias(calls[i]), args |-> 0]
              ELSE [pending[i] EXCEPT !.args = @ + 1])
    /\ order' = IF Known(i) THEN order ELSE Append(order, i)
    /\ UNCHANGED <<text, shown>>

\* A piece of a tool call.  The first one carries the ID and the name.
ToolDelta(i) ==
    /\ Reading /\ sent[i] <= Pieces
    /\ sent' = [sent EXCEPT ![i] = @ + 1]
    /\ IF format = "openai" THEN ToolFragment(i) ELSE ContentBlock(i)
    /\ UNCHANGED <<format, calls, said, wire, outcome, result>>

\* A line that is no event, or an error event: nothing more is read.
BadEvent ==
    /\ Reading
    /\ Fail
    /\ UNCHANGED <<provider, result>>

\* [DONE] or message_stop, and the ways a connection ends before it.
EndMark ==
    /\ Reading /\ Finished
    /\ wire' = "finished"
    /\ UNCHANGED <<format, calls, sent, said, reader, outcome, result>>
Close ==
    /\ Reading
    /\ wire' = "closed"
    /\ UNCHANGED <<format, calls, sent, said, reader, outcome, result>>
Break ==
    /\ Reading
    /\ wire' = "broken"
    /\ UNCHANGED <<format, calls, sent, said, reader, outcome, result>>

(* ---- the end of the two readers ---- *)

Whole(i) == pending[i].args = Pieces
Restored(indexes) == [k \in DOMAIN indexes |-> restoreNames(pending[indexes[k]].tool)]
MaxIndex == CHOOSE n \in 0..Calls : (n = 0 \/ Known(n)) /\ \A i \in DOMAIN pending : i <= n
UpTo(n) == [k \in 1..n |-> k]
Settle(ok, indexes) ==
    /\ outcome = "reading" /\ wire \in {"finished", "closed", "broken"}
    /\ outcome' = IF ok THEN "accepted" ELSE "failed"
    /\ result' = IF ok THEN Restored(indexes) ELSE <<>>
    /\ UNCHANGED <<provider, reader>>

\* The end of decodeEventStream: a stream that ends without its mark is not an
\* error, a missing index or a call that is not whole is.
decodeEventStream ==
    /\ format = "openai"
    /\ Settle(/\ wire # "broken"
              /\ \A i \in 1..MaxIndex : Known(i) /\ Whole(i),
              UpTo(MaxIndex))

\* The end of readAnthropicStream: the mark is required.
readAnthropicStream ==
    /\ format = "anthropic"
    /\ Settle(wire = "finished" /\ \A i \in DOMAIN pending : Whole(i), order)

Next ==
    \/ Generate
    \/ TextDelta
    \/ \E i \in DOMAIN calls : ToolDelta(i)
    \/ BadEvent \/ EndMark \/ Close \/ Break
    \/ decodeEventStream
    \/ readAnthropicStream

Spec == Init /\ [][Next]_vars

(* ---- properties ---- *)

Accepted == outcome = "accepted"

\* Types; what was streamed is what the result holds, and a call that is known
\* has been sent.
TypeOK ==
    /\ text \in 0..Texts /\ shown = text /\ text <= said
    /\ DOMAIN pending \subseteq DOMAIN calls
    /\ \A i \in DOMAIN pending : pending[i].args < sent[i]

\* A tool call of an accepted answer has all of its arguments and the name of
\* the tool the provider meant, in the order the provider numbered the calls,
\* or began them for anthropic, although the pieces of the calls are mixed
\* (decodeEventStream, readAnthropicStream, encodeToolNames).
CallsAreWhole ==
    Accepted =>
        \A k \in DOMAIN result :
            LET i == IF format = "openai" THEN k ELSE order[k]
            IN  sent[i] = Pieces + 1 /\ result[k] = calls[i]

\* An accepted answer leaves out nothing that was sent: half of a call or of
\* the text makes the answer fail, it is not cut down to what is usable.
NothingSentIsLeftOut ==
    Accepted =>
        /\ text = said
        /\ Len(result) = Cardinality({i \in DOMAIN calls : sent[i] > 0})

\* A broken connection never gives an answer, and an anthropic stream gives one
\* only after message_stop, when everything has been sent.
CutAnswersFail ==
    Accepted => wire # "broken" /\ (format = "anthropic" => Finished)
==============================================================================
