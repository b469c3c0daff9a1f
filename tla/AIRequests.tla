-------------------------------- MODULE AIRequests --------------------------------
(***************************************************************************)
(* How a chat request becomes a request of the upstream's protocol         *)
(* (aigateway/codec.go, ollama.go, anthropic_native.go): it is refused     *)
(* unless everything in it can be said in that protocol.  A request is the *)
(* set of its optional fields, the roles of its messages and an alias; one *)
(* field may hold a value out of range.                                    *)
(***************************************************************************)
EXTENDS Sequences, Naturals, SequencesExt

CONSTANTS
    Aliases,      \* model names a client may send
    Upstream,     \* a function from the allowed ones to upstream models
    MaxMessages,
    None

Protocols == {"openai", "anthropic", "ollama", "messages"}
Fields == {"temperature", "max_tokens", "stop", "tools", "stream_options"}
Roles == {"system", "user", "assistant", "tool"}
Options == {"usage", "noUsage", "other"}      \* what stream_options asks for

Inputs == [protocol: Protocols, alias: Aliases, fields: SUBSET Fields, bad: Fields \cup {None},
           roles: UNION {[1..n -> Roles] : n \in 0..MaxMessages}, stream: BOOLEAN, options: Options]

VARIABLES in, metered, out

vars == <<in, metered, out>>

Refused == [ok |-> FALSE, op |-> None, model |-> None, fields |-> {}, system |-> 0, roles |-> <<>>, options |-> None]

Init ==
    /\ in \in {i \in Inputs : /\ i.bad = None \/ i.bad \in i.fields
                              /\ "stream_options" \notin i.fields => i.options = "usage"}
    /\ metered \in BOOLEAN
    /\ out = None

----------------------------------------------------------------------------
Has(i, f) == f \in i.fields
Good(i, f) == f \in i.fields => i.bad # f
Systems(r) == SelectSeq(r, LAMBDA x : x = "system")
Others(r) == SelectSeq(r, LAMBDA x : x # "system")

\* A text conversation: the system prompts come first, and users begin and end it.
TextConversation(r) ==
    /\ \A k \in DOMAIN r : r[k] \in {"system", "user", "assistant"}
    /\ \A j, k \in DOMAIN r : j < k /\ r[k] = "system" => r[j] = "system"
    /\ Others(r) # <<>>
    /\ Head(Others(r)) = "user" /\ Last(Others(r)) = "user"

\* The branch of Prepare for Anthropic; max_tokens has a default.
PrepareAnthropic(i) ==
    IF /\ i.fields \subseteq {"temperature", "max_tokens", "stop"}
       /\ \A f \in i.fields : Good(i, f)
       /\ TextConversation(i.roles)
    THEN [Refused EXCEPT !.ok = TRUE, !.op = "messages", !.fields = i.fields \cup {"max_tokens"},
                         !.system = Len(Systems(i.roles)), !.roles = Others(i.roles)]
    ELSE Refused

\* Ollama always reports its usage, so that the option itself is left out.
prepareOllama(i) ==
    IF /\ i.fields \subseteq {"temperature", "max_tokens", "stop", "stream_options"}
       /\ \A f \in i.fields \ {"stream_options"} : Good(i, f)
       /\ Has(i, "stream_options") => i.stream /\ Good(i, "stream_options") /\ i.options # "other"
       /\ \A k \in DOMAIN i.roles : i.roles[k] # "tool"
    THEN [Refused EXCEPT !.ok = TRUE, !.op = "chat", !.fields = i.fields \ {"stream_options"}, !.roles = i.roles]
    ELSE Refused

\* OpenAI's fields are passed on as they are.
PrepareOpenAI(i) ==
    [Refused EXCEPT !.ok = TRUE, !.op = "chat/completions", !.fields = i.fields, !.roles = i.roles,
                    !.options = IF Has(i, "stream_options") THEN i.options ELSE None]

Prepare(i) ==
    IF i.alias \notin DOMAIN Upstream \/ i.roles = <<>> THEN Refused
    ELSE LET o == CASE i.protocol = "ollama" -> prepareOllama(i)
                    [] i.protocol = "anthropic" -> PrepareAnthropic(i)
                    [] OTHER -> PrepareOpenAI(i)
         IN IF o.ok THEN [o EXCEPT !.model = Upstream[i.alias]] ELSE o

\* Native messages keep their content; tools are allowed, max_tokens is required.
PrepareMessages(i) ==
    IF /\ i.fields \subseteq {"temperature", "max_tokens", "stop", "tools"}
       /\ i.alias \in DOMAIN Upstream
       /\ Has(i, "max_tokens") /\ Good(i, "max_tokens")
       /\ i.roles # <<>>
       /\ \A k \in DOMAIN i.roles : i.roles[k] \in {"user", "assistant"}
    THEN [Refused EXCEPT !.ok = TRUE, !.op = "messages", !.model = Upstream[i.alias], !.fields = i.fields, !.roles = i.roles]
    ELSE Refused

\* A limited key's stream reports its usage whatever the client asked for.
IncludeStreamUsage(o) ==
    [o EXCEPT !.fields = @ \cup {"stream_options"}, !.options = "usage"]

Convert ==
    /\ out = None
    /\ LET o == IF in.protocol = "messages" THEN PrepareMessages(in) ELSE Prepare(in)
       IN out' = IF o.ok /\ metered /\ in.stream /\ in.protocol = "openai" THEN IncludeStreamUsage(o) ELSE o
    /\ UNCHANGED <<in, metered>>

Next == Convert
Spec == Init /\ [][Next]_vars

----------------------------------------------------------------------------
Accepted == out # None /\ out.ok

\* "No silent dropping": a request that is accepted reaches upstream with every
\* field it had, except Ollama's stream option, and with every message in order.
NothingIsDropped ==
    Accepted =>
        /\ in.fields \ (IF in.protocol = "ollama" THEN {"stream_options"} ELSE {}) \subseteq out.fields
        /\ [k \in 1..out.system |-> "system"] \o out.roles = in.roles

\* Only the aliases of the key's models are served, each by its upstream model.
OnlyAllowedModels ==
    Accepted => in.alias \in DOMAIN Upstream /\ out.model = Upstream[in.alias]

\* "callers cannot opt out of metering".
MeteredStreamsReportUsage ==
    Accepted /\ metered /\ in.stream /\ in.protocol = "openai" => out.options = "usage"
=============================================================================
