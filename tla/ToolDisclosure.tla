--------------------------- MODULE ToolDisclosure ---------------------------
(***************************************************************************)
(* Which tools a model sees (agent/tool/disclosure.go, session_kind.go).   *)
(* A request filters the catalog by session kind, attachment and promotion,*)
(* ranks what is left and fills the schema and token budgets.  A turn lives*)
(* through several requests: tools appear and disappear, tool_search lists *)
(* and tool_describe promotes.                                             *)
(*                                                                         *)
(* A descriptor keeps what the selection reads: its place in the order of  *)
(* ID strings (id), the group its namespace and name belong to, session    *)
(* kinds, protocols, capabilities, risk, disclosure mode, estimated tokens *)
(* and the score descriptorMatchScore gives it for the turn's prompt.      *)
(***************************************************************************)
EXTENDS Integers, Sequences, SequencesExt, FiniteSetsExt

CONSTANTS
    Descriptors,       \* the tools that may be registered
    Attachments,       \* records [id, protocol, caps]
    MaxAlwaysVisible,  \* DefaultDisclosureBudget
    MaxCandidates,
    MaxSchemas,
    MaxTokens,
    MaxOff,            \* bounds on inactive, promoted and recently used tools
    MaxPromoted,
    MaxRecent

VARIABLES
    active,    \* catalog entries with ToolStatusActive
    kind,      \* the session's kind
    attached,  \* request.Attachments
    primary,   \* request.Primary: an attachment ID, 0 for none
    promoted,  \* Loop.run's promoted tools
    recent     \* Loop.run's recently used tools

vars == <<active, kind, attached, primary, promoted, recent>>

SessionKind == {"access", "management", "shell"}
NoAttachment == [id |-> 0, protocol |-> "none", caps |-> {}]

-----------------------------------------------------------------------------

MatchesSession(d, k) ==
    CASE k = "shell" ->
           d.group \in {"terminal", "core"} /\ (d.kinds = {} \/ "access" \in d.kinds)
      [] OTHER -> IF d.kinds = {} THEN k = "access" ELSE k \in d.kinds

MatchesAttachment(d, a) ==
    /\ d.protocols = {} \/ "any" \in d.protocols \/ (a # NoAttachment /\ a.protocol \in d.protocols)
    /\ d.caps = {} \/ (a # NoAttachment /\ d.caps \subseteq a.caps)

(* findPrimaryAttachment: the named one, else the first, else none.        *)
PrimaryAttachment(as, p) ==
    LET named == {i \in DOMAIN as : as[i].id = p}
    IN  IF p # 0 /\ named # {} THEN as[Min(named)]
        ELSE IF as = << >> THEN NoAttachment ELSE as[1]

(* matchingAttachment: the primary if it fits, else the first that does.   *)
MatchingAttachment(d, as, p) ==
    LET main == PrimaryAttachment(as, p)
        fits == {i \in DOMAIN as : MatchesAttachment(d, as[i])}
    IN  IF main # NoAttachment /\ MatchesAttachment(d, main) THEN main
        ELSE IF fits = {} THEN NoAttachment ELSE as[Min(fits)]

Visible(k, as, p) ==
    {d \in active : /\ MatchesSession(d, k)
                    /\ MatchesAttachment(d, MatchingAttachment(d, as, p))}

Score(d, as, p, isPromoted, wasRecent) ==
    d.score
      + (IF d.disclosure = "always" THEN 100 ELSE 0)
      + (IF d.disclosure = "attachment" /\ MatchingAttachment(d, as, p) # NoAttachment
         THEN 60 ELSE 0)
      + (IF isPromoted THEN 1000 ELSE 0)
      + (IF wasRecent THEN 20 ELSE 0)

(* The order of candidates: promoted, score, risk, ID.                     *)
Ranked(as, p, prom, rec, d, e) ==
    LET s(x) == Score(x, as, p, x.id \in prom, x.id \in rec)
    IN  CASE (d.id \in prom) # (e.id \in prom) -> d.id \in prom
          [] s(d) # s(e) -> s(d) > s(e)
          [] d.risk # e.risk -> d.risk < e.risk
          [] OTHER -> d.id < e.id

(* One round of the loop that fills the budget.  acc.full is its break.    *)
Take(acc, d, schemas) ==
    LET always == d.disclosure = "always"
        counted == [acc EXCEPT !.always = IF always THEN @ + 1 ELSE @]
    IN  CASE acc.full -> acc
          [] always /\ acc.always >= MaxAlwaysVisible -> acc
          [] Len(acc.tools) >= schemas -> [counted EXCEPT !.full = TRUE]
          [] acc.tokens + d.tokens > MaxTokens -> counted
          [] OTHER -> [counted EXCEPT !.tools = Append(@, d),
                                      !.tokens = @ + d.tokens]

(* A deferred tool's schema is disclosed only after its promotion.         *)
Candidates(k, as, p, prom) ==
    {d \in Visible(k, as, p) : d.disclosure # "deferred" \/ d.id \in prom}

BuildSnapshot(k, as, p, prom, rec, schemas) ==
    LET order == SetToSortSeq(Candidates(k, as, p, prom),
                              LAMBDA d, e : Ranked(as, p, prom, rec, d, e))
    IN  FoldLeft(LAMBDA acc, d : Take(acc, d, schemas),
                 [tools |-> << >>, tokens |-> 0, always |-> 0, full |-> FALSE],
                 order).tools

(* tool_search: summaries of the visible tools, the best matches first.    *)
Search(k, as, p, query) ==
    LET hits == {d \in Visible(k, as, p) : query => d.score # 0}
        order == SetToSortSeq(hits, LAMBDA d, e :
                   IF query /\ d.score # e.score THEN d.score > e.score
                   ELSE d.id < e.id)
    IN  SubSeq(order, 1, Min({Len(order), MaxCandidates}))

(* Engine.Describe, called by tool_describe with the binding's attachment  *)
(* and nothing promoted: the snapshot with ids promoted, cut down to ids.  *)
Describe(k, as, p, ids) ==
    LET schemas == Max({MaxSchemas, Cardinality(ids) + MaxAlwaysVisible})
    IN  SelectSeq(BuildSnapshot(k, as, p, ids, {}, schemas),
                  LAMBDA d : d.id \in ids)

Snapshot == BuildSnapshot(kind, attached, primary, promoted, recent, MaxSchemas)

-----------------------------------------------------------------------------
Init ==
    /\ active = Descriptors
    /\ kind \in SessionKind
    /\ attached = << >>
    /\ primary = 0
    /\ promoted = {}
    /\ recent = {}

(* A tool is disabled, unloaded, enabled or registered meanwhile.          *)
SetStatus(d) ==
    /\ active' = IF d \in active THEN active \ {d} ELSE active \cup {d}
    /\ Cardinality(Descriptors \ active') <= MaxOff
    /\ UNCHANGED <<kind, attached, primary, promoted, recent>>

(* loadAttachments: the session's attachments and its active one.          *)
LoadAttachments ==
    /\ attached' \in {as \in SeqOf(Attachments, 2) : IsInjective(as)}
    /\ primary' \in {0} \cup {attached'[i].id : i \in DOMAIN attached'}
    /\ UNCHANGED <<active, kind, promoted, recent>>

(* The model calls tool_describe: Loop.run promotes the IDs it asked for.  *)
CallDescribe(ids) ==
    /\ ids # {}
    /\ promoted' = promoted \cup ids
    /\ Cardinality(promoted') <= MaxPromoted
    /\ UNCHANGED <<active, kind, attached, primary, recent>>

(* The model calls one of the tools it was shown.                          *)
CallTool(i) ==
    /\ i \in DOMAIN Snapshot
    /\ recent' = recent \cup {Snapshot[i].id}
    /\ Cardinality(recent') <= MaxRecent
    /\ UNCHANGED <<active, kind, attached, primary, promoted>>

Next ==
    \/ \E d \in Descriptors : SetStatus(d)
    \/ LoadAttachments
    \/ \E ids \in SUBSET {d.id : d \in active} : CallDescribe(ids)
    \/ \E i \in 1 .. MaxSchemas : CallTool(i)

Spec == Init /\ [][Next]_vars

-----------------------------------------------------------------------------
Tokens(ds) == MapThenSumSet(LAMBDA d : d.tokens, ds)

(* The request always names registered tools, known attachments and IDs.   *)
TypeOK ==
    /\ active \subseteq Descriptors
    /\ kind \in SessionKind
    /\ Range(attached) \subseteq Attachments
    /\ primary \in {0} \cup {a.id : a \in Range(attached)}
    /\ promoted \cup recent \subseteq {d.id : d \in Descriptors}

(* Whatever was promoted or used before, a snapshot stays within the       *)
(* schema, token and always-visible budgets of BuildSnapshot.              *)
WithinBudget ==
    LET shown == Range(Snapshot)
    IN  /\ Len(Snapshot) <= MaxSchemas
        /\ Tokens(shown) <= MaxTokens
        /\ Cardinality({d \in shown : d.disclosure = "always"})
             <= MaxAlwaysVisible

(* session_kind.go: "Shell agents deliberately inherit only terminal and   *)
(* discovery operations", "a tool must opt into management explicitly":    *)
(* no promotion or earlier use gets around it, a tool that needs a protocol*)
(* or capability is shown only beside an attachment that has both, and a   *)
(* deferred schema only after tool_describe.                               *)
OnlyPermittedShown ==
    \A d \in Range(Snapshot) :
      /\ d \in active
      /\ kind = "shell" => d.group \in {"terminal", "core"}
      /\ kind = "management" => "management" \in d.kinds
      /\ "any" \notin d.protocols =>
           \E a \in Range(attached) :
             a.protocol \in d.protocols /\ d.caps \subseteq a.caps
      /\ d.disclosure = "deferred" => d.id \in promoted

(* A tool the model asked for is left out of the next snapshot only to make*)
(* room for other tools it asked for, never for one it did not.            *)
PromotedFirst ==
    LET asked == {d \in Visible(kind, attached, primary) : d.id \in promoted}
        shown == Range(Snapshot) \cap asked
    IN  \A d \in asked \ shown :
          \/ Cardinality(shown) >= MaxSchemas
          \/ Tokens(shown) + d.tokens > MaxTokens
          \/ /\ d.disclosure = "always"
             /\ Cardinality({e \in asked : e.disclosure = "always"})
                  > MaxAlwaysVisible

(* discovery.go: "Load the executable JSON schemas for selected tools      *)
(* returned by tool_search": every tool the search listed is described,    *)
(* up to the token budget and the cap on always-visible tools.             *)
SearchedIsDescribed ==
    \A query \in BOOLEAN, bound \in {<< >>} \cup {<<a>> : a \in Range(attached)} :
      LET found == Range(Search(kind, bound, 0, query))
      IN  \A asked \in SUBSET found :
            LET got == Range(Describe(kind, bound, 0, {d.id : d \in asked}))
            IN  \/ got = asked
                \/ Tokens(asked) > MaxTokens
                \/ Cardinality({d \in asked : d.disclosure = "always"})
                     > MaxAlwaysVisible

=============================================================================
