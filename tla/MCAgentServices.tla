------------------------- MODULE MCAgentServices -------------------------
(***************************************************************************)
(* The services around the agent's runtime, each on a small instance.  The *)
(* initial state chooses one component and only that component takes       *)
(* steps: the states are the disjoint union of the components' states, and *)
(* the components use the variables v1, v2, ... in turn.                   *)
(***************************************************************************)
EXTENDS Naturals, TLC

CONSTANTS None, Requests, Editors

VARIABLES component, v1, v2, v3, v4, v5, v6, v7, v8, v9, v10, v11

vars == <<component, v1, v2, v3, v4, v5, v6, v7, v8, v9, v10, v11>>

(* Six tools and three attachments for ToolDisclosure. *)
Tool(id, group, kinds, protocols, caps, risk, disclosure, tokens, score) ==
    [id |-> id, group |-> group, kinds |-> kinds, protocols |-> protocols,
     caps |-> caps, risk |-> risk, disclosure |-> disclosure,
     tokens |-> tokens, score |-> score]

SixTools ==
    { Tool(1, "core", {"access", "management"}, {"any"}, {}, 0, "always", 1, 0),
      Tool(2, "other", {}, {"mysql"}, {"query"}, 0, "attachment", 2, 8),
      Tool(3, "other", {}, {"mysql"}, {"query"}, 4, "deferred", 3, 0),
      Tool(4, "other", {"management"}, {"any"}, {}, 2, "attachment", 2, 3),
      Tool(5, "other", {}, {"any"}, {}, 0, "always", 2, 2),
      Tool(6, "terminal", {}, {"ssh"}, {"shell"}, 2, "attachment", 2, 6) }

ThreeAttachments ==
    { [id |-> 1, protocol |-> "ssh", caps |-> {"shell"}],
      [id |-> 2, protocol |-> "mysql", caps |-> {"query"}],
      [id |-> 3, protocol |-> "mysql", caps |-> {}] }

Registry ==
    INSTANCE ToolRegistry WITH Names <- {"n"}, Versions <- {1, 2}, Sources <- {"a", "b"}, Calls <-
        {"c"}, NoSource <- None, MaxGen <- 2, entry <- v1, registry <- v2, catalog <- v3, lock <-
        v4, mgr <- v5, call <- v6
Disclosure ==
    INSTANCE ToolDisclosure WITH Descriptors <- SixTools, Attachments <- ThreeAttachments,
        MaxAlwaysVisible <- 1, MaxCandidates <- 3, MaxSchemas <- 2, MaxTokens <- 6, MaxOff <- 1,
        MaxPromoted <- 1, MaxRecent <- 1, active <- v1, kind <- v2, attached <- v3, primary <- v4,
        promoted <- v5, recent <- v6
Live ==
    INSTANCE AccessSessions WITH Users <- {"u", "w"}, Ids <- {"i"}, Accesses <- {"ssh", "db"}, Terminals
        <- {"ssh"}, Sessions <- {"s"}, Calls <- {"c"}, MaxSerial <- 2, handles <- v1, generations <-
        v2, conns <- v3, serial <- v4, agents <- v5, may <- v6, work <- v7
ASSUME LiveConstants == Live!ConstantsOK
Events ==
    INSTANCE EventBroker WITH Clients <- {"c"}, Sessions <- {"s", "t"}, BufferSize <- 1, MaxID <- 4,
        nextID <- v1, subscribers <- v2, log <- v3, chan <- v4, client <- v5, written <- v6, may <-
        v7, revoked <- v8, panicked <- v9
Lanes ==
    INSTANCE Assistance WITH Lanes <- {1, 2}, Revisions <- {1, 2}, MaxLanes <- 1, MaxGen <- 2,
        assistants <- v1, stale <- v2, lane <- v3, req <- v4, gen <- v5, may <- v6
Providers ==
    INSTANCE ModelSettings WITH Admins <- {"a", "b"}, Ids <- {"custom"}, Types <- {"custom"}, Urls <-
        {"deepseek", "other"}, Models <- {"m"}, Keys <- {"k"}, NoKey <- "nokey", Clear <- "clear",
        KeyInput <- {"k", "nokey", "clear"}, MaxUpdates <- 2, Nil <- None, updates <- v1, stored <-
        v2, fallback <- v3, mu <- v4, admin <- v5, turn <- v6, typed <- v7
Choice ==
    INSTANCE ModelSettings WITH Admins <- {"a"}, Ids <- {"p"}, Types <- {"custom"}, Urls <- {"other"},
        Models <- {"m", "n"}, Keys <- {}, NoKey <- "nokey", Clear <- "clear", KeyInput <- {"nokey"},
        MaxUpdates <- 2, Nil <- None, updates <- v1, stored <- v2, fallback <- v3, mu <- v4, admin
        <- v5, turn <- v6, typed <- v7
Answers ==
    INSTANCE ModelStream WITH Calls <- 3, Pieces <- 2, Texts <- 2, Tools <- {"host_list",
        "access.read"}, Plain <- {"host_list"}, format <- v1, calls <- v2, sent <- v3, said <- v4,
        wire <- v5, text <- v6, shown <- v7, pending <- v8, order <- v9, outcome <- v10, result <-
        v11

\* The variables that a component with k variables does not use.
Spare(k) ==
    /\ k < 7 => v7 = None
    /\ k < 8 => v8 = None
    /\ k < 9 => v9 = None
    /\ k < 10 => v10 = None
    /\ k < 11 => v11 = None
Keep(k) ==
    /\ k < 7 => UNCHANGED v7
    /\ k < 8 => UNCHANGED v8
    /\ k < 9 => UNCHANGED v9
    /\ k < 10 => UNCHANGED v10
    /\ k < 11 => UNCHANGED v11

Init ==
    \/ component = "registry" /\ Registry!Init /\ Spare(6)
    \/ component = "disclosure" /\ Disclosure!Init /\ Spare(6)
    \/ component = "sessions" /\ Live!Init /\ Spare(7)
    \/ component = "events" /\ Events!Init /\ Spare(9)
    \/ component = "assistance" /\ Lanes!Init /\ Spare(6)
    \/ component = "keys" /\ Providers!Init /\ Spare(7)
    \/ component = "choice" /\ Choice!Init /\ Spare(7)
    \/ component = "answers" /\ Answers!Init

Next ==
    /\ UNCHANGED component
    /\ \/ component = "registry" /\ Registry!Next /\ Keep(6)
       \/ component = "disclosure" /\ Disclosure!Next /\ Keep(6)
       \/ component = "sessions" /\ Live!Next /\ Keep(7)
       \/ component = "events" /\ Events!Next /\ Keep(9)
       \/ component = "assistance" /\ Lanes!Next /\ Keep(6)
       \/ component = "keys" /\ Providers!Next /\ Keep(7)
       \/ component = "choice" /\ Choice!Next /\ Keep(7)
       \/ component = "answers" /\ Answers!Next

Spec == Init /\ [][Next]_vars

Symmetry == Permutations(Requests) \cup Permutations(Editors)

-----------------------------------------------------------------------------
(* Every component keeps its types and, where it has buffers, their limits. *)
TypeOK ==
    /\ component = "registry" => Registry!TypeOK
    /\ component = "disclosure" => Disclosure!TypeOK
    /\ component = "sessions" => Live!TypeOK
    /\ component = "events" => Events!TypeOK
    /\ component = "assistance" => Lanes!TypeOK
    /\ component = "keys" => Providers!TypeOK
    /\ component = "choice" => Choice!TypeOK
    /\ component = "answers" => Answers!TypeOK

(* What the agent can call is what was loaded, offered and allowed: the     *)
(* registry and the catalog agree and leases are held (tool/registry.go,    *)
(* engine.go), and a snapshot keeps its budgets, shows only permitted tools *)
(* and what the model asked for first (tool/disclosure.go).                 *)
OfferedToolsAreSound ==
    /\ component = "registry" =>
         /\ Registry!TablesAgree /\ Registry!OneToolPerName
         /\ Registry!LeasesHeld /\ Registry!ActiveToolsOwned
    /\ component = "disclosure" =>
         /\ Disclosure!WithinBudget /\ Disclosure!OnlyPermittedShown
         /\ Disclosure!PromotedFirst /\ Disclosure!SearchedIsDescribed

(* Work for a connection stays with it: a tool call reaches the connection  *)
(* its session was created for or none (accesssession/registry.go), and a   *)
(* suggestion is given for the connection it was asked for; lanes are       *)
(* neither leaked nor more than the map may hold (assistance/session.go).   *)
ConnectionsAreNotMixedUp ==
    /\ component = "sessions" =>
         /\ Live!CallReachesItsConnection /\ Live!RegistryShowsLiveConnections
         /\ Live!TurnsStartOnLiveConnections
    /\ component = "assistance" =>
         /\ Lanes!SuggestionFitsConnection /\ Lanes!NoLaneLeaks /\ Lanes!LanesAreBounded

(* Every connection ever registered keeps its ID and generation to itself,  *)
(* sessions and requests hold only such connections, and a request holds    *)
(* what its stage has checked: the inductive invariant of AccessSessions.   *)
LiveInv ==
    component = "sessions" => Live!LiveInv

(* A stream is whole or visibly cut: events reach a browser without a hole  *)
(* and not after its permission was withdrawn (runtime/events.go), and a    *)
(* model's answer is accepted only with all its calls (model/openai.go).    *)
StreamsAreWhole ==
    /\ component = "events" =>
         /\ Events!NoDoubleClose /\ Events!StreamHasNoHoles
         /\ Events!RevokedClientSeesNothingNew
    /\ component = "answers" =>
         /\ Answers!CallsAreWhole /\ Answers!NothingSentIsLeftOut /\ Answers!CutAnswersFail

(* Saves, probes and turns that overlap do not mix up settings: a key goes  *)
(* only to an endpoint it was given for, a saved default resolves, and a    *)
(* turn keeps its model over an approval (modelsettings/settings.go).       *)
SettingsAreKept ==
    /\ component = "keys" => Providers!KeysGoWhereTheyWereGiven
    /\ component = "choice" => Choice!SavedDefaultResolves /\ Choice!TurnKeepsItsModel

(* A step that comes late changes nothing: no lease of a tool that is being *)
(* unloaded, no suggestion for text that was replaced, no key brought back  *)
(* by a save that read the settings before.                                 *)
LateStepsAreRefused ==
    [][/\ component = "registry" => Registry!LeaseIsTimely
       /\ component = "assistance" => Lanes!NewestIsReturned
       /\ component = "keys" => Providers!KeptKeyIsCurrent]_vars
=============================================================================
