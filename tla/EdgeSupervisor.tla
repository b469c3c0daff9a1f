--------------------------- MODULE EdgeSupervisor ---------------------------
(***************************************************************************)
(* The desktop client: the supervisors that keep the connector process     *)
(* running, the pollers that ask the manager whether it is online, and the *)
(* commands of the popup and of the tray menu (sign in and out, change of  *)
(* server, pause, resume, quit, launch).                                   *)
(*                                                                         *)
(* A supervisor is never freed: signing out takes it from the slot and     *)
(* tells it to stop, and its task keeps waiting, because it owns a sender  *)
(* of its own watch channel.  A sign-in waits twice, for the browser and   *)
(* for the manager, and everything else runs meanwhile.  The commands that *)
(* do not wait are one step each, except that pause and resume change the  *)
(* intent and the displayed state in two steps, between which the          *)
(* supervisor's task may run.                                              *)
(*                                                                         *)
(* Events of a supervisor reach the popup at once: the bridge task is      *)
(* taken to run before sixteen events queue up in its channel.             *)
(***************************************************************************)
EXTENDS Naturals, Sequences

CONSTANTS Servers,       \* base URLs of deployments
          Logins,        \* sign-ins that may be under way at the same time
          MayQuit,       \* whether the user quits and launches the program again
          MaxSups,       \* bound on supervisors of one launch
          MaxEdges,      \* bound on connectors the sign-ins create
          MaxCommands    \* bound on the commands the user gives

VARIABLES server,        \* AppState.server
          slot,          \* AppState.supervisor: an index of sups, or 0
          sups,          \* the supervisors of this launch, in order of creation
          logins,        \* the sign-ins under way
          keychain,      \* the servers a token is stored for
          config,        \* liaison-edge.yaml: a connector's ID, or 0
          saved,         \* state.json: intent and base URL
          edges,         \* the server of each connector created, by ID
          online,        \* the connectors the managers hold online
          main,          \* how far pause or resume has come, or "idle", or "off"
          popup,         \* the state the popup displays
          commands       \* commands given so far

vars == <<server, slot, sups, logins, keychain, config, saved, edges, online,
          main, popup, commands>>

Trays == {"LoggedOut", "Paused", "Connecting", "Online", "Error"}
Intents == {"Running", "Stopped"}

Supervisor == [intent : Intents, changed : BOOLEAN,
               at : {"top", "connecting", "spawn", "running", "killing",
                     "backoff", "paused"},
               child : BOOLEAN, edge : 0..MaxEdges, last : Trays,
               poll : {"idle", "on", "off", "ended"},
               polled : Servers, token : Servers]

Login == [at : {"idle", "browser", "saved", "created", "written"},
          server : Servers, edge : 0..MaxEdges]

IdleLogin == [at |-> "idle", server |-> CHOOSE s \in Servers : TRUE, edge |-> 0]

Running == main # "off"

Init == /\ server \in Servers
        /\ slot = 0
        /\ sups = <<>>
        /\ logins = [l \in Logins |-> IdleLogin]
        /\ keychain = {}
        /\ config = 0
        /\ saved = [intended |-> "Running", base |-> server]
        /\ edges = <<>>
        /\ online = {}
        /\ main = "idle"
        /\ popup = "LoggedOut"
        /\ commands = 0

\* A command of the user, while the program runs.
Command == /\ commands < MaxCommands
           /\ commands' = commands + 1

Set(i, s) == sups' = [sups EXCEPT ![i] = s]

\* Store the displayed state of supervisor i and tell the popup.
emit(i, s, tray) == /\ Set(i, [s EXCEPT !.last = tray])
                    /\ popup' = tray

\* watch::Sender::send: the receiver sees a change, also to the same value.
SetIntended(s, intent) == [s EXCEPT !.intent = intent, !.changed = TRUE]

---------------------------------------------------------------------------
(* The task of supervisor i. *)

UnchangedByTasks == UNCHANGED <<server, slot, logins, keychain, config, saved,
                                edges, main, commands>>

\* The loop top with the intent to stop.
Pause(i) ==
    /\ sups[i].at = "top" /\ sups[i].intent = "Stopped"
    /\ emit(i, [sups[i] EXCEPT !.at = "paused"], "Paused")
    /\ UnchangedByTasks /\ UNCHANGED online

\* The loop top with the intent to run: the intent is read, then Connecting is
\* displayed.
WantRun(i) ==
    /\ sups[i].at = "top" /\ sups[i].intent = "Running"
    /\ Set(i, [sups[i] EXCEPT !.at = "connecting"])
    /\ UnchangedByTasks /\ UNCHANGED <<online, popup>>

Connecting(i) ==
    /\ sups[i].at = "connecting"
    /\ emit(i, [sups[i] EXCEPT !.at = "spawn"], "Connecting")
    /\ UnchangedByTasks /\ UNCHANGED online

\* The process reads the configuration when it starts; it may fail to start.
Spawn(i) ==
    /\ sups[i].at = "spawn"
    /\ \/ /\ Set(i, [sups[i] EXCEPT !.at = "running", !.child = TRUE, !.edge = config])
          /\ UNCHANGED popup
       \/ emit(i, [sups[i] EXCEPT !.at = "backoff"], "Error")
    /\ UnchangedByTasks /\ UNCHANGED online

\* child.wait() returns: the process ended by itself.
ChildExits(i) ==
    /\ sups[i].at = "running"
    /\ emit(i, [sups[i] EXCEPT !.at = "backoff", !.child = FALSE], "Error")
    /\ UnchangedByTasks /\ UNCHANGED online

\* The intent changed while the process runs.
ChangedMidRun(i) ==
    /\ sups[i].at = "running" /\ sups[i].changed
    /\ Set(i, [sups[i] EXCEPT !.at = "killing", !.changed = FALSE])
    /\ UnchangedByTasks /\ UNCHANGED <<online, popup>>

Killed(i) ==
    /\ sups[i].at = "killing"
    /\ Set(i, [sups[i] EXCEPT !.at = "top", !.child = FALSE])
    /\ UnchangedByTasks /\ UNCHANGED <<online, popup>>

\* Wait until the delay is over or the intent changes.
sleep_or_change(i) ==
    /\ sups[i].at = "backoff"
    /\ \E seen \in BOOLEAN : Set(i, [sups[i] EXCEPT !.at = "top",
                                        !.changed = IF seen THEN FALSE ELSE @])
    /\ UnchangedByTasks /\ UNCHANGED <<online, popup>>

\* A stopped supervisor waits for the next change of the intent.
Woken(i) ==
    /\ sups[i].at = "paused" /\ sups[i].changed
    /\ Set(i, [sups[i] EXCEPT !.at = "top", !.changed = FALSE])
    /\ UnchangedByTasks /\ UNCHANGED <<online, popup>>

\* The steps that the task takes without waiting for the user or the process.
Loop(i) == Pause(i) \/ WantRun(i) \/ Connecting(i) \/ Spawn(i) \/ ChangedMidRun(i)
           \/ Killed(i) \/ sleep_or_change(i) \/ Woken(i)

---------------------------------------------------------------------------
(* The managers and the poller of supervisor i. *)

\* A process with a configuration connects; a manager notices later that a
\* connector has gone.
Connect(i) ==
    /\ sups[i].child /\ sups[i].edge # 0 /\ sups[i].edge \notin online
    /\ online' = online \union {sups[i].edge}
    /\ UnchangedByTasks /\ UNCHANGED <<sups, popup>>

Disconnect(e) ==
    /\ e \in online
    /\ \A i \in DOMAIN sups : ~(sups[i].child /\ sups[i].edge = e)
    /\ online' = online \ {e}
    /\ UnchangedByTasks /\ UNCHANGED <<sups, popup>>

\* All connectors that sign-ins create have the same name: the newest wins.
pick_our_edge(s) ==
    {e \in DOMAIN edges : edges[e] = s /\ \A f \in DOMAIN edges : edges[f] = s => f <= e}

\* GET /api/v1/edges with the token of the sign-in: another server rejects it
\* and the poller ends.
Poll(i) ==
    /\ sups[i].poll = "idle"
    /\ \/ /\ sups[i].token # sups[i].polled
          /\ Set(i, [sups[i] EXCEPT !.poll = "ended"])
       \/ /\ sups[i].token = sups[i].polled
          /\ \E e \in pick_our_edge(sups[i].polled) :
                Set(i, [sups[i] EXCEPT !.poll = IF e \in online THEN "on" ELSE "off"])
    /\ UnchangedByTasks /\ UNCHANGED <<online, popup>>

report_tunnel_online(i) ==
    /\ sups[i].poll = "on"
    /\ IF sups[i].last = "Connecting"
         THEN emit(i, [sups[i] EXCEPT !.poll = "idle"], "Online")
         ELSE Set(i, [sups[i] EXCEPT !.poll = "idle"]) /\ UNCHANGED popup
    /\ UnchangedByTasks /\ UNCHANGED online

report_tunnel_offline(i) ==
    /\ sups[i].poll = "off"
    /\ IF sups[i].last = "Online"
         THEN emit(i, [sups[i] EXCEPT !.poll = "idle"], "Connecting")
         ELSE Set(i, [sups[i] EXCEPT !.poll = "idle"]) /\ UNCHANGED popup
    /\ UnchangedByTasks /\ UNCHANGED online

---------------------------------------------------------------------------
(* Commands. *)

\* with_intent and the poller's address: a new supervisor, at its loop top.
NewSupervisor(token) ==
    [intent |-> saved.intended, changed |-> FALSE, at |-> "top", child |-> FALSE,
     edge |-> 0, last |-> "LoggedOut", poll |-> "idle", polled |-> server,
     token |-> token]

\* Pause and resume hold the lock of the slot until the state is displayed.
SlotIsHeld == main \in Intents

\* Fill the slot, unless it is taken.
start_supervisor(token) ==
    /\ ~SlotIsHeld
    /\ \/ slot # 0 /\ UNCHANGED <<slot, sups>>
       \/ /\ slot = 0 /\ Len(sups) < MaxSups
          /\ sups' = Append(sups, NewSupervisor(token))
          /\ slot' = Len(sups) + 1

\* Take the supervisor from the slot and tell it to stop.
TakeSupervisor ==
    /\ ~SlotIsHeld
    /\ slot' = 0
    /\ sups' = IF slot = 0 THEN sups
               ELSE [sups EXCEPT ![slot] = SetIntended(@, "Stopped")]

\* What is left of a command that found the slot empty.
Unheld(intent) == IF intent = "Stopped" THEN "saveStopped" ELSE "saveFresh"

SetLogin(l, r) == logins' = [logins EXCEPT ![l] = r]

\* Sign in: the server is read once, then the browser is opened.
cmd_login(l) ==
    /\ Running /\ logins[l].at = "idle" /\ Command
    /\ SetLogin(l, [logins[l] EXCEPT !.at = "browser", !.server = server])
    /\ UNCHANGED <<server, slot, sups, keychain, config, saved, edges, online, main, popup>>

\* The browser calls back with a token, or the sign-in is denied or times out.
await_token(l) ==
    /\ logins[l].at = "browser"
    /\ \/ /\ keychain' = keychain \union {logins[l].server}
          /\ SetLogin(l, [logins[l] EXCEPT !.at = "saved"])
       \/ SetLogin(l, IdleLogin) /\ UNCHANGED keychain
    /\ UNCHANGED <<server, slot, sups, config, saved, edges, online, main, popup, commands>>

\* A step after the token was stored fails.
login_rollback(l) ==
    /\ logins[l].at \in {"saved", "created"}
    /\ SetLogin(l, IdleLogin)
    /\ keychain' = keychain \ {logins[l].server}
    /\ UNCHANGED <<server, slot, sups, config, saved, edges, online, main, popup, commands>>

\* POST /api/v1/edges.
create_edge(l) ==
    /\ logins[l].at = "saved" /\ Len(edges) < MaxEdges
    /\ edges' = Append(edges, logins[l].server)
    /\ SetLogin(l, [logins[l] EXCEPT !.at = "created", !.edge = Len(edges) + 1])
    /\ UNCHANGED <<server, slot, sups, keychain, config, saved, online, main, popup, commands>>

\* Write the configuration and the intent to run.
write_edge_config(l) ==
    /\ logins[l].at = "created"
    /\ config' = logins[l].edge
    /\ saved' = [saved EXCEPT !.intended = "Running"]
    /\ SetLogin(l, [logins[l] EXCEPT !.at = "written"])
    /\ UNCHANGED <<server, slot, sups, keychain, edges, online, main, popup, commands>>

FinishLogin(l) ==
    /\ logins[l].at = "written"
    /\ start_supervisor(logins[l].server)
    /\ SetLogin(l, IdleLogin)
    /\ UNCHANGED <<server, keychain, config, saved, edges, online, main, popup, commands>>

cmd_logout ==
    /\ Running /\ Command
    /\ TakeSupervisor
    /\ keychain' = keychain \ {server}
    /\ config' = 0
    /\ UNCHANGED <<server, logins, saved, edges, online, main, popup>>

cmd_set_server(new) ==
    /\ Running /\ Command
    /\ TakeSupervisor
    /\ keychain' = keychain \ {server}
    /\ config' = 0
    /\ server' = new
    /\ saved' = [intended |-> "Running", base |-> new]
    /\ popup' = "LoggedOut"
    /\ UNCHANGED <<logins, edges, online, main>>

\* Pause and resume run on the main thread, one after the other.  They send the
\* intent and display the state under the lock of the slot.
Intend(intent) ==
    /\ main = "idle" /\ Command
    /\ IF slot = 0
         THEN main' = Unheld(intent) /\ UNCHANGED sups
         ELSE main' = intent /\ sups' = [sups EXCEPT ![slot] = SetIntended(@, intent)]
    /\ UNCHANGED <<server, slot, logins, keychain, config, saved, edges, online, popup>>

force_state ==
    /\ SlotIsHeld
    /\ emit(slot, sups[slot], IF main = "Stopped" THEN "Paused" ELSE "Connecting")
    /\ main' = IF main = "Stopped" THEN "saveStopped" ELSE "saveRunning"
    /\ UNCHANGED <<server, slot, logins, keychain, config, saved, edges, online, commands>>

cmd_pause ==
    /\ main = "saveStopped"
    /\ saved' = [saved EXCEPT !.intended = "Stopped"]
    /\ main' = "idle"
    /\ UNCHANGED <<server, slot, sups, logins, keychain, config, edges, online, popup, commands>>

\* Where resume found no supervisor, it starts one if the user is signed in.
cmd_resume ==
    /\ main \in {"saveRunning", "saveFresh"}
    /\ saved' = [saved EXCEPT !.intended = "Running"]
    /\ main' = IF main = "saveFresh" /\ config # 0 /\ server \in keychain
                 THEN "start" ELSE "idle"
    /\ UNCHANGED <<server, slot, sups, logins, keychain, config, edges, online, popup, commands>>

ResumeStarts ==
    /\ main = "start"
    /\ start_supervisor(server)
    /\ main' = "idle"
    /\ UNCHANGED <<server, logins, keychain, config, saved, edges, online, popup, commands>>

\* The program ends with everything it holds in memory.
Quit ==
    /\ MayQuit /\ main = "idle" /\ Command
    /\ slot' = 0 /\ sups' = <<>>
    /\ logins' = [l \in Logins |-> IdleLogin]
    /\ main' = "off"
    /\ UNCHANGED <<server, keychain, config, saved, edges, online, popup>>

\* Launch reads state.json and starts a supervisor if the user is signed in.
Launch ==
    /\ main = "off"
    /\ server' = saved.base
    /\ main' = IF config # 0 /\ saved.base \in keychain THEN "start" ELSE "idle"
    /\ popup' = IF saved.base \in keychain THEN "Paused" ELSE "LoggedOut"
    /\ UNCHANGED <<slot, sups, logins, keychain, config, saved, edges, online, commands>>

\* cmd_get_status, after a command of the popup.
current_tray_state ==
    /\ Running
    /\ popup' = IF slot # 0 THEN sups[slot].last
                ELSE IF server \in keychain THEN "Paused" ELSE "LoggedOut"
    /\ UNCHANGED <<server, slot, sups, logins, keychain, config, saved, edges,
                   online, main, commands>>

---------------------------------------------------------------------------
LoginSteps(l) == await_token(l) \/ login_rollback(l) \/ create_edge(l)
                 \/ write_edge_config(l) \/ FinishLogin(l)

Next == \/ \E i \in DOMAIN sups : Loop(i) \/ ChildExits(i) \/ Connect(i) \/ Poll(i)
                                  \/ report_tunnel_online(i) \/ report_tunnel_offline(i)
        \/ \E e \in online : Disconnect(e)
        \/ \E l \in Logins : cmd_login(l) \/ LoginSteps(l)
        \/ \E s \in Servers : cmd_set_server(s)
        \/ cmd_logout
        \/ \E intent \in Intents : Intend(intent)
        \/ force_state \/ cmd_pause \/ cmd_resume \/ ResumeStarts \/ Quit \/ Launch
        \/ current_tray_state

\* The tasks of a supervisor that exists, and the commands the main thread has begun.
RunLoop(i) == i \in DOMAIN sups /\ Loop(i)
PollStatus(i) == i \in DOMAIN sups /\ (report_tunnel_online(i) \/ report_tunnel_offline(i))
FinishCommand == force_state \/ cmd_pause \/ cmd_resume \/ ResumeStarts

Spec == Init /\ [][Next]_vars

---------------------------------------------------------------------------
(* Properties. *)

TypeOK ==
    /\ server \in Servers
    /\ slot \in 0..Len(sups)
    /\ Len(sups) <= MaxSups /\ \A i \in DOMAIN sups : sups[i] \in Supervisor
    /\ logins \in [Logins -> Login]
    /\ keychain \subseteq Servers
    /\ config \in 0..Len(edges)
    /\ saved \in [intended : Intents, base : Servers]
    /\ Len(edges) <= MaxEdges /\ \A e \in DOMAIN edges : edges[e] \in Servers
    /\ online \subseteq DOMAIN edges
    /\ main \in Intents \union {"idle", "saveStopped", "saveRunning", "saveFresh", "start", "off"}
    /\ popup \in Trays
    /\ commands \in 0..MaxCommands

(* Only the supervisor in the slot may want a connector process: however    *)
(* sign-ins, resume and launch overlap, start_supervisor leaves no second   *)
(* one behind that would keep restarting its process.                       *)
OneSupervisorRuns == \A i \in DOMAIN sups : sups[i].intent = "Running" => i = slot

(* "any failure must roll the keychain entry back" (lib.rs, cmd_login): a   *)
(* token for the current server that no sign-in is still working on comes   *)
(* with a configuration, so that resume can start the connector.            *)
StoredTokenHasConfig ==
    server \in keychain /\ (\A l \in Logins : logins[l].at \in {"idle", "browser"})
        => config # 0

(* A supervisor that has been told to stop and is not told anything else    *)
(* ends its process, whatever it was doing when it was told.                *)
ToldToStop(i) == i \in DOMAIN sups /\ sups[i].intent = "Stopped"
ProcessEnded(i) == i \in DOMAIN sups /\ ~sups[i].child

(* A pause that is not taken back is displayed in the end, although the run *)
(* loop may display Connecting, and the poller Online, after cmd_pause has  *)
(* displayed Paused.                                                        *)
Paused == slot # 0 /\ sups[slot].intent = "Stopped"
PauseDisplayed == slot # 0 /\ sups[slot].last = "Paused"

(* A supervisor that is to run does not stop trying: it starts the process  *)
(* or waits for a running one, again and again.                             *)
ToldToRun(i) == i \in DOMAIN sups /\ sups[i].intent = "Running"
Retries(i) == i \in DOMAIN sups /\ sups[i].at \in {"spawn", "running"}

=============================================================================
