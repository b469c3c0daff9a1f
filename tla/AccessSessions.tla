---------------------------- MODULE AccessSessions ----------------------------
(***************************************************************************)
(* How an agent's tool call reaches a live connection.  Terminals, data    *)
(* workspaces and desktops register with accesssession.Registry, an agent  *)
(* session stores a snapshot of one of them (agent/application), and each  *)
(* tool call resolves the stored snapshot again (agent/executor).  The     *)
(* connection may end or be replaced between any two of these steps.       *)
(*                                                                         *)
(* `serial' tells connections apart; the code has no such number, it has   *)
(* only the ID and the generation that Registry.Register hands out.        *)
(***************************************************************************)
EXTENDS Naturals, TLAPS

CONSTANTS Users, Ids, Accesses, Sessions, Calls, MaxSerial, None,
          Terminals    \* the accesses whose connections are terminals

VARIABLES
    handles,      \* Registry.handles
    generations,  \* Registry.generations
    conns,        \* connections whose unregister function has not run
    serial,       \* connections so far
    agents,       \* stored agent sessions with their attachment
    may,          \* users who hold the agent permission
    work          \* the request each call serves

vars == <<handles, generations, conns, serial, agents, may, work>>

Conn == [id: Ids, user: Users, access: Accesses, gen: 1..MaxSerial, serial: 1..MaxSerial]
Agent == [owner: Users, kind: {"access", "shell", "management"},
          status: {"active", "archived"}, att: Conn \cup {None}]
Operations == {"terminal.execute", "data.query", "desktop.capture"}
Stages == {"idle", "bound", "arrived", "owned", "live", "waiting", "decided", "resolved",
           "ran", "refused"}
Work == [at: Stages, user: Users \cup {None}, session: Sessions \cup {None},
         conn: Conn \cup {None}, op: Operations \cup {None}, deny: BOOLEAN,
         dead: SUBSET (1..MaxSerial)]
NoWork == [at |-> "idle", user |-> None, session |-> None, conn |-> None,
           op |-> None, deny |-> FALSE, dead |-> {}]

Init ==
    /\ handles = [i \in Ids |-> None]
    /\ generations = [i \in Ids |-> 0]
    /\ conns = {}
    /\ serial = 0
    /\ agents = [s \in Sessions |-> None]
    /\ may = Users
    /\ work = [c \in Calls |-> NoWork]

registry == <<handles, generations, conns, serial>>

(* ---- accesssession.Registry ---- *)

\* Mutant of Register: an ID that is free starts again with generation 1.
reusesGeneration(u, i, a) ==
    LET gen == IF handles[i] = None THEN 1 ELSE handles[i].gen + 1
        conn == [id |-> i, user |-> u, access |-> a, gen |-> gen, serial |-> serial + 1]
    IN  /\ serial < MaxSerial
        /\ serial' = serial + 1
        /\ generations' = [generations EXCEPT ![i] = gen]
        /\ handles' = [handles EXCEPT ![i] = conn]
        /\ conns' = conns \cup {conn}
        /\ UNCHANGED <<agents, may, work>>

\* The generation of an ID outlives the handle.
Register(u, i, a) ==
    LET gen == generations[i] + 1
        conn == [id |-> i, user |-> u, access |-> a, gen |-> gen, serial |-> serial + 1]
    IN  /\ serial < MaxSerial
        /\ serial' = serial + 1
        /\ generations' = [generations EXCEPT ![i] = gen]
        /\ handles' = [handles EXCEPT ![i] = conn]
        /\ conns' = conns \cup {conn}
        /\ UNCHANGED <<agents, may, work>>

\* The function Register returned: it removes the handle of its own generation.
unregister(conn) ==
    /\ conn \in conns
    /\ conns' = conns \ {conn}
    /\ handles' = [handles EXCEPT ![conn.id] =
                     IF @ # None /\ @.gen = conn.gen THEN None ELSE @]
    /\ UNCHANGED <<generations, serial, agents, may, work>>

\* What Describe and AttachmentBinder.Bind return; None is their error.
Bind(u, i) == IF handles[i] # None /\ handles[i].user = u THEN handles[i] ELSE None

Resolve(u, att) ==
    LET h == handles[att.id]
    IN  IF h # None /\ h.user = u /\ h.access = att.access /\ h.gen = att.gen
        THEN h ELSE None

(* ---- agent/application.Service ---- *)

ownedSession(u, s) ==
    agents[s] # None /\ agents[s].owner = u /\ u \in may

\* CreateSession up to the resource's organization: the snapshot is taken.
CreateSession(c, u, i) ==
    /\ work[c] = NoWork
    /\ Bind(u, i) # None
    /\ work' = [work EXCEPT ![c] = [NoWork EXCEPT !.at = "bound", !.user = u, !.conn = Bind(u, i)]]
    /\ UNCHANGED <<registry, agents, may>>

\* The permission is checked, the ID drawn and the snapshot stored.
CreateSessionWithAttachment(c, s, kind) ==
    /\ work[c].at = "bound"
    /\ IF /\ work[c].user \in may
          /\ kind = "shell" => work[c].conn.access \in Terminals
       THEN /\ agents[s] = None
            /\ agents' = [agents EXCEPT ![s] = [owner |-> work[c].user, kind |-> kind,
                                                status |-> "active", att |-> work[c].conn]]
       ELSE UNCHANGED agents
    /\ work' = [work EXCEPT ![c] = NoWork]
    /\ UNCHANGED <<registry, may>>

createManagementSession(u, s) ==
    /\ u \in may
    /\ agents[s] = None
    /\ agents' = [agents EXCEPT ![s] = [owner |-> u, kind |-> "management",
                                        status |-> "active", att |-> None]]
    /\ UNCHANGED <<registry, may, work>>

ArchiveSession(u, s) ==
    /\ ownedSession(u, s)
    /\ agents[s].status = "active"
    /\ agents' = [agents EXCEPT ![s].status = "archived"]
    /\ UNCHANGED <<registry, may, work>>

\* The connections that have ended so far.
Ended == 1..serial \ {k.serial : k \in conns}

\* A request to run a turn that calls one tool; `dead' notes which
\* connections had already ended when it came in.
handleAgentTurnHTTP(c, u, s, op) ==
    /\ work[c] = NoWork
    /\ work' = [work EXCEPT ![c] = [NoWork EXCEPT !.at = "arrived", !.user = u,
                                                  !.session = s, !.op = op, !.dead = Ended]]
    /\ UNCHANGED <<registry, agents, may>>

RunTurn(c) ==
    /\ work[c].at = "arrived"
    /\ work' = [work EXCEPT ![c].at =
                  IF ownedSession(work[c].user, work[c].session) THEN "owned" ELSE "refused"]
    /\ UNCHANGED <<registry, agents, may>>

\* Every stored attachment is bound again and compared before the model runs.
checkLiveAttachments(c) ==
    LET att == agents[work[c].session].att
        live == Bind(work[c].user, att.id)
    IN  /\ work[c].at = "owned"
        /\ work' = [work EXCEPT ![c].at =
                      IF \/ att = None
                         \/ live # None /\ live.gen = att.gen /\ live.access = att.access
                      THEN "live" ELSE "refused"]
        /\ UNCHANGED <<registry, agents, may>>

\* The runtime freezes the call for approval (medium-risk tools).
AskApproval(c) ==
    /\ work[c].at = "live"
    /\ work' = [work EXCEPT ![c].at = "waiting"]
    /\ UNCHANGED <<registry, agents, may>>

\* The decision comes back as a request of its own.
handleAgentApprovalHTTP(c, u, deny) ==
    /\ work[c].at = "waiting"
    /\ work' = [work EXCEPT ![c].at = "decided", ![c].user = u, ![c].deny = deny,
                            ![c].dead = Ended]
    /\ UNCHANGED <<registry, agents, may>>

ResolveApproval(c) ==
    /\ work[c].at = "decided"
    /\ work' = [work EXCEPT ![c].at =
                  IF ownedSession(work[c].user, work[c].session) THEN "owned" ELSE "waiting"]
    /\ UNCHANGED <<registry, agents, may>>

(* ---- agent/executor ---- *)

\* Router.Execute: one executor serves every protocol, and captures are not
\* among its operations.
supportsOperation(op) == op \in {"terminal.execute", "data.query"}
\* The handler SessionExecutor needs for the operation is not nil.
HasHandler(op, conn) == (op = "terminal.execute") = (conn.access \in Terminals)

\* Router.Execute and SessionExecutor.Execute up to the handle.
Execute(c) ==
    LET att == agents[work[c].session].att
        conn == Resolve(work[c].user, att)
    IN  /\ work[c].at = "live"
        /\ work' = [work EXCEPT
                      ![c].at = IF /\ ~work[c].deny
                                   /\ att # None
                                   /\ supportsOperation(work[c].op)
                                   /\ conn # None
                                   /\ HasHandler(work[c].op, conn)
                                THEN "resolved" ELSE "refused",
                      ![c].conn = IF att = None THEN None ELSE conn]
        /\ UNCHANGED <<registry, agents, may>>

\* The handle runs the operation on its connection, or finds it closed.
Perform(c) ==
    /\ work[c].at = "resolved"
    /\ work' = [work EXCEPT ![c].at = IF work[c].conn \in conns THEN "ran" ELSE "refused"]
    /\ UNCHANGED <<registry, agents, may>>

Answer(c) ==
    /\ work[c].at \in {"ran", "refused"}
    /\ work' = [work EXCEPT ![c] = NoWork]
    /\ UNCHANGED <<registry, agents, may>>

\* An administrator grants or withdraws the permission.
SetPermission(u) ==
    /\ may' = IF u \in may THEN may \ {u} ELSE may \cup {u}
    /\ UNCHANGED <<registry, agents, work>>

Next ==
    \/ \E u \in Users, i \in Ids, a \in Accesses : Register(u, i, a)
    \/ \E conn \in conns : unregister(conn)
    \/ \E u \in Users : SetPermission(u)
    \/ \E c \in Calls :
        \/ \E u \in Users, i \in Ids : CreateSession(c, u, i)
        \/ \E s \in Sessions, k \in {"access", "shell"} : CreateSessionWithAttachment(c, s, k)
        \/ \E u \in Users, s \in Sessions, op \in Operations : handleAgentTurnHTTP(c, u, s, op)
        \/ RunTurn(c)
        \/ checkLiveAttachments(c)
        \/ AskApproval(c)
        \/ \E u \in Users, d \in BOOLEAN : handleAgentApprovalHTTP(c, u, d)
        \/ ResolveApproval(c)
        \/ Execute(c)
        \/ Perform(c)
        \/ Answer(c)
    \/ \E u \in Users, s \in Sessions : createManagementSession(u, s) \/ ArchiveSession(u, s)

Spec == Init /\ [][Next]_vars

(* ---- properties ---- *)

\* Every variable keeps its type.
TypeOK ==
    /\ handles \in [Ids -> Conn \cup {None}]
    /\ generations \in [Ids -> 0..MaxSerial]
    /\ conns \subseteq Conn
    /\ serial \in 0..MaxSerial
    /\ agents \in [Sessions -> Agent \cup {None}]
    /\ may \subseteq Users
    /\ work \in [Calls -> Work]

\* Register's comment: "Reusing an ID advances its generation so a stale Agent
\* attachment can never target a replacement connection accidentally".  A
\* call that got a handle got the very connection its session was created
\* for, which belongs to the user who asked.
CallReachesItsConnection ==
    \A c \in Calls : work[c].at \in {"resolved", "ran"} =>
        /\ work[c].conn.serial = agents[work[c].session].att.serial
        /\ work[c].conn.user = work[c].user
        /\ work[c].user = agents[work[c].session].owner

\* The registry shows live connections and no others: the newest connection
\* of an ID stays registered whatever older one of the same ID ends later,
\* and a connection that ended is not shown.
RegistryShowsLiveConnections ==
    /\ \A k \in conns : k.gen = generations[k.id] => handles[k.id] = k
    /\ \A i \in Ids : handles[i] # None => handles[i] \in conns

\* checkLiveAttachments promises to "revalidate before spending model tokens,
\* including approval resumption": a turn runs only if the connection of its
\* session was still open when the request, or the approval, came in.
TurnsStartOnLiveConnections ==
    \A c \in Calls : work[c].at \in {"live", "resolved", "ran"} =>
        LET att == agents[work[c].session].att
        IN  att # None => att.serial \notin work[c].dead

-----------------------------------------------------------------------------
(* Why these hold for any number of users, IDs, sessions and calls.        *)

\* None stands for a nil pointer, an absent row or an empty field.
ConstantsOK == None \notin Conn /\ None \notin Agent /\ MaxSerial \in Nat

\* A connection that was registered: no live one has its ID and generation.
Known(k) ==
    /\ k.serial <= serial
    /\ k.gen <= generations[k.id]
    /\ \A l \in conns : l.id = k.id /\ l.gen = k.gen => l = k

RegistryInv ==
    /\ \A i \in Ids : generations[i] <= serial
    /\ \A k \in conns : Known(k)
    /\ \A i \in Ids : handles[i] # None =>
          handles[i] \in conns /\ handles[i].id = i /\ handles[i].gen = generations[i]
    /\ \A k \in conns : k.gen = generations[k.id] => handles[k.id] = k

AgentOK(a) == a.att # None => Known(a.att) /\ a.att.user = a.owner

\* What a request has seen of the registry and of its session at each stage.
WorkOK(w) ==
    /\ w.conn # None => Known(w.conn)
    /\ w.at = "bound" => w.user \in Users /\ w.conn # None /\ w.conn.user = w.user
    /\ w.at \notin {"idle", "bound", "refused"} => w.session \in Sessions
    /\ w.at \in {"owned", "live", "resolved", "ran"} =>
          agents[w.session] # None /\ agents[w.session].owner = w.user
    /\ w.at \in {"live", "resolved", "ran"} =>
          LET att == agents[w.session].att IN att # None => att.serial \notin w.dead
    /\ w.at \in {"resolved", "ran"} => w.conn # None /\ w.conn = agents[w.session].att
    /\ w.dead \subseteq 1..serial
    /\ \A k \in conns : k.serial \notin w.dead

\* The inductive invariant.
LiveInv ==
    /\ TypeOK
    /\ RegistryInv
    /\ \A s \in Sessions : agents[s] # None => AgentOK(agents[s])
    /\ \A c \in Calls : WorkOK(work[c])

\* What the steps below share: the types, one by one.
LEMMA Types ==
    ASSUME LiveInv
    PROVE  /\ handles \in [Ids -> Conn \cup {None}]
           /\ generations \in [Ids -> 0..MaxSerial]
           /\ conns \subseteq Conn
           /\ serial \in 0..MaxSerial
           /\ agents \in [Sessions -> Agent \cup {None}]
           /\ work \in [Calls -> Work]
           /\ RegistryInv
           /\ \A s \in Sessions : agents[s] # None => AgentOK(agents[s])
           /\ \A c \in Calls : WorkOK(work[c])
BY Zenon DEF LiveInv, TypeOK

\* A handle, an attachment and a request's connection are connections.
LEMMA HandleFacts ==
    ASSUME LiveInv, NEW i \in Ids, handles[i] # None
    PROVE  /\ handles[i] \in Conn /\ handles[i] \in conns
           /\ handles[i].id = i /\ handles[i].gen = generations[i]
           /\ Known(handles[i])
BY Zenon, Types DEF RegistryInv

\* An attachment that still resolves is the connection it was taken from.
LEMMA SameGeneration ==
    ASSUME LiveInv, NEW k \in Conn, Known(k),
           handles[k.id] # None, handles[k.id].gen = k.gen
    PROVE  handles[k.id] = k /\ k \in conns
<1>1. k.id \in Ids
  BY DEF Conn
<1>2. handles[k.id] \in conns /\ handles[k.id].id = k.id
  BY <1>1, HandleFacts
<1>3. QED
  BY Zenon, <1>2 DEF Known

\* A step that leaves registry and sessions alone keeps the invariant if the
\* request it moves on is as WorkOK says.
LEMMA RequestStep ==
    ASSUME LiveInv, UNCHANGED <<registry, agents>>, may' \subseteq Users,
           NEW c \in Calls, NEW w \in Work, WorkOK(w),
           work' = [work EXCEPT ![c] = w]
    PROVE  LiveInv'
<1>1. UNCHANGED <<handles, generations, conns, serial, agents>>
  BY Zenon DEF registry
<1>2. work' \in [Calls -> Work] /\ \A d \in Calls : WorkOK(work'[d])
  BY Types
<1>3. TypeOK'
  BY Zenon, <1>1, <1>2, Types DEF TypeOK
<1>4. /\ RegistryInv' /\ \A x : WorkOK(x) => WorkOK(x)'
      /\ \A x : AgentOK(x) => AgentOK(x)'
  BY Zenon, <1>1, Types DEF RegistryInv, Known, AgentOK, WorkOK
<1>5. QED
  BY Zenon, <1>1, <1>2, <1>3, <1>4, Types DEF LiveInv
\* The stages of a request that only move on: the record but for its stage.
LEMMA MovesOn ==
    ASSUME LiveInv, NEW c \in Calls, NEW to \in Stages
    PROVE  LET w == [work[c] EXCEPT !.at = to]
           IN  /\ w \in Work /\ w.at = to
               /\ w.user = work[c].user /\ w.session = work[c].session
               /\ w.conn = work[c].conn /\ w.dead = work[c].dead
BY Types DEF Work

LEMMA InitLive == ASSUME ConstantsOK, Init PROVE LiveInv
<1>1. NoWork \in Work /\ NoWork.dead = {} /\ NoWork.at = "idle" /\ NoWork.conn = None
  BY DEF NoWork, Work, Stages
<1>2. TypeOK
  BY <1>1 DEF Init, TypeOK, ConstantsOK
<1>3. RegistryInv /\ \A s \in Sessions : agents[s] = None
  BY DEF Init, RegistryInv
<1>4. ASSUME NEW c \in Calls PROVE WorkOK(work[c])
  BY <1>1 DEF Init, WorkOK
<1>5. QED
  BY Zenon, <1>2, <1>3, <1>4 DEF LiveInv

\* Register hands out a generation that no connection and no snapshot has.
LEMMA RegisterLive ==
    ASSUME ConstantsOK, LiveInv,
           NEW u \in Users, NEW i \in Ids, NEW a \in Accesses, Register(u, i, a)
    PROVE  LiveInv'
<1>0. PICK gen, conn :
         /\ gen = generations[i] + 1
         /\ conn = [id |-> i, user |-> u, access |-> a, gen |-> gen,
                    serial |-> serial + 1]
  BY Zenon
<1>1. /\ serial < MaxSerial /\ serial' = serial + 1
      /\ generations' = [generations EXCEPT ![i] = gen]
      /\ handles' = [handles EXCEPT ![i] = conn]
      /\ conns' = conns \cup {conn}
      /\ UNCHANGED <<agents, may, work>>
  BY <1>0 DEF Register
<1>2. serial \in Nat /\ MaxSerial \in Nat /\ generations[i] \in Nat
      /\ generations[i] <= serial /\ gen = generations[i] + 1
  BY <1>0, Types DEF ConstantsOK, RegistryInv
<1>3. conn \in Conn /\ conn # None
  BY <1>0, <1>1, <1>2 DEF Conn, ConstantsOK
<1>4. /\ generations' \in [Ids -> 0..MaxSerial] /\ handles' \in [Ids -> Conn \cup {None}]
      /\ generations'[i] = gen /\ handles'[i] = conn
      /\ \A j \in Ids \ {i} : generations'[j] = generations[j] /\ handles'[j] = handles[j]
  BY <1>1, <1>2, <1>3, Types
<1>5. conn.id = i /\ conn.gen = gen /\ conn.serial = serial + 1
  BY <1>0
<1>6. TypeOK'
  BY <1>1, <1>2, <1>3, <1>4, Types DEF TypeOK, LiveInv
<1>7. ASSUME NEW k \in Conn, Known(k)
      PROVE  Known(k)' /\ ~(k.id = i /\ k.gen = gen)
  <2>1. k.id \in Ids /\ k.gen \in Nat /\ k.serial \in Nat /\ generations[k.id] \in Nat
    BY Types DEF Conn
  <2>2. k.serial <= serial /\ k.gen <= generations[k.id]
    BY <1>7 DEF Known
  <2>3. ~(k.id = i /\ k.gen = gen)
    BY <1>2, <2>1, <2>2
  <2>4. k.serial <= serial' /\ k.gen <= generations'[k.id]
    BY <1>1, <1>2, <1>4, <2>1, <2>2
  <2>5. ASSUME NEW l \in conns', l.id = k.id, l.gen = k.gen PROVE l = k
    BY Zenon, <1>1, <1>5, <1>7, <2>3, <2>5 DEF Known
  <2>6. QED
    BY Zenon, <2>3, <2>4, <2>5 DEF Known
<1>8. Known(conn)'
  <2>1. \A l \in conns : ~(l.id = i /\ l.gen = gen)
    BY <1>7, Types DEF RegistryInv
  <2>2. conn.serial <= serial' /\ conn.gen <= generations'[conn.id]
    BY <1>1, <1>2, <1>4, <1>5
  <2>3. QED
    BY Zenon, <1>1, <1>5, <2>1, <2>2 DEF Known
<1>9. RegistryInv'
  <2>1. \A j \in Ids : generations'[j] <= serial'
    BY <1>1, <1>2, <1>4, Types DEF RegistryInv
  <2>2. \A k \in conns' : Known(k)'
    BY Zenon, <1>1, <1>7, <1>8, Types DEF RegistryInv
  <2>3. \A j \in Ids : handles'[j] # None =>
           handles'[j] \in conns' /\ handles'[j].id = j /\ handles'[j].gen = generations'[j]
    BY <1>1, <1>4, <1>5, Types DEF RegistryInv
  <2>4. ASSUME NEW k \in conns', k.gen = generations'[k.id] PROVE handles'[k.id] = k
    <3>1. CASE k = conn
      BY <3>1, <1>4, <1>5
    <3>2. CASE k \in conns
      <4>1. k \in Conn /\ k.id \in Ids /\ ~(k.id = i /\ k.gen = gen)
        BY <3>2, <1>7, Types DEF RegistryInv, Conn
      <4>2. k.id # i
        BY <1>4, <2>4, <4>1
      <4>3. QED
        BY <1>4, <2>4, <3>2, <4>1, <4>2, Types DEF RegistryInv
    <3>3. QED
      BY <1>1, <3>1, <3>2
  <2>5. QED
    BY Zenon, <2>1, <2>2, <2>3, <2>4 DEF RegistryInv
<1>10. ASSUME NEW s \in Sessions, agents'[s] # None PROVE AgentOK(agents[s])'
  <2>1. agents[s] \in Agent /\ AgentOK(agents[s]) /\ agents'[s] = agents[s]
    BY <1>1, <1>10, Types
  <2>2. agents[s].att # None => agents[s].att \in Conn
    BY <2>1 DEF Agent
  <2>3. QED
    BY Zenon, <1>7, <2>1, <2>2 DEF AgentOK
<1>11. ASSUME NEW c \in Calls PROVE WorkOK(work[c])'
  <2>1. WorkOK(work[c]) /\ work[c] \in Work /\ work' = work /\ agents' = agents
    BY <1>1, Types
  <2>2. work[c].conn # None => Known(work[c].conn)'
    BY <1>7, <2>1 DEF WorkOK, Work
  <2>3. /\ work[c].dead \subseteq 1..serial'
        /\ \A k \in conns' : k.serial \notin work[c].dead
    BY <1>1, <1>2, <1>5, <2>1 DEF WorkOK
  <2>4. QED
    BY Zenon, <2>1, <2>2, <2>3 DEF WorkOK
<1>12. QED
  BY Zenon, <1>6, <1>9, <1>10, <1>11 DEF LiveInv
\* unregister takes away its own handle and no later one.
LEMMA UnregisterLive ==
    ASSUME ConstantsOK, LiveInv, NEW conn \in conns, unregister(conn)
    PROVE  LiveInv'
<1>1. /\ conns' = conns \ {conn}
      /\ handles' = [handles EXCEPT ![conn.id] =
                       IF @ # None /\ @.gen = conn.gen THEN None ELSE @]
      /\ UNCHANGED <<generations, serial, agents, may, work>>
  BY DEF unregister
<1>2. conn \in Conn /\ conn.id \in Ids /\ Known(conn)
  BY Types DEF Conn, RegistryInv
<1>3. handles' \in [Ids -> Conn \cup {None}]
  BY <1>1, <1>2, Types
<1>4. \A i \in Ids : handles'[i] # None => handles'[i] = handles[i]
  BY <1>1, <1>2, Types
<1>5. \A i \in Ids : i # conn.id => handles'[i] = handles[i]
  BY <1>1, <1>2, Types
<1>6. handles[conn.id] = conn => handles'[conn.id] = None
  BY <1>1, <1>2, Types DEF ConstantsOK
<1>7. TypeOK'
  BY Zenon, <1>1, <1>3, Types DEF TypeOK, LiveInv
<1>8. ASSUME NEW k, Known(k) PROVE Known(k)'
  BY Zenon, <1>1, <1>8 DEF Known
<1>9. RegistryInv'
  <2>1. \A i \in Ids : generations'[i] <= serial'
    BY Zenon, <1>1, Types DEF RegistryInv
  <2>2. \A k \in conns' : Known(k)'
    BY Zenon, <1>1, <1>8, Types DEF RegistryInv
  <2>3. ASSUME NEW i \in Ids, handles'[i] # None
        PROVE  handles'[i] \in conns' /\ handles'[i].id = i /\ handles'[i].gen = generations'[i]
    <3>1. handles'[i] = handles[i] /\ handles[i] # None
      BY Zenon, <1>4, <2>3
    <3>2. handles[i] \in conns /\ handles[i].id = i /\ handles[i].gen = generations[i]
      BY Zenon, <3>1, Types DEF RegistryInv
    <3>3. handles[i] # conn
      BY Zenon, <1>6, <2>3, <3>2
    <3>4. QED
      BY <1>1, <3>1, <3>2, <3>3
  <2>4. ASSUME NEW k \in conns', k.gen = generations'[k.id] PROVE handles'[k.id] = k
    <3>1. k \in conns /\ k # conn /\ k.id \in Ids /\ k \in Conn
      BY <1>1, Types DEF Conn
    <3>2. handles[k.id] = k
      BY Zenon, <1>1, <2>4, <3>1, Types DEF RegistryInv
    <3>3. CASE k.id = conn.id
      <4>1. k.gen # conn.gen
        BY Zenon, <1>2, <3>1, <3>3 DEF Known
      <4>2. QED
        BY <1>1, <1>2, <3>2, <3>3, <4>1, Types
    <3>4. QED
      BY Zenon, <1>5, <3>1, <3>2, <3>3
  <2>5. QED
    BY Zenon, <2>1, <2>2, <2>3, <2>4 DEF RegistryInv
<1>10. ASSUME NEW s \in Sessions, agents'[s] # None PROVE AgentOK(agents[s])'
  BY Zenon, <1>1, <1>8, <1>10, Types DEF AgentOK
<1>11. ASSUME NEW c \in Calls PROVE WorkOK(work[c])'
  BY Zenon, <1>1, <1>8, Types DEF WorkOK
<1>12. QED
  BY Zenon, <1>7, <1>9, <1>10, <1>11 DEF LiveInv

\* A step that stores or archives one session keeps the invariant, as the
\* attachments and owners of stored sessions never change.
LEMMA SessionStep ==
    ASSUME LiveInv, UNCHANGED <<registry, may>>,
           NEW s \in Sessions, NEW a \in Agent, a # None, AgentOK(a),
           agents' = [agents EXCEPT ![s] = a],
           agents[s] # None => a.att = agents[s].att /\ a.owner = agents[s].owner,
           work' \in [Calls -> Work],
           \A c \in Calls : WorkOK(work'[c])
    PROVE  LiveInv'
<1>1. UNCHANGED <<handles, generations, conns, serial, may>>
  BY Zenon DEF registry
<1>2. /\ agents' \in [Sessions -> Agent \cup {None}] /\ agents'[s] = a
      /\ \A t \in Sessions : t # s => agents'[t] = agents[t]
  BY Types
<1>3. TypeOK'
  BY Zenon, <1>1, <1>2, Types DEF TypeOK, LiveInv
<1>4. /\ RegistryInv' /\ \A x : Known(x) => Known(x)'
      /\ \A x : AgentOK(x) => AgentOK(x)'
  BY Zenon, <1>1, Types DEF RegistryInv, Known, AgentOK
<1>5. ASSUME NEW t \in Sessions, agents'[t] # None PROVE AgentOK(agents[t])'
  <2>1. PICK x : x = agents'[t]
    BY Zenon
  <2>2. AgentOK(x)
    BY Zenon, <1>2, <1>5, <2>1, Types
  <2>3. AgentOK(x)'
    BY Zenon, <1>4, <2>2
  <2>4. QED
    BY Zenon, <2>1, <2>3 DEF AgentOK
<1>6. ASSUME NEW x, WorkOK(x) PROVE WorkOK(x)'
  <2>1. /\ x.at \in {"owned", "live", "resolved", "ran"} =>
             x.session \in Sessions /\ agents[x.session] # None
        /\ \A t \in Sessions : agents[t] # None =>
             /\ agents'[t] # None /\ agents'[t].att = agents[t].att
             /\ agents'[t].owner = agents[t].owner
    BY Zenon, <1>2, <1>6 DEF WorkOK
  <2>2. /\ x.conn # None => Known(x.conn)'
        /\ x.dead \subseteq 1..serial'
        /\ \A k \in conns' : k.serial \notin x.dead
    BY Zenon, <1>1, <1>4, <1>6 DEF WorkOK
  <2>3. /\ x.at \in {"owned", "live", "resolved", "ran"} =>
             agents'[x.session] # None /\ agents'[x.session].owner = x.user
        /\ x.at \in {"live", "resolved", "ran"} =>
             (agents'[x.session].att # None => agents'[x.session].att.serial \notin x.dead)
        /\ x.at \in {"resolved", "ran"} => x.conn # None /\ x.conn = agents'[x.session].att
    BY <1>6, <2>1 DEF WorkOK
  <2>4. QED
    BY Zenon, <1>6, <2>2, <2>3 DEF WorkOK
<1>7. ASSUME NEW c \in Calls PROVE WorkOK(work[c])'
  <2>1. PICK x : x = work'[c]
    BY Zenon
  <2>2. WorkOK(x)'
    BY Zenon, <1>6, <2>1
  <2>3. QED
    BY Zenon, <2>1, <2>2 DEF WorkOK
<1>8. QED
  BY Zenon, <1>3, <1>4, <1>5, <1>7 DEF LiveInv
LEMMA CreateSessionLive ==
    ASSUME LiveInv, NEW c \in Calls, NEW u \in Users, NEW i \in Ids, CreateSession(c, u, i)
    PROVE  LiveInv'
<1>1. PICK k : k = handles[i]
  BY Zenon
<1>2. k # None /\ k.user = u /\ Bind(u, i) = k
  BY <1>1 DEF CreateSession, Bind
<1>3. k \in Conn /\ Known(k)
  BY Zenon, <1>1, <1>2, HandleFacts
<1>4. PICK w : w = [NoWork EXCEPT !.at = "bound", !.user = u, !.conn = k]
  BY Zenon
<1>5. /\ w \in Work /\ w.at = "bound" /\ w.user = u /\ w.conn = k /\ w.dead = {}
  BY <1>3, <1>4 DEF NoWork, Work, Stages
<1>6. WorkOK(w)
  BY <1>2, <1>3, <1>5 DEF WorkOK
<1>7. work' = [work EXCEPT ![c] = w] /\ UNCHANGED <<registry, agents, may>>
  BY <1>2, <1>4 DEF CreateSession
<1>8. QED
  BY Zenon, <1>5, <1>6, <1>7, Types, RequestStep DEF LiveInv, TypeOK

\* What a request that is over, or not yet begun, may be replaced by.
LEMMA NothingOK ==
    NoWork \in Work /\ WorkOK(NoWork)
BY DEF NoWork, Work, Stages, WorkOK

LEMMA StoreSessionLive ==
    ASSUME ConstantsOK, LiveInv, NEW c \in Calls, NEW s \in Sessions,
           NEW kind \in {"access", "shell"}, CreateSessionWithAttachment(c, s, kind)
    PROVE  LiveInv'
<1>1. /\ work[c].at = "bound" /\ UNCHANGED <<registry, may>>
      /\ work' = [work EXCEPT ![c] = NoWork]
  BY DEF CreateSessionWithAttachment
<1>2. work' \in [Calls -> Work] /\ \A d \in Calls : WorkOK(work'[d])
  BY <1>1, NothingOK, Types
<1>3. CASE UNCHANGED agents
  BY Zenon, <1>1, <1>3, NothingOK, Types, RequestStep DEF LiveInv, TypeOK
<1>4. CASE /\ agents[s] = None
           /\ agents' = [agents EXCEPT ![s] =
                           [owner |-> work[c].user, kind |-> kind,
                            status |-> "active", att |-> work[c].conn]]
  <2>1. PICK a : a = [owner |-> work[c].user, kind |-> kind,
                      status |-> "active", att |-> work[c].conn]
    BY Zenon
  <2>2. /\ work[c].user \in Users /\ work[c].conn # None /\ Known(work[c].conn)
        /\ work[c].conn.user = work[c].user
    BY Zenon, <1>1, Types DEF WorkOK
  <2>3. work[c].conn \in Conn
    BY <2>2, Types DEF Work
  <2>4. a \in Agent /\ a.att = work[c].conn /\ a.owner = work[c].user
    BY <2>1, <2>2, <2>3 DEF Agent
  <2>5. a # None
    BY Zenon, <2>4 DEF ConstantsOK
  <2>6. AgentOK(a)
    BY Zenon, <2>2, <2>4 DEF AgentOK
  <2>7. agents' = [agents EXCEPT ![s] = a]
    BY Zenon, <1>4, <2>1
  <2>8. QED
    BY Zenon, <1>1, <1>2, <1>4, <2>4, <2>5, <2>6, <2>7, SessionStep
<1>5. QED
  BY Zenon, <1>3, <1>4 DEF CreateSessionWithAttachment

LEMMA ManagementLive ==
    ASSUME ConstantsOK, LiveInv, NEW u \in Users, NEW s \in Sessions,
           createManagementSession(u, s)
    PROVE  LiveInv'
<1>1. PICK a : a = [owner |-> u, kind |-> "management", status |-> "active", att |-> None]
  BY Zenon
<1>2. a \in Agent /\ a.att = None
  BY <1>1 DEF Agent
<1>3. a # None /\ AgentOK(a)
  BY Zenon, <1>2 DEF ConstantsOK, AgentOK
<1>4. /\ agents[s] = None /\ agents' = [agents EXCEPT ![s] = a]
      /\ UNCHANGED <<registry, may>> /\ work' = work
  BY <1>1 DEF createManagementSession
<1>5. work' \in [Calls -> Work] /\ \A c \in Calls : WorkOK(work'[c])
  BY Zenon, <1>4, Types
<1>6. QED
  BY Zenon, <1>2, <1>3, <1>4, <1>5, SessionStep

LEMMA ArchiveLive ==
    ASSUME ConstantsOK, LiveInv, NEW u \in Users, NEW s \in Sessions, ArchiveSession(u, s)
    PROVE  LiveInv'
<1>1. agents[s] # None /\ agents[s] \in Agent
  BY Types DEF ArchiveSession, ownedSession
<1>2. PICK a : a = [agents[s] EXCEPT !.status = "archived"]
  BY Zenon
<1>3. a \in Agent /\ a.att = agents[s].att /\ a.owner = agents[s].owner
  BY <1>1, <1>2 DEF Agent
<1>4. a # None /\ AgentOK(a)
  BY Zenon, <1>1, <1>3, Types DEF ConstantsOK, AgentOK
<1>5. agents' = [agents EXCEPT ![s] = a]
  BY <1>2 DEF ArchiveSession
<1>6. UNCHANGED <<registry, may>> /\ work' = work
  BY DEF ArchiveSession
<1>7. work' \in [Calls -> Work] /\ \A c \in Calls : WorkOK(work'[c])
  BY Zenon, <1>6, Types
<1>8. QED
  BY Zenon, <1>3, <1>4, <1>5, <1>6, <1>7, SessionStep
\* The steps that only move a request on.
LEMMA MoveLive ==
    ASSUME LiveInv, UNCHANGED <<registry, agents, may>>,
           NEW c \in Calls, NEW to \in Stages, work' = [work EXCEPT ![c].at = to],
           to # "bound", to \notin {"idle", "refused"} => work[c].session \in Sessions,
           to \in {"owned", "live", "resolved", "ran"} =>
              /\ agents[work[c].session] # None
              /\ agents[work[c].session].owner = work[c].user,
           to \in {"live", "resolved", "ran"} =>
              (agents[work[c].session].att # None =>
                 agents[work[c].session].att.serial \notin work[c].dead),
           to \in {"resolved", "ran"} =>
              work[c].conn # None /\ work[c].conn = agents[work[c].session].att
    PROVE  LiveInv'
<1>1. PICK w : w = [work[c] EXCEPT !.at = to]
  BY Zenon
<1>2. /\ w \in Work /\ w.at = to
      /\ w.user = work[c].user /\ w.session = work[c].session
      /\ w.conn = work[c].conn /\ w.dead = work[c].dead
  BY <1>1, MovesOn
<1>3. /\ w.conn # None => Known(w.conn)
      /\ w.dead \subseteq 1..serial /\ \A k \in conns : k.serial \notin w.dead
  BY Zenon, <1>2, Types DEF WorkOK
<1>4. WorkOK(w)
  BY <1>2, <1>3 DEF WorkOK
<1>5. work' = [work EXCEPT ![c] = w] /\ may' \subseteq Users
  BY <1>1 DEF LiveInv, TypeOK
<1>6. QED
  BY Zenon, <1>2, <1>4, <1>5, RequestStep

LEMMA EndedFacts ==
    ASSUME ConstantsOK, LiveInv
    PROVE  /\ Ended \subseteq 1..serial /\ Ended \subseteq 1..MaxSerial
           /\ \A k \in conns : k.serial \notin Ended
<1>1. serial \in 0..MaxSerial
  BY Zenon, Types
<1>2. 1..serial \subseteq 1..MaxSerial
  BY <1>1 DEF ConstantsOK
<1>3. Ended \subseteq 1..serial /\ \A k \in conns : k.serial \notin Ended
  BY Zenon DEF Ended
<1>4. QED
  BY Zenon, <1>2, <1>3

LEMMA TurnLive ==
    ASSUME ConstantsOK, LiveInv, NEW c \in Calls, NEW u \in Users, NEW s \in Sessions,
           NEW op \in Operations, handleAgentTurnHTTP(c, u, s, op)
    PROVE  LiveInv'
<1>1. PICK d : d = Ended
  BY Zenon
<1>2. PICK w : w = [NoWork EXCEPT !.at = "arrived", !.user = u, !.session = s,
                                  !.op = op, !.dead = d]
  BY Zenon
<1>3. d \subseteq 1..serial /\ d \subseteq 1..MaxSerial /\ \A k \in conns : k.serial \notin d
  BY Zenon, <1>1, EndedFacts
<1>4. /\ w \in Work /\ w.at = "arrived" /\ w.session = s /\ w.conn = None /\ w.dead = d
  BY <1>2, <1>3 DEF NoWork, Work, Stages
<1>5. WorkOK(w)
  BY <1>3, <1>4 DEF WorkOK
<1>6. /\ work' = [work EXCEPT ![c] = w] /\ UNCHANGED <<registry, agents>>
      /\ may' \subseteq Users
  BY <1>1, <1>2 DEF handleAgentTurnHTTP, LiveInv, TypeOK
<1>7. QED
  BY Zenon, <1>4, <1>5, <1>6, RequestStep

\* RunTurn and ResolveApproval go on only for the owner of the session.
LEMMA OwnedLive ==
    ASSUME LiveInv, NEW c \in Calls, RunTurn(c) \/ ResolveApproval(c)
    PROVE  LiveInv'
<1>1. work[c].session \in Sessions /\ UNCHANGED <<registry, agents, may>>
  BY Types DEF RunTurn, ResolveApproval, WorkOK
<1>2. PICK to : /\ to \in {"owned", "refused", "waiting"}
                /\ to = "owned" => ownedSession(work[c].user, work[c].session)
                /\ work' = [work EXCEPT ![c].at = to]
  BY DEF RunTurn, ResolveApproval
<1>3. to \in Stages
  BY <1>2 DEF Stages
<1>4. to = "owned" => /\ agents[work[c].session] # None
                      /\ agents[work[c].session].owner = work[c].user
  BY Zenon, <1>2 DEF ownedSession
<1>5. QED
  BY <1>1, <1>2, <1>3, <1>4, MoveLive

\* Every stored attachment is compared with the registry again.
LEMMA CheckLive ==
    ASSUME LiveInv, NEW c \in Calls, checkLiveAttachments(c)
    PROVE  LiveInv'
<1>1. /\ work[c].session \in Sessions /\ agents[work[c].session] # None
      /\ agents[work[c].session].owner = work[c].user
      /\ UNCHANGED <<registry, agents, may>>
  BY Types DEF checkLiveAttachments, WorkOK
<1>2. PICK att : att = agents[work[c].session].att
  BY Zenon
<1>3. att # None => att \in Conn /\ Known(att)
  BY <1>1, <1>2, Types DEF Agent, AgentOK
<1>4. PICK to : /\ to \in {"live", "refused"}
                /\ to = "live" => \/ att = None
                                  \/ /\ Bind(work[c].user, att.id) # None
                                     /\ Bind(work[c].user, att.id).gen = att.gen
                /\ work' = [work EXCEPT ![c].at = to]
  BY <1>2 DEF checkLiveAttachments
<1>5. to = "live" /\ att # None => att.serial \notin work[c].dead
  <2>1. SUFFICES ASSUME to = "live", att # None
                 PROVE  att.serial \notin work[c].dead
    OBVIOUS
  <2>2. handles[att.id] # None /\ handles[att.id].gen = att.gen
    BY Zenon, <1>4, <2>1 DEF Bind
  <2>3. att \in conns
    BY Zenon, <1>3, <2>1, <2>2, SameGeneration
  <2>4. QED
    BY Zenon, <2>3, Types DEF WorkOK
<1>6. to \in Stages
  BY <1>4 DEF Stages
<1>7. QED
  BY <1>1, <1>2, <1>4, <1>5, <1>6, MoveLive

LEMMA AskLive ==
    ASSUME LiveInv, NEW c \in Calls, AskApproval(c)
    PROVE  LiveInv'
<1>1. /\ work[c].session \in Sessions /\ UNCHANGED <<registry, agents, may>>
      /\ work' = [work EXCEPT ![c].at = "waiting"] /\ "waiting" \in Stages
  BY Types DEF AskApproval, WorkOK, Stages
<1>2. QED
  BY <1>1, MoveLive

\* The decision is a request of its own: what had ended is noted again.
LEMMA DecisionLive ==
    ASSUME ConstantsOK, LiveInv, NEW c \in Calls, NEW u \in Users, NEW deny \in BOOLEAN,
           handleAgentApprovalHTTP(c, u, deny)
    PROVE  LiveInv'
<1>1. PICK d : d = Ended
  BY Zenon
<1>2. PICK w : w = [work[c] EXCEPT !.at = "decided", !.user = u, !.deny = deny, !.dead = d]
  BY Zenon
<1>3. d \subseteq 1..serial /\ d \subseteq 1..MaxSerial /\ \A k \in conns : k.serial \notin d
  BY Zenon, <1>1, EndedFacts
<1>4. /\ work[c] \in Work /\ work[c].at = "waiting"
      /\ work[c].session \in Sessions /\ (work[c].conn # None => Known(work[c].conn))
  BY Types DEF handleAgentApprovalHTTP, WorkOK
<1>5. /\ w \in Work /\ w.at = "decided" /\ w.session = work[c].session
      /\ w.conn = work[c].conn /\ w.dead = d
  BY <1>2, <1>3, <1>4 DEF Work, Stages
<1>6. WorkOK(w)
  BY <1>3, <1>4, <1>5 DEF WorkOK
<1>7. /\ work' = [work EXCEPT ![c] = w] /\ UNCHANGED <<registry, agents>>
      /\ may' \subseteq Users
  BY <1>1, <1>2 DEF handleAgentApprovalHTTP, LiveInv, TypeOK
<1>8. QED
  BY Zenon, <1>5, <1>6, <1>7, RequestStep

\* Resolve finds a handle with the attachment's ID and generation: it is the
\* attachment itself.
LEMMA ExecuteLive ==
    ASSUME LiveInv, NEW c \in Calls, Execute(c)
    PROVE  LiveInv'
<1>1. /\ work[c] \in Work /\ work[c].at = "live" /\ work[c].session \in Sessions
      /\ agents[work[c].session] # None /\ agents[work[c].session].owner = work[c].user
      /\ UNCHANGED <<registry, agents, may>>
  BY Types DEF Execute, WorkOK
<1>2. PICK att : att = agents[work[c].session].att
  BY Zenon
<1>3. /\ att # None => att \in Conn /\ Known(att) /\ att.serial \notin work[c].dead
      /\ work[c].dead \subseteq 1..serial /\ \A k \in conns : k.serial \notin work[c].dead
  BY <1>1, <1>2, Types DEF Agent, AgentOK, WorkOK
<1>4. PICK conn : conn = IF att = None THEN None ELSE Resolve(work[c].user, att)
  BY Zenon
<1>5. conn # None => att # None /\ conn = att
  <2>1. SUFFICES ASSUME conn # None PROVE att # None /\ conn = att
    OBVIOUS
  <2>2. att # None /\ conn = Resolve(work[c].user, att)
    BY Zenon, <1>4, <2>1
  <2>3. conn = handles[att.id] /\ handles[att.id] # None /\ handles[att.id].gen = att.gen
    BY Zenon, <2>1, <2>2 DEF Resolve
  <2>4. QED
    BY Zenon, <1>3, <2>2, <2>3, SameGeneration
<1>6. PICK to : /\ to \in {"resolved", "refused"} /\ (to = "resolved" => conn # None)
                /\ work' = [work EXCEPT ![c].at = to, ![c].conn = conn]
  BY <1>2, <1>4 DEF Execute
<1>7. PICK w : w = [work[c] EXCEPT !.at = to, !.conn = conn]
  BY Zenon
<1>8. /\ w \in Work /\ w.at = to /\ w.user = work[c].user /\ w.session = work[c].session
      /\ w.conn = conn /\ w.dead = work[c].dead
  BY <1>1, <1>3, <1>5, <1>6, <1>7 DEF Work, Stages
<1>9. WorkOK(w)
  BY <1>1, <1>2, <1>3, <1>5, <1>6, <1>8 DEF WorkOK
<1>10. work' = [work EXCEPT ![c] = w] /\ may' \subseteq Users
  BY <1>1, <1>6, <1>7 DEF LiveInv, TypeOK
<1>11. QED
  BY Zenon, <1>1, <1>8, <1>9, <1>10, RequestStep

LEMMA PerformLive ==
    ASSUME LiveInv, NEW c \in Calls, Perform(c)
    PROVE  LiveInv'
<1>1. /\ work[c].session \in Sessions /\ UNCHANGED <<registry, agents, may>>
      /\ agents[work[c].session] # None /\ agents[work[c].session].owner = work[c].user
      /\ agents[work[c].session].att # None =>
            agents[work[c].session].att.serial \notin work[c].dead
      /\ work[c].conn # None /\ work[c].conn = agents[work[c].session].att
  BY Types DEF Perform, WorkOK
<1>2. PICK to : to \in {"ran", "refused"} /\ work' = [work EXCEPT ![c].at = to]
  BY DEF Perform
<1>3. to \in Stages
  BY <1>2 DEF Stages
<1>4. QED
  BY <1>1, <1>2, <1>3, MoveLive

LEMMA AnswerLive ==
    ASSUME LiveInv, NEW c \in Calls, Answer(c)
    PROVE  LiveInv'
<1>1. /\ work' = [work EXCEPT ![c] = NoWork] /\ UNCHANGED <<registry, agents>>
      /\ may' \subseteq Users
  BY DEF Answer, LiveInv, TypeOK
<1>2. QED
  BY Zenon, <1>1, NothingOK, RequestStep

LEMMA UnchangedLive ==
    ASSUME LiveInv, UNCHANGED <<registry, agents, work>>, may' \subseteq Users
    PROVE  LiveInv'
<1>1. UNCHANGED <<handles, generations, conns, serial, agents, work>>
  BY DEF registry
<1>2. TypeOK' /\ RegistryInv'
  BY Zenon, <1>1 DEF LiveInv, TypeOK, RegistryInv, Known
<1>3. ASSUME NEW s \in Sessions, agents'[s] # None PROVE AgentOK(agents[s])'
  BY Zenon, <1>1, <1>3, Types DEF AgentOK, Known
<1>4. ASSUME NEW c \in Calls PROVE WorkOK(work[c])'
  BY Zenon, <1>1, <1>4, Types DEF WorkOK, Known
<1>5. QED
  BY Zenon, <1>2, <1>3, <1>4 DEF LiveInv

LEMMA NextLive ==
    ASSUME ConstantsOK, LiveInv, [Next]_vars
    PROVE  LiveInv'
<1>1. CASE UNCHANGED vars
  <2>1. UNCHANGED <<registry, agents, work>> /\ may' \subseteq Users
    BY <1>1 DEF vars, registry, LiveInv, TypeOK
  <2>2. QED
    BY Zenon, <2>1, UnchangedLive
<1>2. CASE \E u \in Users, i \in Ids, a \in Accesses : Register(u, i, a)
  BY Zenon, <1>2, RegisterLive
<1>3. CASE \E conn \in conns : unregister(conn)
  BY Zenon, <1>3, UnregisterLive
<1>4. CASE \E u \in Users : SetPermission(u)
  <2>1. UNCHANGED <<registry, agents, work>> /\ may' \subseteq Users
    BY <1>4 DEF SetPermission, LiveInv, TypeOK
  <2>2. QED
    BY Zenon, <2>1, UnchangedLive
<1>5. ASSUME NEW c \in Calls, \E u \in Users, i \in Ids : CreateSession(c, u, i)
      PROVE  LiveInv'
  BY Zenon, <1>5, CreateSessionLive
<1>6. ASSUME NEW c \in Calls, \E s \in Sessions, k \in {"access", "shell"} :
                                 CreateSessionWithAttachment(c, s, k)
      PROVE  LiveInv'
  BY Zenon, <1>6, StoreSessionLive
<1>7. ASSUME NEW c \in Calls, \E u \in Users, s \in Sessions, op \in Operations :
                                 handleAgentTurnHTTP(c, u, s, op)
      PROVE  LiveInv'
  BY Zenon, <1>7, TurnLive
<1>8. ASSUME NEW c \in Calls, RunTurn(c) \/ ResolveApproval(c) PROVE LiveInv'
  BY Zenon, <1>8, OwnedLive
<1>9. ASSUME NEW c \in Calls, checkLiveAttachments(c) PROVE LiveInv'
  BY Zenon, <1>9, CheckLive
<1>10. ASSUME NEW c \in Calls, AskApproval(c) PROVE LiveInv'
  BY Zenon, <1>10, AskLive
<1>11. ASSUME NEW c \in Calls, \E u \in Users, d \in BOOLEAN : handleAgentApprovalHTTP(c, u, d)
       PROVE  LiveInv'
  BY Zenon, <1>11, DecisionLive
<1>12. ASSUME NEW c \in Calls, Execute(c) PROVE LiveInv'
  BY Zenon, <1>12, ExecuteLive
<1>13. ASSUME NEW c \in Calls, Perform(c) PROVE LiveInv'
  BY Zenon, <1>13, PerformLive
<1>14. ASSUME NEW c \in Calls, Answer(c) PROVE LiveInv'
  BY Zenon, <1>14, AnswerLive
<1>15. CASE \E u \in Users, s \in Sessions :
              createManagementSession(u, s) \/ ArchiveSession(u, s)
  BY Zenon, <1>15, ManagementLive, ArchiveLive
<1>16. QED
  BY Zenon, <1>1, <1>2, <1>3, <1>4, <1>5, <1>6, <1>7, <1>8, <1>9, <1>10, <1>11,
     <1>12, <1>13, <1>14, <1>15 DEF Next

\* For any users, access IDs, stored sessions, concurrent calls and bound on
\* the number of connections, every interleaving of registration, ends of
\* connections, session creation, turns and approvals keeps the invariant.
THEOREM LiveInvariance ==
    ASSUME ConstantsOK PROVE Spec => []LiveInv
<1>1. Init => LiveInv
  BY Zenon, InitLive
<1>2. LiveInv /\ [Next]_vars => LiveInv'
  BY Zenon, NextLive
<1>3. QED
  BY <1>1, <1>2, PTL DEF Spec

\* Registry.Register's promise about a reused ID, for every instance: a tool
\* call never reaches a connection that replaced the one of its session.
THEOREM CallsReachTheirConnection ==
    ASSUME ConstantsOK PROVE Spec => []CallReachesItsConnection
<1>1. LiveInv => CallReachesItsConnection
  <2>1. SUFFICES ASSUME LiveInv, NEW c \in Calls, work[c].at \in {"resolved", "ran"}
                 PROVE  /\ work[c].conn.serial = agents[work[c].session].att.serial
                        /\ work[c].conn.user = work[c].user
                        /\ work[c].user = agents[work[c].session].owner
    BY Zenon DEF CallReachesItsConnection
  <2>2. /\ work[c].session \in Sessions /\ agents[work[c].session] # None
        /\ agents[work[c].session].owner = work[c].user
        /\ work[c].conn # None /\ work[c].conn = agents[work[c].session].att
    BY <2>1, Types DEF WorkOK
  <2>3. AgentOK(agents[work[c].session])
    BY Zenon, <2>1, <2>2, Types
  <2>4. QED
    BY Zenon, <2>2, <2>3 DEF AgentOK
<1>2. QED
  BY <1>1, LiveInvariance, PTL

\* For every instance the registry shows the newest live connection of an ID
\* and never one that ended, in whatever order the unregister functions run.
THEOREM RegistryIsLive ==
    ASSUME ConstantsOK PROVE Spec => []RegistryShowsLiveConnections
<1>1. LiveInv => RegistryShowsLiveConnections
  BY Zenon DEF LiveInv, RegistryInv, RegistryShowsLiveConnections
<1>2. QED
  BY <1>1, LiveInvariance, PTL

\* For every instance checkLiveAttachments keeps a turn, or its resumption
\* after an approval, from starting on a connection that ended before it.
THEOREM TurnsStartLive ==
    ASSUME ConstantsOK PROVE Spec => []TurnsStartOnLiveConnections
<1>1. LiveInv => TurnsStartOnLiveConnections
  BY Zenon DEF LiveInv, WorkOK, TurnsStartOnLiveConnections
<1>2. QED
  BY <1>1, LiveInvariance, PTL
===============================================================================
