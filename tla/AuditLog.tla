------------------------------ MODULE AuditLog ------------------------------
(***************************************************************************)
(* The audit logs of the console: who used which access, and who changed   *)
(* what (controlplane/webdata.go, management_audit.go,                     *)
(* repo/dao/dao_webdata_credential.go, dao_management_audit.go,            *)
(* web/audit_http.go).                                                     *)
(*                                                                         *)
(* Writers take the time of an entry before they get the database, so      *)
(* entries are not stored in the order of their times.  A reader walks     *)
(* through the pages of the log with one request per page, and every       *)
(* request asks the database several times: for what the reader may see,   *)
(* for the page, and for the number of entries.                            *)
(***************************************************************************)
EXTENDS Naturals, Sequences, FiniteSets, SequencesExt

CONSTANTS
    Writers, Accesses,
    Me, Other,         \* the reader, and another user whose doings are logged
    PageSize, MaxTime,
    MaxChanges,        \* bound on the changes of grants, roles and accesses
    All                \* no access in particular

VARIABLES
    table,     \* "access" or "management": the log that is read and written
    log,       \* the stored entries; the position is the row number
    clock,
    writer,    \* entries on their way into the log
    live,      \* accesses that exist
    visible,   \* accesses granted to the reader
    admin,     \* the reader administers the root organization
    reader,    \* the reader's walk through the pages
    narrowed,  \* the reader's view has shrunk since the walk began (history)
    changes    \* how often grants, roles and accesses have changed

vars == <<table, log, clock, writer, live, visible, admin, reader, narrowed, changes>>

Entry == [user: {Me, Other}, access: Accesses \cup {All}, time: 1..MaxTime, named: BOOLEAN, bore: BOOLEAN]
Idle == [at |-> "idle"]

Init ==
    /\ table \in {"access", "management"}
    /\ log = <<>>
    /\ clock = 1
    /\ writer = [w \in Writers |-> Idle]
    /\ live = Accesses
    /\ visible \in IF table = "access" THEN SUBSET Accesses ELSE {{}}
    /\ admin \in BOOLEAN
    /\ reader = [at |-> "idle", page |-> 1, filter |-> All, scoped |-> TRUE, ids |-> {},
                 may |-> {}, items |-> <<>>, total |-> 0, seen |-> {}, start |-> {}]
    /\ narrowed = FALSE
    /\ changes = 0

(* ---- writing ---- *)

\* RecordWebDataAudit: the names of user, access and application are looked up
\* and kept with the entry.  An opaque TCP stream is not recorded.
RecordWebDataAudit(w) ==
    /\ table = "access"
    /\ writer[w].at = "idle"
    /\ \E a \in Accesses :
          writer' = [writer EXCEPT ![w] =
                        [at |-> "stamped",
                         entry |-> [user |-> Me, access |-> a, time |-> clock,
                                    named |-> a \in live, bore |-> a \in live]]]
    /\ UNCHANGED <<table, log, clock, live, visible, admin, reader, narrowed, changes>>

\* RecordManagementAudit.
RecordManagementAudit(w) ==
    /\ table = "management"
    /\ writer[w].at = "idle"
    /\ \E user \in {Me, Other} :
          writer' = [writer EXCEPT ![w] =
                        [at |-> "stamped",
                         entry |-> [user |-> user, access |-> All, time |-> clock,
                                    named |-> TRUE, bore |-> TRUE]]]
    /\ UNCHANGED <<table, log, clock, live, visible, admin, reader, narrowed, changes>>

\* CreateWebDataAudit, CreateManagementAudit: the statement gets the database.
Insert(w) ==
    /\ writer[w].at = "stamped"
    /\ log' = Append(log, writer[w].entry)
    /\ writer' = [writer EXCEPT ![w] = [at |-> "done"]]
    /\ UNCHANGED <<table, clock, live, visible, admin, reader, narrowed, changes>>
CreateWebDataAudit(w) == table = "access" /\ Insert(w)
CreateManagementAudit(w) == table = "management" /\ Insert(w)

Tick ==
    /\ clock < MaxTime
    /\ clock' = clock + 1
    /\ UNCHANGED <<table, log, writer, live, visible, admin, reader, narrowed, changes>>

Change == changes < MaxChanges /\ changes' = changes + 1

\* An access is deleted: its entries stay.
DeleteAccess(a) ==
    /\ Change
    /\ table = "access"
    /\ a \in live
    /\ live' = live \ {a}
    /\ UNCHANGED <<table, log, clock, writer, visible, admin, reader, narrowed>>

\* Grants and roles of the reader change; grants matter to the access log only.
ChangeGrant(a) ==
    /\ Change
    /\ table = "access"
    /\ visible' = IF a \in visible THEN visible \ {a} ELSE visible \cup {a}
    /\ narrowed' = (narrowed \/ a \in visible)
    /\ UNCHANGED <<table, log, clock, writer, live, admin, reader>>

ChangeRole ==
    /\ Change
    /\ admin' = ~admin
    /\ narrowed' = (narrowed \/ admin)
    /\ UNCHANGED <<table, log, clock, writer, live, visible, reader>>

(* ---- reading ---- *)

\* Before the order of the rows: what a user of this view may read.
Readable(e, everything, ids) ==
    IF table = "access" THEN everything \/ e.access \in ids ELSE everything \/ e.user = Me

Begin(filter) ==
    /\ reader.at = "idle"
    /\ reader' = [reader EXCEPT !.at = "asked", !.filter = filter,
                    !.start = {i \in 1..Len(log) : /\ Readable(log[i], admin, visible)
                                                   /\ filter \in {All, log[i].access}}]
    /\ narrowed' = FALSE
    /\ UNCHANGED <<table, log, clock, writer, live, visible, admin, changes>>

\* handleAccessAuditListHTTP and handleManagementAuditListHTTP: the walk starts
\* at page one; only the access log has a filter on an access.
handleAccessAuditListHTTP == table = "access" /\ \E filter \in {All} \cup Accesses : Begin(filter)
handleManagementAuditListHTTP == table = "management" /\ Begin(All)

\* validateAccessAuditProxy refuses a filter on an access the reader does not
\* see or that is gone; the walk ends.
validateAccessAuditProxy ==
    /\ reader.at = "asked"
    /\ reader.filter # All
    /\ reader' = [reader EXCEPT !.at = IF /\ admin \/ reader.filter \in visible
                                          /\ reader.filter \in live
                                       THEN "valid" ELSE "refused"]
    /\ UNCHANGED <<table, log, clock, writer, live, visible, admin, narrowed, changes>>

\* visibleResourceIDs: nothing is filtered for an administrator of the root.
visibleResourceIDs ==
    /\ table = "access"
    /\ reader.at = IF reader.filter = All THEN "asked" ELSE "valid"
    /\ reader' = [reader EXCEPT !.at = "scoped", !.scoped = ~admin,
                                !.ids = IF admin THEN {} ELSE visible,
                                !.may = IF reader.filter # All THEN {reader.filter}
                                        ELSE IF admin THEN Accesses ELSE visible]
    /\ UNCHANGED <<table, log, clock, writer, live, visible, admin, narrowed, changes>>

\* isRootAdministrator in ListManagementAudits: others read what they did.
isRootAdministrator ==
    /\ table = "management"
    /\ reader.at = "asked"
    /\ reader' = [reader EXCEPT !.at = "scoped", !.scoped = ~admin,
                                !.may = IF admin THEN {Me, Other} ELSE {Me}]
    /\ UNCHANGED <<table, log, clock, writer, live, visible, admin, narrowed, changes>>

\* applyWebDataAuditFilters: one access, or the visible ones, or, for a reader
\* who sees none, nothing.
applyWebDataAuditFilters(e) ==
    CASE reader.filter # All -> e.access = reader.filter
      [] reader.filter = All /\ reader.ids # {} -> e.access \in reader.ids
      [] OTHER -> ~reader.scoped

\* applyManagementAuditFilters: no user filter for an administrator.
applyManagementAuditFilters(e) == reader.scoped => e.user = Me

Matching ==
    {i \in 1..Len(log) : IF table = "access" THEN applyWebDataAuditFilters(log[i])
                                             ELSE applyManagementAuditFilters(log[i])}

\* ORDER BY created_at DESC, id DESC.
Newer(i, j) == log[i].time > log[j].time \/ (log[i].time = log[j].time /\ i > j)

\* The pages count from one.
Offset(page) == (page - 1) * PageSize

\* The answered entries: an entry without names gets those of today.
Shown(i) == [id |-> i, named |-> log[i].named \/ log[i].access \in live]

\* LIMIT and OFFSET.
Page ==
    LET sorted == SetToSortSeq(Matching, Newer)
        left == {k \in 1..PageSize : Offset(reader.page) + k <= Len(sorted)} IN
    [k \in left |-> Shown(sorted[Offset(reader.page) + k])]

\* The two queries of the access log, in their order.
ListWebDataAudits ==
    /\ table = "access"
    /\ reader.at = "scoped"
    /\ reader' = [reader EXCEPT !.at = "listed", !.items = Page]
    /\ UNCHANGED <<table, log, clock, writer, live, visible, admin, narrowed, changes>>

CountWebDataAudits ==
    /\ table = "access"
    /\ reader.at = "listed"
    /\ reader' = [reader EXCEPT !.at = "answered", !.total = Cardinality(Matching)]
    /\ UNCHANGED <<table, log, clock, writer, live, visible, admin, narrowed, changes>>

\* ListManagementAudits: the page first, then the count.
ListManagementAudits ==
    /\ table = "management"
    /\ \/ /\ reader.at = "scoped"
          /\ reader' = [reader EXCEPT !.at = "listed", !.items = Page]
       \/ /\ reader.at = "listed"
          /\ reader' = [reader EXCEPT !.at = "answered", !.total = Cardinality(Matching)]
    /\ UNCHANGED <<table, log, clock, writer, live, visible, admin, narrowed, changes>>

\* The reader turns the page, or has come to the end.
TurnPage ==
    /\ reader.at = "answered"
    /\ reader' = [reader EXCEPT !.at = IF reader.items = <<>> THEN "finished" ELSE "asked",
                                !.page = IF reader.items = <<>> THEN @ ELSE @ + 1,
                                !.seen = @ \cup {reader.items[k].id : k \in DOMAIN reader.items},
                                !.items = <<>>, !.total = 0]
    /\ UNCHANGED <<table, log, clock, writer, live, visible, admin, narrowed, changes>>

Next ==
    \/ \E w \in Writers : \/ RecordWebDataAudit(w) \/ RecordManagementAudit(w)
                          \/ CreateWebDataAudit(w) \/ CreateManagementAudit(w)
    \/ Tick \/ ChangeRole \/ \E a \in Accesses : DeleteAccess(a) \/ ChangeGrant(a)
    \/ handleAccessAuditListHTTP \/ handleManagementAuditListHTTP
    \/ validateAccessAuditProxy \/ visibleResourceIDs \/ isRootAdministrator
    \/ ListWebDataAudits \/ CountWebDataAudits \/ ListManagementAudits \/ TurnPage
Spec == Init /\ [][Next]_vars

(* ---- properties ---- *)

\* The log, the walk and the view keep their form; a page is never longer than
\* the page size.
TypeOK ==
    /\ log \in Seq(Entry) /\ clock \in 1..MaxTime
    /\ live \subseteq Accesses /\ visible \subseteq Accesses /\ admin \in BOOLEAN
    /\ Len(reader.items) <= PageSize /\ reader.total <= Len(log)
    /\ reader.seen \subseteq 1..Len(log)

\* A page shows only entries the reader was allowed to see when the request read
\* the reader's rights: a reader who sees no access sees no entry.
PageStaysInScope ==
    reader.at \in {"listed", "answered"} =>
        \A k \in DOMAIN reader.items :
            LET e == log[reader.items[k].id] IN
            (IF table = "access" THEN e.access ELSE e.user) \in reader.may

\* The total that goes with a page covers the page, although entries arrive
\* between the two queries.
TotalCoversPage ==
    reader.at = "answered" /\ reader.items # <<>> =>
        reader.total >= Offset(reader.page) + Len(reader.items)

\* A reader who walks to the last page has seen every entry that was there when
\* the walk began, unless the reader's view shrank on the way: late entries only
\* push the older ones down.
NothingIsSkipped ==
    reader.at = "finished" /\ ~narrowed => reader.start \subseteq reader.seen

\* An entry recorded while its access existed names the access in every later
\* list, the access deleted or not.
NamesOutliveTheAccess ==
    \A k \in DOMAIN reader.items :
        log[reader.items[k].id].bore => reader.items[k].named
==============================================================================
