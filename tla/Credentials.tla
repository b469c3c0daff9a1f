----------------------------- MODULE Credentials -----------------------------
(***************************************************************************)
(* The passwords users save for the terminals, desktops and database       *)
(* connections of one access: the requests that save, edit, clear, delete  *)
(* and use them (manager/web/*_http.go, controlplane/webssh.go,            *)
(* webdesktop.go and webdata.go, repo/dao/dao_*_credential.go).            *)
(*                                                                         *)
(* Every statement on the database is a step of its own: the access is     *)
(* checked, a row is looked up and a row is written while other requests   *)
(* do the same.  The three kinds of access keep separate tables, so one    *)
(* behaviour is about one kind.  A secret is the encrypted password with   *)
(* the nonce it was sealed with; every sealing has a nonce of its own.     *)
(***************************************************************************)
EXTENDS Naturals, FiniteSets

CONSTANTS
    Users, Accounts,
    Requests,   \* the requests of one behaviour, numbered from 1
    Blank       \* no secret is stored

VARIABLES
    kind,       \* "ssh", "desktop" or "data": what the access serves
    access,     \* "live", "emptied" while it is being deleted, "gone"
    rows,       \* the credential rows
    nextId,     \* the next row number; SQLite does not reuse one
    req,        \* the requests
    erased      \* sealings that have left the table (history)

vars == <<kind, access, rows, nextId, req, erased>>

Kinds == {"ssh", "desktop", "data"}
Sealings == {0} \cup Requests
Secrets == [by: Users, of: Accounts, enc: Sealings, nonce: Sealings]
Ids == 1..(Cardinality(Requests) + 2)
Row == [id: Ids, user: Users, account: Accounts, secret: Secrets \cup {Blank}, used: BOOLEAN]
NoRow == [id |-> 0]

Ops == {"none", "open", "test", "save", "profile", "delete"}
Stages == {"idle", "secret", "decrypt", "connect", "check", "write", "store", "reread",
           "done", "refused", "panicked"}
Request == [op: Ops, user: Users, account: Accounts, id: {0} \cup Ids,
            secret: Secrets \cup {Blank}, keep: BOOLEAN,
            row: Row \cup {NoRow}, at: Stages]

\* encryptWebSSHPassword: the request that seals is the nonce.
encryptWebSSHPassword(r, user, account) ==
    [by |-> user, of |-> account, enc |-> r, nonce |-> r]

Init ==
    \E user \in Users, account \in Accounts :
        /\ kind \in Kinds
        /\ access = "live"
        /\ rows \in {{}} \cup
                    {{[id |-> 1, user |-> user, account |-> account, secret |-> s, used |-> FALSE]} :
                        s \in {Blank, encryptWebSSHPassword(0, user, account)}}
        /\ nextId = 2
        /\ req = [r \in Requests |-> [op |-> "none", user |-> user, account |-> account, id |-> 0,
                                      secret |-> Blank, keep |-> FALSE,
                                      row |-> NoRow, at |-> "idle"]]
        /\ erased = {}

Sealed(table) == {c.secret.enc : c \in {d \in table : d.secret # Blank}}
Of(user, account) == {c \in rows : c.user = user /\ c.account = account}
\* The rows a user can name are the ones the target page lists.
Listed == {c.id : c \in rows}
Goto(r, stage) == req' = [req EXCEPT ![r].at = stage]

\* Every write of the table; the history remembers what it took away.
Write(table) ==
    /\ rows' = table
    /\ erased' = erased \cup (Sealed(rows) \ Sealed(table))

(* ---- the handlers: who asks for what ---- *)

\* authenticateHTTP and Get...Target come first in every handler.
Begin(r, q) ==
    /\ req[r].at = "idle"
    /\ access # "gone"
    /\ req' = [req EXCEPT ![r] = q]
    /\ UNCHANGED <<kind, access, rows, nextId, erased>>

\* handleWebSSHCredentialHTTP with DELETE.
handleWebSSHCredentialHTTP(r) ==
    /\ kind = "ssh"
    /\ \E user \in Users, account \in Accounts :
          Begin(r, [req[r] EXCEPT !.op = "delete", !.user = user, !.account = account,
                                  !.at = "check"])

\* saveWebSFTPConnectionHTTP: POST creates, PUT (an id in the model) edits; a
\* password is sealed only when it is typed and to be remembered.
saveWebSFTPConnectionHTTP(r) ==
    /\ kind = "ssh"
    /\ \E user \in Users, account \in Accounts, id \in {0, 1}, typed \in BOOLEAN, keep \in BOOLEAN :
          Begin(r, [req[r] EXCEPT !.op = "profile", !.user = user, !.account = account,
                                  !.id = id, !.keep = keep,
                                  !.secret = IF keep /\ typed
                                             THEN encryptWebSSHPassword(r, user, account)
                                             ELSE Blank,
                                  !.at = "check"])

\* handleWebDesktopCredentialHTTP: a password to be remembered must be typed.
handleWebDesktopCredentialHTTP(r) ==
    /\ kind = "desktop"
    /\ \E user \in Users, account \in Accounts :
          \/ \E keep \in BOOLEAN :
                Begin(r, [req[r] EXCEPT !.op = "save", !.user = user, !.account = account,
                                        !.keep = keep,
                                        !.secret = IF keep THEN encryptWebSSHPassword(r, user, account)
                                                           ELSE Blank,
                                        !.at = "check"])
          \/ Begin(r, [req[r] EXCEPT !.op = "delete", !.user = user, !.account = account,
                                     !.at = "check"])

\* handleWebDataCredentialHTTP: a new profile always writes its password, an
\* empty one included; an edited one writes it when it was typed or is to be
\* forgotten.  DELETE names a row or an account.
handleWebDataCredentialHTTP(r) ==
    /\ kind = "data"
    /\ \E user \in Users, account \in Accounts, id \in {0} \cup Listed :
          \/ \E typed \in BOOLEAN, keep \in BOOLEAN :
                LET changed == id = 0 \/ typed \/ ~keep IN
                Begin(r, [req[r] EXCEPT !.op = "save", !.user = user, !.account = account,
                                        !.id = id, !.keep = ~changed,
                                        !.secret = IF keep /\ changed
                                                   THEN encryptWebSSHPassword(r, user, account)
                                                   ELSE Blank,
                                        !.at = "check"])
          \/ Begin(r, [req[r] EXCEPT !.op = "delete", !.user = user, !.account = account,
                                     !.id = id, !.at = "check"])

\* A session is asked for with a typed password, or with a stored one; a
\* database session may name the row, and then the stored password is used.
OpenSession(r) ==
    \E user \in Users, account \in Accounts, typed \in BOOLEAN, keep \in BOOLEAN,
       id \in {0} \cup Listed :
        /\ kind # "data" => id = 0
        /\ keep => typed
        /\ LET stored == ~typed \/ id > 0 IN
           Begin(r, [req[r] EXCEPT !.op = "open", !.user = user, !.account = account, !.id = id,
                                   !.keep = keep /\ ~stored,
                                   !.secret = IF stored THEN Blank
                                              ELSE encryptWebSSHPassword(r, user, account),
                                   !.at = IF stored THEN "secret" ELSE "connect"])

\* handleTestWebDataConnectionHTTP: a typed password wins over the named row.
handleTestWebDataConnectionHTTP(r) ==
    /\ kind = "data"
    /\ \E user \in Users, account \in Accounts, typed \in BOOLEAN, id \in {0} \cup Listed :
          Begin(r, [req[r] EXCEPT !.op = "test", !.user = user, !.account = account, !.id = id,
                                  !.secret = IF typed THEN encryptWebSSHPassword(r, user, account)
                                                      ELSE Blank,
                                  !.at = IF typed THEN "connect" ELSE "secret"])

(* ---- using a stored password ---- *)

Refuse(r) == Goto(r, "refused") /\ UNCHANGED <<kind, access, rows, nextId, erased>>

Found(r, c, stage) ==
    /\ req' = [req EXCEPT ![r].secret = c.secret, ![r].row = c, ![r].account = c.account,
                          ![r].at = stage]
    /\ UNCHANGED <<kind, access, rows, nextId, erased>>

\* GetWebSSHCredentialSecret: an account that is not stored asks for a password.
GetWebSSHCredentialSecret(r) ==
    LET q == req[r]
        found == Of(q.user, q.account) IN
    /\ kind = "ssh"
    /\ q.at = "secret"
    /\ \/ (access = "gone" \/ found = {}) /\ Refuse(r)
       \/ access # "gone" /\ \E c \in found : Found(r, c, "decrypt")

\* GetWebDesktopCredentialSecret; the handler refuses an empty secret itself.
GetWebDesktopCredentialSecret(r) ==
    LET q == req[r]
        found == {c \in Of(q.user, q.account) : c.secret # Blank} IN
    /\ kind = "desktop"
    /\ q.at = "secret"
    /\ \/ (access = "gone" \/ found = {}) /\ Refuse(r)
       \/ access # "gone" /\ \E c \in found : Found(r, c, "decrypt")

\* GetWebDataCredentialSecret: without a stored password the session is opened
\* with an empty one.
GetWebDataCredentialSecret(r) ==
    LET q == req[r]
        found == {c \in Of(q.user, q.account) : c.secret # Blank} IN
    /\ kind = "data"
    /\ q.at = "secret"
    /\ q.id = 0
    /\ \/ access = "gone" /\ Refuse(r)
       \/ access # "gone" /\ found = {} /\ Goto(r, "connect")
                          /\ UNCHANGED <<kind, access, rows, nextId, erased>>
       \/ access # "gone" /\ \E c \in found : Found(r, c, "decrypt")

\* GetWebDataCredentialSecretByID: the row must be the user's own.
GetWebDataCredentialSecretByID(r) ==
    LET q == req[r]
        found == {c \in rows : c.id = q.id /\ c.user = q.user} IN
    /\ kind = "data"
    /\ q.at = "secret"
    /\ q.id > 0
    /\ \/ (access = "gone" \/ found = {}) /\ Refuse(r)
       \/ access # "gone" /\ \E c \in found : Found(r, c, "decrypt")

\* decryptWebSSHPassword: the cipher panics on an empty nonce, and fails on a
\* nonce the password was not sealed with.
decryptWebSSHPassword(r) ==
    LET secret == req[r].secret IN
    /\ req[r].at = "decrypt"
    /\ Goto(r, IF secret = Blank THEN "panicked"
               ELSE IF secret.enc = secret.nonce THEN "connect" ELSE "refused")
    /\ UNCHANGED <<kind, access, rows, nextId, erased>>

\* The target takes the password or not.  A typed password may then be saved;
\* a stored one is marked as used.
Connect(r) ==
    LET q == req[r] IN
    /\ q.at = "connect"
    /\ \/ Refuse(r)
       \/ /\ Goto(r, IF q.op = "open" /\ (q.keep \/ q.row # NoRow) THEN "check" ELSE "done")
          /\ UNCHANGED <<kind, access, rows, nextId, erased>>

(* ---- writing the table ---- *)

\* Every call that writes loads the target again first.
LoadTarget(r) ==
    /\ req[r].at = "check"
    /\ Goto(r, IF access = "gone" THEN "refused" ELSE "write")
    /\ UNCHANGED <<kind, access, rows, nextId, erased>>
loadWebSSHTarget(r) == kind = "ssh" /\ req[r].op # "profile" /\ LoadTarget(r)
\* SaveWebSFTPConnection also wants a terminal or file access, which the kind says.
SaveWebSFTPConnection(r) == kind = "ssh" /\ req[r].op = "profile" /\ LoadTarget(r)
loadWebDesktopTarget(r) == kind = "desktop" /\ LoadTarget(r)
loadWebDataTarget(r) == kind = "data" /\ LoadTarget(r)

\* A request that has come to a statement of the table.
Writing(r, k, op) == kind = k /\ req[r].at = "write" /\ req[r].op = op

Touch(r, touched) ==
    /\ Write({IF c \in touched THEN [c EXCEPT !.used = TRUE] ELSE c : c \in rows})
    /\ Goto(r, "done")
    /\ UNCHANGED <<kind, access, nextId>>

\* Mutant of TouchWebSSHCredential: the row that was read is saved whole.
touchesBySave(r) ==
    LET q == req[r] IN
    /\ Writing(r, "ssh", "open")
    /\ ~q.keep
    /\ Write({c \in rows : c.id # q.row.id} \cup {[q.row EXCEPT !.used = TRUE]})
    /\ Goto(r, "done")
    /\ UNCHANGED <<kind, access, nextId>>

TouchWebSSHCredential(r) ==
    /\ Writing(r, "ssh", "open")
    /\ ~req[r].keep
    /\ Touch(r, Of(req[r].user, req[r].account))

TouchWebDesktopCredential(r) ==
    /\ Writing(r, "desktop", "open")
    /\ ~req[r].keep
    /\ Touch(r, Of(req[r].user, req[r].account))

\* TouchWebDataCredentialByID when the request named a row.
TouchWebDataCredential(r) ==
    LET q == req[r] IN
    /\ Writing(r, "data", "open")
    /\ ~q.keep
    /\ Touch(r, IF q.id > 0 THEN {c \in rows : c.id = q.id /\ c.user = q.user}
                            ELSE Of(q.user, q.account))

Remove(r, removed) ==
    /\ Write(rows \ removed)
    /\ Goto(r, "done")
    /\ UNCHANGED <<kind, access, nextId>>

DeleteWebSSHCredential(r) ==
    Writing(r, "ssh", "delete") /\ Remove(r, Of(req[r].user, req[r].account))

DeleteWebDesktopCredential(r) ==
    Writing(r, "desktop", "delete") /\ Remove(r, Of(req[r].user, req[r].account))

DeleteWebDataCredential(r) ==
    /\ Writing(r, "data", "delete")
    /\ req[r].id = 0
    /\ Remove(r, Of(req[r].user, req[r].account))

DeleteWebDataCredentialByID(r) ==
    /\ Writing(r, "data", "delete")
    /\ req[r].id > 0
    /\ Remove(r, {c \in rows : c.id = req[r].id /\ c.user = req[r].user})

\* The unique index over access, user and account.
Clash(c) == \E d \in rows : d.id # c.id /\ d.user = c.user /\ d.account = c.account

\* A row put into the table, or in the place of the one with its number.
Put(r, c, next) ==
    IF Clash(c) THEN Refuse(r)
    ELSE /\ Write({d \in rows : d.id # c.id} \cup {c})
         /\ nextId' = IF c.id = nextId THEN nextId + 1 ELSE nextId
         /\ Goto(r, next)
         /\ UNCHANGED <<kind, access>>

NewRow(r) ==
    [id |-> nextId, user |-> req[r].user, account |-> req[r].account,
     secret |-> req[r].secret, used |-> FALSE]

\* The query every Upsert starts with.
FindExisting(r) ==
    LET found == Of(req[r].user, req[r].account) IN
    /\ req[r].at = "write"
    /\ (req[r].op = "open" /\ req[r].keep) \/ (req[r].op = "save" /\ req[r].id = 0)
    /\ \/ /\ found = {}
          /\ req' = [req EXCEPT ![r].row = NoRow, ![r].at = "store"]
       \/ \E c \in found : req' = [req EXCEPT ![r].row = c, ![r].at = "store"]
    /\ UNCHANGED <<kind, access, rows, nextId, erased>>

SaveWebSSHCredential(r) == kind = "ssh" /\ FindExisting(r)
SaveWebDesktopCredential(r) == kind = "desktop" /\ FindExisting(r)
SaveWebDataCredentialProfile(r) == kind = "data" /\ FindExisting(r)

\* UpsertWebSSHCredential: the row found is saved as a whole, and put back
\* under its number if it has been deleted meanwhile.
UpsertWebSSHCredential(r) ==
    LET q == req[r] IN
    /\ kind = "ssh"
    /\ q.at = "store"
    /\ Put(r, IF q.row = NoRow THEN NewRow(r) ELSE [q.row EXCEPT !.secret = q.secret], "done")

UpsertWebDesktopCredential(r) ==
    LET q == req[r] IN
    /\ kind = "desktop"
    /\ q.at = "store"
    /\ Put(r, IF q.row = NoRow THEN NewRow(r) ELSE [q.row EXCEPT !.secret = q.secret], "done")

\* UpsertWebDataCredential updates the row found, if it is still there.
UpsertWebDataCredential(r) ==
    LET q == req[r] IN
    /\ kind = "data"
    /\ q.at = "store"
    /\ IF q.row = NoRow THEN Put(r, NewRow(r), "reread")
       ELSE /\ Write({IF c.id = q.row.id THEN [c EXCEPT !.secret = q.secret, !.used = TRUE] ELSE c :
                         c \in rows})
            /\ Goto(r, "reread")
            /\ UNCHANGED <<kind, access, nextId>>

\* UpdateWebDataCredential: the account of a row may change, with or without
\* its password.
UpdateWebDataCredential(r) ==
    LET q == req[r]
        mine == {c \in rows : c.id = q.id /\ c.user = q.user} IN
    /\ Writing(r, "data", "save")
    /\ q.id > 0
    /\ IF mine = {} THEN Goto(r, "reread") /\ UNCHANGED <<kind, access, rows, nextId, erased>>
       ELSE \E c \in mine :
               Put(r, [c EXCEPT !.account = q.account,
                                !.secret = IF q.keep THEN @ ELSE q.secret], "reread")

\* SaveWebDataCredentialProfile answers with the row it reads back.
ReadBack(r) ==
    LET q == req[r]
        found == IF q.op = "save" /\ q.id > 0 THEN {c \in rows : c.id = q.id /\ c.user = q.user}
                                              ELSE Of(q.user, q.account) IN
    /\ q.at = "reread"
    /\ Goto(r, IF found = {} THEN "refused" ELSE "done")
    /\ UNCHANGED <<kind, access, rows, nextId, erased>>

\* SaveWebSFTPConnectionProfile: a blank password to be remembered needs, and
\* keeps, a stored one; a password not to be remembered is cleared.
SaveWebSFTPConnectionProfile(r) ==
    LET q == req[r]
        preserve == q.keep /\ q.secret = Blank
        mine == {c \in Of(q.user, q.account) : preserve => c.secret # Blank} IN
    /\ Writing(r, "ssh", "profile")
    /\ \/ q.id = 0 /\ preserve /\ Refuse(r)
       \/ q.id = 0 /\ ~preserve /\ Put(r, NewRow(r), "done")
       \/ q.id > 0 /\ mine = {} /\ Refuse(r)
       \/ /\ q.id > 0
          /\ \E c \in mine :
                Put(r, IF preserve THEN c ELSE [c EXCEPT !.secret = q.secret], "done")

\* DeleteProxy of the store removes the credentials, then the access.
DeleteProxy ==
    /\ \/ access = "live" /\ access' = "emptied" /\ Write({})
       \/ access = "emptied" /\ access' = "gone" /\ UNCHANGED <<rows, erased>>
    /\ UNCHANGED <<kind, nextId, req>>

Handler(r) ==
    \/ handleWebSSHCredentialHTTP(r) \/ saveWebSFTPConnectionHTTP(r)
    \/ handleWebDesktopCredentialHTTP(r) \/ handleWebDataCredentialHTTP(r)
    \/ OpenSession(r) \/ handleTestWebDataConnectionHTTP(r)
Use(r) ==
    \/ GetWebSSHCredentialSecret(r) \/ GetWebDesktopCredentialSecret(r)
    \/ GetWebDataCredentialSecret(r) \/ GetWebDataCredentialSecretByID(r)
    \/ decryptWebSSHPassword(r) \/ Connect(r)
Statement(r) ==
    \/ loadWebSSHTarget(r) \/ SaveWebSFTPConnection(r) \/ loadWebDesktopTarget(r) \/ loadWebDataTarget(r)
    \/ TouchWebSSHCredential(r) \/ TouchWebDesktopCredential(r) \/ TouchWebDataCredential(r)
    \/ DeleteWebSSHCredential(r) \/ DeleteWebDesktopCredential(r)
    \/ DeleteWebDataCredential(r) \/ DeleteWebDataCredentialByID(r)
    \/ SaveWebSSHCredential(r) \/ SaveWebDesktopCredential(r) \/ SaveWebDataCredentialProfile(r)
    \/ UpsertWebSSHCredential(r) \/ UpsertWebDesktopCredential(r)
    \/ UpsertWebDataCredential(r) \/ UpdateWebDataCredential(r)
    \/ ReadBack(r) \/ SaveWebSFTPConnectionProfile(r)
Next == DeleteProxy \/ \E r \in Requests : Handler(r) \/ Use(r) \/ Statement(r)
Spec == Init /\ [][Next]_vars

(* ---- properties ---- *)

\* Rows and requests keep their form, and no row number is used twice.
TypeOK ==
    /\ kind \in Kinds /\ access \in {"live", "emptied", "gone"}
    /\ rows \subseteq Row /\ nextId \in Nat /\ req \in [Requests -> Request]
    /\ erased \subseteq Sealings
    /\ \A c \in rows : c.id < nextId
    /\ \A c, d \in rows : c.id = d.id => c = d

\* One connection per account per user per access, although every Upsert looks
\* first and creates later (docs/migrations/20260913-websftp-connection-name.md).
OneConnectionPerAccount ==
    \A c, d \in rows : c.user = d.user /\ c.account = d.account => c = d

\* A password that was cleared, replaced or deleted never comes back: neither
\* the row a session saves as a whole, nor the one it marks as used, nor an
\* edited profile writes a secret read before.
ErasedPasswordsStayErased == Sealed(rows) \cap erased = {}

\* A password used for a session was typed by the user who asks; for a terminal
\* or a desktop it was typed for that very account.
PasswordFitsAccount ==
    \A r \in Requests :
        LET q == req[r] IN
        q.at = "connect" /\ q.secret # Blank =>
            q.secret.by = q.user /\ (kind # "data" => q.secret.of = q.account)

\* A stored password can be decrypted: it lies beside the nonce it was sealed
\* with, whatever requests wrote the row.
StoredPasswordsDecrypt == \A c \in rows : c.secret # Blank => c.secret.enc = c.secret.nonce

==============================================================================
