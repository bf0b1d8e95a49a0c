----------------------------- MODULE AdminReload -----------------------------
(***************************************************************************)
(* Admin API handlers (internal/admin/server.go) writing to SQLite, and    *)
(* the reloadFn of cmd/gateway/main.go that every write ends with: it      *)
(* reads the three tables one after the other and installs them in the     *)
(* router and then in the key store.  Nothing serialises two handlers.     *)
(*                                                                         *)
(* One group.  An account or API key is its columns, each the number of    *)
(* the request that wrote its value, and a key its secret as well; a group *)
(* is its member accounts (none: no group).  The reads of a handler before *)
(* its write are one step, which hides the interleavings between two of    *)
(* them; each SQL statement and each Reload (under its mutex) is a step of *)
(* its own.                                                                *)
(***************************************************************************)
EXTENDS Integers, Functions

CONSTANTS
    Handlers,        \* goroutines serving admin requests
    Accounts,        \* account ids
    Key,             \* the id of the API key
    MaxOps           \* bound: admin requests

\* An account and a key are told apart by their tables, whatever their ids.
ASSUME AdminAssumption == MaxOps \in Nat /\ Accounts # {} /\ Key \notin Accounts

VARIABLES
    db,              \* what SQLite holds
    rtr,             \* what the Router holds: accounts and groups
    ks,              \* what the KeyStore holds
    pc, op,          \* each handler: where it is, the request it serves
    snap,            \* each handler: what it, or its reloadFn, has read so far
    old,             \* each handler: the secret its write replaced
    ops,
    \* History.
    alone,           \* each handler: no other reload has overlapped this one
    clean,           \* memory was last installed by a reload that was alone
    raced,           \* a write hit between the check and the write of another
    due,             \* the rows as the requests asked for them, in turn
    overlapped,      \* a row was written between the read and the write of another
    retired          \* secrets whose rotation or deletion was answered

memory == <<rtr, ks>>
asked == <<due, overlapped>>
history == <<alone, clean, raced, asked, retired>>
vars == <<db, memory, pc, op, snap, old, ops, history>>

NoSecret == 0
Secrets == 0..(MaxOps + 1)

\* The columns of an account or key: its status has a handler of its own.
Columns == {"status", "rest"}
Rows == [Columns -> 0..MaxOps]
TableOf(ids) == UNION {[some -> Rows] : some \in SUBSET ids}
Tables == [accounts : TableOf(Accounts), group : SUBSET Accounts,
           keys : TableOf({Key}), secret : Secrets]

\* A request gets its id when it arrives: it is the value an update carries,
\* and names the secret generateAPIKey would make.
Requests ==
    LET request(kinds, args) == [kind : kinds, arg : args, id : {0}]
    IN  request({"createAccount", "updateAccount", "updateAccountStatus", "deleteAccount"},
                {{a} : a \in Accounts})
        \cup request({"createGroup"}, (SUBSET Accounts) \ {{}})
        \cup request({"updateGroup"}, SUBSET Accounts)
        \cup request({"deleteGroup"}, {{}})
        \cup request({"createKey", "updateKey", "updateKeyStatus", "rotateKey", "deleteKey"},
                     {{Key}})

Reloading == {"listAccounts", "listGroups", "listKeys", "reloadRouter", "reloadKeys"}
PCs == {"idle", "check", "write"} \cup Reloading

Empty == [accounts |-> <<>>, group |-> {}, keys |-> <<>>, secret |-> NoSecret]
RouterPart(t) == [accounts |-> t.accounts, group |-> t.group]

Idle == [h \in Handlers |-> "idle"]
NoRequest == [h \in Handlers |-> [kind |-> "none", arg |-> {}, id |-> 0]]
NoSnap == [h \in Handlers |-> Empty]

TypeOK ==
    /\ db \in Tables /\ snap \in [Handlers -> Tables]
    /\ rtr \in [accounts : TableOf(Accounts), group : SUBSET Accounts]
    /\ ks \in Tables
    /\ pc \in [Handlers -> PCs]
    /\ \A h \in Handlers :
          IF pc[h] = "idle"
          THEN op[h] = NoRequest[h] /\ snap[h] = Empty /\ old[h] = NoSecret
          ELSE op[h].id \in 1..MaxOps /\ [op[h] EXCEPT !.id = 0] \in Requests
    /\ old \in [Handlers -> Secrets]
    /\ ops \in 0..MaxOps
    /\ alone \in [Handlers -> BOOLEAN] /\ clean \in BOOLEAN /\ raced \in BOOLEAN
    /\ due \in TableOf(Accounts \cup {Key}) /\ overlapped \in BOOLEAN
    /\ retired \subseteq Secrets \ {NoSecret}

\* The accounts and the keys together.
RowsOf(t) ==
    [i \in DOMAIN t.accounts \cup DOMAIN t.keys |->
        IF i \in Accounts THEN t.accounts[i] ELSE t.keys[i]]

\* The process starts on a database with or without a working key.
Init ==
    /\ db \in LET new(ids) == [i \in ids |-> [c \in Columns |-> 0]]
             IN  {Empty, [accounts |-> new(Accounts), group |-> Accounts,
                          keys |-> new({Key}), secret |-> 1]}
    /\ rtr = RouterPart(db) /\ ks = db
    /\ pc = Idle /\ op = NoRequest /\ snap = NoSnap
    /\ old = [h \in Handlers |-> NoSecret]
    /\ ops = 0
    /\ alone = [h \in Handlers |-> TRUE] /\ clean = TRUE
    /\ due = RowsOf(db) /\ overlapped = FALSE
    /\ raced = FALSE /\ retired = {}

-----------------------------------------------------------------------------
(* What the handlers have in common.                                       *)

Arrive(h, request) ==
    /\ pc[h] = "idle" /\ ops < MaxOps
    /\ ops' = ops + 1
    /\ op' = [op EXCEPT ![h] = [request EXCEPT !.id = ops + 1]]
    /\ pc' = [pc EXCEPT ![h] = "check"]
    /\ UNCHANGED <<db, memory, snap, old, history>>

\* Faulty variant: what a request worked with outlives its answer.
AnswerKeepsLocals(h) ==
    /\ pc' = [pc EXCEPT ![h] = "idle"]
    /\ UNCHANGED <<op, snap, old>>

\* The handler answers and forgets the request.
Answer(h) ==
    /\ pc' = [pc EXCEPT ![h] = "idle"]
    /\ op' = [op EXCEPT ![h] = NoRequest[h]]
    /\ snap' = [snap EXCEPT ![h] = Empty]
    /\ old' = [old EXCEPT ![h] = NoSecret]

\* The body is not valid, a read fails or finds what forbids the request, or
\* the statement fails: an error, and no reload.
Refuse(h) ==
    /\ pc[h] \in {"check", "write"}
    /\ Answer(h)
    /\ UNCHANGED <<db, memory, ops, history>>

\* The reads let the request pass; the handler keeps the row it has read.
Pass(h, read) ==
    /\ pc[h] = "check"
    /\ pc' = [pc EXCEPT ![h] = "write"]
    /\ snap' = [snap EXCEPT ![h] = read]
    /\ UNCHANGED <<db, memory, op, old, ops, history>>

\* A write that invalidates what the other handler has checked.
Races(kind1, kind2) ==
    \/ kind1 = "deleteAccount" /\ kind2 \in {"createGroup", "updateGroup"}
    \/ kind1 = "deleteGroup" /\ kind2 = "createKey"

Updates == {"updateAccount", "updateAccountStatus", "updateKey", "updateKeyStatus"}

\* The row has changed since the handler read it.
Stale(h) ==
    \E i \in op[h].arg \cap DOMAIN RowsOf(db) : RowsOf(db)[i] # RowsOf(snap[h])[i]

\* The rows as if the requests took turns.
Due(h) ==
    LET named == op[h].arg
        wanted(columns) ==
            [i \in DOMAIN due |-> [c \in Columns |->
                IF i \in named /\ c \in columns THEN op[h].id ELSE due[i][c]]]
    IN  CASE op[h].kind \in {"createAccount", "createKey"} ->
                [i \in DOMAIN due \cup named |->
                    IF i \in named THEN [c \in Columns |-> op[h].id] ELSE due[i]]
          [] op[h].kind \in {"deleteAccount", "deleteKey"} -> Restrict(due, DOMAIN due \ named)
          [] op[h].kind \in {"updateAccount", "updateKey"} -> wanted({"rest"})
          [] op[h].kind \in {"updateAccountStatus", "updateKeyStatus"} -> wanted({"status"})
          [] OTHER -> due

\* Faulty variant: answers without a reload.
StatementOnly(h, written) ==
    /\ pc[h] = "write"
    /\ db' = written
    /\ due' = Due(h)
    /\ Answer(h)
    /\ UNCHANGED <<memory, ops, alone, clean, raced, overlapped, retired>>

\* The statement is executed, and reloadFn called.
Statement(h, written) ==
    /\ pc[h] = "write"
    /\ db' = written
    /\ old' = [old EXCEPT ![h] = IF db'.secret # db.secret THEN db.secret ELSE NoSecret]
    /\ raced' = (raced \/ \E g \in Handlers \ {h} :
                     /\ pc[g] = "write"
                     /\ \/ Races(op[g].kind, op[h].kind) \/ Races(op[h].kind, op[g].kind))
    /\ due' = Due(h)
    /\ overlapped' = (overlapped \/ (op[h].kind \in Updates /\ Stale(h)))
    /\ pc' = [pc EXCEPT ![h] = "listAccounts"]
    /\ UNCHANGED <<memory, op, snap, ops, alone, clean, retired>>

-----------------------------------------------------------------------------
(* The handlers: what they check, and the statement.  INSERT fails for a   *)
(* row that exists; UPDATE and DELETE of one that is gone do nothing.      *)

\* INSERT of a row with all its columns.
Inserted(table, h) ==
    [i \in DOMAIN table \cup op[h].arg |->
        IF i \in op[h].arg THEN [c \in Columns |-> op[h].id] ELSE table[i]]

\* Faulty variant: what the request does not mention is set to its default.
MergedAnew(h, columns, row) ==
    [c \in Columns |-> IF c \in columns THEN op[h].id ELSE 0]

\* What the request says goes into the row that was read.
Merged(h, columns, row) ==
    [c \in Columns |-> IF c \in columns THEN op[h].id ELSE row[c]]

\* UPDATE of every column, with the row that was read.
Updated(table, h, columns) ==
    [i \in DOMAIN table |->
        IF i \in op[h].arg THEN Merged(h, columns, RowsOf(snap[h])[i]) ELSE table[i]]

Deleted(table, h) == Restrict(table, DOMAIN table \ op[h].arg)

CreateAccount(h) ==
    /\ op[h].kind = "createAccount"
    /\ \/ Pass(h, Empty)
       \/ /\ op[h].arg \cap DOMAIN db.accounts = {}
          /\ Statement(h, [db EXCEPT !.accounts = Inserted(@, h)])

\* The account as GET of its row finds it.
AccountRead(h) == [Empty EXCEPT !.accounts = Restrict(db.accounts, op[h].arg)]

UpdateAccount(h) ==
    /\ op[h].kind = "updateAccount"
    /\ \/ op[h].arg \subseteq DOMAIN db.accounts /\ Pass(h, AccountRead(h))
       \/ Statement(h, [db EXCEPT !.accounts = Updated(@, h, {"rest"})])

UpdateAccountStatus(h) ==
    /\ op[h].kind = "updateAccountStatus"
    /\ \/ op[h].arg \subseteq DOMAIN db.accounts /\ Pass(h, AccountRead(h))
       \/ Statement(h, [db EXCEPT !.accounts = Updated(@, h, {"status"})])

\* Faulty variant: an account is deleted though the group refers to it.
DeleteAccountReferenced(h) ==
    /\ op[h].kind = "deleteAccount"
    /\ \/ op[h].arg \subseteq DOMAIN db.accounts /\ Pass(h, Empty)
       \/ Statement(h, [db EXCEPT !.accounts = Deleted(@, h)])

DeleteAccount(h) ==
    /\ op[h].kind = "deleteAccount"
    /\ \/ /\ op[h].arg \subseteq DOMAIN db.accounts
          /\ op[h].arg \cap db.group = {}
          /\ Pass(h, Empty)
       \/ Statement(h, [db EXCEPT !.accounts = Deleted(@, h)])

\* validateGroup.
ValidGroup(members) == members # {} /\ members \subseteq DOMAIN db.accounts

CreateGroup(h) ==
    /\ op[h].kind = "createGroup"
    /\ \/ ValidGroup(op[h].arg) /\ Pass(h, Empty)
       \/ db.group = {} /\ Statement(h, [db EXCEPT !.group = op[h].arg])

\* An update that does not name the members writes those it has read.
Members(h, read) == IF op[h].arg = {} THEN read.group ELSE op[h].arg

UpdateGroup(h) ==
    /\ op[h].kind = "updateGroup"
    /\ \/ /\ db.group # {}
          /\ ValidGroup(Members(h, db))
          /\ Pass(h, [Empty EXCEPT !.group = db.group])
       \/ Statement(h, IF db.group = {} THEN db
                       ELSE [db EXCEPT !.group = Members(h, snap[h])])

DeleteGroup(h) ==
    /\ op[h].kind = "deleteGroup"
    /\ \/ db.group # {} /\ db.keys = <<>> /\ Pass(h, Empty)
       \/ Statement(h, [db EXCEPT !.group = {}])

\* validateKey.
ValidKey == db.group # {}

CreateKey(h) ==
    /\ op[h].kind = "createKey"
    /\ \/ ValidKey /\ Pass(h, Empty)
       \/ /\ db.keys = <<>>
          /\ Statement(h, [db EXCEPT !.keys = Inserted(@, h), !.secret = op[h].id + 1])

KeyRead == [Empty EXCEPT !.keys = db.keys]

\* The secret is not among the columns of an update.
UpdateKey(h) ==
    /\ op[h].kind = "updateKey"
    /\ \/ db.keys # <<>> /\ ValidKey /\ Pass(h, KeyRead)
       \/ Statement(h, [db EXCEPT !.keys = Updated(@, h, {"rest"})])

UpdateKeyStatus(h) ==
    /\ op[h].kind = "updateKeyStatus"
    /\ \/ db.keys # <<>> /\ Pass(h, KeyRead)
       \/ Statement(h, [db EXCEPT !.keys = Updated(@, h, {"status"})])

RotateKey(h) ==
    /\ op[h].kind = "rotateKey"
    /\ \/ db.keys # <<>> /\ Pass(h, Empty)
       \/ Statement(h, IF db.keys = <<>> THEN db ELSE [db EXCEPT !.secret = op[h].id + 1])

DeleteKey(h) ==
    /\ op[h].kind = "deleteKey"
    /\ \/ db.keys # <<>> /\ Pass(h, Empty)
       \/ Statement(h, [db EXCEPT !.keys = Deleted(@, h), !.secret = NoSecret])

Handle(h) ==
    \/ CreateAccount(h) \/ UpdateAccount(h) \/ UpdateAccountStatus(h) \/ DeleteAccount(h)
    \/ CreateGroup(h) \/ UpdateGroup(h) \/ DeleteGroup(h)
    \/ CreateKey(h) \/ UpdateKey(h) \/ UpdateKeyStatus(h) \/ RotateKey(h) \/ DeleteKey(h)

-----------------------------------------------------------------------------
(* reloadFn: three reads, two installs.                                    *)

Others(h) == {g \in Handlers \ {h} : pc[g] \in Reloading \ {"listAccounts"}}

ListAccounts(h) ==
    /\ pc[h] = "listAccounts"
    /\ snap' = [snap EXCEPT ![h] = [Empty EXCEPT !.accounts = db.accounts]]
    /\ alone' = [g \in Handlers |->
                    IF g = h \/ g \in Others(h) THEN Others(h) = {} ELSE alone[g]]
    /\ pc' = [pc EXCEPT ![h] = "listGroups"]
    /\ UNCHANGED <<db, memory, op, old, ops, clean, raced, asked, retired>>

ListGroups(h) ==
    /\ pc[h] = "listGroups"
    /\ snap' = [snap EXCEPT ![h].group = db.group]
    /\ pc' = [pc EXCEPT ![h] = "listKeys"]
    /\ UNCHANGED <<db, memory, op, old, ops, history>>

ListKeys(h) ==
    /\ pc[h] = "listKeys"
    /\ snap' = [snap EXCEPT ![h].keys = db.keys, ![h].secret = db.secret]
    /\ pc' = [pc EXCEPT ![h] = "reloadRouter"]
    /\ UNCHANGED <<db, memory, op, old, ops, history>>

\* One of the reads fails: the handler answers 500, the write stays, and a
\* reload under way may have missed it.
ListFails(h) ==
    /\ pc[h] \in {"listAccounts", "listGroups", "listKeys"}
    /\ clean' = FALSE
    /\ alone' = [g \in Handlers |-> g \notin Others(h) /\ (g = h \/ alone[g])]
    /\ Answer(h)
    /\ UNCHANGED <<db, memory, ops, raced, asked, retired>>

ReloadRouter(h) ==
    /\ pc[h] = "reloadRouter"
    /\ rtr' = RouterPart(snap[h])
    /\ pc' = [pc EXCEPT ![h] = "reloadKeys"]
    /\ UNCHANGED <<db, ks, op, snap, old, ops, history>>

\* Faulty variant: keys are added and changed, never removed.
ReloadKeysMerge(h) ==
    /\ pc[h] = "reloadKeys"
    /\ ks' = [snap[h] EXCEPT !.secret = IF @ = NoSecret THEN ks.secret ELSE @]
    /\ retired' = (retired \cup {old[h]}) \ {NoSecret}
    /\ clean' = alone[h]
    /\ alone' = [alone EXCEPT ![h] = TRUE]
    /\ Answer(h)
    /\ UNCHANGED <<db, rtr, ops, raced, asked>>

\* The key store is loaded and the handler answers: it has done what it was
\* asked, a secret it replaced is retired.
ReloadKeys(h) ==
    /\ pc[h] = "reloadKeys"
    /\ ks' = snap[h]
    /\ retired' = (retired \cup {old[h]}) \ {NoSecret}
    /\ clean' = alone[h]
    /\ alone' = [alone EXCEPT ![h] = TRUE]
    /\ Answer(h)
    /\ UNCHANGED <<db, rtr, ops, raced, asked>>

-----------------------------------------------------------------------------

\* The process dies between any two steps and starts again from the database.
Restart ==
    /\ pc' = Idle /\ op' = NoRequest /\ snap' = NoSnap
    /\ old' = [h \in Handlers |-> NoSecret]
    /\ rtr' = RouterPart(db) /\ ks' = db
    /\ clean' = TRUE /\ alone' = [h \in Handlers |-> TRUE]
    /\ UNCHANGED <<db, ops, raced, asked, retired>>

Step(h) ==
    \/ Handle(h) \/ Refuse(h)
    \/ ListAccounts(h) \/ ListGroups(h) \/ ListKeys(h) \/ ListFails(h)
    \/ ReloadRouter(h) \/ ReloadKeys(h)

Next ==
    \/ \E h \in Handlers : Step(h) \/ \E request \in Requests : Arrive(h, request)
    \/ Restart

Spec == Init /\ [][Next]_vars

-----------------------------------------------------------------------------
(* Properties.                                                             *)

\* No write is waiting for its reload.
AtRest == \A h \in Handlers : pc[h] \in {"idle", "check", "write"}

\* Router and key store hold what the database holds once all reloads are done,
\* provided the last reload overlapped no other and none failed
\* (main.go:82-106): the guarantee the missing lock leaves.
MemoryIsDatabase == AtRest /\ clean => ks = db /\ rtr = RouterPart(db)

\* The secret of a rotated or deleted key whose request was answered does not
\* authenticate, under the same proviso (server.go:619-660, auth.go:316-343).
RetiredSecretRejected == clean => ks.secret \notin retired

\* docs/admin-api.md:478: the old key is invalid at once when it is rotated.
RotatedKeyRejected == ks.secret \notin retired

\* A group names existing accounts only and a key an existing group, unless a
\* deletion hit between another handler's check and its write
\* (server.go:246-262 against 325-330, 391-407 against 464-475).
ReferencesHold ==
    ~raced => /\ db.group \subseteq DOMAIN db.accounts
              /\ db.keys # <<>> => db.group # {}

\* Every column of an account or key holds what the last request that named it
\* asked for, whatever other columns later requests name, as long as no two
\* updates of one row overlap: a status that was set stays set
\* (server.go:196-233, 548-577).  Updates that do overlap write back what they have read.
UpdatesStick == ~overlapped => RowsOf(db) = due
=============================================================================
