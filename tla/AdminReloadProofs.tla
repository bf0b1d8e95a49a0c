-------------------------- MODULE AdminReloadProofs --------------------------
(***************************************************************************)
(* What holds of the database, of the router and of the key store for any  *)
(* number of admin handlers and accounts, and any number of requests.      *)
(***************************************************************************)
EXTENDS AdminReload, TLAPS

-----------------------------------------------------------------------------
(* The inductive invariant.                                                *)

Kinds == {"createAccount", "updateAccount", "updateAccountStatus", "deleteAccount",
          "createGroup", "updateGroup", "deleteGroup",
          "createKey", "updateKey", "updateKeyStatus", "rotateKey", "deleteKey", "none"}

\* A request keeps its form while it is served, and no two have the same id.
Served ==
    /\ op \in [Handlers -> [kind : Kinds, arg : SUBSET (Accounts \cup {Key}), id : 0..MaxOps]]
    /\ \A h \in Handlers : op[h].id <= ops
    /\ \A g, h \in Handlers : g # h /\ pc[g] # "idle" /\ pc[h] # "idle" => op[g].id # op[h].id

\* What a handler has read for its write: the row it updates, a group with
\* members.
HasRead ==
    \A h \in Handlers : pc[h] = "write" =>
        /\ op[h].kind \in {"updateAccount", "updateAccountStatus"} =>
              op[h].arg \subseteq DOMAIN snap[h].accounts
        /\ op[h].kind \in {"updateKey", "updateKeyStatus"} =>
              op[h].arg \subseteq DOMAIN snap[h].keys
        /\ op[h].kind = "updateGroup" => Members(h, snap[h]) # {}

\* What a handler has checked before its write still holds, unless a write that
\* invalidates it came in between.
CheckHolds(h) ==
    CASE op[h].kind = "createGroup" -> op[h].arg \subseteq DOMAIN db.accounts
      [] op[h].kind = "updateGroup" -> Members(h, snap[h]) \subseteq DOMAIN db.accounts
      [] op[h].kind = "deleteAccount" -> op[h].arg \cap db.group = {}
      [] op[h].kind = "deleteGroup" -> db.keys = <<>>
      [] op[h].kind = "createKey" -> db.group # {}
      [] OTHER -> TRUE

ChecksHold == ~raced => \A h \in Handlers : pc[h] = "write" => CheckHolds(h)

\* A reload that has read something.
Mid(h) == pc[h] \in Reloading \ {"listAccounts"}

\* Of two reloads that overlap neither is alone.
Overlap == \A g, h \in Handlers : g # h /\ Mid(g) /\ Mid(h) => ~alone[h]

\* A write whose reload has not read anything.
Waiting == \E g \in Handlers : pc[g] = "listAccounts"

\* What a reload has read, and installed, so far is what the database holds.
UpToDate(h) ==
    /\ snap[h].accounts = db.accounts
    /\ pc[h] # "listGroups" => snap[h].group = db.group
    /\ pc[h] \in {"reloadRouter", "reloadKeys"} =>
          snap[h].keys = db.keys /\ snap[h].secret = db.secret
    /\ pc[h] = "reloadKeys" => rtr = RouterPart(db)

ReloadsUpToDate == \A h \in Handlers : Mid(h) /\ alone[h] /\ ~Waiting => UpToDate(h)

\* The secrets there have been; that of the database, and those that were
\* replaced, are among them.
Fresh(s) ==
    /\ s # db.secret /\ s \notin retired
    /\ \A g \in Handlers : s # old[g]

SecretsFresh ==
    /\ \A h \in Handlers : pc[h] \in {"check", "write"} => Fresh(op[h].id + 1)
    /\ db.secret <= ops + 1
    /\ \A h \in Handlers : old[h] <= ops + 1
    /\ \A s \in retired : s <= ops + 1

\* A secret that was replaced is not in the database again, nor is it in what
\* a reload alone installs.
SecretsReplaced ==
    /\ db.secret \notin retired
    /\ \A h \in Handlers : old[h] # NoSecret => db.secret # old[h]
    /\ \A h \in Handlers : pc[h] \in {"reloadRouter", "reloadKeys"} /\ alone[h] =>
          /\ snap[h].secret \notin retired
          /\ old[h] # NoSecret => snap[h].secret # old[h]

IInv ==
    /\ TypeOK
    /\ Served
    /\ HasRead
    /\ ChecksHold
    /\ Overlap
    /\ ReloadsUpToDate
    /\ SecretsFresh
    /\ SecretsReplaced
    /\ MemoryIsDatabase
    /\ RetiredSecretRejected
    /\ ReferencesHold
    /\ UpdatesStick

-----------------------------------------------------------------------------
(* Tables.                                                                 *)

\* A table is a function on some of the ids to rows.
LEMMA TableIs ==
    ASSUME NEW ids, NEW t
    PROVE  t \in TableOf(ids) <=> DOMAIN t \subseteq ids /\ t \in [DOMAIN t -> Rows]
<1> USE DEF TableOf
<1>1. ASSUME t \in TableOf(ids) PROVE DOMAIN t \subseteq ids /\ t \in [DOMAIN t -> Rows]
  <2>1. PICK some \in SUBSET ids : t \in [some -> Rows]
    BY <1>1
  <2>2. DOMAIN t = some
    BY <2>1
  <2> QED
    BY <2>1, <2>2
<1>2. ASSUME DOMAIN t \subseteq ids, t \in [DOMAIN t -> Rows] PROVE t \in TableOf(ids)
  BY <1>2
<1> QED
  BY <1>1, <1>2

\* No rows: the empty table.
LEMMA NoRows ==
    /\ \A ids : <<>> \in TableOf(ids)
    /\ DOMAIN <<>> = {}
    /\ \A ids : \A t \in TableOf(ids) : t = <<>> <=> DOMAIN t = {}
<1>1. DOMAIN <<>> = {}
  OBVIOUS
<1>2. <<>> \in [{} -> Rows]
  OBVIOUS
<1>3. \A ids : <<>> \in TableOf(ids)
  BY <1>1, <1>2, TableIs
<1>4. ASSUME NEW ids, NEW t \in TableOf(ids), DOMAIN t = {} PROVE t = <<>>
  <2>1. t \in [{} -> Rows]
    BY <1>4, TableIs
  <2>2. t = [x \in {} |-> t[x]] /\ <<>> = [x \in {} |-> <<>>[x]]
    BY <1>2, <2>1
  <2>3. [x \in {} |-> t[x]] = [x \in {} |-> <<>>[x]]
    OBVIOUS
  <2> QED
    BY <2>2, <2>3
<1> QED
  BY <1>1, <1>3, <1>4

\* The rows of the accounts and the keys are told apart.
LEMMA RowsAre ==
    ASSUME NEW t \in Tables
    PROVE  /\ RowsOf(t) \in TableOf(Accounts \cup {Key})
           /\ DOMAIN RowsOf(t) = DOMAIN t.accounts \cup DOMAIN t.keys
           /\ \A i \in DOMAIN t.accounts : RowsOf(t)[i] = t.accounts[i]
           /\ \A i \in DOMAIN t.keys : RowsOf(t)[i] = t.keys[i]
           /\ DOMAIN t.accounts \subseteq Accounts /\ DOMAIN t.keys \subseteq {Key}
<1> DEFINE a == t.accounts
           k == t.keys
<1>1. a \in TableOf(Accounts) /\ k \in TableOf({Key})
  BY DEF Tables
<1>2. DOMAIN a \subseteq Accounts /\ a \in [DOMAIN a -> Rows]
  BY <1>1, TableIs
<1>3. DOMAIN k \subseteq {Key} /\ k \in [DOMAIN k -> Rows]
  BY <1>1, TableIs
<1>4. RowsOf(t) = [i \in DOMAIN a \cup DOMAIN k |-> IF i \in Accounts THEN a[i] ELSE k[i]]
  BY DEF RowsOf
<1> HIDE DEF a, k
<1>5. \A i \in DOMAIN k : i \notin Accounts
  BY <1>3, AdminAssumption
<1>6. DOMAIN RowsOf(t) = DOMAIN a \cup DOMAIN k
  BY <1>4
<1>7. \A i \in DOMAIN a : RowsOf(t)[i] = a[i]
  BY <1>2, <1>4
<1>8. \A i \in DOMAIN k : RowsOf(t)[i] = k[i]
  BY <1>4, <1>5
<1>9. \A i \in DOMAIN a \cup DOMAIN k : RowsOf(t)[i] \in Rows
  BY <1>2, <1>3, <1>7, <1>8
<1>10. RowsOf(t) \in [DOMAIN a \cup DOMAIN k -> Rows]
  BY <1>4, <1>6, <1>9
<1>11. RowsOf(t) \in TableOf(Accounts \cup {Key})
  BY <1>2, <1>3, <1>6, <1>10, TableIs
<1> QED
  BY <1>2, <1>3, <1>6, <1>7, <1>8, <1>11 DEF a, k

\* Tables with the same rows.
LEMMA SameRows ==
    ASSUME NEW ids, NEW s \in TableOf(ids), NEW t \in TableOf(ids), DOMAIN s = DOMAIN t,
           \A i \in DOMAIN s : s[i] = t[i]
    PROVE  s = t
<1>1. s \in [DOMAIN s -> Rows] /\ t \in [DOMAIN s -> Rows]
  BY TableIs
<1> QED
  BY <1>1

\* The tables of a new database have no rows.
LEMMA EmptyInTables == Empty \in Tables /\ RowsOf(Empty) = <<>>
<1>1. Empty \in Tables
  BY NoRows, AdminAssumption DEF Empty, Tables, Secrets, NoSecret
<1>2. DOMAIN RowsOf(Empty) = {}
  BY <1>1, RowsAre, NoRows DEF Empty
<1> QED
  BY <1>1, <1>2, RowsAre, NoRows

-----------------------------------------------------------------------------
(* What the handlers do: a check, or a write.                              *)

\* What the database holds after the statement of a request.
AccountsAfter(h) ==
    CASE op[h].kind = "createAccount" -> Inserted(db.accounts, h)
      [] op[h].kind = "updateAccount" -> Updated(db.accounts, h, {"rest"})
      [] op[h].kind = "updateAccountStatus" -> Updated(db.accounts, h, {"status"})
      [] op[h].kind = "deleteAccount" -> Deleted(db.accounts, h)
      [] OTHER -> db.accounts

GroupAfter(h) ==
    CASE op[h].kind = "createGroup" -> op[h].arg
      [] op[h].kind = "updateGroup" /\ db.group # {} -> Members(h, snap[h])
      [] op[h].kind = "deleteGroup" -> {}
      [] OTHER -> db.group

KeysAfter(h) ==
    CASE op[h].kind = "createKey" -> Inserted(db.keys, h)
      [] op[h].kind = "updateKey" -> Updated(db.keys, h, {"rest"})
      [] op[h].kind = "updateKeyStatus" -> Updated(db.keys, h, {"status"})
      [] op[h].kind = "deleteKey" -> Deleted(db.keys, h)
      [] OTHER -> db.keys

SecretAfter(h) ==
    CASE op[h].kind = "createKey" -> op[h].id + 1
      [] op[h].kind = "rotateKey" /\ db.keys # <<>> -> op[h].id + 1
      [] op[h].kind = "deleteKey" -> NoSecret
      [] OTHER -> db.secret

After(h) == [accounts |-> AccountsAfter(h), group |-> GroupAfter(h),
             keys |-> KeysAfter(h), secret |-> SecretAfter(h)]

Writes(h) ==
    /\ Statement(h, After(h))
    /\ op[h].kind \in Kinds \ {"none"}
    /\ op[h].kind = "createAccount" => op[h].arg \cap DOMAIN db.accounts = {}
    /\ op[h].kind = "createKey" => db.keys = <<>>

\* A request with these reads may go on to its write.
Checked(h, read) ==
    /\ op[h].kind \in {"updateAccount", "updateAccountStatus"} =>
          op[h].arg \subseteq DOMAIN read.accounts
    /\ op[h].kind \in {"updateKey", "updateKeyStatus"} => op[h].arg \subseteq DOMAIN read.keys
    /\ op[h].kind = "updateGroup" =>
          Members(h, read) # {} /\ Members(h, read) \subseteq DOMAIN db.accounts
    /\ op[h].kind = "createGroup" => op[h].arg \subseteq DOMAIN db.accounts
    /\ op[h].kind = "deleteAccount" => op[h].arg \cap db.group = {}
    /\ op[h].kind = "deleteGroup" => db.keys = <<>>
    /\ op[h].kind = "createKey" => db.group # {}

Passes(h) == \E read \in Tables : Pass(h, read) /\ Checked(h, read)

\* A request that is served has the arguments of its kind.
LEMMA Arguments ==
    ASSUME IInv, NEW h \in Handlers, pc[h] # "idle"
    PROVE  /\ op[h].kind \in {"createAccount", "updateAccount", "updateAccountStatus",
                              "deleteAccount"} => \E a \in Accounts : op[h].arg = {a}
           /\ op[h].kind \in {"createGroup", "updateGroup", "deleteGroup"} =>
                 op[h].arg \subseteq Accounts
           /\ op[h].kind = "createGroup" => op[h].arg # {}
           /\ op[h].kind \in {"createKey", "updateKey", "updateKeyStatus", "rotateKey",
                              "deleteKey"} => op[h].arg = {Key}
           /\ op[h].kind \in Kinds \ {"none"}
           /\ op[h].id \in 1..MaxOps
<1> DEFINE r == [op[h] EXCEPT !.id = 0]
<1>1. r \in Requests /\ op[h].id \in 1..MaxOps
  BY DEF IInv, TypeOK
<1>2. op[h] \in [kind : Kinds, arg : SUBSET (Accounts \cup {Key}), id : 0..MaxOps]
  BY DEF IInv, Served
<1>3. r.kind = op[h].kind /\ r.arg = op[h].arg
  BY <1>2
<1> HIDE DEF r
<1>4. \/ r.kind \in {"createAccount", "updateAccount", "updateAccountStatus", "deleteAccount"}
         /\ \E a \in Accounts : r.arg = {a}
      \/ r.kind = "createGroup" /\ r.arg \in (SUBSET Accounts) \ {{}}
      \/ r.kind = "updateGroup" /\ r.arg \in SUBSET Accounts
      \/ r.kind = "deleteGroup" /\ r.arg = {}
      \/ r.kind \in {"createKey", "updateKey", "updateKeyStatus", "rotateKey", "deleteKey"}
         /\ r.arg = {Key}
  BY <1>1 DEF Requests
<1>5. op[h].kind \in Kinds \ {"none"}
  BY <1>3, <1>4 DEF Kinds
<1> DEFINE kind == op[h].kind
           arg == op[h].arg
<1>6. \/ kind \in {"createAccount", "updateAccount", "updateAccountStatus", "deleteAccount"}
         /\ \E a \in Accounts : arg = {a}
      \/ kind = "createGroup" /\ arg \in (SUBSET Accounts) \ {{}}
      \/ kind = "updateGroup" /\ arg \in SUBSET Accounts
      \/ kind = "deleteGroup" /\ arg = {}
      \/ kind \in {"createKey", "updateKey", "updateKeyStatus", "rotateKey", "deleteKey"}
         /\ arg = {Key}
  BY <1>3, <1>4
<1> HIDE DEF kind, arg
<1>7. kind \in {"createAccount", "updateAccount", "updateAccountStatus", "deleteAccount"} =>
         \E a \in Accounts : arg = {a}
  BY <1>6
<1>8. kind \in {"createGroup", "updateGroup", "deleteGroup"} => arg \subseteq Accounts
  BY <1>6
<1>9. kind = "createGroup" => arg # {}
  BY <1>6
<1>10. kind \in {"createKey", "updateKey", "updateKeyStatus", "rotateKey", "deleteKey"} =>
          arg = {Key}
  BY <1>6
<1> QED
  BY <1>1, <1>5, <1>7, <1>8, <1>9, <1>10 DEF kind, arg

\* An update statement keeps the rows there are.
LEMMA UpdatedRows ==
    ASSUME NEW ids, NEW t \in TableOf(ids), NEW h \in Handlers, IInv, pc[h] # "idle",
           NEW columns, snap[h] \in Tables, op[h].arg \subseteq DOMAIN RowsOf(snap[h])
    PROVE  Updated(t, h, columns) \in TableOf(ids) /\ DOMAIN Updated(t, h, columns) = DOMAIN t
<1>1. DOMAIN t \subseteq ids /\ t \in [DOMAIN t -> Rows]
  BY TableIs
<1>2. DOMAIN Updated(t, h, columns) = DOMAIN t
  BY DEF Updated
<1>3. op[h].id \in 0..MaxOps
  BY Arguments, AdminAssumption
<1>4. ASSUME NEW i \in op[h].arg PROVE Merged(h, columns, RowsOf(snap[h])[i]) \in Rows
  <2> DEFINE row == RowsOf(snap[h])[i]
  <2>1. row \in Rows
    BY <1>4, RowsAre, TableIs
  <2> HIDE DEF row
  <2>2. Merged(h, columns, row) \in Rows
    BY <1>3, <2>1 DEF Merged, Rows
  <2> QED
    BY <2>2 DEF row
<1>5. Updated(t, h, columns) \in [DOMAIN t -> Rows]
  BY <1>1, <1>4 DEF Updated
<1> QED
  BY <1>1, <1>2, <1>5, TableIs

\* An insertion adds the row it names.
LEMMA InsertedRows ==
    ASSUME NEW ids, NEW t \in TableOf(ids), NEW h \in Handlers, IInv, pc[h] # "idle",
           op[h].arg \subseteq ids
    PROVE  /\ Inserted(t, h) \in TableOf(ids)
           /\ DOMAIN Inserted(t, h) = DOMAIN t \cup op[h].arg
<1>1. DOMAIN t \subseteq ids /\ t \in [DOMAIN t -> Rows]
  BY TableIs
<1>2. DOMAIN Inserted(t, h) = DOMAIN t \cup op[h].arg
  BY DEF Inserted
<1>3. op[h].id \in 0..MaxOps
  BY Arguments, AdminAssumption
<1>4. [c \in Columns |-> op[h].id] \in Rows
  BY <1>3 DEF Rows
<1>5. Inserted(t, h) \in [DOMAIN t \cup op[h].arg -> Rows]
  BY <1>1, <1>4 DEF Inserted
<1> QED
  BY <1>1, <1>2, <1>5, TableIs

\* A deletion takes away the rows it names.
LEMMA RestrictedRows ==
    ASSUME NEW ids, NEW t \in TableOf(ids), NEW some
    PROVE  /\ Restrict(t, DOMAIN t \ some) \in TableOf(ids)
           /\ DOMAIN Restrict(t, DOMAIN t \ some) = DOMAIN t \ some
<1>1. DOMAIN t \subseteq ids /\ t \in [DOMAIN t -> Rows]
  BY TableIs
<1> DEFINE u == Restrict(t, DOMAIN t \ some)
<1>2. DOMAIN u = DOMAIN t \ some /\ u \in [DOMAIN t \ some -> Rows]
  BY <1>1 DEF Restrict
<1> QED
  BY <1>1, <1>2, TableIs

\* There is one key at most.
LEMMA KeyThere ==
    ASSUME NEW t \in TableOf({Key})
    PROVE  t # <<>> <=> DOMAIN t = {Key}
<1>1. DOMAIN t \subseteq {Key}
  BY TableIs
<1>2. t = <<>> <=> DOMAIN t = {}
  BY NoRows
<1> QED
  BY <1>1, <1>2

\* A statement on the key, and its secret.
LEMMA KeyAndSecret ==
    ASSUME NEW t \in Tables, NEW k, NEW s
    PROVE  [t EXCEPT !.keys = k, !.secret = s] =
              [accounts |-> t.accounts, group |-> t.group, keys |-> k, secret |-> s]
<1> DEFINE u == [t EXCEPT !.keys = k]
           a == t.accounts
           g == t.group
<1>1. t = [accounts |-> a, group |-> g, keys |-> t.keys, secret |-> t.secret]
  BY DEF Tables
<1>2. u = [accounts |-> a, group |-> g, keys |-> k, secret |-> t.secret]
  BY <1>1
<1>3. [t EXCEPT !.keys = k, !.secret = s] = [u EXCEPT !.secret = s]
  OBVIOUS
<1> HIDE DEF u, a, g
<1>4. [u EXCEPT !.secret = s] = [accounts |-> a, group |-> g, keys |-> k, secret |-> s]
  BY <1>2
<1> QED
  BY <1>3, <1>4 DEF a, g

\* A handler that has passed its reads executes its statement.
LEMMA HandleIs ==
    ASSUME IInv, NEW h \in Handlers, Handle(h)
    PROVE  Passes(h) \/ Writes(h)
<1> USE DEF IInv
<1>1. /\ db \in Tables /\ snap[h] \in Tables /\ pc[h] \in {"check", "write"}
      /\ Empty \in Tables
  <2>1. pc[h] \in {"check", "write"}
    BY DEF Handle, CreateAccount, UpdateAccount, UpdateAccountStatus, DeleteAccount, CreateGroup,
       UpdateGroup, DeleteGroup, CreateKey, UpdateKey, UpdateKeyStatus, RotateKey, DeleteKey,
       Pass, Statement
  <2> QED
    BY <2>1, EmptyInTables DEF TypeOK
<1>2. /\ db.accounts \in TableOf(Accounts) /\ db.keys \in TableOf({Key})
      /\ db.group \in SUBSET Accounts
      /\ db = [accounts |-> db.accounts, group |-> db.group, keys |-> db.keys,
               secret |-> db.secret]
  BY <1>1 DEF Tables
<1>3. /\ KeyRead \in Tables /\ KeyRead.keys = db.keys
      /\ op[h].arg \subseteq DOMAIN db.accounts =>
            AccountRead(h) \in Tables /\ DOMAIN AccountRead(h).accounts = op[h].arg
  <2>1. KeyRead \in Tables /\ KeyRead.keys = db.keys
    BY <1>1, <1>2 DEF KeyRead, Empty, Tables
  <2>2. ASSUME op[h].arg \subseteq DOMAIN db.accounts
        PROVE  AccountRead(h) \in Tables /\ DOMAIN AccountRead(h).accounts = op[h].arg
    <3> DEFINE t == Restrict(db.accounts, op[h].arg)
    <3>1. DOMAIN t = op[h].arg /\ t \in TableOf(Accounts)
      <4>1. DOMAIN db.accounts \subseteq Accounts /\ db.accounts \in [DOMAIN db.accounts -> Rows]
        BY <1>2, TableIs
      <4>2. DOMAIN t = op[h].arg /\ t \in [op[h].arg -> Rows]
        BY <2>2, <4>1 DEF Restrict
      <4> QED
        BY <2>2, <4>1, <4>2, TableIs
    <3>2. AccountRead(h) = [Empty EXCEPT !.accounts = t]
      BY DEF AccountRead
    <3> HIDE DEF t
    <3> QED
      BY <1>1, <3>1, <3>2 DEF Empty, Tables
  <2> QED
    BY <2>1, <2>2
<1>4. [Empty EXCEPT !.group = db.group] \in Tables
  BY <1>1, <1>2 DEF Empty, Tables
<1>5. ASSUME CreateAccount(h) PROVE Passes(h) \/ Writes(h)
  <2>1. op[h].kind = "createAccount"
    BY <1>5 DEF CreateAccount
  <2>2. After(h) = [db EXCEPT !.accounts = Inserted(@, h)]
    BY <1>2, <2>1 DEF After, AccountsAfter, GroupAfter, KeysAfter, SecretAfter
  <2>3. CASE Pass(h, Empty)
    BY <1>1, <2>1, <2>3 DEF Passes, Checked
  <2>4. CASE Statement(h, [db EXCEPT !.accounts = Inserted(@, h)]) /\ op[h].arg \cap DOMAIN db.accounts = {}
    BY <2>1, <2>2, <2>4 DEF Writes, Kinds
  <2> QED
    BY <1>5, <2>3, <2>4 DEF CreateAccount
<1>6. ASSUME UpdateAccount(h) PROVE Passes(h) \/ Writes(h)
  <2>1. op[h].kind = "updateAccount"
    BY <1>6 DEF UpdateAccount
  <2>2. After(h) = [db EXCEPT !.accounts = Updated(@, h, {"rest"})]
    BY <1>2, <2>1 DEF After, AccountsAfter, GroupAfter, KeysAfter, SecretAfter
  <2>3. CASE op[h].arg \subseteq DOMAIN db.accounts /\ Pass(h, AccountRead(h))
    BY <1>3, <2>1, <2>3 DEF Passes, Checked
  <2>4. CASE Statement(h, [db EXCEPT !.accounts = Updated(@, h, {"rest"})])
    BY <2>1, <2>2, <2>4 DEF Writes, Kinds
  <2> QED
    BY <1>6, <2>3, <2>4 DEF UpdateAccount
<1>7. ASSUME UpdateAccountStatus(h) PROVE Passes(h) \/ Writes(h)
  <2>1. op[h].kind = "updateAccountStatus"
    BY <1>7 DEF UpdateAccountStatus
  <2>2. After(h) = [db EXCEPT !.accounts = Updated(@, h, {"status"})]
    BY <1>2, <2>1 DEF After, AccountsAfter, GroupAfter, KeysAfter, SecretAfter
  <2>3. CASE op[h].arg \subseteq DOMAIN db.accounts /\ Pass(h, AccountRead(h))
    BY <1>3, <2>1, <2>3 DEF Passes, Checked
  <2>4. CASE Statement(h, [db EXCEPT !.accounts = Updated(@, h, {"status"})])
    BY <2>1, <2>2, <2>4 DEF Writes, Kinds
  <2> QED
    BY <1>7, <2>3, <2>4 DEF UpdateAccountStatus
<1>8. ASSUME DeleteAccount(h) PROVE Passes(h) \/ Writes(h)
  <2>1. op[h].kind = "deleteAccount"
    BY <1>8 DEF DeleteAccount
  <2>2. After(h) = [db EXCEPT !.accounts = Deleted(@, h)]
    BY <1>2, <2>1 DEF After, AccountsAfter, GroupAfter, KeysAfter, SecretAfter
  <2>3. CASE Pass(h, Empty) /\ op[h].arg \cap db.group = {}
    BY <1>1, <2>1, <2>3 DEF Passes, Checked
  <2>4. CASE Statement(h, [db EXCEPT !.accounts = Deleted(@, h)])
    BY <2>1, <2>2, <2>4 DEF Writes, Kinds
  <2> QED
    BY <1>8, <2>3, <2>4 DEF DeleteAccount
<1>9. ASSUME CreateGroup(h) PROVE Passes(h) \/ Writes(h)
  <2>1. op[h].kind = "createGroup"
    BY <1>9 DEF CreateGroup
  <2>2. After(h) = [db EXCEPT !.group = op[h].arg]
    BY <1>2, <2>1 DEF After, AccountsAfter, GroupAfter, KeysAfter, SecretAfter
  <2>3. CASE Pass(h, Empty) /\ op[h].arg \subseteq DOMAIN db.accounts
    BY <1>1, <2>1, <2>3 DEF Passes, Checked
  <2>4. CASE Statement(h, [db EXCEPT !.group = op[h].arg])
    BY <2>1, <2>2, <2>4 DEF Writes, Kinds
  <2> QED
    BY <1>9, <2>3, <2>4 DEF CreateGroup, ValidGroup
<1>10. ASSUME DeleteGroup(h) PROVE Passes(h) \/ Writes(h)
  <2>1. op[h].kind = "deleteGroup"
    BY <1>10 DEF DeleteGroup
  <2>2. After(h) = [db EXCEPT !.group = {}]
    BY <1>2, <2>1 DEF After, AccountsAfter, GroupAfter, KeysAfter, SecretAfter
  <2>3. CASE Pass(h, Empty) /\ db.keys = <<>>
    BY <1>1, <2>1, <2>3 DEF Passes, Checked
  <2>4. CASE Statement(h, [db EXCEPT !.group = {}])
    BY <2>1, <2>2, <2>4 DEF Writes, Kinds
  <2> QED
    BY <1>10, <2>3, <2>4 DEF DeleteGroup
<1>11. ASSUME CreateKey(h) PROVE Passes(h) \/ Writes(h)
  <2>1. op[h].kind = "createKey"
    BY <1>11 DEF CreateKey
  <2>2. After(h) = [db EXCEPT !.keys = Inserted(@, h), !.secret = op[h].id + 1]
    <3>1. AccountsAfter(h) = db.accounts /\ GroupAfter(h) = db.group
      BY <2>1 DEF AccountsAfter, GroupAfter
    <3>2. KeysAfter(h) = Inserted(db.keys, h)
      BY <2>1 DEF KeysAfter
    <3>3. SecretAfter(h) = op[h].id + 1
      BY <2>1 DEF SecretAfter
    <3>4. After(h) = [accounts |-> db.accounts, group |-> db.group, keys |-> KeysAfter(h),
                      secret |-> SecretAfter(h)]
      BY <3>1 DEF After
    <3>5. \A k, s : [db EXCEPT !.keys = k, !.secret = s] =
                       [accounts |-> db.accounts, group |-> db.group, keys |-> k, secret |-> s]
      BY <1>1, KeyAndSecret
    <3> QED
      BY <3>2, <3>3, <3>4, <3>5
  <2>3. CASE Pass(h, Empty) /\ db.group # {}
    BY <1>1, <2>1, <2>3 DEF Passes, Checked
  <2>4. CASE Statement(h, [db EXCEPT !.keys = Inserted(@, h), !.secret = op[h].id + 1]) /\ db.keys = <<>>
    BY <2>1, <2>2, <2>4 DEF Writes, Kinds
  <2> QED
    BY <1>11, <2>3, <2>4 DEF CreateKey, ValidKey
<1>12. ASSUME UpdateKey(h) PROVE Passes(h) \/ Writes(h)
  <2>1. op[h].kind = "updateKey"
    BY <1>12 DEF UpdateKey
  <2>2. After(h) = [db EXCEPT !.keys = Updated(@, h, {"rest"})]
    BY <1>2, <2>1 DEF After, AccountsAfter, GroupAfter, KeysAfter, SecretAfter
  <2>3. CASE db.keys # <<>> /\ Pass(h, KeyRead)
    <3>1. op[h].arg \subseteq DOMAIN db.keys
      BY <1>1, <1>2, <2>1, <2>3, Arguments, KeyThere
    <3> QED
      BY <1>3, <2>1, <2>3, <3>1 DEF Passes, Checked
  <2>4. CASE Statement(h, [db EXCEPT !.keys = Updated(@, h, {"rest"})])
    BY <2>1, <2>2, <2>4 DEF Writes, Kinds
  <2> QED
    BY <1>12, <2>3, <2>4 DEF UpdateKey
<1>13. ASSUME UpdateKeyStatus(h) PROVE Passes(h) \/ Writes(h)
  <2>1. op[h].kind = "updateKeyStatus"
    BY <1>13 DEF UpdateKeyStatus
  <2>2. After(h) = [db EXCEPT !.keys = Updated(@, h, {"status"})]
    BY <1>2, <2>1 DEF After, AccountsAfter, GroupAfter, KeysAfter, SecretAfter
  <2>3. CASE db.keys # <<>> /\ Pass(h, KeyRead)
    <3>1. op[h].arg \subseteq DOMAIN db.keys
      BY <1>1, <1>2, <2>1, <2>3, Arguments, KeyThere
    <3> QED
      BY <1>3, <2>1, <2>3, <3>1 DEF Passes, Checked
  <2>4. CASE Statement(h, [db EXCEPT !.keys = Updated(@, h, {"status"})])
    BY <2>1, <2>2, <2>4 DEF Writes, Kinds
  <2> QED
    BY <1>13, <2>3, <2>4 DEF UpdateKeyStatus
<1>14. ASSUME DeleteKey(h) PROVE Passes(h) \/ Writes(h)
  <2>1. op[h].kind = "deleteKey"
    BY <1>14 DEF DeleteKey
  <2>2. After(h) = [db EXCEPT !.keys = Deleted(@, h), !.secret = NoSecret]
    <3>1. AccountsAfter(h) = db.accounts /\ GroupAfter(h) = db.group
      BY <2>1 DEF AccountsAfter, GroupAfter
    <3>2. KeysAfter(h) = Deleted(db.keys, h)
      BY <2>1 DEF KeysAfter
    <3>3. SecretAfter(h) = NoSecret
      BY <2>1 DEF SecretAfter
    <3>4. After(h) = [accounts |-> db.accounts, group |-> db.group, keys |-> KeysAfter(h),
                      secret |-> SecretAfter(h)]
      BY <3>1 DEF After
    <3>5. \A k, s : [db EXCEPT !.keys = k, !.secret = s] =
                       [accounts |-> db.accounts, group |-> db.group, keys |-> k, secret |-> s]
      BY <1>1, KeyAndSecret
    <3> QED
      BY <3>2, <3>3, <3>4, <3>5
  <2>3. CASE Pass(h, Empty)
    BY <1>1, <2>1, <2>3 DEF Passes, Checked
  <2>4. CASE Statement(h, [db EXCEPT !.keys = Deleted(@, h), !.secret = NoSecret])
    BY <2>1, <2>2, <2>4 DEF Writes, Kinds
  <2> QED
    BY <1>14, <2>3, <2>4 DEF DeleteKey
<1>15. ASSUME UpdateGroup(h) PROVE Passes(h) \/ Writes(h)
  <2>1. op[h].kind = "updateGroup"
    BY <1>15 DEF UpdateGroup
  <2>2. After(h) = IF db.group = {} THEN db ELSE [db EXCEPT !.group = Members(h, snap[h])]
    BY <1>2, <2>1 DEF After, AccountsAfter, GroupAfter, KeysAfter, SecretAfter
  <2> DEFINE read == [Empty EXCEPT !.group = db.group]
  <2>3. CASE ValidGroup(Members(h, db)) /\ Pass(h, read)
    <3>1. read \in Tables /\ Members(h, read) = Members(h, db)
      BY <1>4 DEF Members, Empty
    <3> HIDE DEF read
    <3> QED
      BY <2>1, <2>3, <3>1 DEF Passes, Checked, ValidGroup
  <2>4. CASE Statement(h, IF db.group = {} THEN db ELSE [db EXCEPT !.group = Members(h, snap[h])])
    BY <2>1, <2>2, <2>4 DEF Writes, Kinds
  <2> QED
    BY <1>15, <2>3, <2>4 DEF UpdateGroup
<1>16. ASSUME RotateKey(h) PROVE Passes(h) \/ Writes(h)
  <2>1. op[h].kind = "rotateKey"
    BY <1>16 DEF RotateKey
  <2>2. After(h) = IF db.keys = <<>> THEN db ELSE [db EXCEPT !.secret = op[h].id + 1]
    <3>1. AccountsAfter(h) = db.accounts /\ GroupAfter(h) = db.group /\ KeysAfter(h) = db.keys
      BY <2>1 DEF AccountsAfter, GroupAfter, KeysAfter
    <3>2. SecretAfter(h) = IF db.keys = <<>> THEN db.secret ELSE op[h].id + 1
      BY <2>1 DEF SecretAfter
    <3> QED
      BY <1>2, <3>1, <3>2 DEF After
  <2>3. CASE Pass(h, Empty)
    BY <1>1, <2>1, <2>3 DEF Passes, Checked
  <2>4. CASE Statement(h, IF db.keys = <<>> THEN db ELSE [db EXCEPT !.secret = op[h].id + 1])
    BY <2>1, <2>2, <2>4 DEF Writes, Kinds
  <2> QED
    BY <1>16, <2>3, <2>4 DEF RotateKey
<1> QED
  BY <1>5, <1>6, <1>7, <1>8, <1>9, <1>10, <1>11, <1>12, <1>13, <1>14, <1>15, <1>16 DEF Handle

-----------------------------------------------------------------------------
(* What a write does to the database.                                      *)

\* What a write finds.
LEMMA WriteFinds ==
    ASSUME IInv, NEW h \in Handlers, Writes(h)
    PROVE  /\ pc[h] = "write" /\ op[h].kind \in Kinds \ {"none"} /\ op[h].id \in 1..MaxOps
           /\ db \in Tables /\ snap[h] \in Tables
           /\ db.accounts \in TableOf(Accounts) /\ db.keys \in TableOf({Key})
           /\ db.group \subseteq Accounts /\ db.secret \in Secrets
           /\ db' = After(h)
<1>1. pc[h] = "write" /\ db' = After(h) /\ op[h].kind \in Kinds \ {"none"}
  BY DEF Writes, Statement
<1>2. db \in Tables /\ snap[h] \in Tables /\ op[h].id \in 1..MaxOps
  BY <1>1 DEF IInv, TypeOK
<1> QED
  BY <1>1, <1>2 DEF Tables

\* The accounts after a write: what is there, and which are new or gone.
LEMMA AccountsWritten ==
    ASSUME IInv, NEW h \in Handlers, Writes(h)
    PROVE  /\ AccountsAfter(h) \in TableOf(Accounts)
           /\ DOMAIN AccountsAfter(h) =
                 CASE op[h].kind = "createAccount" -> DOMAIN db.accounts \cup op[h].arg
                   [] op[h].kind = "deleteAccount" -> DOMAIN db.accounts \ op[h].arg
                   [] OTHER -> DOMAIN db.accounts
<1>1. /\ db.accounts \in TableOf(Accounts) /\ pc[h] = "write" /\ snap[h] \in Tables
  BY WriteFinds
<1>2. CASE op[h].kind = "createAccount"
  <2>1. op[h].arg \subseteq Accounts
    BY <1>1, <1>2, Arguments
  <2>2. /\ Inserted(db.accounts, h) \in TableOf(Accounts)
        /\ DOMAIN Inserted(db.accounts, h) = DOMAIN db.accounts \cup op[h].arg
    <3>1. pc[h] # "idle"
      BY <1>1
    <3> DEFINE t == db.accounts
    <3>2. t \in TableOf(Accounts)
      BY <1>1
    <3> HIDE DEF t
    <3>3. /\ Inserted(t, h) \in TableOf(Accounts)
          /\ DOMAIN Inserted(t, h) = DOMAIN t \cup op[h].arg
      BY <2>1, <3>1, <3>2, InsertedRows
    <3> QED
      BY <3>3 DEF t
  <2>3. AccountsAfter(h) = Inserted(db.accounts, h)
    BY <1>2 DEF AccountsAfter
  <2> QED
    BY <1>2, <2>2, <2>3
<1>3. CASE op[h].kind \in {"updateAccount", "updateAccountStatus"}
  <2>1. op[h].arg \subseteq DOMAIN snap[h].accounts
    BY <1>1, <1>3 DEF IInv, HasRead
  <2>2. op[h].arg \subseteq DOMAIN RowsOf(snap[h])
    BY <1>1, <2>1, RowsAre
  <2>3. \A columns : /\ Updated(db.accounts, h, columns) \in TableOf(Accounts)
                     /\ DOMAIN Updated(db.accounts, h, columns) = DOMAIN db.accounts
    BY <1>1, <2>2, UpdatedRows
  <2>4. \E columns : AccountsAfter(h) = Updated(db.accounts, h, columns)
    BY <1>3 DEF AccountsAfter
  <2> QED
    BY <1>3, <2>3, <2>4
<1>4. CASE op[h].kind = "deleteAccount"
  <2>1. /\ Deleted(db.accounts, h) \in TableOf(Accounts)
        /\ DOMAIN Deleted(db.accounts, h) = DOMAIN db.accounts \ op[h].arg
    <3> DEFINE t == db.accounts
               some == op[h].arg
    <3>1. t \in TableOf(Accounts)
      BY <1>1
    <3> HIDE DEF t, some
    <3>2. /\ Restrict(t, DOMAIN t \ some) \in TableOf(Accounts)
          /\ DOMAIN Restrict(t, DOMAIN t \ some) = DOMAIN t \ some
      BY <3>1, RestrictedRows
    <3> QED
      BY <3>2 DEF Deleted, t, some
  <2>2. AccountsAfter(h) = Deleted(db.accounts, h)
    BY <1>4 DEF AccountsAfter
  <2> QED
    BY <1>4, <2>1, <2>2
<1>5. CASE op[h].kind \notin {"createAccount", "updateAccount", "updateAccountStatus",
                              "deleteAccount"}
  BY <1>1, <1>5 DEF AccountsAfter
<1> QED
  BY <1>2, <1>3, <1>4, <1>5

\* The key after a write.
LEMMA KeysWritten ==
    ASSUME IInv, NEW h \in Handlers, Writes(h)
    PROVE  /\ KeysAfter(h) \in TableOf({Key})
           /\ KeysAfter(h) = <<>> <=>
                 \/ op[h].kind = "deleteKey"
                 \/ db.keys = <<>> /\ op[h].kind # "createKey"
<1>1. /\ db.keys \in TableOf({Key}) /\ pc[h] = "write" /\ snap[h] \in Tables
  BY WriteFinds
<1>2. CASE op[h].kind = "createKey"
  <2>1. op[h].arg = {Key}
    BY <1>1, <1>2, Arguments
  <2>2. Inserted(db.keys, h) \in TableOf({Key}) /\ Key \in DOMAIN Inserted(db.keys, h)
    <3>1. op[h].arg \subseteq {Key} /\ Key \in op[h].arg /\ pc[h] # "idle"
      BY <1>1, <2>1
    <3>2. /\ Inserted(db.keys, h) \in TableOf({Key})
          /\ DOMAIN Inserted(db.keys, h) = DOMAIN db.keys \cup op[h].arg
      BY <1>1, <3>1, InsertedRows
    <3> QED
      BY <3>1, <3>2
  <2>3. Inserted(db.keys, h) # <<>>
    BY <2>2, NoRows
  <2> QED
    BY <1>2, <2>2, <2>3 DEF KeysAfter
<1>3. CASE op[h].kind \in {"updateKey", "updateKeyStatus"}
  <2>1. op[h].arg \subseteq DOMAIN snap[h].keys
    BY <1>1, <1>3 DEF IInv, HasRead
  <2>2. op[h].arg \subseteq DOMAIN RowsOf(snap[h])
    BY <1>1, <2>1, RowsAre
  <2>3. \A columns : /\ Updated(db.keys, h, columns) \in TableOf({Key})
                     /\ DOMAIN Updated(db.keys, h, columns) = DOMAIN db.keys
    BY <1>1, <2>2, UpdatedRows
  <2>4. PICK columns : KeysAfter(h) = Updated(db.keys, h, columns)
    BY <1>3 DEF KeysAfter
  <2>5. KeysAfter(h) = <<>> <=> db.keys = <<>>
    BY <1>1, <2>3, <2>4, NoRows
  <2> QED
    BY <1>3, <2>3, <2>4, <2>5
<1>4. CASE op[h].kind = "deleteKey"
  <2>1. op[h].arg = {Key}
    BY <1>1, <1>4, Arguments
  <2>2. DOMAIN db.keys \ {Key} = {}
    BY <1>1, TableIs
  <2>3. Deleted(db.keys, h) \in TableOf({Key}) /\ DOMAIN Deleted(db.keys, h) = {}
    BY <1>1, <2>1, <2>2, RestrictedRows DEF Deleted
  <2>4. Deleted(db.keys, h) = <<>>
    BY <2>3, NoRows
  <2> QED
    BY <1>4, <2>3, <2>4 DEF KeysAfter
<1>5. CASE op[h].kind \notin {"createKey", "updateKey", "updateKeyStatus", "deleteKey"}
  BY <1>1, <1>5 DEF KeysAfter
<1> QED
  BY <1>2, <1>3, <1>4, <1>5

\* The group after a write.
LEMMA GroupWritten ==
    ASSUME IInv, NEW h \in Handlers, Writes(h)
    PROVE  /\ GroupAfter(h) \subseteq Accounts
           /\ op[h].kind \notin {"createGroup", "updateGroup"} => GroupAfter(h) \subseteq db.group
           /\ op[h].kind # "deleteGroup" => (db.group # {} => GroupAfter(h) # {})
           /\ op[h].kind = "createGroup" => GroupAfter(h) = op[h].arg /\ op[h].arg # {}
           /\ op[h].kind = "updateGroup" =>
                 GroupAfter(h) = (IF db.group = {} THEN {} ELSE Members(h, snap[h]))
<1>1. db.group \subseteq Accounts /\ pc[h] = "write" /\ snap[h] \in Tables
  BY WriteFinds
<1>2. op[h].kind \in {"createGroup", "updateGroup"} => op[h].arg \subseteq Accounts
  BY <1>1, Arguments
<1>3. op[h].kind = "createGroup" => op[h].arg # {}
  BY <1>1, Arguments
<1>4. op[h].kind = "updateGroup" => Members(h, snap[h]) # {}
  BY <1>1 DEF IInv, HasRead
<1>5. op[h].kind = "updateGroup" => Members(h, snap[h]) \subseteq Accounts
  BY <1>1, <1>2 DEF Members, Tables
<1>6. CASE op[h].kind = "createGroup"
  BY <1>2, <1>3, <1>6 DEF GroupAfter
<1>7. CASE op[h].kind = "updateGroup"
  BY <1>4, <1>5, <1>7 DEF GroupAfter
<1>8. CASE op[h].kind \notin {"createGroup", "updateGroup"}
  BY <1>1, <1>8 DEF GroupAfter
<1> QED
  BY <1>6, <1>7, <1>8

\* The secret after a write is the one there was, none, or a new one.
LEMMA SecretWritten ==
    ASSUME IInv, NEW h \in Handlers, Writes(h)
    PROVE  SecretAfter(h) \in Secrets /\ SecretAfter(h) \in {db.secret, NoSecret, op[h].id + 1}
<1>1. db.secret \in Secrets /\ op[h].id \in 1..MaxOps
  BY WriteFinds
<1>2. SecretAfter(h) \in {db.secret, NoSecret, op[h].id + 1}
  BY DEF SecretAfter
<1>3. NoSecret \in Secrets /\ op[h].id + 1 \in Secrets
  BY <1>1, AdminAssumption DEF Secrets, NoSecret
<1> QED
  BY <1>1, <1>2, <1>3

\* What is written are tables again.
LEMMA AfterTables ==
    ASSUME IInv, NEW h \in Handlers, Writes(h)
    PROVE  After(h) \in Tables
BY AccountsWritten, KeysWritten, GroupWritten, SecretWritten DEF After, Tables

\* The rows as the requests ask for them are rows.
LEMMA DueRows ==
    ASSUME IInv, NEW h \in Handlers, pc[h] # "idle"
    PROVE  Due(h) \in TableOf(Accounts \cup {Key})
<1> DEFINE ids == Accounts \cup {Key}
           id == op[h].id
           arg == op[h].arg
           wanted(columns) ==
              [i \in DOMAIN due |-> [c \in Columns |->
                  IF i \in arg /\ c \in columns THEN id ELSE due[i][c]]]
<1>1. due \in TableOf(ids)
  BY DEF IInv, TypeOK
<1>2. DOMAIN due \subseteq ids /\ due \in [DOMAIN due -> Rows]
  BY <1>1, TableIs
<1>3. id \in 0..MaxOps /\ arg \subseteq ids
  BY DEF IInv, Served
<1> HIDE DEF ids, id, arg
<1>4. ASSUME NEW columns PROVE wanted(columns) \in TableOf(ids)
  <2>1. \A i \in DOMAIN due : wanted(columns)[i] \in Rows
    BY <1>2, <1>3 DEF Rows
  <2>2. DOMAIN wanted(columns) = DOMAIN due
    OBVIOUS
  <2>3. wanted(columns) \in [DOMAIN due -> Rows]
    BY <2>1
  <2> HIDE DEF wanted
  <2> QED
    BY <1>2, <2>2, <2>3, TableIs
<1>5. [i \in DOMAIN due \cup arg |-> IF i \in arg THEN [c \in Columns |-> id] ELSE due[i]]
         \in TableOf(ids)
  <2> DEFINE new == [i \in DOMAIN due \cup arg |->
                        IF i \in arg THEN [c \in Columns |-> id] ELSE due[i]]
  <2>1. [c \in Columns |-> id] \in Rows
    BY <1>3 DEF Rows
  <2>2. new \in [DOMAIN due \cup arg -> Rows] /\ DOMAIN new = DOMAIN due \cup arg
    BY <1>2, <2>1
  <2> HIDE DEF new
  <2>3. new \in TableOf(ids)
    BY <1>2, <1>3, <2>2, TableIs
  <2> QED
    BY <2>3 DEF new
<1>6. Restrict(due, DOMAIN due \ arg) \in TableOf(ids)
  BY <1>1, RestrictedRows
<1>7. \/ Due(h) = due
      \/ \E columns : Due(h) = wanted(columns)
      \/ Due(h) = Restrict(due, DOMAIN due \ arg)
      \/ Due(h) = [i \in DOMAIN due \cup arg |->
                      IF i \in arg THEN [c \in Columns |-> id] ELSE due[i]]
  BY DEF Due, id, arg
<1> HIDE DEF wanted
<1> QED
  BY <1>1, <1>4, <1>5, <1>6, <1>7 DEF ids

\* A write leaves the rows as the requests asked for them, unless it updates a
\* row with what was read before another one's update.
LEMMA RowsWritten ==
    ASSUME IInv, NEW h \in Handlers, Writes(h), ~overlapped,
           op[h].kind \in Updates => ~Stale(h)
    PROVE  RowsOf(After(h)) = Due(h)
<1> DEFINE A == db.accounts
           K == db.keys
           a == AccountsAfter(h)
           k == KeysAfter(h)
           R == RowsOf(After(h))
           arg == op[h].arg
           kind == op[h].kind
           new == [c \in Columns |-> op[h].id]
<1>1. /\ DOMAIN due = DOMAIN A \cup DOMAIN K
      /\ \A i \in DOMAIN A : due[i] = A[i]
      /\ \A i \in DOMAIN K : due[i] = K[i]
      /\ DOMAIN A \subseteq Accounts /\ DOMAIN K \subseteq {Key}
  <2>1. RowsOf(db) = due
    BY DEF IInv, UpdatesStick
  <2> QED
    BY <2>1, WriteFinds, RowsAre
<1>2. /\ R \in TableOf(Accounts \cup {Key})
      /\ DOMAIN R = DOMAIN a \cup DOMAIN k
      /\ \A i \in DOMAIN a : R[i] = a[i]
      /\ \A i \in DOMAIN k : R[i] = k[i]
  <2>1. After(h).accounts = a /\ After(h).keys = k
    BY DEF After
  <2>2. After(h) \in Tables
    BY AfterTables
  <2> DEFINE t == After(h)
  <2> HIDE DEF t
  <2>3. t \in Tables
    BY <2>2 DEF t
  <2>4. /\ RowsOf(t) \in TableOf(Accounts \cup {Key})
        /\ DOMAIN RowsOf(t) = DOMAIN t.accounts \cup DOMAIN t.keys
        /\ \A i \in DOMAIN t.accounts : RowsOf(t)[i] = t.accounts[i]
        /\ \A i \in DOMAIN t.keys : RowsOf(t)[i] = t.keys[i]
    BY <2>3, RowsAre
  <2> QED
    BY <2>1, <2>4 DEF t
<1>3. /\ Due(h) \in TableOf(Accounts \cup {Key}) /\ pc[h] = "write" /\ kind \in Kinds \ {"none"}
  BY WriteFinds, DueRows
<1>4. /\ kind \in {"createAccount", "updateAccount", "updateAccountStatus", "deleteAccount"} =>
            arg \subseteq Accounts /\ Key \notin arg
      /\ kind \in {"createKey", "updateKey", "updateKeyStatus", "rotateKey", "deleteKey"} =>
            arg = {Key}
  BY <1>3, Arguments, AdminAssumption
<1> SUFFICES DOMAIN R = DOMAIN Due(h) /\ \A i \in DOMAIN R : R[i] = Due(h)[i]
  BY <1>2, <1>3, SameRows
<1> HIDE DEF R
<1>5. CASE kind = "createAccount"
  <2>1. a = [i \in DOMAIN A \cup arg |-> IF i \in arg THEN new ELSE A[i]] /\ k = K
    BY <1>5 DEF AccountsAfter, KeysAfter, Inserted
  <2>2. Due(h) = [i \in DOMAIN due \cup arg |-> IF i \in arg THEN new ELSE due[i]]
    BY <1>5 DEF Due
  <2> HIDE DEF A, K, a, k, arg, kind, new
  <2> QED
    BY <1>1, <1>2, <1>4, <1>5, <2>1, <2>2
<1>6. CASE kind = "createKey"
  <2>1. k = [i \in DOMAIN K \cup arg |-> IF i \in arg THEN new ELSE K[i]] /\ a = A
    BY <1>6 DEF AccountsAfter, KeysAfter, Inserted
  <2>2. Due(h) = [i \in DOMAIN due \cup arg |-> IF i \in arg THEN new ELSE due[i]]
    BY <1>6 DEF Due
  <2> HIDE DEF A, K, a, k, arg, kind, new
  <2> QED
    BY <1>1, <1>2, <1>4, <1>6, <2>1, <2>2, AdminAssumption
<1>7. CASE kind = "deleteAccount"
  <2>1. a = [i \in DOMAIN A \ arg |-> A[i]] /\ k = K
    BY <1>7 DEF AccountsAfter, KeysAfter, Deleted, Restrict
  <2>2. Due(h) = [i \in DOMAIN due \ arg |-> due[i]]
    BY <1>7 DEF Due, Restrict
  <2> HIDE DEF A, K, a, k, arg, kind, new
  <2> QED
    BY <1>1, <1>2, <1>4, <1>7, <2>1, <2>2
<1>8. CASE kind = "deleteKey"
  <2>1. k = [i \in DOMAIN K \ arg |-> K[i]] /\ a = A
    BY <1>8 DEF AccountsAfter, KeysAfter, Deleted, Restrict
  <2>2. Due(h) = [i \in DOMAIN due \ arg |-> due[i]]
    BY <1>8 DEF Due, Restrict
  <2> HIDE DEF A, K, a, k, arg, kind, new
  <2> QED
    BY <1>1, <1>2, <1>4, <1>8, <2>1, <2>2, AdminAssumption
<1>9. CASE kind \in Updates
  <2> DEFINE S == RowsOf(snap[h])
             columns == IF kind \in {"updateAccount", "updateKey"} THEN {"rest"} ELSE {"status"}
             written(row) == [c \in Columns |-> IF c \in columns THEN op[h].id ELSE row[c]]
             updated(t) == [i \in DOMAIN t |-> IF i \in arg THEN written(S[i]) ELSE t[i]]
             wanted == [i \in DOMAIN due |-> [c \in Columns |->
                          IF i \in arg /\ c \in columns THEN op[h].id ELSE due[i][c]]]
  <2>1. \A i \in arg \cap DOMAIN due : S[i] = due[i]
    <3>1. RowsOf(db) = due
      BY DEF IInv, UpdatesStick
    <3> QED
      BY <1>9, <3>1 DEF Stale
  <2>2. \A i \in DOMAIN due : due[i] \in Rows
    <3>1. due \in TableOf(Accounts \cup {Key})
      BY DEF IInv, TypeOK
    <3> QED
      BY <3>1, TableIs
  <2>3. Due(h) = wanted
    BY <1>9 DEF Due, Updates
  <2>4. a = (IF kind \in {"updateAccount", "updateAccountStatus"} THEN updated(A) ELSE A)
    BY <1>9 DEF AccountsAfter, Updated, Merged, Updates
  <2>5. k = (IF kind \in {"updateKey", "updateKeyStatus"} THEN updated(K) ELSE K)
    BY <1>9 DEF KeysAfter, Updated, Merged, Updates
  <2> HIDE DEF A, K, a, k, arg, kind, columns, S
  <2>6. DOMAIN wanted = DOMAIN due
    OBVIOUS
  <2>7. \A i \in DOMAIN due \ arg : wanted[i] = due[i]
    BY <2>2 DEF Rows
  <2>8. \A i \in DOMAIN due \cap arg : wanted[i] = written(S[i])
    BY <2>1
  <2> HIDE DEF wanted, written
  <2>9. \A i \in DOMAIN A : A[i] = due[i] /\ (i \notin arg => wanted[i] = A[i])
    BY <1>1, <2>7
  <2>10. \A i \in DOMAIN K : K[i] = due[i] /\ (i \notin arg => wanted[i] = K[i])
    BY <1>1, <2>7
  <2>11. CASE kind \in {"updateAccount", "updateAccountStatus"}
    <3>1. a = updated(A) /\ k = K
      BY <2>4, <2>5, <2>11
    <3>2. DOMAIN a = DOMAIN A /\ \A i \in DOMAIN A : a[i] = wanted[i]
      BY <1>1, <2>8, <2>9, <3>1
    <3>3. \A i \in DOMAIN K : i \notin arg
      BY <1>1, <1>4, <2>11
    <3> QED
      BY <1>1, <1>2, <2>3, <2>6, <2>10, <3>1, <3>2, <3>3
  <2>12. CASE kind \in {"updateKey", "updateKeyStatus"}
    <3>1. k = updated(K) /\ a = A
      BY <2>4, <2>5, <2>12
    <3>2. DOMAIN k = DOMAIN K /\ \A i \in DOMAIN K : k[i] = wanted[i]
      BY <1>1, <2>8, <2>10, <3>1
    <3>3. \A i \in DOMAIN A : i \notin arg
      BY <1>1, <1>4, <2>12, AdminAssumption
    <3> QED
      BY <1>1, <1>2, <2>3, <2>6, <2>9, <3>1, <3>2, <3>3
  <2> QED
    BY <1>9, <2>11, <2>12 DEF Updates
<1>10. CASE kind \in {"createGroup", "updateGroup", "deleteGroup", "rotateKey"}
  <2>1. a = A /\ k = K
    BY <1>10 DEF AccountsAfter, KeysAfter
  <2>2. Due(h) = due
    BY <1>10 DEF Due
  <2> HIDE DEF A, K, a, k, arg, kind, new
  <2> QED
    BY <1>1, <1>2, <2>1, <2>2
<1> QED
  BY <1>3, <1>5, <1>6, <1>7, <1>8, <1>9, <1>10 DEF Kinds, Updates

-----------------------------------------------------------------------------
(* Every step keeps the invariant.                                         *)

\* A request is a kind with its argument.
LEMMA RequestIs ==
    ASSUME NEW request \in Requests, NEW n \in 0..MaxOps
    PROVE  /\ [request EXCEPT !.id = n]
                  \in [kind : Kinds, arg : SUBSET (Accounts \cup {Key}), id : 0..MaxOps]
           /\ [request EXCEPT !.id = n].id = n
           /\ [[request EXCEPT !.id = n] EXCEPT !.id = 0] = request
<1>1. request \in [kind : Kinds \ {"none"}, arg : SUBSET (Accounts \cup {Key}), id : {0}]
  BY DEF Requests, Kinds
<1>2. [request EXCEPT !.id = n] = [kind |-> request.kind, arg |-> request.arg, id |-> n]
  BY <1>1
<1>3. request = [kind |-> request.kind, arg |-> request.arg, id |-> 0]
  BY <1>1
<1> QED
  BY <1>1, <1>2, <1>3

\* A request arrives.
LEMMA ArriveKeeps ==
    ASSUME IInv, NEW h \in Handlers, NEW request \in Requests, Arrive(h, request)
    PROVE  IInv'
<1> USE DEF IInv
<1> DEFINE r == [request EXCEPT !.id = ops + 1]
<1>1. /\ pc[h] = "idle" /\ ops < MaxOps /\ ops' = ops + 1 /\ ops \in Nat /\ ops + 1 \in 1..MaxOps
      /\ op' = [op EXCEPT ![h] = r] /\ pc' = [pc EXCEPT ![h] = "check"]
      /\ UNCHANGED <<db, memory, snap, old, history>>
  BY AdminAssumption DEF Arrive, TypeOK
<1> USE DEF memory, history, asked
<1>2. /\ r \in [kind : Kinds, arg : SUBSET (Accounts \cup {Key}), id : 0..MaxOps]
      /\ r.id = ops + 1
      /\ [r EXCEPT !.id = 0] \in Requests
  <2> DEFINE n == ops + 1
  <2>1. n \in 0..MaxOps
    BY <1>1
  <2> HIDE DEF n
  <2>2. /\ [request EXCEPT !.id = n]
                  \in [kind : Kinds, arg : SUBSET (Accounts \cup {Key}), id : 0..MaxOps]
        /\ [request EXCEPT !.id = n].id = n
        /\ [[request EXCEPT !.id = n] EXCEPT !.id = 0] = request
    BY <2>1, RequestIs
  <2> QED
    BY <2>2 DEF n
<1> HIDE DEF r
<1>3. /\ op'[h] = r /\ \A g \in Handlers \ {h} : op'[g] = op[g]
      /\ pc'[h] = "check" /\ \A g \in Handlers \ {h} : pc'[g] = pc[g]
  BY <1>1 DEF TypeOK, Served
<1>4. TypeOK'
  <2>1. ops' \in 0..MaxOps /\ pc' \in [Handlers -> PCs]
    BY <1>1 DEF TypeOK, PCs
  <2>2. \A g \in Handlers :
          IF pc'[g] = "idle"
          THEN op'[g] = NoRequest[g] /\ snap'[g] = Empty /\ old'[g] = NoSecret
          ELSE op'[g].id \in 1..MaxOps /\ [op'[g] EXCEPT !.id = 0] \in Requests
    <3>1. op'[h].id \in 1..MaxOps /\ [op'[h] EXCEPT !.id = 0] \in Requests
      BY <1>1, <1>2, <1>3
    <3>2. ASSUME NEW g \in Handlers \ {h}
          PROVE  IF pc'[g] = "idle"
                 THEN op'[g] = NoRequest[g] /\ snap'[g] = Empty /\ old'[g] = NoSecret
                 ELSE op'[g].id \in 1..MaxOps /\ [op'[g] EXCEPT !.id = 0] \in Requests
      <4>1. op'[g] = op[g] /\ pc'[g] = pc[g] /\ snap'[g] = snap[g] /\ old'[g] = old[g]
        BY <1>1, <1>3
      <4> QED
        BY <4>1 DEF TypeOK
    <3> QED
      BY <1>3, <3>1, <3>2
  <2> QED
    BY <1>1, <2>1, <2>2 DEF TypeOK
<1>5. Served'
  <2>1. op' \in [Handlers -> [kind : Kinds, arg : SUBSET (Accounts \cup {Key}), id : 0..MaxOps]]
    BY <1>1, <1>2 DEF Served
  <2>2. \A g \in Handlers : op[g].id \in Nat
    BY DEF Served
  <2> QED
    BY <1>1, <1>2, <1>3, <2>1, <2>2 DEF Served
<1>6. HasRead' /\ ChecksHold'
  BY <1>1, <1>3 DEF HasRead, ChecksHold, CheckHolds, Members
<1>7. Overlap' /\ ReloadsUpToDate'
  BY <1>1, <1>3 DEF Overlap, ReloadsUpToDate, Mid, Waiting, UpToDate, Reloading
<1>8. SecretsFresh'
  <2>1. /\ db.secret \in Nat /\ \A g \in Handlers : old[g] \in Nat
        /\ \A s \in retired : s \in Nat
    BY DEF TypeOK, Tables, Secrets
  <2>2. \A s : Fresh(s)' <=> Fresh(s)
    BY <1>1 DEF Fresh
  <2>3. Fresh(ops + 2)
    BY <1>1, <2>1 DEF Fresh, SecretsFresh
  <2>4. ops + 2 = r.id + 1
    BY <1>1, <1>2
  <2> QED
    BY <1>1, <1>2, <1>3, <2>1, <2>2, <2>3, <2>4 DEF SecretsFresh
<1>9. SecretsReplaced' /\ MemoryIsDatabase' /\ RetiredSecretRejected'
  BY <1>1, <1>3 DEF SecretsReplaced, MemoryIsDatabase, AtRest, RetiredSecretRejected
<1>10. ReferencesHold' /\ UpdatesStick'
  BY <1>1 DEF ReferencesHold, UpdatesStick, RowsOf
<1> QED
  BY <1>4, <1>5, <1>6, <1>7, <1>8, <1>9, <1>10

\* The reads of a request let it pass.
LEMMA PassKeeps == ASSUME IInv, NEW h \in Handlers, Passes(h) PROVE IInv'
<1> USE DEF IInv
<1>1. PICK read \in Tables : Pass(h, read) /\ Checked(h, read)
  BY DEF Passes
<1>2. /\ pc[h] = "check" /\ pc' = [pc EXCEPT ![h] = "write"] /\ snap' = [snap EXCEPT ![h] = read]
      /\ UNCHANGED <<db, memory, op, old, ops, history>>
  BY <1>1 DEF Pass
<1> USE DEF memory, history, asked
<1>3. /\ snap'[h] = read /\ \A g \in Handlers \ {h} : snap'[g] = snap[g]
      /\ pc'[h] = "write" /\ \A g \in Handlers \ {h} : pc'[g] = pc[g]
  BY <1>2 DEF TypeOK
<1>4. TypeOK'
  <2>1. snap' \in [Handlers -> Tables] /\ pc' \in [Handlers -> PCs]
    BY <1>2 DEF TypeOK, PCs
  <2> QED
    BY <1>2, <1>3, <2>1 DEF TypeOK
<1>5. Served'
  BY <1>2, <1>3 DEF Served
<1>6. HasRead'
  BY <1>1, <1>2, <1>3 DEF HasRead, Checked, Members
<1>7. ChecksHold'
  <2>1. CheckHolds(h)'
    BY <1>1, <1>2, <1>3 DEF Checked, CheckHolds, Members
  <2>2. \A g \in Handlers \ {h} : CheckHolds(g)' <=> CheckHolds(g)
    BY <1>2, <1>3 DEF CheckHolds, Members
  <2> QED
    BY <1>2, <1>3, <2>1, <2>2 DEF ChecksHold
<1>8. Overlap' /\ ReloadsUpToDate'
  BY <1>2, <1>3 DEF Overlap, ReloadsUpToDate, Mid, Waiting, UpToDate, Reloading
<1>9. SecretsFresh'
  BY <1>2, <1>3 DEF SecretsFresh, Fresh
<1>10. SecretsReplaced' /\ MemoryIsDatabase' /\ RetiredSecretRejected'
  BY <1>2, <1>3 DEF SecretsReplaced, MemoryIsDatabase, AtRest, RetiredSecretRejected
<1>11. ReferencesHold' /\ UpdatesStick'
  BY <1>2 DEF ReferencesHold, UpdatesStick, RowsOf
<1> QED
  BY <1>4, <1>5, <1>6, <1>7, <1>8, <1>9, <1>10, <1>11

\* A statement is executed, and its reload called.
LEMMA WritesKeeps == ASSUME IInv, NEW h \in Handlers, Writes(h) PROVE IInv'
<1> USE DEF IInv
<1>1. /\ pc[h] = "write" /\ pc' = [pc EXCEPT ![h] = "listAccounts"]
      /\ db' = After(h) /\ due' = Due(h)
      /\ old' = [old EXCEPT ![h] = IF db'.secret # db.secret THEN db.secret ELSE NoSecret]
      /\ raced' = (raced \/ \E g \in Handlers \ {h} :
             /\ pc[g] = "write"
             /\ \/ Races(op[g].kind, op[h].kind) \/ Races(op[h].kind, op[g].kind))
      /\ overlapped' = (overlapped \/ (op[h].kind \in Updates /\ Stale(h)))
      /\ UNCHANGED <<memory, op, snap, ops, alone, clean, retired>>
  BY DEF Writes, Statement
<1> USE DEF memory
<1> DEFINE accounts == AccountsAfter(h)
           group == GroupAfter(h)
           keys == KeysAfter(h)
           secret == SecretAfter(h)
<1>2. /\ db'.accounts = accounts /\ db'.group = group /\ db'.keys = keys /\ db'.secret = secret
      /\ db' \in Tables
  BY <1>1, AfterTables DEF After
<1>3. /\ pc'[h] = "listAccounts" /\ \A g \in Handlers \ {h} : pc'[g] = pc[g]
      /\ old'[h] = (IF secret # db.secret THEN db.secret ELSE NoSecret)
      /\ \A g \in Handlers \ {h} : old'[g] = old[g]
  BY <1>1, <1>2 DEF TypeOK
<1>4. /\ op[h].kind \in Kinds \ {"none"} /\ op[h].id \in 1..MaxOps /\ db.secret \in Secrets
  BY WriteFinds
<1>5. TypeOK'
  <2>1. pc' \in [Handlers -> PCs]
    BY <1>1 DEF TypeOK, PCs, Reloading
  <2>2. old' \in [Handlers -> Secrets]
    BY <1>1, <1>4, AdminAssumption DEF TypeOK, Secrets, NoSecret
  <2>3. due' \in TableOf(Accounts \cup {Key})
    BY <1>1, DueRows
  <2>4. raced' \in BOOLEAN /\ overlapped' \in BOOLEAN
    BY <1>1 DEF TypeOK
  <2>5. \A g \in Handlers :
          IF pc'[g] = "idle"
          THEN op'[g] = NoRequest[g] /\ snap'[g] = Empty /\ old'[g] = NoSecret
          ELSE op'[g].id \in 1..MaxOps /\ [op'[g] EXCEPT !.id = 0] \in Requests
    BY <1>1, <1>3 DEF TypeOK
  <2> QED
    BY <1>1, <1>2, <2>1, <2>2, <2>3, <2>4, <2>5 DEF TypeOK
<1>6. Served'
  BY <1>1, <1>3 DEF Served
<1>7. HasRead'
  BY <1>1, <1>3 DEF HasRead, Members
<1>8. /\ accounts \in TableOf(Accounts)
      /\ op[h].kind # "deleteAccount" => DOMAIN db.accounts \subseteq DOMAIN accounts
      /\ op[h].kind = "deleteAccount" => DOMAIN accounts = DOMAIN db.accounts \ op[h].arg
  BY AccountsWritten
<1>9. /\ op[h].kind \notin {"createGroup", "updateGroup"} => group \subseteq db.group
      /\ op[h].kind # "deleteGroup" => (db.group # {} => group # {})
      /\ op[h].kind = "createGroup" => group = op[h].arg /\ op[h].arg # {}
      /\ op[h].kind = "updateGroup" =>
            group = (IF db.group = {} THEN {} ELSE Members(h, snap[h]))
  BY GroupWritten
<1>10. keys = <<>> <=>
          \/ op[h].kind = "deleteKey"
          \/ db.keys = <<>> /\ op[h].kind # "createKey"
  BY KeysWritten
<1>11. secret \in {db.secret, NoSecret, op[h].id + 1}
  BY SecretWritten
<1> HIDE DEF accounts, group, keys, secret
<1>12. ChecksHold'
  <2> SUFFICES ASSUME ~raced', NEW g \in Handlers \ {h}, pc[g] = "write"
               PROVE  CheckHolds(g)'
    BY <1>3 DEF ChecksHold
  <2>1. ~Races(op[g].kind, op[h].kind) /\ ~Races(op[h].kind, op[g].kind)
    BY <1>1
  <2>2. CheckHolds(g)
    BY <1>1 DEF ChecksHold
  <2>3. Members(g, snap[g])' = Members(g, snap[g])
    BY <1>1 DEF Members
  <2> QED
    BY <1>1, <1>2, <1>8, <1>9, <1>10, <2>1, <2>2, <2>3 DEF CheckHolds, Races
<1>13. ReferencesHold'
  <2> SUFFICES ASSUME ~raced'
               PROVE  group \subseteq DOMAIN accounts /\ (keys # <<>> => group # {})
    BY <1>2 DEF ReferencesHold
  <2>1. /\ db.group \subseteq DOMAIN db.accounts
        /\ db.keys # <<>> => db.group # {}
    BY <1>1 DEF ReferencesHold
  <2>2. CheckHolds(h)
    BY <1>1 DEF ChecksHold
  <2> QED
    BY <1>4, <1>8, <1>9, <1>10, <2>1, <2>2 DEF CheckHolds
<1>14. Overlap' /\ ReloadsUpToDate' /\ MemoryIsDatabase'
  BY <1>1, <1>3 DEF Overlap, ReloadsUpToDate, Mid, Waiting, MemoryIsDatabase, AtRest, Reloading
<1>15. SecretsFresh'
  <2>1. /\ secret <= ops + 1 /\ old'[h] <= ops + 1
        /\ \A g \in Handlers : op[g].id \in Nat
    BY <1>3, <1>4, <1>11 DEF SecretsFresh, Served, Secrets, NoSecret, TypeOK
  <2>2. ASSUME NEW g \in Handlers \ {h}, pc[g] \in {"check", "write"} PROVE Fresh(op[g].id + 1)'
    <3>1. Fresh(op[g].id + 1) /\ op[g].id # op[h].id /\ op[g].id \in Nat /\ op[h].id \in Nat
      BY <1>1, <2>1, <2>2 DEF SecretsFresh, Served
    <3> DEFINE s == op[g].id + 1
    <3>2. s # op[h].id + 1 /\ s # NoSecret
      BY <3>1 DEF NoSecret
    <3>3. Fresh(s)
      BY <3>1
    <3> HIDE DEF s
    <3>4. s # secret /\ s \notin retired' /\ \A x \in Handlers : s # old'[x]
      BY <1>1, <1>3, <1>11, <3>2, <3>3 DEF Fresh
    <3> QED
      BY <1>1, <1>2, <3>4 DEF Fresh, s
  <2> QED
    BY <1>1, <1>2, <1>3, <2>1, <2>2 DEF SecretsFresh
<1>16. SecretsReplaced' /\ RetiredSecretRejected'
  <2> DEFINE s == op[h].id + 1
  <2>1. Fresh(s)
    BY <1>1 DEF SecretsFresh
  <2>2. NoSecret \notin retired
    BY DEF TypeOK
  <2> HIDE DEF s
  <2>3. secret \in {db.secret, NoSecret, s}
    BY <1>11 DEF s
  <2>4. secret \notin retired
    BY <2>1, <2>2, <2>3 DEF SecretsReplaced, Fresh
  <2>5. \A g \in Handlers : old'[g] # NoSecret => secret # old'[g]
    BY <1>3, <2>1, <2>3 DEF SecretsReplaced, Fresh
  <2> QED
    BY <1>1, <1>2, <1>3, <2>4, <2>5 DEF SecretsReplaced, RetiredSecretRejected
<1>17. UpdatesStick'
  <2>1. ~overlapped' => RowsOf(After(h)) = Due(h)
    BY <1>1, RowsWritten
  <2>2. RowsOf(db)' = RowsOf(After(h))
    BY <1>1 DEF RowsOf
  <2> QED
    BY <1>1, <2>1, <2>2 DEF UpdatesStick
<1> QED
  BY <1>5, <1>6, <1>7, <1>12, <1>13, <1>14, <1>15, <1>16, <1>17

\* A handler that answers forgets its request, and the others go on.
LEMMA Answered ==
    ASSUME IInv, NEW h \in Handlers, Answer(h)
    PROVE  /\ pc'[h] = "idle" /\ old'[h] = NoSecret
           /\ \A g \in Handlers \ {h} : /\ pc'[g] = pc[g] /\ op'[g] = op[g]
                                        /\ snap'[g] = snap[g] /\ old'[g] = old[g]
           /\ pc' \in [Handlers -> PCs] /\ snap' \in [Handlers -> Tables]
           /\ old' \in [Handlers -> Secrets]
           /\ \A g \in Handlers :
                 IF pc'[g] = "idle"
                 THEN op'[g] = NoRequest[g] /\ snap'[g] = Empty /\ old'[g] = NoSecret
                 ELSE op'[g].id \in 1..MaxOps /\ [op'[g] EXCEPT !.id = 0] \in Requests
           /\ UNCHANGED ops => Served'
           /\ HasRead'
<1> USE DEF IInv
<1>1. /\ pc' = [pc EXCEPT ![h] = "idle"] /\ op' = [op EXCEPT ![h] = NoRequest[h]]
      /\ snap' = [snap EXCEPT ![h] = Empty] /\ old' = [old EXCEPT ![h] = NoSecret]
  BY DEF Answer
<1>2. /\ pc'[h] = "idle" /\ op'[h] = NoRequest[h] /\ snap'[h] = Empty /\ old'[h] = NoSecret
      /\ \A g \in Handlers \ {h} : /\ pc'[g] = pc[g] /\ op'[g] = op[g]
                                   /\ snap'[g] = snap[g] /\ old'[g] = old[g]
  BY <1>1 DEF TypeOK, Served
<1>3. pc' \in [Handlers -> PCs] /\ snap' \in [Handlers -> Tables] /\ old' \in [Handlers -> Secrets]
  BY <1>1, EmptyInTables, AdminAssumption DEF TypeOK, PCs, Secrets, NoSecret
<1>4. ASSUME NEW g \in Handlers
      PROVE  IF pc'[g] = "idle"
             THEN op'[g] = NoRequest[g] /\ snap'[g] = Empty /\ old'[g] = NoSecret
             ELSE op'[g].id \in 1..MaxOps /\ [op'[g] EXCEPT !.id = 0] \in Requests
  <2>1. CASE g = h
    BY <1>2, <2>1
  <2>2. CASE g # h
    BY <1>2, <2>2 DEF TypeOK
  <2> QED
    BY <2>1, <2>2
<1>5. ASSUME UNCHANGED ops PROVE Served'
  <2>1. NoRequest[h] \in [kind : Kinds, arg : SUBSET (Accounts \cup {Key}), id : 0..MaxOps]
    BY AdminAssumption DEF NoRequest, Kinds
  <2>2. op' \in [Handlers -> [kind : Kinds, arg : SUBSET (Accounts \cup {Key}), id : 0..MaxOps]]
    BY <1>1, <2>1 DEF Served
  <2>3. NoRequest[h].id = 0 /\ ops \in Nat
    BY DEF NoRequest, TypeOK
  <2> QED
    BY <1>2, <1>5, <2>2, <2>3 DEF Served
<1>6. HasRead'
  BY <1>2 DEF HasRead, Members
<1> QED
  BY <1>2, <1>3, <1>4, <1>5, <1>6

\* A request is refused: the handler answers, and that is all.
LEMMA RefuseKeeps == ASSUME IInv, NEW h \in Handlers, Refuse(h) PROVE IInv'
<1> USE DEF IInv
<1>1. /\ pc[h] \in {"check", "write"} /\ Answer(h)
      /\ UNCHANGED <<db, memory, ops, history>>
  BY DEF Refuse
<1> USE DEF memory, history, asked
<1>2. /\ pc'[h] = "idle" /\ old'[h] = NoSecret
      /\ \A g \in Handlers \ {h} : /\ pc'[g] = pc[g] /\ op'[g] = op[g]
                                   /\ snap'[g] = snap[g] /\ old'[g] = old[g]
  BY <1>1, Answered
<1>3. TypeOK' /\ Served' /\ HasRead'
  BY <1>1, Answered DEF TypeOK
<1>4. ChecksHold'
  BY <1>1, <1>2 DEF ChecksHold, CheckHolds, Members
<1>5. Overlap' /\ ReloadsUpToDate'
  BY <1>1, <1>2 DEF Overlap, ReloadsUpToDate, Mid, Waiting, UpToDate, Reloading
<1>6. SecretsFresh'
  <2>1. NoSecret <= ops + 1
    BY DEF TypeOK, NoSecret
  <2>2. \A g \in Handlers : op[g].id + 1 # NoSecret
    BY DEF Served, NoSecret
  <2> QED
    BY <1>1, <1>2, <2>1, <2>2 DEF SecretsFresh, Fresh
<1>7. SecretsReplaced' /\ RetiredSecretRejected'
  BY <1>1, <1>2 DEF SecretsReplaced, RetiredSecretRejected
<1>8. MemoryIsDatabase'
  BY <1>1, <1>2 DEF MemoryIsDatabase, AtRest
<1>9. ReferencesHold' /\ UpdatesStick'
  BY <1>1 DEF ReferencesHold, UpdatesStick, RowsOf
<1> QED
  BY <1>3, <1>4, <1>5, <1>6, <1>7, <1>8, <1>9

\* A reload reads the accounts: it overlaps the reloads that have read theirs.
LEMMA ListAccountsKeeps == ASSUME IInv, NEW h \in Handlers, ListAccounts(h) PROVE IInv'
<1> USE DEF IInv
<1> DEFINE read == [Empty EXCEPT !.accounts = db.accounts]
<1>1. /\ pc[h] = "listAccounts" /\ pc' = [pc EXCEPT ![h] = "listGroups"]
      /\ snap' = [snap EXCEPT ![h] = read]
      /\ alone' = [g \in Handlers |->
                      IF g = h \/ g \in Others(h) THEN Others(h) = {} ELSE alone[g]]
      /\ UNCHANGED <<db, memory, op, old, ops, clean, raced, asked, retired>>
  BY DEF ListAccounts
<1> USE DEF memory, asked
<1>2. read \in Tables /\ read.accounts = db.accounts
  BY EmptyInTables DEF TypeOK, Tables, Empty
<1> HIDE DEF read
<1>3. /\ pc'[h] = "listGroups" /\ \A g \in Handlers \ {h} : pc'[g] = pc[g]
      /\ snap'[h] = read /\ \A g \in Handlers \ {h} : snap'[g] = snap[g]
  BY <1>1 DEF TypeOK
<1>4. /\ \A g \in Handlers \ {h} : Mid(g) <=> g \in Others(h)
      /\ \A g \in Handlers \ {h} : Mid(g)' => ~alone'[g]
      /\ alone'[h] => \A g \in Handlers \ {h} : ~Mid(g)'
  <2>1. \A g \in Handlers \ {h} : Mid(g) <=> g \in Others(h)
    BY DEF Mid, Others
  <2>2. \A g \in Handlers \ {h} : Mid(g)' <=> Mid(g)
    BY <1>3 DEF Mid
  <2>3. \A g \in Others(h) : g \in Handlers /\ alone'[g] = (Others(h) = {})
    BY <1>1 DEF Others
  <2>4. alone'[h] = (Others(h) = {})
    BY <1>1
  <2> HIDE DEF Others
  <2> QED
    BY <2>1, <2>2, <2>3, <2>4
<1>5. TypeOK'
  <2>1. pc' \in [Handlers -> PCs] /\ snap' \in [Handlers -> Tables]
    BY <1>1, <1>2 DEF TypeOK, PCs, Reloading
  <2>2. alone' \in [Handlers -> BOOLEAN]
    BY <1>1 DEF TypeOK
  <2> QED
    BY <1>1, <1>3, <2>1, <2>2 DEF TypeOK
<1>6. Served' /\ HasRead'
  BY <1>1, <1>3 DEF Served, HasRead, Members
<1>7. ChecksHold'
  BY <1>1, <1>3 DEF ChecksHold, CheckHolds, Members
<1>8. Overlap'
  BY <1>4 DEF Overlap
<1>9. ReloadsUpToDate'
  BY <1>1, <1>2, <1>3, <1>4 DEF ReloadsUpToDate, UpToDate
<1>10. SecretsFresh'
  BY <1>1, <1>3 DEF SecretsFresh, Fresh
<1>11. SecretsReplaced' /\ RetiredSecretRejected'
  BY <1>1, <1>3, <1>4 DEF SecretsReplaced, RetiredSecretRejected, Mid, Reloading
<1>12. MemoryIsDatabase'
  BY <1>3 DEF MemoryIsDatabase, AtRest
<1>13. ReferencesHold' /\ UpdatesStick'
  BY <1>1 DEF ReferencesHold, UpdatesStick, RowsOf
<1> QED
  BY <1>5, <1>6, <1>7, <1>8, <1>9, <1>10, <1>11, <1>12, <1>13

\* A reload reads the group.
LEMMA ListGroupsKeeps == ASSUME IInv, NEW h \in Handlers, ListGroups(h) PROVE IInv'
<1> USE DEF IInv
<1> DEFINE read == [snap[h] EXCEPT !.group = db.group]
<1>1. /\ pc[h] = "listGroups" /\ pc' = [pc EXCEPT ![h] = "listKeys"]
      /\ snap' = [snap EXCEPT ![h] = read]
      /\ UNCHANGED <<db, memory, op, old, ops, history>>
  BY DEF ListGroups
<1> USE DEF memory, history, asked
<1>2. read \in Tables /\ read.accounts = snap[h].accounts /\ read.group = db.group
  BY DEF TypeOK, Tables
<1> HIDE DEF read
<1>3. /\ pc'[h] = "listKeys" /\ \A g \in Handlers \ {h} : pc'[g] = pc[g]
      /\ snap'[h] = read /\ \A g \in Handlers \ {h} : snap'[g] = snap[g]
  BY <1>1 DEF TypeOK
<1>4. TypeOK'
  <2>1. pc' \in [Handlers -> PCs] /\ snap' \in [Handlers -> Tables]
    BY <1>1, <1>2 DEF TypeOK, PCs, Reloading
  <2> QED
    BY <1>1, <1>3, <2>1 DEF TypeOK
<1>5. Served' /\ HasRead'
  BY <1>1, <1>3 DEF Served, HasRead, Members
<1>6. ChecksHold'
  BY <1>1, <1>3 DEF ChecksHold, CheckHolds, Members
<1>7. \A g \in Handlers : Mid(g)' <=> Mid(g)
  BY <1>1, <1>3 DEF Mid, Reloading
<1>8. Overlap'
  BY <1>1, <1>7 DEF Overlap
<1>9. ReloadsUpToDate'
  <2>1. Waiting' <=> Waiting
    BY <1>1, <1>3 DEF Waiting
  <2> QED
    BY <1>1, <1>2, <1>3, <1>7, <2>1 DEF ReloadsUpToDate, UpToDate
<1>10. SecretsFresh'
  BY <1>1, <1>3 DEF SecretsFresh, Fresh
<1>11. SecretsReplaced' /\ RetiredSecretRejected'
  BY <1>1, <1>3 DEF SecretsReplaced, RetiredSecretRejected
<1>12. MemoryIsDatabase'
  BY <1>3 DEF MemoryIsDatabase, AtRest
<1>13. ReferencesHold' /\ UpdatesStick'
  BY <1>1 DEF ReferencesHold, UpdatesStick, RowsOf
<1> QED
  BY <1>4, <1>5, <1>6, <1>8, <1>9, <1>10, <1>11, <1>12, <1>13

\* A reload reads the key.
LEMMA ListKeysKeeps == ASSUME IInv, NEW h \in Handlers, ListKeys(h) PROVE IInv'
<1> USE DEF IInv
<1> DEFINE read == [snap[h] EXCEPT !.keys = db.keys, !.secret = db.secret]
<1>1. /\ pc[h] = "listKeys" /\ pc' = [pc EXCEPT ![h] = "reloadRouter"]
      /\ snap' = [snap EXCEPT ![h] = read]
      /\ UNCHANGED <<db, memory, op, old, ops, history>>
  BY DEF ListKeys
<1> USE DEF memory, history, asked
<1>2. /\ read \in Tables /\ read.accounts = snap[h].accounts /\ read.group = snap[h].group
      /\ read.keys = db.keys /\ read.secret = db.secret
  <2>1. snap[h] \in Tables /\ db \in Tables
    BY DEF TypeOK
  <2>2. read = [accounts |-> snap[h].accounts, group |-> snap[h].group, keys |-> db.keys,
                secret |-> db.secret]
    BY <2>1, KeyAndSecret
  <2> HIDE DEF read
  <2> QED
    BY <2>1, <2>2 DEF Tables
<1> HIDE DEF read
<1>3. /\ pc'[h] = "reloadRouter" /\ \A g \in Handlers \ {h} : pc'[g] = pc[g]
      /\ snap'[h] = read /\ \A g \in Handlers \ {h} : snap'[g] = snap[g]
  BY <1>1 DEF TypeOK
<1>4. TypeOK'
  <2>1. pc' \in [Handlers -> PCs] /\ snap' \in [Handlers -> Tables]
    BY <1>1, <1>2 DEF TypeOK, PCs, Reloading
  <2> QED
    BY <1>1, <1>3, <2>1 DEF TypeOK
<1>5. Served' /\ HasRead'
  BY <1>1, <1>3 DEF Served, HasRead, Members
<1>6. ChecksHold'
  BY <1>1, <1>3 DEF ChecksHold, CheckHolds, Members
<1>7. \A g \in Handlers : Mid(g)' <=> Mid(g)
  BY <1>1, <1>3 DEF Mid, Reloading
<1>8. Overlap'
  BY <1>1, <1>7 DEF Overlap
<1>9. ReloadsUpToDate'
  <2>1. Waiting' <=> Waiting
    BY <1>1, <1>3 DEF Waiting
  <2> QED
    BY <1>1, <1>2, <1>3, <1>7, <2>1 DEF ReloadsUpToDate, UpToDate
<1>10. SecretsFresh'
  BY <1>1, <1>3 DEF SecretsFresh, Fresh
<1>11. SecretsReplaced' /\ RetiredSecretRejected'
  BY <1>1, <1>2, <1>3 DEF SecretsReplaced, RetiredSecretRejected
<1>12. MemoryIsDatabase'
  BY <1>3 DEF MemoryIsDatabase, AtRest
<1>13. ReferencesHold' /\ UpdatesStick'
  BY <1>1 DEF ReferencesHold, UpdatesStick, RowsOf
<1> QED
  BY <1>4, <1>5, <1>6, <1>8, <1>9, <1>10, <1>11, <1>12, <1>13

\* A read of a reload fails: those that overlap it may have missed its write.
LEMMA ListFailsKeeps == ASSUME IInv, NEW h \in Handlers, ListFails(h) PROVE IInv'
<1> USE DEF IInv
<1>1. /\ pc[h] \in {"listAccounts", "listGroups", "listKeys"} /\ Answer(h) /\ clean' = FALSE
      /\ alone' = [g \in Handlers |-> g \notin Others(h) /\ (g = h \/ alone[g])]
      /\ UNCHANGED <<db, memory, ops, raced, asked, retired>>
  BY DEF ListFails
<1> USE DEF memory, asked
<1>2. /\ pc'[h] = "idle" /\ old'[h] = NoSecret
      /\ \A g \in Handlers \ {h} : /\ pc'[g] = pc[g] /\ op'[g] = op[g]
                                   /\ snap'[g] = snap[g] /\ old'[g] = old[g]
  BY <1>1, Answered
<1>3. \A g \in Handlers : Mid(g)' => ~alone'[g]
  BY <1>1, <1>2 DEF Mid, Others, Reloading
<1>4. TypeOK' /\ Served' /\ HasRead'
  <2>1. alone' \in [Handlers -> BOOLEAN]
    BY <1>1 DEF TypeOK
  <2> QED
    BY <1>1, <2>1, Answered DEF TypeOK
<1>5. ChecksHold'
  BY <1>1, <1>2 DEF ChecksHold, CheckHolds, Members
<1>6. Overlap' /\ ReloadsUpToDate'
  BY <1>3 DEF Overlap, ReloadsUpToDate
<1>7. SecretsFresh'
  <2>1. NoSecret <= ops + 1
    BY DEF TypeOK, NoSecret
  <2>2. \A g \in Handlers : op[g].id + 1 # NoSecret
    BY DEF Served, NoSecret
  <2> QED
    BY <1>1, <1>2, <2>1, <2>2 DEF SecretsFresh, Fresh
<1>8. SecretsReplaced' /\ RetiredSecretRejected' /\ MemoryIsDatabase'
  BY <1>1, <1>2, <1>3 DEF SecretsReplaced, RetiredSecretRejected, MemoryIsDatabase, Mid, Reloading
<1>9. ReferencesHold' /\ UpdatesStick'
  BY <1>1 DEF ReferencesHold, UpdatesStick, RowsOf
<1> QED
  BY <1>4, <1>5, <1>6, <1>7, <1>8, <1>9

\* The router is loaded with what the reload has read.
LEMMA ReloadRouterKeeps == ASSUME IInv, NEW h \in Handlers, ReloadRouter(h) PROVE IInv'
<1> USE DEF IInv
<1>1. /\ pc[h] = "reloadRouter" /\ pc' = [pc EXCEPT ![h] = "reloadKeys"]
      /\ rtr' = RouterPart(snap[h])
      /\ UNCHANGED <<db, ks, op, snap, old, ops, history>>
  BY DEF ReloadRouter
<1> USE DEF history, asked
<1>2. pc'[h] = "reloadKeys" /\ \A g \in Handlers \ {h} : pc'[g] = pc[g]
  BY <1>1 DEF TypeOK
<1>3. TypeOK'
  <2>1. pc' \in [Handlers -> PCs] /\ rtr' \in [accounts : TableOf(Accounts), group : SUBSET Accounts]
    BY <1>1 DEF TypeOK, PCs, Reloading, RouterPart, Tables
  <2> QED
    BY <1>1, <1>2, <2>1 DEF TypeOK
<1>4. Served' /\ HasRead'
  BY <1>1, <1>2 DEF Served, HasRead, Members
<1>5. ChecksHold'
  BY <1>1, <1>2 DEF ChecksHold, CheckHolds, Members
<1>6. \A g \in Handlers : Mid(g)' <=> Mid(g)
  BY <1>1, <1>2 DEF Mid, Reloading
<1>7. Overlap'
  BY <1>1, <1>6 DEF Overlap
<1>8. ReloadsUpToDate'
  <2> SUFFICES ASSUME NEW g \in Handlers, Mid(g), alone[g], ~Waiting' PROVE UpToDate(g)'
    BY <1>1, <1>6 DEF ReloadsUpToDate
  <2>1. g = h
    BY <1>1 DEF Overlap, Mid, Reloading
  <2>2. ~Waiting
    BY <1>1, <1>2 DEF Waiting
  <2>3. UpToDate(h)
    BY <2>1, <2>2 DEF ReloadsUpToDate
  <2> QED
    BY <1>1, <1>2, <2>1, <2>3 DEF UpToDate, RouterPart
<1>9. SecretsFresh'
  BY <1>1, <1>2 DEF SecretsFresh, Fresh
<1>10. SecretsReplaced' /\ RetiredSecretRejected'
  BY <1>1, <1>2 DEF SecretsReplaced, RetiredSecretRejected
<1>11. MemoryIsDatabase'
  BY <1>2 DEF MemoryIsDatabase, AtRest
<1>12. ReferencesHold' /\ UpdatesStick'
  BY <1>1 DEF ReferencesHold, UpdatesStick, RowsOf
<1> QED
  BY <1>3, <1>4, <1>5, <1>7, <1>8, <1>9, <1>10, <1>11, <1>12

\* The key store is loaded with what the reload has read, and the handler answers.
LEMMA ReloadKeysKeeps == ASSUME IInv, NEW h \in Handlers, ReloadKeys(h) PROVE IInv'
<1> USE DEF IInv
<1>1. /\ pc[h] = "reloadKeys" /\ Answer(h) /\ ks' = snap[h]
      /\ retired' = (retired \cup {old[h]}) \ {NoSecret}
      /\ clean' = alone[h] /\ alone' = [alone EXCEPT ![h] = TRUE]
      /\ UNCHANGED <<db, rtr, ops, raced, asked>>
  BY DEF ReloadKeys
<1> USE DEF asked
<1>2. /\ pc'[h] = "idle" /\ old'[h] = NoSecret
      /\ \A g \in Handlers \ {h} : /\ pc'[g] = pc[g] /\ op'[g] = op[g]
                                   /\ snap'[g] = snap[g] /\ old'[g] = old[g]
  BY <1>1, Answered
<1>3. alone'[h] = TRUE /\ \A g \in Handlers \ {h} : alone'[g] = alone[g]
  BY <1>1 DEF TypeOK
<1>4. \A g \in Handlers : Mid(g)' => ~alone'[g]
  BY <1>1, <1>2, <1>3 DEF Overlap, Mid, Reloading
<1>5. TypeOK' /\ Served' /\ HasRead'
  <2>1. alone' \in [Handlers -> BOOLEAN] /\ clean' \in BOOLEAN /\ ks' \in Tables
    BY <1>1 DEF TypeOK
  <2>2. retired' \subseteq Secrets \ {NoSecret}
    BY <1>1 DEF TypeOK
  <2> QED
    BY <1>1, <2>1, <2>2, Answered DEF TypeOK
<1>6. ChecksHold'
  BY <1>1, <1>2 DEF ChecksHold, CheckHolds, Members
<1>7. Overlap' /\ ReloadsUpToDate'
  BY <1>4 DEF Overlap, ReloadsUpToDate
<1>8. SecretsFresh'
  <2>1. NoSecret <= ops + 1
    BY DEF TypeOK, NoSecret
  <2>2. \A g \in Handlers : op[g].id + 1 # NoSecret
    BY DEF Served, NoSecret
  <2>3. \A s \in retired' : s <= ops + 1
    BY <1>1 DEF SecretsFresh
  <2> QED
    BY <1>1, <1>2, <2>1, <2>2, <2>3 DEF SecretsFresh, Fresh
<1>9. SecretsReplaced'
  <2>1. db.secret \notin retired'
    BY <1>1 DEF SecretsReplaced
  <2> QED
    BY <1>1, <1>2, <1>4, <2>1 DEF SecretsReplaced, Mid, Reloading
<1>10. RetiredSecretRejected'
  BY <1>1 DEF RetiredSecretRejected, SecretsReplaced
<1>11. MemoryIsDatabase'
  <2> SUFFICES ASSUME AtRest', alone[h] PROVE snap[h] = db /\ rtr = RouterPart(db)
    BY <1>1 DEF MemoryIsDatabase
  <2>1. ~Waiting
    BY <1>1, <1>2 DEF AtRest, Waiting
  <2>2. UpToDate(h)
    BY <1>1, <2>1 DEF ReloadsUpToDate, Mid, Reloading
  <2>3. snap[h] \in Tables /\ db \in Tables
    BY DEF TypeOK
  <2>4. /\ snap[h].accounts = db.accounts /\ snap[h].group = db.group
        /\ snap[h].keys = db.keys /\ snap[h].secret = db.secret /\ rtr = RouterPart(db)
    BY <1>1, <2>2 DEF UpToDate
  <2> QED
    BY <2>3, <2>4 DEF Tables
<1>12. ReferencesHold' /\ UpdatesStick'
  BY <1>1 DEF ReferencesHold, UpdatesStick, RowsOf
<1> QED
  BY <1>5, <1>6, <1>7, <1>8, <1>9, <1>10, <1>11, <1>12

\* The process starts again from the database, and forgets the requests.
LEMMA RestartKeeps == ASSUME IInv, Restart PROVE IInv'
<1> USE DEF IInv
<1>1. /\ pc' = Idle /\ op' = NoRequest /\ snap' = NoSnap /\ old' = [h \in Handlers |-> NoSecret]
      /\ rtr' = RouterPart(db) /\ ks' = db
      /\ clean' = TRUE /\ alone' = [h \in Handlers |-> TRUE]
      /\ UNCHANGED <<db, ops, raced, asked, retired>>
  BY DEF Restart
<1> USE DEF asked
<1>2. \A h \in Handlers : /\ pc'[h] = "idle" /\ op'[h] = NoRequest[h] /\ snap'[h] = Empty
                          /\ old'[h] = NoSecret
  BY <1>1 DEF Idle, NoSnap
<1>3. TypeOK'
  <2>1. pc' \in [Handlers -> PCs] /\ snap' \in [Handlers -> Tables] /\ old' \in [Handlers -> Secrets]
    BY <1>1, EmptyInTables, AdminAssumption DEF Idle, NoSnap, PCs, Secrets, NoSecret
  <2>2. rtr' \in [accounts : TableOf(Accounts), group : SUBSET Accounts] /\ ks' \in Tables
    BY <1>1 DEF TypeOK, RouterPart, Tables
  <2> QED
    BY <1>1, <1>2, <2>1, <2>2 DEF TypeOK
<1>4. Served'
  <2>1. NoRequest \in [Handlers -> [kind : Kinds, arg : SUBSET (Accounts \cup {Key}),
                                    id : 0..MaxOps]]
    BY AdminAssumption DEF NoRequest, Kinds
  <2>2. \A h \in Handlers : NoRequest[h].id = 0
    BY DEF NoRequest
  <2> QED
    BY <1>1, <1>2, <2>1, <2>2 DEF Served, TypeOK
<1>5. HasRead' /\ ChecksHold' /\ Overlap' /\ ReloadsUpToDate'
  BY <1>2 DEF HasRead, ChecksHold, Overlap, ReloadsUpToDate, Mid, Reloading
<1>6. SecretsFresh'
  <2>1. NoSecret <= ops + 1
    BY DEF TypeOK, NoSecret
  <2> QED
    BY <1>1, <1>2, <2>1 DEF SecretsFresh
<1>7. SecretsReplaced' /\ RetiredSecretRejected' /\ MemoryIsDatabase'
  BY <1>1, <1>2 DEF SecretsReplaced, RetiredSecretRejected, MemoryIsDatabase
<1>8. ReferencesHold' /\ UpdatesStick'
  BY <1>1 DEF ReferencesHold, UpdatesStick, RowsOf
<1> QED
  BY <1>3, <1>4, <1>5, <1>6, <1>7, <1>8

\* Nothing happens.
LEMMA NothingChanges == ASSUME IInv, UNCHANGED vars PROVE IInv'
<1> USE DEF IInv, vars, memory, history, asked
<1>1. TypeOK' /\ Served' /\ HasRead'
  BY DEF TypeOK, Served, HasRead, Members
<1>2. ChecksHold' /\ Overlap'
  BY DEF ChecksHold, CheckHolds, Members, Overlap, Mid
<1>3. ReloadsUpToDate'
  BY DEF ReloadsUpToDate, Mid, Waiting, UpToDate
<1>4. SecretsFresh' /\ SecretsReplaced' /\ RetiredSecretRejected'
  BY DEF SecretsFresh, Fresh, SecretsReplaced, RetiredSecretRejected
<1>5. MemoryIsDatabase' /\ ReferencesHold' /\ UpdatesStick'
  BY DEF MemoryIsDatabase, AtRest, ReferencesHold, UpdatesStick, RowsOf
<1> QED
  BY <1>1, <1>2, <1>3, <1>4, <1>5

-----------------------------------------------------------------------------
(* The theorems.                                                           *)

\* The process starts on a database that is in order.
LEMMA InitEstablishes == Init => IInv
<1> SUFFICES ASSUME Init PROVE IInv
  OBVIOUS
<1> USE DEF Init
<1> DEFINE new(ids) == [i \in ids |-> [c \in Columns |-> 0]]
<1>1. db = Empty \/ db = [accounts |-> new(Accounts), group |-> Accounts, keys |-> new({Key}),
                          secret |-> 1]
  OBVIOUS
<1>2. \A ids : new(ids) \in TableOf(ids) /\ DOMAIN new(ids) = ids
  <2> TAKE ids
  <2>1. new(ids) \in [ids -> Rows] /\ DOMAIN new(ids) = ids
    BY AdminAssumption DEF Rows
  <2> HIDE DEF new
  <2> QED
    BY <2>1, TableIs
<1> HIDE DEF new
<1>3. db \in Tables /\ db.secret \in {0, 1}
  BY <1>1, <1>2, EmptyInTables, AdminAssumption DEF Tables, Secrets, Empty, NoSecret
<1>4. TypeOK
  <2>1. rtr \in [accounts : TableOf(Accounts), group : SUBSET Accounts] /\ ks \in Tables
    BY <1>3 DEF RouterPart, Tables
  <2>2. due \in TableOf(Accounts \cup {Key})
    BY <1>3, RowsAre
  <2>3. pc \in [Handlers -> PCs] /\ snap \in [Handlers -> Tables] /\ old \in [Handlers -> Secrets]
    BY EmptyInTables, AdminAssumption DEF Idle, NoSnap, PCs, Secrets, NoSecret
  <2>4. \A h \in Handlers : pc[h] = "idle" /\ op[h] = NoRequest[h] /\ snap[h] = Empty
                            /\ old[h] = NoSecret
    BY DEF Idle, NoSnap
  <2>5. ops \in 0..MaxOps /\ alone \in [Handlers -> BOOLEAN] /\ retired \subseteq Secrets \ {NoSecret}
    BY AdminAssumption
  <2> QED
    BY <1>3, <2>1, <2>2, <2>3, <2>4, <2>5 DEF TypeOK
<1>5. Served
  <2>1. NoRequest \in [Handlers -> [kind : Kinds, arg : SUBSET (Accounts \cup {Key}),
                                    id : 0..MaxOps]]
    BY AdminAssumption DEF NoRequest, Kinds
  <2>2. \A h \in Handlers : NoRequest[h].id = 0
    BY DEF NoRequest
  <2> QED
    BY <2>1, <2>2 DEF Served, Idle
<1>6. HasRead /\ ChecksHold /\ Overlap /\ ReloadsUpToDate
  BY DEF HasRead, ChecksHold, Overlap, ReloadsUpToDate, Mid, Reloading, Idle
<1>7. SecretsFresh /\ SecretsReplaced
  BY <1>3 DEF SecretsFresh, SecretsReplaced, Idle, NoSecret
<1>8. MemoryIsDatabase /\ RetiredSecretRejected /\ UpdatesStick
  BY DEF MemoryIsDatabase, RetiredSecretRejected, UpdatesStick
<1>9. ReferencesHold
  <2>1. CASE db = Empty
    BY <2>1, NoRows DEF ReferencesHold, Empty
  <2>2. CASE db = [accounts |-> new(Accounts), group |-> Accounts, keys |-> new({Key}), secret |-> 1]
    BY <1>2, <2>2, AdminAssumption DEF ReferencesHold
  <2> QED
    BY <1>1, <2>1, <2>2
<1> QED
  BY <1>4, <1>5, <1>6, <1>7, <1>8, <1>9 DEF IInv

\* Every step keeps the invariant.
LEMMA StepKeeps == ASSUME IInv, [Next]_vars PROVE IInv'
<1>1. ASSUME NEW h \in Handlers, NEW request \in Requests, Arrive(h, request) PROVE IInv'
  BY <1>1, ArriveKeeps
<1>2. ASSUME NEW h \in Handlers, Handle(h) PROVE IInv'
  BY <1>2, HandleIs, PassKeeps, WritesKeeps
<1>3. ASSUME NEW h \in Handlers, Refuse(h) PROVE IInv'
  BY <1>3, RefuseKeeps
<1>4. ASSUME NEW h \in Handlers, ListAccounts(h) \/ ListGroups(h) \/ ListKeys(h) \/ ListFails(h)
      PROVE  IInv'
  BY <1>4, ListAccountsKeeps, ListGroupsKeeps, ListKeysKeeps, ListFailsKeeps
<1>5. ASSUME NEW h \in Handlers, ReloadRouter(h) \/ ReloadKeys(h) PROVE IInv'
  BY <1>5, ReloadRouterKeeps, ReloadKeysKeeps
<1>6. CASE Restart
  BY <1>6, RestartKeeps
<1>7. CASE UNCHANGED vars
  BY <1>7, NothingChanges
<1> QED
  BY <1>1, <1>2, <1>3, <1>4, <1>5, <1>6, <1>7 DEF Next, Step

\* What holds between any two statements of the handlers and of reloadFn.
THEOREM IInvHolds == Spec => []IInv
<1>1. Init => IInv
  BY InitEstablishes
<1>2. IInv /\ [Next]_vars => IInv'
  BY StepKeeps
<1> QED
  BY <1>1, <1>2, PTL DEF Spec

\* Every row the handlers write has all its columns, from requests that were made.
THEOREM TypeCorrect == Spec => []TypeOK
<1>1. IInv => TypeOK
  BY DEF IInv
<1> QED
  BY <1>1, IInvHolds, PTL

\* However many handlers reload, and whatever fails or restarts: once no reload
\* is left, router and key store hold what the database holds, if the last one
\* was alone (main.go:82-106).
THEOREM MemoryFollows == Spec => []MemoryIsDatabase
<1>1. IInv => MemoryIsDatabase
  BY DEF IInv
<1> QED
  BY <1>1, IInvHolds, PTL

\* A rotated or deleted key does not authenticate once its request was answered,
\* if the last reload was alone (server.go:619-660, auth.go:316-343).
THEOREM SecretRejected == Spec => []RetiredSecretRejected
<1>1. IInv => RetiredSecretRejected
  BY DEF IInv
<1> QED
  BY <1>1, IInvHolds, PTL

\* The checks of DELETE and of validateGroup and validateKey keep the references
\* whole, if none races another's write (server.go:246-262, 391-407).
THEOREM ReferencesKept == Spec => []ReferencesHold
<1>1. IInv => ReferencesHold
  BY DEF IInv
<1> QED
  BY <1>1, IInvHolds, PTL

\* Updates that read a row, change columns of it and write it back lose nothing,
\* if none overlaps another's (server.go:196-233, 548-577).
THEOREM UpdatesKept == Spec => []UpdatesStick
<1>1. IInv => UpdatesStick
  BY DEF IInv
<1> QED
  BY <1>1, IInvHolds, PTL
=============================================================================
