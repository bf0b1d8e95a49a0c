---------------------------- MODULE KeyUsageProofs ----------------------------
(***************************************************************************)
(* What holds of an API key for any number of requests, secrets, entries,  *)
(* overlapping reloads and months.                                         *)
(***************************************************************************)
EXTENDS KeyUsage, FiniteSetTheorems, TLAPS

-----------------------------------------------------------------------------
(* The inductive invariant.                                                *)

EntryOrNone == Entries \cup {None}
Holders(e) == {r \in Requests : slot[r] = e}

RequestsTyped ==
    /\ pc \in [Requests -> Places]
    /\ purpose \in [Requests -> {"check", "record"}]
    /\ secret \in [Requests -> Secrets]
    /\ snapshot \in [Requests -> Rows \cup {NoRow}]
    /\ found \in [Requests -> EntryOrNone] /\ slot \in [Requests -> EntryOrNone]
    /\ now \in [Requests -> Months]

EntriesTyped ==
    /\ made \in Nat
    /\ keys \in [Secrets -> EntryOrNone] /\ existing \in [Secrets -> EntryOrNone]
    /\ key \in [Entries -> Rows]
    /\ used \in [Entries -> Nat]
    /\ inflight \in [Entries -> Nat]
    /\ givenLimits \in [Secrets -> SUBSET Limits]

ReloadTyped ==
    /\ listing \in [Reloads -> Rows \cup {NoRow}] /\ listed \in Rows \cup {NoRow}
    /\ phase \in Phases
    /\ loaded \in [month : Months, tokens : Nat]
    /\ drifted \in BOOLEAN /\ dirty \in BOOLEAN

DatabaseTyped ==
    /\ clock \in Months /\ month \in Months
    /\ row \in Rows
    /\ table \in [Months -> Nat] /\ pending \in [Months -> Nat]
    /\ recorded \in [Months -> Nat] /\ lost \in [Months -> Nat]
    /\ events \in 0..MaxEvents /\ changed \in BOOLEAN

\* A slot is held from AcquireKeySlot to Release, and RecordUsage's own
\* syncMonth is on the way.  A request has the entry of its secret from a lookup
\* to its use, whether or not the map still has it, and from Authenticate on the
\* key of its secret, with a limit the secret was given.
Placed(r) ==
    /\ slot[r] # None =>
          \/ pc[r] \in {"stream", "release", "lookup", "count"}
          \/ pc[r] \in {"compare", "roll"} /\ purpose[r] = "record"
    /\ pc[r] \in {"authenticate", "check", "acquire", "count"} =>
          found[r] \in Entries /\ key[found[r]].secret = secret[r]
    /\ pc[r] \in {"compare", "roll", "quota", "check", "slot", "acquire", "stream",
                  "lookup", "count"} =>
          snapshot[r].secret = secret[r] /\ snapshot[r].max \in givenLimits[secret[r]]

RequestsPlaced == \A r \in Requests : Placed(r)

\* An entry has a key of one secret, with a limit the secret was given, and the
\* map has it under that secret, and no other.
EntriesNamed ==
    /\ \A s, t \in Secrets : keys[s] # None /\ keys[t] # None => s = t
    /\ \A e \in Entries : key[e].secret \in Secrets /\ key[e].max \in givenLimits[key[e].secret]
    /\ \A s \in Secrets : keys[s] # None => key[keys[s]].secret = s
    /\ \A s \in Secrets : existing[s] # None => key[existing[s]].secret = s

\* While a reload holds the lock, nothing counts but under its eyes.
ReloadKnowsUsage ==
    /\ Locked => listed \in Rows
    /\ Locked /\ ~dirty => loaded.tokens = recorded[loaded.month]
    /\ phase = "cleared" => month = loaded.month /\ keys = NoKeys

\* As long as nobody changes the row, every reload lists it, and each keeps its
\* entry in the map.
RowUnchanged ==
    ~changed => /\ row.secret # Deleted
                /\ \A h \in Reloads : listing[h] \in {row, NoRow}
                /\ Locked => listed = row
                /\ phase # "cleared" => keys[row.secret] # None

IInv ==
    /\ RequestsTyped /\ EntriesTyped /\ ReloadTyped /\ DatabaseTyped
    /\ DatabaseConserves
    /\ QuotaCounterExact
    /\ KeySlotsExact
    /\ KeyLimitHolds
    /\ RequestsPlaced
    /\ EntriesNamed
    /\ ReloadKnowsUsage
    /\ RowUnchanged

-----------------------------------------------------------------------------
(* Of sets, numbers and frames.                                            *)

\* The first secret, and the first month.
LEMMA OneIsFirst == 1 \in Secrets /\ 1 \in Months
BY KeyUsageAssumption, FS_CardinalityType, FS_EmptySet

\* No entry is named by the secret of a deleted key.
LEMMA DeletedIsNone == Deleted \notin Secrets
BY KeyUsageAssumption, FS_CardinalityType DEF Deleted

\* Entries are numbered from one, and None is none of them.
LEMMA NoneIsNoEntry == None \notin Entries
BY DEF None, Entries

\* A slot is one request's: the requests that hold slots of an entry are finitely many.
LEMMA HoldersFinite == \A e : IsFiniteSet(Holders(e))
BY KeyUsageAssumption, FS_Subset DEF Holders

\* A finite set without one of its elements.
LEMMA OneLess == ASSUME NEW S, IsFiniteSet(S), NEW x \in S
                 PROVE  Cardinality(S \ {x}) = Cardinality(S) - 1
BY FS_RemoveElement

\* How the history of drifting is recorded.
LEMMA ComparisonIsBoolean == \A n \in Nat : (n > 0) \in BOOLEAN
BY SMT

\* The bound on changes, reloads and restarts.
LEMMA EventCounted ==
    ASSUME events \in 0..MaxEvents, events < MaxEvents, events' = events + 1
    PROVE  events' \in 0..MaxEvents
BY KeyUsageAssumption

\* The invariant gives every variable its type.
LEMMA InvTypes == IInv => TypeOK
BY DEF IInv, RequestsTyped, EntriesTyped, ReloadTyped, DatabaseTyped, RequestsPlaced,
   Placed, TypeOK, EntryOrNone

\* Requests but one are where they were.
Others(r) == \A q \in Requests \ {r} :
    /\ pc'[q] = pc[q] /\ purpose'[q] = purpose[q] /\ secret'[q] = secret[q]
    /\ snapshot'[q] = snapshot[q] /\ found'[q] = found[q] /\ slot'[q] = slot[q]

\* A request's place depends on the entries and the limits given, and on its own
\* variables.
LEMMA OthersPlaced ==
    ASSUME NEW r \in Requests, RequestsPlaced, Others(r), Placed(r)',
           made' = made, key' = key, givenLimits' = givenLimits
    PROVE  RequestsPlaced'
<1>1. Entries' = Entries
  BY DEF Entries
<1> SUFFICES ASSUME NEW q \in Requests PROVE Placed(q)'
  BY DEF RequestsPlaced
<1>2. CASE q = r
  BY <1>2
<1>3. CASE q # r
  <2>1. /\ pc'[q] = pc[q] /\ purpose'[q] = purpose[q] /\ secret'[q] = secret[q]
        /\ snapshot'[q] = snapshot[q] /\ found'[q] = found[q] /\ slot'[q] = slot[q]
    BY <1>3 DEF Others
  <2>2. Placed(q)
    BY DEF RequestsPlaced
  <2> QED
    BY <1>1, <2>1, <2>2 DEF Placed
<1> QED
  BY <1>2, <1>3

\* What a request alone does not change.
MemoryStays == UNCHANGED <<clock, dbVars, keyVars, used, inflight, month, reloadVars,
                           pending, bounds, recorded, lost, drifted>>

\* A step of a request that touches neither memory nor slots keeps all that is
\* said of them.
LEMMA RequestStepKeeps ==
    ASSUME IInv, NEW r \in Requests, MemoryStays, slot' = slot, RequestsTyped', Others(r), Placed(r)'
    PROVE  IInv'
<1> USE DEF MemoryStays, dbVars, keyVars, reloadVars, bounds
<1>1. Entries' = Entries
  BY DEF Entries
<1>2. RequestsPlaced'
  BY OthersPlaced DEF IInv
<1>3. EntriesTyped' /\ ReloadTyped' /\ DatabaseTyped'
  BY <1>1 DEF IInv, EntriesTyped, ReloadTyped, DatabaseTyped, EntryOrNone
<1>4. DatabaseConserves' /\ QuotaCounterExact' /\ EntriesNamed' /\ ReloadKnowsUsage' /\ RowUnchanged'
  BY <1>1 DEF IInv, DatabaseConserves, QuotaCounterExact, EntriesNamed, ReloadKnowsUsage,
     RowUnchanged, Locked
<1>5. KeySlotsExact' /\ KeyLimitHolds'
  BY <1>1 DEF IInv, KeySlotsExact, KeyLimitHolds
<1> QED
  BY <1>2, <1>3, <1>4, <1>5 DEF IInv

-----------------------------------------------------------------------------
(* The initial states.                                                     *)

\* A key as it is configured first, and a database without usage.
LEMMA InitEstablishes == Init => IInv
<1> SUFFICES ASSUME Init PROVE IInv
  OBVIOUS
<1>1. /\ row \in Rows /\ row.secret = 1 /\ row.max \in Limits
      /\ made = 1 /\ Entries = {1}
  <2>1. row \in Rows /\ row.secret = 1 /\ row.max \in Limits
    BY OneIsFirst DEF Init, Rows
  <2>2. made = 1
    BY DEF Init
  <2> QED
    BY <2>1, <2>2 DEF Entries
<1>2. /\ key = [e \in Entries |-> row] /\ used = [e \in Entries |-> 0]
      /\ inflight = [e \in Entries |-> 0]
      /\ keys \in [Secrets -> {1, None}] /\ existing \in [Secrets -> {None}]
      /\ \A s \in Secrets : keys[s] = (IF s = 1 THEN 1 ELSE None) /\ existing[s] = None
  BY <1>1 DEF Init, With, NoKeys
<1>3. \A r \in Requests : pc[r] = "idle" /\ slot[r] = None /\ found[r] = None
  BY DEF Init
<1>4. RequestsTyped
  BY OneIsFirst DEF Init, RequestsTyped, Places, EntryOrNone
<1>5. EntriesTyped
  <2>1. givenLimits \in [Secrets -> SUBSET Limits]
    BY <1>1 DEF Init
  <2> QED
    BY <1>1, <1>2, <2>1 DEF EntriesTyped, EntryOrNone
<1>6. ReloadTyped
  BY OneIsFirst DEF Init, ReloadTyped, Phases
<1>7. DatabaseTyped
  <2>1. events \in 0..MaxEvents
    BY KeyUsageAssumption DEF Init
  <2> QED
    BY <1>1, <2>1, OneIsFirst DEF Init, DatabaseTyped
<1>8. DatabaseConserves /\ QuotaCounterExact
  BY <1>1, <1>2, OneIsFirst DEF Init, DatabaseConserves, QuotaCounterExact, None
<1>9. KeySlotsExact
  <2>1. {r \in Requests : slot[r] = 1} = {}
    BY <1>3 DEF None
  <2> QED
    BY <1>1, <1>2, <2>1, FS_EmptySet DEF KeySlotsExact
<1>10. KeyLimitHolds
  BY <1>2 DEF KeyLimitHolds
<1>11. RequestsPlaced
  BY <1>3 DEF RequestsPlaced, Placed
<1>12. EntriesNamed
  <2>1. givenLimits[1] = {row.max}
    BY OneIsFirst DEF Init
  <2> QED
    BY <1>1, <1>2, <2>1, OneIsFirst DEF EntriesNamed, None
<1>13. ReloadKnowsUsage /\ RowUnchanged
  BY <1>1, <1>2, OneIsFirst DEF Init, ReloadKnowsUsage, RowUnchanged, Locked, Deleted, None
<1> QED
  BY <1>4, <1>5, <1>6, <1>7, <1>8, <1>9, <1>10, <1>11, <1>12, <1>13 DEF IInv

-----------------------------------------------------------------------------
(* Steps of a request that touch neither memory nor slots.                 *)

\* A lookup changes no entry and no count.
LEMMA AuthLookupKeeps == ASSUME IInv, NEW r \in Requests, AuthLookup(r) PROVE IInv'
<1> USE DEF At, Goto, LookUp
<1>1. MemoryStays /\ slot' = slot
  BY DEF AuthLookup, MemoryStays
<1>2. RequestsTyped
  BY DEF IInv
<1>3. RequestsTyped'
  <2>1. keys \in [Secrets -> EntryOrNone]
    BY DEF IInv, EntriesTyped
  <2>2. EntryOrNone' = EntryOrNone
    BY <1>1 DEF MemoryStays, keyVars, EntryOrNone, Entries
  <2> QED
    BY <1>1, <1>2, <2>1, <2>2 DEF AuthLookup, RequestsTyped, Places, requestVars
<1>4. Others(r)
  BY <1>2 DEF AuthLookup, Others, RequestsTyped, requestVars
<1>5. Placed(r)'
  <2>1. Placed(r) /\ Entries' = Entries /\ key' = key
    BY <1>1 DEF IInv, RequestsPlaced, MemoryStays, keyVars, Entries
  <2>2. PICK s \in Secrets : /\ secret' = [secret EXCEPT ![r] = s]
                            /\ LookUp(r, s, "authenticate", "invalid")
    BY DEF AuthLookup
  <2>3. /\ secret'[r] = s /\ found'[r] = keys[s]
        /\ pc'[r] = (IF keys[s] # None THEN "authenticate" ELSE "invalid")
    BY <1>2, <2>2 DEF RequestsTyped
  <2>4. keys[s] # None => keys[s] \in Entries /\ key[keys[s]].secret = s
    BY DEF IInv, EntriesTyped, EntriesNamed, EntryOrNone
  <2>5. pc[r] = "idle" /\ slot'[r] = slot[r]
    BY <1>1 DEF AuthLookup
  <2> QED
    BY <2>1, <2>3, <2>4, <2>5 DEF Placed
<1> QED
  BY <1>1, <1>3, <1>4, <1>5, RequestStepKeeps

\* The request gets the key of the entry it found, with a limit the entry was given.
LEMMA AuthenticateKeeps == ASSUME IInv, NEW r \in Requests, Authenticate(r) PROVE IInv'
<1> USE DEF At, Goto, Answered, CaptureMonth, Forget
<1>1. MemoryStays /\ slot' = slot
  BY DEF Authenticate, MemoryStays
<1>2. RequestsTyped
  BY DEF IInv
<1>3. RequestsTyped'
  <2>1. Placed(r) /\ pc[r] = "authenticate"
    BY DEF IInv, RequestsPlaced, Authenticate
  <2>2. key[found[r]] \in Rows
    BY <2>1 DEF Placed, IInv, EntriesTyped
  <2>3. EntryOrNone' = EntryOrNone /\ None \in EntryOrNone /\ clock \in Months
    BY <1>1 DEF MemoryStays, keyVars, EntryOrNone, Entries, IInv, DatabaseTyped
  <2> QED
    BY <1>1, <1>2, <2>2, <2>3, OneIsFirst DEF Authenticate, RequestsTyped, Places
<1>4. Others(r)
  BY <1>2 DEF Authenticate, Others, RequestsTyped, requestVars
<1>5. Placed(r)'
  <2>1. Placed(r) /\ pc[r] = "authenticate"
    BY DEF IInv, RequestsPlaced, Authenticate
  <2>2. found[r] \in Entries /\ key[found[r]].secret = secret[r] /\ slot[r] = None
    BY <2>1 DEF Placed
  <2>3. key[found[r]].max \in givenLimits[secret[r]]
    BY <2>2 DEF IInv, EntriesNamed
  <2>4. slot'[r] = None /\ givenLimits' = givenLimits
    BY <1>1, <2>2 DEF MemoryStays, keyVars
  <2>5. \/ pc'[r] \in {"idle", "invalid"}
        \/ pc'[r] = "compare" /\ snapshot'[r] = key[found[r]] /\ secret'[r] = secret[r]
    BY <1>2 DEF Authenticate, RequestsTyped
  <2> QED
    BY <2>2, <2>3, <2>4, <2>5 DEF Placed
<1> QED
  BY <1>1, <1>3, <1>4, <1>5, RequestStepKeeps

\* Comparing the month changes nothing.
LEMMA CompareMonthKeeps == ASSUME IInv, NEW r \in Requests, CompareMonth(r) PROVE IInv'
<1> USE DEF At, Goto, Synced
<1>1. MemoryStays /\ slot' = slot
  BY DEF CompareMonth, MemoryStays
<1>2. RequestsTyped
  BY DEF IInv
<1>3. RequestsTyped'
  <2>1. EntryOrNone' = EntryOrNone /\ None \in EntryOrNone /\ clock \in Months
    BY <1>1 DEF MemoryStays, keyVars, EntryOrNone, Entries, IInv, DatabaseTyped
  <2> QED
    BY <1>1, <1>2, <2>1, OneIsFirst DEF CompareMonth, RequestsTyped, Places, requestVars
<1>4. Others(r)
  BY <1>2 DEF CompareMonth, Others, RequestsTyped, requestVars
<1>5. Placed(r)'
  <2>1. Placed(r) /\ Entries' = Entries /\ key' = key /\ givenLimits' = givenLimits
    BY <1>1 DEF IInv, RequestsPlaced, MemoryStays, keyVars, Entries
  <2>2. /\ pc[r] = "compare"
        /\ pc'[r] = IF now[r] # month THEN "roll"
                    ELSE IF purpose[r] = "check" THEN "quota" ELSE "lookup"
        /\ slot'[r] = slot[r] /\ secret'[r] = secret[r] /\ snapshot'[r] = snapshot[r] /\ purpose'[r] = purpose[r]
        /\ purpose[r] \in {"check", "record"}
    BY <1>1, <1>2 DEF CompareMonth, RequestsTyped
  <2> QED
    BY <2>1, <2>2 DEF Placed
<1> QED
  BY <1>1, <1>3, <1>4, <1>5, RequestStepKeeps

\* The lookup before the quota is checked.
LEMMA QuotaLookupKeeps == ASSUME IInv, NEW r \in Requests, QuotaLookup(r) PROVE IInv'
<1> USE DEF At, Goto, LookUp
<1>1. MemoryStays /\ slot' = slot
  BY DEF QuotaLookup, MemoryStays
<1>2. RequestsTyped
  BY DEF IInv
<1>3. RequestsTyped'
  <2>1. keys \in [Secrets -> EntryOrNone]
    BY DEF IInv, EntriesTyped
  <2>2. EntryOrNone' = EntryOrNone
    BY <1>1 DEF MemoryStays, keyVars, EntryOrNone, Entries
  <2> QED
    BY <1>1, <1>2, <2>1, <2>2 DEF QuotaLookup, RequestsTyped, Places, requestVars
<1>4. Others(r)
  BY <1>2 DEF QuotaLookup, Others, RequestsTyped, requestVars
<1>5. Placed(r)'
  <2>1. Placed(r) /\ Entries' = Entries /\ key' = key /\ givenLimits' = givenLimits
    BY <1>1 DEF IInv, RequestsPlaced, MemoryStays, keyVars, Entries
  <2>2. pc'[r] = (IF keys[secret[r]] # None THEN "check" ELSE "invalid") /\ found'[r] = keys[secret[r]]
    BY <1>2 DEF QuotaLookup, RequestsTyped
  <2>3. secret[r] \in Secrets
    BY <1>2 DEF RequestsTyped
  <2>4. keys[secret[r]] # None => keys[secret[r]] \in Entries /\ key[keys[secret[r]]].secret = secret[r]
    BY <2>3 DEF IInv, EntriesTyped, EntriesNamed, EntryOrNone
  <2>5. pc[r] = "quota" /\ slot'[r] = slot[r] 
        /\ secret'[r] = secret[r] /\ snapshot'[r] = snapshot[r]
    BY <1>1 DEF QuotaLookup
  <2> QED
    BY <2>1, <2>2, <2>4, <2>5 DEF Placed
<1> QED
  BY <1>1, <1>3, <1>4, <1>5, RequestStepKeeps

\* Checking the quota changes no entry and no count.
LEMMA CheckQuotaKeeps == ASSUME IInv, NEW r \in Requests, CheckQuota(r) PROVE IInv'
<1> USE DEF At, Goto, Answered, Forget
<1>1. MemoryStays /\ slot' = slot
  BY DEF CheckQuota, MemoryStays
<1>2. RequestsTyped
  BY DEF IInv
<1>3. RequestsTyped'
  <2>1. EntryOrNone' = EntryOrNone /\ None \in EntryOrNone /\ clock \in Months
    BY <1>1 DEF MemoryStays, keyVars, EntryOrNone, Entries, IInv, DatabaseTyped
  <2> QED
    BY <1>1, <1>2, <2>1, OneIsFirst DEF CheckQuota, RequestsTyped, Places, requestVars
<1>4. Others(r)
  BY <1>2 DEF CheckQuota, Others, RequestsTyped, requestVars
<1>5. Placed(r)'
  <2>1. Placed(r) /\ Entries' = Entries /\ key' = key /\ givenLimits' = givenLimits
    BY <1>1 DEF IInv, RequestsPlaced, MemoryStays, keyVars, Entries
  <2>2. /\ pc[r] = "check" /\ slot'[r] = slot[r]
        /\ \/ pc'[r] = "idle"
           \/ pc'[r] = "slot" /\ secret'[r] = secret[r] /\ snapshot'[r] = snapshot[r]
    BY <1>1, <1>2 DEF CheckQuota, RequestsTyped
  <2> QED
    BY <2>1, <2>2 DEF Placed
<1> QED
  BY <1>1, <1>3, <1>4, <1>5, RequestStepKeeps

\* An unlimited key counts no slot.
LEMMA NoSlotNeededKeeps == ASSUME IInv, NEW r \in Requests, NoSlotNeeded(r) PROVE IInv'
<1> USE DEF At, Goto
<1>1. MemoryStays /\ slot' = slot
  BY DEF NoSlotNeeded, MemoryStays
<1>2. RequestsTyped
  BY DEF IInv
<1>3. RequestsTyped'
  <2>1. EntryOrNone' = EntryOrNone /\ None \in EntryOrNone /\ clock \in Months
    BY <1>1 DEF MemoryStays, keyVars, EntryOrNone, Entries, IInv, DatabaseTyped
  <2> QED
    BY <1>1, <1>2, <2>1, OneIsFirst DEF NoSlotNeeded, RequestsTyped, Places, requestVars
<1>4. Others(r)
  BY <1>2 DEF NoSlotNeeded, Others, RequestsTyped, requestVars
<1>5. Placed(r)'
  <2>1. Placed(r) /\ Entries' = Entries /\ key' = key /\ givenLimits' = givenLimits
    BY <1>1 DEF IInv, RequestsPlaced, MemoryStays, keyVars, Entries
  <2>2. /\ pc[r] = "slot" /\ pc'[r] = "stream"
        /\ slot'[r] = slot[r] /\ secret'[r] = secret[r] /\ snapshot'[r] = snapshot[r]
    BY <1>1, <1>2 DEF NoSlotNeeded, RequestsTyped
  <2> QED
    BY <2>1, <2>2 DEF Placed
<1> QED
  BY <1>1, <1>3, <1>4, <1>5, RequestStepKeeps

\* The lookup before a slot is acquired.
LEMMA SlotLookupKeeps == ASSUME IInv, NEW r \in Requests, SlotLookup(r) PROVE IInv'
<1> USE DEF At, Goto, LookUp
<1>1. MemoryStays /\ slot' = slot
  BY DEF SlotLookup, MemoryStays
<1>2. RequestsTyped
  BY DEF IInv
<1>3. RequestsTyped'
  <2>1. keys \in [Secrets -> EntryOrNone]
    BY DEF IInv, EntriesTyped
  <2>2. EntryOrNone' = EntryOrNone
    BY <1>1 DEF MemoryStays, keyVars, EntryOrNone, Entries
  <2> QED
    BY <1>1, <1>2, <2>1, <2>2 DEF SlotLookup, RequestsTyped, Places, requestVars
<1>4. Others(r)
  BY <1>2 DEF SlotLookup, Others, RequestsTyped, requestVars
<1>5. Placed(r)'
  <2>1. Placed(r) /\ Entries' = Entries /\ key' = key /\ givenLimits' = givenLimits
    BY <1>1 DEF IInv, RequestsPlaced, MemoryStays, keyVars, Entries
  <2>2. pc'[r] = (IF keys[secret[r]] # None THEN "acquire" ELSE "invalid") /\ found'[r] = keys[secret[r]]
    BY <1>2 DEF SlotLookup, RequestsTyped
  <2>3. secret[r] \in Secrets
    BY <1>2 DEF RequestsTyped
  <2>4. keys[secret[r]] # None => keys[secret[r]] \in Entries /\ key[keys[secret[r]]].secret = secret[r]
    BY <2>3 DEF IInv, EntriesTyped, EntriesNamed, EntryOrNone
  <2>5. pc[r] = "slot" /\ slot'[r] = slot[r] 
        /\ secret'[r] = secret[r] /\ snapshot'[r] = snapshot[r]
    BY <1>1 DEF SlotLookup
  <2> QED
    BY <2>1, <2>2, <2>4, <2>5 DEF Placed
<1> QED
  BY <1>1, <1>3, <1>4, <1>5, RequestStepKeeps

\* A request that records usage keeps its slot.
LEMMA AttemptEndsKeeps == ASSUME IInv, NEW r \in Requests, AttemptEnds(r) PROVE IInv'
<1> USE DEF At, Goto, CaptureMonth
<1>1. MemoryStays /\ slot' = slot
  BY DEF AttemptEnds, MemoryStays
<1>2. RequestsTyped
  BY DEF IInv
<1>3. RequestsTyped'
  <2>1. EntryOrNone' = EntryOrNone /\ None \in EntryOrNone /\ clock \in Months
    BY <1>1 DEF MemoryStays, keyVars, EntryOrNone, Entries, IInv, DatabaseTyped
  <2> QED
    BY <1>1, <1>2, <2>1, OneIsFirst DEF AttemptEnds, RequestsTyped, Places, requestVars
<1>4. Others(r)
  BY <1>2 DEF AttemptEnds, Others, RequestsTyped, requestVars
<1>5. Placed(r)'
  <2>1. Placed(r) /\ Entries' = Entries /\ key' = key /\ givenLimits' = givenLimits
    BY <1>1 DEF IInv, RequestsPlaced, MemoryStays, keyVars, Entries
  <2>2. /\ pc[r] = "stream"
        /\ pc'[r] = "release" \/ (pc'[r] = "compare" /\ purpose'[r] = "record")
        /\ slot'[r] = slot[r] /\ secret'[r] = secret[r] /\ snapshot'[r] = snapshot[r]
    BY <1>1, <1>2 DEF AttemptEnds, RequestsTyped
  <2> QED
    BY <2>1, <2>2 DEF Placed
<1> QED
  BY <1>1, <1>3, <1>4, <1>5, RequestStepKeeps

\* Usage of a secret no longer in the map is dropped.
LEMMA RecordLookupKeeps == ASSUME IInv, NEW r \in Requests, RecordLookup(r) PROVE IInv'
<1> USE DEF At, Goto, LookUp
<1>1. MemoryStays /\ slot' = slot
  BY DEF RecordLookup, MemoryStays
<1>2. RequestsTyped
  BY DEF IInv
<1>3. RequestsTyped'
  <2>1. keys \in [Secrets -> EntryOrNone]
    BY DEF IInv, EntriesTyped
  <2>2. EntryOrNone' = EntryOrNone
    BY <1>1 DEF MemoryStays, keyVars, EntryOrNone, Entries
  <2> QED
    BY <1>1, <1>2, <2>1, <2>2 DEF RecordLookup, RequestsTyped, Places, requestVars
<1>4. Others(r)
  BY <1>2 DEF RecordLookup, Others, RequestsTyped, requestVars
<1>5. Placed(r)'
  <2>1. Placed(r) /\ Entries' = Entries /\ key' = key /\ givenLimits' = givenLimits
    BY <1>1 DEF IInv, RequestsPlaced, MemoryStays, keyVars, Entries
  <2>2. pc'[r] = (IF keys[secret[r]] # None THEN "count" ELSE "release") /\ found'[r] = keys[secret[r]]
    BY <1>2 DEF RecordLookup, RequestsTyped
  <2>3. secret[r] \in Secrets
    BY <1>2 DEF RequestsTyped
  <2>4. keys[secret[r]] # None => keys[secret[r]] \in Entries /\ key[keys[secret[r]]].secret = secret[r]
    BY <2>3 DEF IInv, EntriesTyped, EntriesNamed, EntryOrNone
  <2>5. pc[r] = "lookup" /\ slot'[r] = slot[r] 
        /\ secret'[r] = secret[r] /\ snapshot'[r] = snapshot[r]
    BY <1>1 DEF RecordLookup
  <2> QED
    BY <2>1, <2>2, <2>4, <2>5 DEF Placed
<1> QED
  BY <1>1, <1>3, <1>4, <1>5, RequestStepKeeps

\* A refused request holds no slot.
LEMMA RefusedKeeps == ASSUME IInv, NEW r \in Requests, Refused(r) PROVE IInv'
<1> USE DEF At, Goto, Answered
<1>1. MemoryStays /\ slot' = slot
  BY DEF Refused, MemoryStays
<1>2. RequestsTyped
  BY DEF IInv
<1>3. RequestsTyped'
  <2>1. EntryOrNone' = EntryOrNone /\ None \in EntryOrNone /\ clock \in Months
    BY <1>1 DEF MemoryStays, keyVars, EntryOrNone, Entries, IInv, DatabaseTyped
  <2> QED
    BY <1>1, <1>2, <2>1, OneIsFirst DEF Refused, RequestsTyped, Places, requestVars
<1>4. Others(r)
  BY <1>2 DEF Refused, Others, RequestsTyped, requestVars
<1>5. Placed(r)'
  <2>1. Placed(r) /\ Entries' = Entries /\ key' = key /\ givenLimits' = givenLimits
    BY <1>1 DEF IInv, RequestsPlaced, MemoryStays, keyVars, Entries
  <2>2. /\ pc[r] = "invalid" /\ pc'[r] = "idle" /\ slot'[r] = slot[r]
    BY <1>1, <1>2 DEF Refused, RequestsTyped
  <2> QED
    BY <2>1, <2>2 DEF Placed
<1> QED
  BY <1>1, <1>3, <1>4, <1>5, RequestStepKeeps

-----------------------------------------------------------------------------
(* Steps of a request that change the counts.                              *)

\* The request joins the holders of the entry it found, whose number stays within
\* the limit it compared with.
LEMMA AcquireKeySlotKeeps == ASSUME IInv, NEW r \in Requests, AcquireKeySlot(r) PROVE IInv'
<1> USE DEF At, Goto, Forget
<1>1. RequestsTyped /\ EntriesTyped
  BY DEF IInv
<1>2. Placed(r) /\ pc[r] = "acquire"
  BY DEF IInv, RequestsPlaced, AcquireKeySlot
<1>3. /\ found[r] \in Entries /\ key[found[r]].secret = secret[r] /\ slot[r] = None
      /\ snapshot[r].secret = secret[r] /\ snapshot[r].max \in givenLimits[secret[r]]
  BY <1>2 DEF Placed
<1>4. CASE ~SlotFree(r)
  <2> USE DEF Answered
  <2>1. MemoryStays /\ slot' = slot
    BY <1>4 DEF AcquireKeySlot, MemoryStays
  <2>2. EntryOrNone' = EntryOrNone /\ None \in EntryOrNone
    BY <2>1 DEF MemoryStays, keyVars, EntryOrNone, Entries
  <2>3. RequestsTyped'
    BY <1>1, <1>4, <2>1, <2>2, OneIsFirst DEF AcquireKeySlot, RequestsTyped, Places
  <2>4. Others(r)
    BY <1>1, <1>4 DEF AcquireKeySlot, Others, RequestsTyped
  <2>5. pc'[r] = "idle" /\ slot'[r] = None
    BY <1>1, <1>3, <1>4 DEF AcquireKeySlot, RequestsTyped
  <2>6. Placed(r)'
    BY <2>5 DEF Placed
  <2> QED
    BY <2>1, <2>3, <2>4, <2>6, RequestStepKeeps
<1>5. CASE SlotFree(r)
  <2>1. /\ inflight' = [inflight EXCEPT ![found[r]] = @ + 1]
        /\ slot' = [slot EXCEPT ![r] = found[r]]
        /\ pc' = [pc EXCEPT ![r] = "stream"] /\ found' = [found EXCEPT ![r] = None]
        /\ UNCHANGED <<secret, snapshot, now, purpose>>
        /\ UNCHANGED <<clock, dbVars, keyVars, used, month, reloadVars,
                       pending, bounds, recorded, lost, drifted>>
    BY <1>5 DEF AcquireKeySlot
  <2>2. Entries' = Entries /\ EntryOrNone' = EntryOrNone /\ None \in EntryOrNone
    BY <2>1 DEF keyVars, EntryOrNone, Entries
  <2>3. RequestsTyped'
    BY <1>1, <1>3, <2>1, <2>2 DEF RequestsTyped, Places, EntryOrNone
  <2>4. EntriesTyped' /\ ReloadTyped' /\ DatabaseTyped'
    <3>1. inflight' \in [Entries -> Nat]
      BY <1>1, <1>3, <2>1 DEF EntriesTyped
    <3> QED
      BY <1>1, <2>1, <2>2, <3>1 DEF IInv, EntriesTyped, ReloadTyped, DatabaseTyped,
         keyVars, reloadVars, dbVars, bounds
  <2>5. RequestsPlaced'
    <3>1. Others(r)
      BY <1>1, <2>1 DEF Others, RequestsTyped
    <3>2. /\ pc'[r] = "stream" /\ secret'[r] = secret[r] /\ snapshot'[r] = snapshot[r]
          /\ givenLimits' = givenLimits
      BY <1>1, <2>1 DEF RequestsTyped, keyVars
    <3>3. Placed(r)'
      BY <1>3, <3>2 DEF Placed
    <3> QED
      BY <2>1, <3>1, <3>3, OthersPlaced DEF IInv, keyVars
  <2>6. DatabaseConserves' /\ QuotaCounterExact' /\ EntriesNamed' /\ ReloadKnowsUsage' /\ RowUnchanged'
    BY <2>1, <2>2 DEF IInv, DatabaseConserves, QuotaCounterExact, EntriesNamed,
       ReloadKnowsUsage, RowUnchanged, Locked, keyVars, reloadVars, dbVars, bounds
  <2>7. KeySlotsExact'
    <3>1. PICK f \in Entries : f = found[r]
      BY <1>3
    <3>2. \A e \in Entries : inflight'[e] = IF e = f THEN inflight[e] + 1 ELSE inflight[e]
      BY <1>1, <2>1, <3>1 DEF EntriesTyped
    <3>3. \A q \in Requests : slot'[q] = IF q = r THEN f ELSE slot[q]
      BY <1>1, <2>1, <3>1 DEF RequestsTyped
    <3>4. Holders(f)' = Holders(f) \cup {r} /\ r \notin Holders(f)
      BY <1>3, <3>1, <3>3, NoneIsNoEntry DEF Holders
    <3>5. \A e \in Entries \ {f} : Holders(e)' = Holders(e)
      BY <1>3, <3>3, NoneIsNoEntry DEF Holders
    <3>6. Cardinality(Holders(f) \cup {r}) = Cardinality(Holders(f)) + 1
      BY <3>4, HoldersFinite, FS_AddElement
    <3>7. \A e \in Entries : inflight[e] = Cardinality(Holders(e))
      BY DEF IInv, KeySlotsExact, Holders
    <3>8. \A e \in Entries : inflight'[e] = Cardinality(Holders(e)')
      <4> TAKE e \in Entries
      <4>1. CASE e = f
        BY <3>2, <3>4, <3>6, <3>7, <4>1
      <4>2. CASE e # f
        BY <3>2, <3>5, <3>7, <4>2
      <4> QED
        BY <4>1, <4>2
    <3> QED
      BY <2>2, <3>8 DEF KeySlotsExact, Holders
  <2>8. KeyLimitHolds'
    <3>1. inflight'[found[r]] = inflight[found[r]] + 1 /\ inflight[found[r]] \in Nat
      BY <1>1, <1>3, <2>1 DEF EntriesTyped
    <3>2. snapshot[r].max \in Int
      BY <1>1, <1>3, KeyUsageAssumption DEF EntriesTyped, RequestsTyped
    <3>3. inflight'[found[r]] <= snapshot[r].max
      BY <1>5, <3>1, <3>2 DEF SlotFree
    <3>4. \A e \in Entries \ {found[r]} : inflight'[e] = inflight[e]
      BY <1>1, <2>1 DEF EntriesTyped
    <3>5. givenLimits' = givenLimits /\ key' = key
      BY <2>1 DEF keyVars
    <3>6. KeyLimitHolds
      BY DEF IInv
    <3> QED
      BY <1>3, <2>2, <3>3, <3>4, <3>5, <3>6 DEF KeyLimitHolds
  <2> QED
    BY <2>3, <2>4, <2>5, <2>6, <2>7, <2>8 DEF IInv
<1> QED
  BY <1>4, <1>5

\* A new month starts with no usage; one that set the month back may have some.
LEMMA RollMonthKeeps == ASSUME IInv, NEW r \in Requests, RollMonth(r) PROVE IInv'
<1> USE DEF At, Goto, Synced
<1>1. RequestsTyped /\ EntriesTyped /\ Placed(r) /\ phase = "none"
  BY DEF IInv, RequestsPlaced, RollMonth, Locked
<1>2. /\ pc[r] = "roll" /\ pc' = [pc EXCEPT ![r] = IF purpose[r] = "check" THEN "quota" ELSE "lookup"]
      /\ UNCHANGED <<clock, dbVars, keyVars, inflight, reloadVars, purpose,
                     secret, snapshot, found, slot, now, pending, bounds, recorded, lost>>
  BY DEF RollMonth
<1>3. Entries' = Entries /\ EntryOrNone' = EntryOrNone
  BY <1>2 DEF keyVars, EntryOrNone, Entries
<1>4. RequestsTyped'
  BY <1>1, <1>2, <1>3 DEF RequestsTyped, Places
<1>5. RequestsPlaced'
  <2>1. Others(r)
    BY <1>1, <1>2 DEF Others, RequestsTyped
  <2>2. /\ pc'[r] = (IF purpose[r] = "check" THEN "quota" ELSE "lookup")
        /\ purpose[r] \in {"check", "record"}
    BY <1>1, <1>2 DEF RequestsTyped
  <2>3. Placed(r)'
    BY <1>1, <1>2, <1>3, <2>2 DEF Placed, keyVars
  <2> QED
    BY <1>2, <2>1, <2>3, OthersPlaced DEF IInv, keyVars
<1>6. KeySlotsExact' /\ KeyLimitHolds' /\ DatabaseConserves' /\ EntriesNamed' /\ RowUnchanged'
  BY <1>2, <1>3 DEF IInv, KeySlotsExact, KeyLimitHolds, DatabaseConserves, EntriesNamed,
     RowUnchanged, Locked, keyVars, reloadVars, dbVars, bounds
<1>7. ReloadKnowsUsage'
  BY <1>1, <1>2 DEF ReloadKnowsUsage, Locked, reloadVars
<1>8. now[r] \in Months /\ recorded[now[r]] \in Nat
  BY <1>1 DEF RequestsTyped, IInv, DatabaseTyped
<1>9. used' \in [Entries -> Nat] /\ month' \in Months /\ drifted' \in BOOLEAN
  <2>1. CASE month = now[r]
    BY <1>1, <2>1 DEF RollMonth, EntriesTyped, IInv, DatabaseTyped, ReloadTyped
  <2>2. CASE month # now[r]
    <3>1. month' = now[r] /\ used' = Zeroed /\ drifted' = (recorded[now[r]] > 0)
      BY <2>2 DEF RollMonth
    <3>2. drifted' \in BOOLEAN
      BY <1>8, <3>1, ComparisonIsBoolean, Zenon
    <3> QED
      BY <1>1, <1>8, <3>1, <3>2 DEF EntriesTyped, Zeroed
  <2> QED
    BY <2>1, <2>2
<1>10. EntriesTyped' /\ ReloadTyped' /\ DatabaseTyped'
  BY <1>1, <1>2, <1>3, <1>9 DEF IInv, EntriesTyped, ReloadTyped, DatabaseTyped,
     keyVars, reloadVars, dbVars, bounds
<1>11. QuotaCounterExact'
  <2>1. CASE month = now[r]
    <3>1. UNCHANGED <<month, used, drifted>>
      BY <2>1 DEF RollMonth
    <3> QED
      BY <1>2, <3>1 DEF IInv, QuotaCounterExact, Locked, keyVars, reloadVars
  <2>2. CASE month # now[r]
    <3>1. month' = now[r] /\ used' = Zeroed /\ drifted' = (recorded[now[r]] > 0)
      BY <2>2 DEF RollMonth
    <3>2. \A s \in Secrets : keys[s] # None => used'[keys[s]] = 0
      BY <1>1, <3>1 DEF Zeroed, EntriesTyped, EntryOrNone
    <3>3. ~drifted' => ~(recorded[now[r]] > 0)
      BY <3>1, Zenon
    <3>4. ~drifted' => recorded'[month'] = 0
      BY <1>2, <1>8, <3>1, <3>3
    <3> QED
      BY <1>2, <3>2, <3>4 DEF QuotaCounterExact, keyVars
  <2> QED
    BY <2>1, <2>2
<1> QED
  BY <1>4, <1>5, <1>6, <1>7, <1>10, <1>11 DEF IInv

\* A token is counted in memory, and on its way to the table of the same month.
LEMMA CountKeeps == ASSUME IInv, NEW r \in Requests, Count(r) PROVE IInv'
<1> USE DEF At, Goto, Forget
<1>1. RequestsTyped /\ EntriesTyped /\ Placed(r) /\ DatabaseTyped
  BY DEF IInv, RequestsPlaced
<1>2. /\ pc[r] = "count"
      /\ found' = [found EXCEPT ![r] = None]
      /\ used' = [used EXCEPT ![found[r]] = @ + 1]
      /\ pending' = [pending EXCEPT ![now[r]] = @ + 1]
      /\ recorded' = [recorded EXCEPT ![now[r]] = @ + 1]
      /\ drifted' = (drifted \/ ~CountsNow(r))
      /\ dirty' = (dirty \/ Locked)
      /\ purpose' = [purpose EXCEPT ![r] = "check"] /\ now' = [now EXCEPT ![r] = 1]
      /\ UNCHANGED <<clock, dbVars, keyVars, inflight, month, listing, phase, listed, existing,
                     loaded, secret, snapshot, slot, bounds, lost>>
  BY DEF Count
<1>3. PICK place \in {"stream", "release"} : pc' = [pc EXCEPT ![r] = place]
  BY DEF Count
<1>4. found[r] \in Entries /\ now[r] \in Months /\ secret[r] \in Secrets
  BY <1>1, <1>2 DEF Placed, RequestsTyped
<1>5. Entries' = Entries /\ EntryOrNone' = EntryOrNone /\ None \in EntryOrNone
  BY <1>2 DEF keyVars, EntryOrNone, Entries
<1>6. RequestsTyped'
  BY <1>1, <1>2, <1>3, <1>5, OneIsFirst DEF RequestsTyped, Places
<1>7. RequestsPlaced'
  <2>1. Others(r)
    BY <1>1, <1>2, <1>3 DEF Others, RequestsTyped
  <2>2. pc'[r] \in {"stream", "release"}
    BY <1>1, <1>3 DEF RequestsTyped
  <2>3. Placed(r)'
    BY <1>1, <1>2, <2>2 DEF Placed, keyVars
  <2> QED
    BY <1>2, <2>1, <2>3, OthersPlaced DEF IInv, keyVars
<1>8. used' \in [Entries -> Nat] /\ pending' \in [Months -> Nat] /\ recorded' \in [Months -> Nat]
  BY <1>1, <1>2, <1>4 DEF EntriesTyped, DatabaseTyped
<1>9. drifted' \in BOOLEAN /\ dirty' \in BOOLEAN
  BY <1>2 DEF IInv, ReloadTyped, Locked, CountsNow
<1>10. EntriesTyped' /\ ReloadTyped' /\ DatabaseTyped'
  BY <1>1, <1>2, <1>5, <1>8, <1>9 DEF IInv, EntriesTyped, ReloadTyped, DatabaseTyped,
     keyVars, dbVars, bounds
<1>11. KeySlotsExact' /\ KeyLimitHolds' /\ EntriesNamed' /\ RowUnchanged'
  BY <1>2, <1>5 DEF IInv, KeySlotsExact, KeyLimitHolds, EntriesNamed,
     RowUnchanged, Locked, keyVars, dbVars, bounds
<1>12. DatabaseConserves'
  <2>1. \A m \in Months : table[m] + pending[m] + lost[m] = recorded[m]
    BY DEF IInv, DatabaseConserves
  <2>2. \A m \in Months : /\ pending'[m] = (IF m = now[r] THEN pending[m] + 1 ELSE pending[m])
                          /\ recorded'[m] = (IF m = now[r] THEN recorded[m] + 1 ELSE recorded[m])
    BY <1>1, <1>2, <1>4 DEF DatabaseTyped
  <2>3. table' = table /\ lost' = lost
    BY <1>2 DEF dbVars
  <2>4. \A m \in Months : table[m] \in Nat /\ pending[m] \in Nat /\ lost[m] \in Nat /\ recorded[m] \in Nat
    BY <1>1 DEF DatabaseTyped
  <2> QED
    BY <2>1, <2>2, <2>3, <2>4 DEF DatabaseConserves
<1>13. QuotaCounterExact'
  <2>1. SUFFICES ASSUME ~drifted' PROVE \A s \in Secrets : keys[s] # None => used'[keys[s]] = recorded'[month]
    BY <1>2 DEF QuotaCounterExact, keyVars
  <2>2. ~drifted /\ now[r] = month /\ keys[secret[r]] = found[r] /\ ~Locked
    BY <1>2, <2>1 DEF CountsNow
  <2>3. \A s \in Secrets : keys[s] # None => s = secret[r]
    BY <1>4, <2>2, NoneIsNoEntry DEF IInv, EntriesNamed
  <2>4. used[found[r]] = recorded[month]
    BY <1>4, <2>2, NoneIsNoEntry DEF IInv, QuotaCounterExact
  <2>5. used'[found[r]] = used[found[r]] + 1 /\ recorded'[month] = recorded[month] + 1
    BY <1>1, <1>2, <1>4, <2>2 DEF EntriesTyped, DatabaseTyped
  <2> QED
    BY <2>2, <2>3, <2>4, <2>5
<1>14. ReloadKnowsUsage'
  <2>1. Locked' = Locked
    BY <1>2 DEF Locked
  <2>2. Locked => dirty'
    BY <1>2
  <2> QED
    BY <1>2, <2>1, <2>2 DEF IInv, ReloadKnowsUsage, keyVars
<1> QED
  BY <1>6, <1>7, <1>10, <1>11, <1>12, <1>13, <1>14 DEF IInv

\* The request leaves the holders of the entry it acquired its slot from.
LEMMA ReleaseKeeps == ASSUME IInv, NEW r \in Requests, Release(r) PROVE IInv'
<1> USE DEF At, Goto, Answered
<1>1. RequestsTyped /\ EntriesTyped
  BY DEF IInv
<1>2. /\ inflight' = [e \in Entries |-> IF e = slot[r] THEN inflight[e] - 1 ELSE inflight[e]]
      /\ slot' = [slot EXCEPT ![r] = None] /\ pc' = [pc EXCEPT ![r] = "idle"]
      /\ UNCHANGED <<clock, dbVars, keyVars, used, month, reloadVars, found,
                     pending, bounds, recorded, lost, drifted>>
  BY DEF Release
<1>3. Entries' = Entries /\ EntryOrNone' = EntryOrNone /\ None \in EntryOrNone
  BY <1>2 DEF keyVars, EntryOrNone, Entries
<1>4. RequestsTyped'
  BY <1>1, <1>2, <1>3, OneIsFirst DEF RequestsTyped, Places, Release
<1>5. RequestsPlaced'
  <2>1. Others(r)
    BY <1>1, <1>2 DEF Others, RequestsTyped, Release
  <2>2. pc'[r] = "idle" /\ slot'[r] = None
    BY <1>1, <1>2 DEF RequestsTyped
  <2>3. Placed(r)'
    BY <2>2 DEF Placed
  <2> QED
    BY <1>2, <2>1, <2>3, OthersPlaced DEF IInv, keyVars
<1>6. \A e \in Entries : inflight[e] = Cardinality(Holders(e))
  BY DEF IInv, KeySlotsExact, Holders
<1>7. \A e \in Entries : /\ inflight[e] \in Nat
                         /\ inflight'[e] = IF e = slot[r] THEN inflight[e] - 1 ELSE inflight[e]
  BY <1>1, <1>2 DEF EntriesTyped
<1>8. \A e \in Entries : inflight'[e] = Cardinality(Holders(e)')
  <2> TAKE e \in Entries
  <2>1. \A q \in Requests : slot'[q] = IF q = r THEN None ELSE slot[q]
    BY <1>1, <1>2 DEF RequestsTyped
  <2>2. CASE e = slot[r]
    <3>1. r \in Holders(e) /\ Holders(e)' = Holders(e) \ {r}
      BY <2>1, <2>2, NoneIsNoEntry DEF Holders
    <3>2. Cardinality(Holders(e) \ {r}) = Cardinality(Holders(e)) - 1
      BY <3>1, HoldersFinite, OneLess
    <3> QED
      BY <1>6, <1>7, <2>2, <3>1, <3>2
  <2>3. CASE e # slot[r]
    <3>1. Holders(e)' = Holders(e)
      BY <2>1, <2>3, NoneIsNoEntry DEF Holders
    <3> QED
      BY <1>6, <1>7, <2>3, <3>1
  <2> QED
    BY <2>2, <2>3
<1>9. KeySlotsExact'
  BY <1>3, <1>8 DEF KeySlotsExact, Holders
<1>10. \A e \in Entries : inflight'[e] \in Nat
  <2> TAKE e \in Entries
  <2>1. IsFiniteSet(Holders(e)') /\ inflight'[e] = Cardinality(Holders(e)')
    BY <1>8, KeyUsageAssumption, FS_Subset DEF Holders
  <2> QED
    BY <2>1, FS_CardinalityType
<1>11. EntriesTyped' /\ ReloadTyped' /\ DatabaseTyped'
  <2>1. inflight' \in [Entries -> Nat]
    BY <1>2, <1>10
  <2> QED
    BY <1>1, <1>2, <1>3, <2>1 DEF IInv, EntriesTyped, ReloadTyped, DatabaseTyped,
       keyVars, reloadVars, dbVars, bounds
<1>12. KeyLimitHolds'
  <2>1. SUFFICES ASSUME NEW e \in Entries, inflight'[e] > 0
                 PROVE  \E l \in givenLimits[key[e].secret] : inflight'[e] <= l
    BY <1>2, <1>3 DEF KeyLimitHolds, keyVars
  <2>2. inflight'[e] <= inflight[e] /\ inflight[e] > 0 /\ inflight[e] \in Nat /\ inflight'[e] \in Nat
    BY <1>7, <1>10, <2>1
  <2>3. PICK l \in givenLimits[key[e].secret] : inflight[e] <= l
    BY <2>2 DEF IInv, KeyLimitHolds
  <2>4. l \in Int
    BY <1>1, KeyUsageAssumption DEF EntriesTyped, IInv, EntriesNamed
  <2> QED
    BY <2>2, <2>3, <2>4
<1>13. DatabaseConserves' /\ QuotaCounterExact' /\ EntriesNamed' /\ ReloadKnowsUsage' /\ RowUnchanged'
  BY <1>2, <1>3 DEF IInv, DatabaseConserves, QuotaCounterExact, EntriesNamed,
     ReloadKnowsUsage, RowUnchanged, Locked, keyVars, reloadVars, dbVars, bounds
<1> QED
  BY <1>4, <1>5, <1>9, <1>11, <1>12, <1>13 DEF IInv

-----------------------------------------------------------------------------
(* The database, the operator, reloads and the clock.                      *)

\* What a step that only writes the database or listings leaves alone.
ServingStays == UNCHANGED <<keyVars, used, inflight, month, requestVars, drifted>>

\* The requests stay where they are, and so do their slots.
LEMMA ServingKeeps ==
    ASSUME IInv, ServingStays
    PROVE  KeySlotsExact' /\ KeyLimitHolds' /\ RequestsPlaced' /\ RequestsTyped' /\ Entries' = Entries
<1> USE DEF ServingStays, keyVars, requestVars
<1>1. Entries' = Entries
  BY DEF Entries
<1>2. KeySlotsExact' /\ KeyLimitHolds'
  BY <1>1 DEF IInv, KeySlotsExact, KeyLimitHolds
<1>3. RequestsTyped'
  BY <1>1 DEF IInv, RequestsTyped, EntryOrNone
<1>4. ASSUME NEW r \in Requests PROVE Placed(r)'
  <2>1. Placed(r)
    BY DEF IInv, RequestsPlaced
  <2> QED
    BY <1>1, <2>1 DEF Placed
<1> QED
  BY <1>1, <1>2, <1>3, <1>4 DEF RequestsPlaced

\* A pending token is in the table afterwards, or lost.
LEMMA PersistKeeps == ASSUME IInv, NEW m \in Months, Persist(m) PROVE IInv'
<1>1. ServingStays /\ UNCHANGED <<clock, row, reloadVars, bounds, recorded>>
  BY DEF Persist, ServingStays
<1>2. DatabaseTyped /\ pending[m] > 0 /\ pending' = [pending EXCEPT ![m] = @ - 1]
      /\ \/ table' = [table EXCEPT ![m] = @ + 1] /\ lost' = lost
         \/ lost' = [lost EXCEPT ![m] = @ + 1] /\ table' = table
  BY DEF IInv, Persist, Upsert
<1>3. \A k \in Months : /\ table[k] \in Nat /\ pending[k] \in Nat /\ lost[k] \in Nat
                        /\ recorded[k] \in Nat
  BY <1>2 DEF DatabaseTyped
<1>4. DatabaseTyped'
  <2>1. table' \in [Months -> Nat] /\ pending' \in [Months -> Nat] /\ lost' \in [Months -> Nat]
    BY <1>2, <1>3 DEF DatabaseTyped
  <2> QED
    BY <1>1, <1>2, <2>1 DEF DatabaseTyped, ServingStays, bounds
<1>5. DatabaseConserves'
  <2>1. \A k \in Months : table[k] + pending[k] + lost[k] = recorded[k]
    BY DEF IInv, DatabaseConserves
  <2>2. \A k \in Months : pending'[k] = IF k = m THEN pending[k] - 1 ELSE pending[k]
    BY <1>2 DEF DatabaseTyped
  <2>3. \/ \A k \in Months : table'[k] = (IF k = m THEN table[k] + 1 ELSE table[k]) /\ lost'[k] = lost[k]
        \/ \A k \in Months : lost'[k] = (IF k = m THEN lost[k] + 1 ELSE lost[k]) /\ table'[k] = table[k]
    BY <1>2 DEF DatabaseTyped
  <2>4. recorded' = recorded
    BY <1>1
  <2> QED
    BY <1>3, <2>1, <2>2, <2>3, <2>4 DEF DatabaseConserves
<1>6. Entries' = Entries
  BY <1>1, ServingKeeps
<1>7. EntriesTyped' /\ ReloadTyped'
  BY <1>1, <1>6 DEF IInv, EntriesTyped, ReloadTyped, EntryOrNone, ServingStays, keyVars, reloadVars
<1>8. QuotaCounterExact' /\ EntriesNamed' /\ ReloadKnowsUsage' /\ RowUnchanged'
  BY <1>1, <1>6 DEF IInv, QuotaCounterExact, EntriesNamed, ReloadKnowsUsage, RowUnchanged,
     Locked, ServingStays, keyVars, reloadVars, bounds
<1> QED
  BY <1>1, <1>4, <1>5, <1>7, <1>8, ServingKeeps DEF IInv

\* The row is changed behind the back of memory.
LEMMA ChangeRowKeeps == ASSUME IInv, ChangeRow PROVE IInv'
<1>1. /\ ServingStays /\ UNCHANGED <<clock, table, reloadVars, pending, recorded, lost>>
      /\ events < MaxEvents /\ events' = events + 1 /\ changed' = TRUE
  BY DEF ChangeRow, ServingStays
<1>2. row' \in Rows
  <2>1. \/ \E x \in Secrets \cup {Deleted} : row' = [row EXCEPT !.secret = x]
        \/ row' = [row EXCEPT !.enabled = ~row.enabled]
        \/ \E l \in Limits : row' = [row EXCEPT !.max = l]
    BY DEF ChangeRow
  <2>2. row \in Rows
    BY DEF IInv, DatabaseTyped
  <2>3. \A x \in Secrets \cup {Deleted} : [row EXCEPT !.secret = x] \in Rows
    BY <2>2 DEF Rows
  <2>4. [row EXCEPT !.enabled = ~row.enabled] \in Rows
    BY <2>2 DEF Rows
  <2>5. \A l \in Limits : [row EXCEPT !.max = l] \in Rows
    BY <2>2 DEF Rows
  <2> QED
    BY ONLY <2>1, <2>3, <2>4, <2>5, Zenon
<1>3. DatabaseTyped'
  <2>1. events' \in 0..MaxEvents
    BY <1>1, EventCounted DEF IInv, DatabaseTyped
  <2> QED
    BY <1>1, <1>2, <2>1 DEF IInv, DatabaseTyped, ServingStays
<1>4. Entries' = Entries
  BY <1>1, ServingKeeps
<1>5. EntriesTyped' /\ ReloadTyped'
  BY <1>1, <1>4 DEF IInv, EntriesTyped, ReloadTyped, EntryOrNone, ServingStays, keyVars, reloadVars
<1>6. DatabaseConserves' /\ QuotaCounterExact' /\ EntriesNamed' /\ ReloadKnowsUsage'
  BY <1>1, <1>4 DEF IInv, DatabaseConserves, QuotaCounterExact, EntriesNamed, ReloadKnowsUsage,
     Locked, ServingStays, keyVars, reloadVars
<1>7. RowUnchanged'
  BY <1>1 DEF RowUnchanged
<1> QED
  BY <1>1, <1>3, <1>5, <1>6, <1>7, ServingKeeps DEF IInv

\* A reload lists the row as it is.
LEMMA ListKeysKeeps == ASSUME IInv, NEW h \in Reloads, ListKeys(h) PROVE IInv'
<1>1. /\ ServingStays
      /\ UNCHANGED <<clock, dbVars, phase, listed, existing, loaded, dirty, pending, changed,
                     recorded, lost>>
      /\ events < MaxEvents /\ events' = events + 1 /\ listing' = [listing EXCEPT ![h] = row]
  BY DEF ListKeys, ServingStays
<1>2. Entries' = Entries
  BY <1>1, ServingKeeps
<1>3. DatabaseTyped'
  <2>1. events' \in 0..MaxEvents
    BY <1>1, EventCounted DEF IInv, DatabaseTyped
  <2> QED
    BY <1>1, <2>1 DEF IInv, DatabaseTyped, ServingStays, dbVars
<1>4. EntriesTyped' /\ ReloadTyped'
  <2>1. listing' \in [Reloads -> Rows \cup {NoRow}]
    BY <1>1 DEF IInv, ReloadTyped, DatabaseTyped
  <2> QED
    BY <1>1, <1>2, <2>1 DEF IInv, EntriesTyped, ReloadTyped, EntryOrNone, ServingStays, keyVars
<1>5. DatabaseConserves' /\ QuotaCounterExact' /\ EntriesNamed' /\ ReloadKnowsUsage'
  BY <1>1, <1>2 DEF IInv, DatabaseConserves, QuotaCounterExact, EntriesNamed, ReloadKnowsUsage,
     Locked, ServingStays, keyVars, dbVars
<1>6. RowUnchanged'
  <2>1. \A g \in Reloads : listing'[g] = IF g = h THEN row ELSE listing[g]
    BY <1>1 DEF IInv, ReloadTyped
  <2> QED
    BY <1>1, <2>1 DEF IInv, RowUnchanged, Locked, ServingStays, keyVars, dbVars
<1> QED
  BY <1>1, <1>3, <1>4, <1>5, <1>6, ServingKeeps DEF IInv

\* The reload has read all usage, or knows that it has not.
LEMMA LoadUsageKeeps == ASSUME IInv, NEW h \in Reloads, LoadUsage(h) PROVE IInv'
<1>1. /\ ServingStays
      /\ UNCHANGED <<clock, dbVars, existing, pending, bounds, recorded, lost>>
      /\ phase = "none" /\ phase' = "loaded" /\ listing[h] # NoRow
      /\ listed' = listing[h] /\ listing' = [listing EXCEPT ![h] = NoRow]
  BY DEF LoadUsage, ServingStays
<1>2. \/ loaded' = [month |-> clock, tokens |-> table[clock]] /\ dirty' = (pending[clock] + lost[clock] > 0)
      \/ loaded' = [month |-> clock, tokens |-> 0] /\ dirty' = (recorded[clock] > 0)
  BY DEF LoadUsage
<1>3. Entries' = Entries
  BY <1>1, ServingKeeps
<1>4. /\ clock \in Months /\ table[clock] \in Nat /\ pending[clock] \in Nat
      /\ lost[clock] \in Nat /\ recorded[clock] \in Nat
      /\ pending[clock] + lost[clock] \in Nat
  BY DEF IInv, DatabaseTyped
<1>5. listing[h] \in Rows
  BY <1>1 DEF IInv, ReloadTyped
<1>6. DatabaseTyped'
  BY <1>1 DEF IInv, DatabaseTyped, ServingStays, dbVars, bounds
<1>7. EntriesTyped' /\ ReloadTyped'
  <2>1. dirty' \in BOOLEAN
    BY <1>2, <1>4, ComparisonIsBoolean, Zenon
  <2>2. loaded' \in [month : Months, tokens : Nat]
    BY <1>2, <1>4
  <2>3. listing' \in [Reloads -> Rows \cup {NoRow}]
    BY <1>1 DEF IInv, ReloadTyped
  <2> QED
    BY <1>1, <1>3, <1>5, <2>1, <2>2, <2>3
    DEF IInv, EntriesTyped, ReloadTyped, EntryOrNone, ServingStays, keyVars, Phases
<1>8. DatabaseConserves' /\ QuotaCounterExact' /\ EntriesNamed'
  BY <1>1, <1>3 DEF IInv, DatabaseConserves, QuotaCounterExact, EntriesNamed,
     Locked, ServingStays, keyVars, dbVars
<1>9. ReloadKnowsUsage'
  <2>1. table[clock] + pending[clock] + lost[clock] = recorded[clock]
    BY <1>4 DEF IInv, DatabaseConserves
  <2>2. CASE loaded' = [month |-> clock, tokens |-> table[clock]]
             /\ dirty' = (pending[clock] + lost[clock] > 0)
    <3>1. ~dirty' => ~(pending[clock] + lost[clock] > 0)
      BY <2>2, Zenon
    <3>2. ~dirty' => table[clock] = recorded[clock]
      BY <1>4, <2>1, <3>1
    <3> QED
      BY <1>1, <1>5, <2>2, <3>2 DEF ReloadKnowsUsage
  <2>3. CASE loaded' = [month |-> clock, tokens |-> 0] /\ dirty' = (recorded[clock] > 0)
    <3>1. ~dirty' => ~(recorded[clock] > 0)
      BY <2>3, Zenon
    <3>2. ~dirty' => recorded[clock] = 0
      BY <1>4, <3>1
    <3> QED
      BY <1>1, <1>5, <2>3, <3>2 DEF ReloadKnowsUsage
  <2> QED
    BY <1>2, <2>2, <2>3
<1>10. RowUnchanged'
  <2>1. \A g \in Reloads : listing'[g] = IF g = h THEN NoRow ELSE listing[g]
    BY <1>1 DEF IInv, ReloadTyped
  <2> QED
    BY <1>1, <2>1 DEF IInv, RowUnchanged, Locked, ServingStays, keyVars, dbVars, bounds
<1> QED
  BY <1>1, <1>6, <1>7, <1>8, <1>9, <1>10, ServingKeeps DEF IInv

\* Entries leave the map, and the requests keep theirs.
LEMMA ClearMapsKeeps == ASSUME IInv, ClearMaps PROVE IInv'
<1>1. /\ phase = "loaded" /\ phase' = "cleared" /\ existing' = keys /\ keys' = NoKeys
      /\ month' = loaded.month
      /\ UNCHANGED <<clock, dbVars, made, key, givenLimits, used, inflight, listing, listed,
                     loaded, dirty, requestVars, pending, bounds, recorded, lost, drifted>>
  BY DEF ClearMaps
<1>2. Entries' = Entries /\ EntryOrNone' = EntryOrNone
  BY <1>1 DEF Entries, EntryOrNone
<1>3. RequestsTyped'
  BY <1>1, <1>2 DEF IInv, RequestsTyped, requestVars
<1>4. EntriesTyped'
  <2>1. keys' \in [Secrets -> EntryOrNone]
    BY <1>1 DEF NoKeys, EntryOrNone
  <2> QED
    BY <1>1, <1>2, <2>1 DEF IInv, EntriesTyped
<1>5. ReloadTyped' /\ DatabaseTyped'
  BY <1>1 DEF IInv, ReloadTyped, DatabaseTyped, Phases, dbVars, bounds
<1>6. KeySlotsExact' /\ KeyLimitHolds' /\ DatabaseConserves'
  BY <1>1, <1>2 DEF IInv, KeySlotsExact, KeyLimitHolds, DatabaseConserves, requestVars, dbVars
<1>7. RequestsPlaced'
  <2>1. ASSUME NEW r \in Requests PROVE Placed(r)'
    <3>1. Placed(r)
      BY DEF IInv, RequestsPlaced
    <3> QED
      BY <1>1, <1>2, <3>1 DEF Placed, requestVars
  <2> QED
    BY <2>1 DEF RequestsPlaced
<1>8. EntriesNamed' /\ QuotaCounterExact'
  BY <1>1, <1>2 DEF IInv, EntriesNamed, QuotaCounterExact, NoKeys, Locked
<1>9. ReloadKnowsUsage' /\ RowUnchanged'
  BY <1>1 DEF IInv, ReloadKnowsUsage, RowUnchanged, Locked, dbVars, bounds
<1> QED
  BY <1>3, <1>4, <1>5, <1>6, <1>7, <1>8, <1>9 DEF IInv

\* Memory does not notice the end of a month.
LEMMA MonthEndsKeeps == ASSUME IInv, MonthEnds PROVE IInv'
<1>1. /\ ServingStays /\ clock' \in Months
      /\ UNCHANGED <<dbVars, reloadVars, pending, bounds, recorded, lost>>
  BY DEF MonthEnds, ServingStays
<1>2. Entries' = Entries
  BY <1>1, ServingKeeps
<1>3. EntriesTyped' /\ ReloadTyped' /\ DatabaseTyped'
  BY <1>1, <1>2 DEF IInv, EntriesTyped, ReloadTyped, DatabaseTyped, EntryOrNone, ServingStays,
     keyVars, dbVars, reloadVars, bounds
<1>4. DatabaseConserves' /\ QuotaCounterExact' /\ EntriesNamed' /\ ReloadKnowsUsage' /\ RowUnchanged'
  BY <1>1, <1>2 DEF IInv, DatabaseConserves, QuotaCounterExact, EntriesNamed, ReloadKnowsUsage,
     RowUnchanged, Locked, ServingStays, keyVars, dbVars, reloadVars, bounds
<1> QED
  BY <1>1, <1>3, <1>4, ServingKeeps DEF IInv

\* An entry that gets the listed key: one of the map's, with its slots, or a new
\* one, with none.  Either gets the usage the reload read.
LEMMA InstallKeeps ==
    ASSUME IInv, FillKeys, NEW e \in Entries', made' \in Nat, Entries' = Entries \cup {e},
           listed.secret # Deleted, Install(e),
           e \in Entries => key[e].secret = listed.secret,
           inflight' \in [Entries' -> Nat],
           \A f \in Entries : inflight'[f] = inflight[f],
           e \notin Entries => inflight'[e] = 0
    PROVE  IInv'
<1>1. /\ phase = "cleared" /\ phase' = "none" /\ drifted' = dirty /\ dirty' = FALSE
      /\ listed' = NoRow /\ loaded' = [month |-> 1, tokens |-> 0] /\ existing' = NoKeys
      /\ UNCHANGED <<clock, dbVars, month, listing, requestVars, pending, bounds, recorded, lost>>
  BY DEF FillKeys
<1>2. /\ listed \in Rows /\ keys = NoKeys /\ month = loaded.month
      /\ listed.secret \in Secrets /\ listed.max \in Limits
      /\ ~dirty => loaded.tokens = recorded[month]
  BY <1>1 DEF IInv, ReloadKnowsUsage, Locked, Rows
<1>3. EntriesTyped /\ EntriesNamed /\ RequestsTyped
  BY DEF IInv
<1>4. /\ keys' \in [Secrets -> EntryOrNone']
      /\ \A s \in Secrets : keys'[s] = IF s = listed.secret THEN e ELSE None
  BY <1>2 DEF Install, With, NoKeys, EntryOrNone
<1>5. /\ key' \in [Entries' -> Rows]
      /\ \A f \in Entries' : key'[f] = IF f = e THEN listed ELSE key[f]
  BY <1>2, <1>3 DEF Install, Put, EntriesTyped
<1>6. used' \in [Entries' -> Nat] /\ used'[e] = loaded.tokens
  BY <1>3 DEF Install, Put, EntriesTyped, IInv, ReloadTyped
<1>7. /\ givenLimits' \in [Secrets -> SUBSET Limits]
      /\ \A s \in Secrets : givenLimits[s] \subseteq givenLimits'[s]
      /\ listed.max \in givenLimits'[listed.secret]
  BY <1>2, <1>3 DEF Install, EntriesTyped
<1>8. \A f \in Entries : key'[f].secret = key[f].secret
  BY <1>5
<1>9. RequestsTyped'
  <2>1. \A x \in EntryOrNone : x \in EntryOrNone'
    BY DEF EntryOrNone
  <2> QED
    BY <1>1, <1>3, <2>1 DEF RequestsTyped, requestVars
<1>10. EntriesTyped' /\ ReloadTyped' /\ DatabaseTyped'
  <2>1. existing' \in [Secrets -> EntryOrNone']
    BY <1>1 DEF NoKeys, EntryOrNone
  <2> QED
    BY <1>1, <1>4, <1>5, <1>6, <1>7, <2>1, OneIsFirst
    DEF IInv, EntriesTyped, ReloadTyped, DatabaseTyped, Phases, dbVars, bounds
<1>11. DatabaseConserves' /\ QuotaCounterExact'
  <2>1. \A s \in Secrets : keys'[s] # None => keys'[s] = e
    BY <1>4
  <2> QED
    BY <1>1, <1>2, <1>6, <2>1 DEF IInv, DatabaseConserves, QuotaCounterExact, dbVars
<1>12. KeySlotsExact'
  <2>1. slot' = slot
    BY <1>1 DEF requestVars
  <2>2. \A f \in Entries : inflight'[f] = Cardinality({r \in Requests : slot'[r] = f})
    BY <2>1 DEF IInv, KeySlotsExact
  <2>3. ASSUME e \notin Entries PROVE inflight'[e] = Cardinality({r \in Requests : slot'[r] = e})
    <3>1. e # None
      BY DEF Entries, None
    <3>2. {r \in Requests : slot'[r] = e} = {}
      BY <1>3, <2>1, <2>3, <3>1 DEF RequestsTyped, EntryOrNone
    <3> QED
      BY <2>3, <3>2, FS_EmptySet
  <2> QED
    BY <2>2, <2>3 DEF KeySlotsExact
<1>13. KeyLimitHolds'
  <2>1. \A f \in Entries' : f \in Entries \/ inflight'[f] = 0
    OBVIOUS
  <2>2. \A f \in Entries : inflight[f] > 0 => \E l \in givenLimits[key[f].secret] : inflight[f] <= l
    BY DEF IInv, KeyLimitHolds
  <2>3. \A f \in Entries : key[f].secret \in Secrets
    BY <1>3 DEF EntriesNamed
  <2>4. \A f \in Entries : inflight'[f] > 0 => \E l \in givenLimits'[key'[f].secret] : inflight'[f] <= l
    BY <1>7, <1>8, <2>2, <2>3
  <2> QED
    BY <2>1, <2>4 DEF KeyLimitHolds
<1>14. EntriesNamed'
  <2>1. \A s, t \in Secrets : keys'[s] # None /\ keys'[t] # None => s = t
    BY <1>4
  <2>2. \A f \in Entries' : /\ key'[f].secret \in Secrets
                            /\ key'[f].max \in givenLimits'[key'[f].secret]
    <3> TAKE f \in Entries'
    <3>1. CASE f = e
      BY <3>1, <1>2, <1>5, <1>7
    <3>2. CASE f # e
      <4>1. f \in Entries /\ key'[f] = key[f]
        BY <3>2, <1>5
      <4> QED
        BY <4>1, <1>3, <1>7 DEF EntriesNamed
    <3> QED
      BY <3>1, <3>2
  <2>3. \A s \in Secrets : keys'[s] # None => key'[keys'[s]].secret = s
    BY <1>4, <1>5
  <2>4. \A s \in Secrets : existing'[s] = None
    BY <1>1 DEF NoKeys
  <2> QED
    BY <2>1, <2>2, <2>3, <2>4 DEF EntriesNamed
<1>15. RequestsPlaced'
  <2>1. ASSUME NEW r \in Requests PROVE Placed(r)'
    <3>1. Placed(r) /\ secret[r] \in Secrets
      BY <1>3 DEF IInv, RequestsPlaced, RequestsTyped
    <3>2. \A f \in Entries : f \in Entries'
      OBVIOUS
    <3> QED
      BY <1>1, <1>7, <1>8, <3>1, <3>2 DEF Placed, requestVars
  <2> QED
    BY <2>1 DEF RequestsPlaced
<1>16. ReloadKnowsUsage' /\ RowUnchanged'
  <2>1. ~changed => row = listed
    BY <1>1 DEF IInv, RowUnchanged, Locked
  <2>2. keys'[listed.secret] # None
    BY <1>2, <1>4 DEF Entries, None
  <2> QED
    BY <1>1, <2>1, <2>2 DEF IInv, ReloadKnowsUsage, RowUnchanged, Locked, dbVars, bounds
<1> QED
  BY <1>9, <1>10, <1>11, <1>12, <1>13, <1>14, <1>15, <1>16 DEF IInv

\* The maps are filled with what was listed, which may be older than what was there.
LEMMA FillKeysKeeps == ASSUME IInv, FillKeys PROVE IInv'
<1>1. /\ phase = "cleared" /\ phase' = "none" /\ drifted' = dirty /\ dirty' = FALSE
      /\ listed' = NoRow /\ loaded' = [month |-> 1, tokens |-> 0] /\ existing' = NoKeys
      /\ UNCHANGED <<clock, dbVars, month, listing, requestVars, pending, bounds, recorded, lost>>
  BY DEF FillKeys
<1>2. listed \in Rows /\ keys = NoKeys /\ made \in Nat
  BY <1>1 DEF IInv, ReloadKnowsUsage, Locked, EntriesTyped
<1>3. CASE KeyGone
  <2>1. UNCHANGED <<keyVars, used, inflight>> /\ listed.secret = Deleted
    BY <1>3 DEF KeyGone
  <2>2. Entries' = Entries /\ EntryOrNone' = EntryOrNone
    BY <2>1 DEF Entries, EntryOrNone, keyVars
  <2>3. RequestsTyped'
    BY <1>1, <2>2 DEF IInv, RequestsTyped, requestVars
  <2>4. EntriesTyped' /\ ReloadTyped' /\ DatabaseTyped'
    <3>1. existing' \in [Secrets -> EntryOrNone']
      BY <1>1 DEF NoKeys, EntryOrNone
    <3> QED
      BY <1>1, <2>1, <2>2, <3>1, OneIsFirst
      DEF IInv, EntriesTyped, ReloadTyped, DatabaseTyped, Phases, dbVars, bounds, keyVars
  <2>5. KeySlotsExact' /\ KeyLimitHolds' /\ DatabaseConserves'
    BY <1>1, <2>1, <2>2
    DEF IInv, KeySlotsExact, KeyLimitHolds, DatabaseConserves, dbVars, keyVars, requestVars
  <2>6. QuotaCounterExact' /\ EntriesNamed'
    BY <1>1, <1>2, <2>1, <2>2 DEF IInv, QuotaCounterExact, EntriesNamed, NoKeys, keyVars
  <2>7. RequestsPlaced'
    <3>1. ASSUME NEW r \in Requests PROVE Placed(r)'
      <4>1. Placed(r)
        BY DEF IInv, RequestsPlaced
      <4> QED
        BY <1>1, <2>1, <2>2, <4>1 DEF Placed, requestVars, keyVars
    <3> QED
      BY <3>1 DEF RequestsPlaced
  <2>8. changed
    BY <1>1, <2>1 DEF IInv, RowUnchanged, Locked
  <2>9. ReloadKnowsUsage' /\ RowUnchanged'
    BY <1>1, <2>8 DEF ReloadKnowsUsage, RowUnchanged, Locked, bounds
  <2> QED
    BY <2>3, <2>4, <2>5, <2>6, <2>7, <2>9 DEF IInv
<1>4. CASE EntryStays
  <2>1. PICK e \in Entries : e = existing[listed.secret]
    BY <1>2, <1>4 DEF EntryStays, Rows, IInv, EntriesTyped, EntryOrNone
  <2>2. /\ Install(e) /\ listed.secret # Deleted /\ made' = made /\ inflight' = inflight
        /\ listed.secret \in Secrets /\ existing[listed.secret] # None
    BY <1>2, <1>4, <2>1 DEF EntryStays, Rows
  <2>3. key[e].secret = listed.secret
    BY <2>1, <2>2 DEF IInv, EntriesNamed
  <2>4. Entries' = Entries
    BY <2>2 DEF Entries
  <2>5. /\ e \in Entries' /\ made' \in Nat /\ Entries' = Entries \cup {e}
        /\ inflight' \in [Entries' -> Nat] /\ \A f \in Entries : inflight'[f] = inflight[f]
    BY <1>2, <2>1, <2>2, <2>4 DEF IInv, EntriesTyped
  <2> QED
    BY <2>1, <2>2, <2>3, <2>5, InstallKeeps
<1>5. CASE EntryMade
  <2>1. PICK e \in Nat : e = made + 1
    BY <1>2
  <2>2. /\ Install(e) /\ listed.secret # Deleted /\ made' = e /\ inflight' = Put(inflight, e, 0)
    BY <1>5, <2>1 DEF EntryMade
  <2>3. e \in Entries' /\ made' \in Nat /\ Entries' = Entries \cup {e} /\ e \notin Entries
    BY <1>2, <2>1, <2>2 DEF Entries
  <2>4. /\ inflight' \in [Entries' -> Nat] /\ inflight'[e] = 0
        /\ \A f \in Entries : inflight'[f] = inflight[f]
    BY <2>2, <2>3 DEF Put, IInv, EntriesTyped
  <2> QED
    BY <2>2, <2>3, <2>4, InstallKeeps
<1> QED
  BY <1>3, <1>4, <1>5 DEF FillKeys

\* A new process has what is in the database, one entry of it, and no requests.
LEMMA RestartKeeps == ASSUME IInv, Restart PROVE IInv'
<1>1. /\ row \in Rows /\ row.max \in Limits /\ clock \in Months /\ DatabaseTyped
      /\ row.secret \in Secrets \/ row.secret = Deleted
  BY DEF IInv, DatabaseTyped, Rows
<1>2. \/ row.secret = Deleted /\ made' = 0 /\ Entries' = {}
      \/ row.secret \in Secrets /\ made' = 1 /\ Entries' = {1}
  <2>1. \/ row.secret = Deleted /\ made' = 0
        \/ row.secret \in Secrets /\ made' = 1
    BY <1>1, DeletedIsNone DEF Restart
  <2> QED
    BY <2>1 DEF Entries
<1>3. /\ keys' = [s \in Secrets |-> IF s = row.secret THEN 1 ELSE None]
      /\ key' = [e \in Entries' |-> row] /\ used' = [e \in Entries' |-> table[clock]]
      /\ inflight' = [e \in Entries' |-> 0] /\ existing' = NoKeys
      /\ givenLimits' = [s \in Secrets |-> IF s = row.secret THEN {row.max} ELSE {}]
  BY DEF Restart, Entries
<1>4. \A r \in Requests : pc'[r] = "idle" /\ slot'[r] = None /\ found'[r] = None
  BY DEF Restart
<1>5. RequestsTyped'
  BY OneIsFirst DEF Restart, RequestsTyped, Places, EntryOrNone
<1>6. EntriesTyped'
  <2>1. givenLimits' \in [Secrets -> SUBSET Limits]
    BY <1>1, <1>3
  <2>2. table[clock] \in Nat /\ made' \in Nat
    BY <1>1, <1>2 DEF DatabaseTyped
  <2>3. keys' \in [Secrets -> EntryOrNone'] /\ existing' \in [Secrets -> EntryOrNone']
    BY <1>2, <1>3, DeletedIsNone DEF EntryOrNone, NoKeys
  <2> QED
    BY <1>1, <1>3, <2>1, <2>2, <2>3 DEF EntriesTyped
<1>7. /\ \A m \in Months : pending'[m] = 0 /\ lost'[m] = lost[m] + pending[m]
      /\ pending' \in [Months -> Nat] /\ lost' \in [Months -> Nat]
      /\ recorded' = recorded /\ table' = table /\ clock' = clock /\ row' = row
  BY <1>1 DEF Restart, DatabaseTyped, dbVars
<1>8. drifted' = (lost'[clock] > 0) /\ lost'[clock] \in Nat
  BY <1>1, <1>7 DEF Restart
<1>9. ReloadTyped' /\ DatabaseTyped'
  <2>1. drifted' \in BOOLEAN
    BY <1>8, ComparisonIsBoolean, Zenon
  <2>2. ReloadTyped'
    BY <2>1, OneIsFirst DEF Restart, ReloadTyped, Phases
  <2>3. events' \in 0..MaxEvents
    BY <1>1, EventCounted DEF Restart, DatabaseTyped
  <2>4. month' \in Months /\ changed' = changed
    BY <1>1 DEF Restart
  <2> QED
    BY <1>1, <1>7, <2>2, <2>3, <2>4 DEF DatabaseTyped
<1>10. DatabaseConserves'
  <2>1. \A m \in Months : table[m] + pending[m] + lost[m] = recorded[m]
    BY DEF IInv, DatabaseConserves
  <2>2. \A m \in Months : table[m] \in Nat /\ pending[m] \in Nat /\ lost[m] \in Nat
    BY <1>1 DEF DatabaseTyped
  <2> QED
    BY <1>7, <2>1, <2>2 DEF DatabaseConserves
<1>11. QuotaCounterExact'
  <2>1. ~drifted' => ~(lost'[clock] > 0)
    BY <1>8, Zenon
  <2>2. table[clock] + 0 + lost'[clock] = recorded[clock] /\ table[clock] \in Nat
    BY <1>1, <1>7, <1>10 DEF DatabaseConserves, DatabaseTyped
  <2>3. ~drifted' => table[clock] = recorded[clock]
    BY <1>8, <2>1, <2>2
  <2>4. \A s \in Secrets : keys'[s] # None => used'[keys'[s]] = table[clock]
    BY <1>2, <1>3, DeletedIsNone
  <2>5. month' = clock
    BY DEF Restart
  <2> QED
    BY <1>7, <2>3, <2>4, <2>5 DEF QuotaCounterExact
<1>12. KeySlotsExact' /\ KeyLimitHolds'
  <2>1. \A e \in Entries' : {r \in Requests : slot'[r] = e} = {}
    BY <1>2, <1>4 DEF None
  <2>2. \A e \in Entries' : inflight'[e] = 0
    BY <1>3
  <2> QED
    BY <2>1, <2>2, FS_EmptySet DEF KeySlotsExact, KeyLimitHolds
<1>13. RequestsPlaced'
  BY <1>4 DEF RequestsPlaced, Placed
<1>14. EntriesNamed'
  <2>1. \A s \in Secrets : keys'[s] # None => s = row.secret /\ keys'[s] \in Entries'
    BY <1>2, <1>3, DeletedIsNone
  <2>2. \A e \in Entries' : /\ key'[e] = row /\ row.secret \in Secrets
                            /\ row.max \in givenLimits'[row.secret]
    BY <1>2, <1>3
  <2>3. \A s \in Secrets : existing'[s] = None
    BY <1>3 DEF NoKeys
  <2> QED
    BY <2>1, <2>2, <2>3 DEF EntriesNamed
<1>15. ReloadKnowsUsage' /\ RowUnchanged'
  <2>1. phase' = "none" /\ changed' = changed /\ \A h \in Reloads : listing'[h] = NoRow
    BY DEF Restart
  <2>2. ~changed => row.secret # Deleted
    BY DEF IInv, RowUnchanged
  <2>3. row.secret # Deleted => keys'[row.secret] # None
    BY <1>1, <1>3 DEF None
  <2> QED
    BY <1>7, <2>1, <2>2, <2>3 DEF ReloadKnowsUsage, RowUnchanged, Locked
<1> QED
  BY <1>5, <1>6, <1>9, <1>10, <1>11, <1>12, <1>13, <1>14, <1>15 DEF IInv

-----------------------------------------------------------------------------
(* What every behaviour keeps.                                             *)

\* Every step of the gateway keeps the invariant.
LEMMA StepKeeps == IInv /\ [Next]_vars => IInv'
<1> SUFFICES ASSUME IInv, [Next]_vars PROVE IInv'
  OBVIOUS
<1>1. ASSUME NEW r \in Requests, Step(r) PROVE IInv'
  BY <1>1, AuthLookupKeeps, AuthenticateKeeps, CompareMonthKeeps, RollMonthKeeps,
     QuotaLookupKeeps, CheckQuotaKeeps, NoSlotNeededKeeps, SlotLookupKeeps,
     AcquireKeySlotKeeps, AttemptEndsKeeps,
     RecordLookupKeeps, CountKeeps, ReleaseKeeps, RefusedKeeps DEF Step
<1>2. ASSUME NEW m \in Months, Persist(m) PROVE IInv'
  BY <1>2, PersistKeeps
<1>3. CASE ChangeRow
  BY <1>3, ChangeRowKeeps
<1>4. CASE \/ \E h \in Reloads : ListKeys(h) \/ LoadUsage(h)
           \/ ClearMaps \/ FillKeys
  BY <1>4, ListKeysKeeps, LoadUsageKeeps, ClearMapsKeeps, FillKeysKeeps
<1>5. CASE MonthEnds \/ Restart
  BY <1>5, MonthEndsKeeps, RestartKeeps
<1>6. CASE UNCHANGED vars
  <2>1. ServingStays /\ UNCHANGED <<clock, dbVars, reloadVars, pending, bounds, recorded, lost>>
    BY <1>6 DEF vars, ServingStays
  <2>2. Entries' = Entries
    BY <2>1, ServingKeeps
  <2>3. EntriesTyped' /\ ReloadTyped' /\ DatabaseTyped'
    BY <2>1, <2>2 DEF IInv, EntriesTyped, ReloadTyped, DatabaseTyped, EntryOrNone, ServingStays,
       keyVars, dbVars, reloadVars, bounds
  <2>4. /\ DatabaseConserves' /\ QuotaCounterExact' /\ EntriesNamed'
        /\ ReloadKnowsUsage' /\ RowUnchanged'
    BY <2>1, <2>2 DEF IInv, DatabaseConserves, QuotaCounterExact, EntriesNamed,
       ReloadKnowsUsage, RowUnchanged, Locked, ServingStays, keyVars, dbVars, reloadVars, bounds
  <2> QED
    BY <2>1, <2>3, <2>4, ServingKeeps DEF IInv
<1> QED
  BY <1>1, <1>2, <1>3, <1>4, <1>5, <1>6 DEF Next

\* The inductive invariant, which the theorems below are parts of.
THEOREM IInvHolds == Spec => []IInv
<1>1. Init => IInv
  BY InitEstablishes
<1>2. IInv /\ [Next]_vars => IInv'
  BY StepKeeps
<1> QED
  BY <1>1, <1>2, PTL DEF Spec

\* Every variable has its type, and a request beyond Authenticate has a key.
THEOREM TypeCorrect == Spec => []TypeOK
<1>1. IInv => TypeOK
  BY InvTypes
<1> QED
  BY <1>1, IInvHolds, PTL

\* No token RecordUsage counts is written twice, in another month or not at all,
\* but for the ones a failed statement or the end of the process lost.
THEOREM TokensConserved == Spec => []DatabaseConserves
<1>1. IInv => DatabaseConserves
  BY DEF IInv
<1> QED
  BY <1>1, IInvHolds, PTL

\* The counter CheckUsageLimit compares with the quota is the month's tokens,
\* unless a reload or a late month made it drift.
THEOREM CounterIsUsage == Spec => []QuotaCounterExact
<1>1. IInv => QuotaCounterExact
  BY DEF IInv
<1> QED
  BY <1>1, IInvHolds, PTL

\* AcquireKeyConcurrency and its release neither lose nor double a slot of an
\* entry, whatever reloads, rotations and deletions come between, and whatever
\* other entries of the secret they make.
THEOREM SlotsBalance == Spec => []KeySlotsExact
<1>1. IInv => KeySlotsExact
  BY DEF IInv
<1> QED
  BY <1>1, IInvHolds, PTL

\* No entry gives more slots than the largest limit its secret was given, also to
\* requests with a stale key.
THEOREM LimitHolds == Spec => []KeyLimitHolds
<1>1. IInv => KeyLimitHolds
  BY DEF IInv
<1> QED
  BY <1>1, IInvHolds, PTL

\* A valid key is refused only by Authenticate, and only while a reload has
\* emptied the map of groups.
THEOREM ValidKeyAccepted == Spec => UnchangedKeyAccepted
<1> DEFINE Accepted(r) == (~changed /\ secret'[r] = row.secret /\ pc[r] # "invalid") =>
              (pc'[r] = "invalid" => pc[r] = "authenticate" /\ phase = "cleared")
<1>1. IInv /\ [Next]_vars => [\A r \in Requests : Accepted(r)]_vars
  <2> SUFFICES ASSUME IInv, Next, NEW r \in Requests PROVE Accepted(r)
    OBVIOUS
  <2> USE DEF Goto, At, Locked, LookUp, Answered, CaptureMonth, Synced
  <2>1. ~changed /\ ~Locked => keys[row.secret] # None
    BY DEF IInv, RowUnchanged
  <2>2. pc \in [Requests -> Places] /\ secret \in [Requests -> Secrets]
    BY DEF IInv, RequestsTyped
  <2>3. ASSUME NEW q \in Requests, Step(q) PROVE Accepted(r)
    <3>1. CASE AuthLookup(q)
      BY <2>1, <2>2, <3>1 DEF AuthLookup, requestVars
    <3>2. CASE Authenticate(q)
      BY <2>2, <3>2 DEF Authenticate, GroupFound
    <3>3. CASE CompareMonth(q) \/ RollMonth(q)
      BY <2>2, <3>3 DEF CompareMonth, RollMonth
    <3>4. CASE QuotaLookup(q) \/ SlotLookup(q)
      BY <2>1, <2>2, <3>4 DEF QuotaLookup, SlotLookup
    <3>5. CASE NoSlotNeeded(q) \/ AttemptEnds(q) \/ RecordLookup(q)
      BY <2>2, <3>5 DEF NoSlotNeeded, AttemptEnds, RecordLookup
    <3>6. CASE CheckQuota(q) \/ AcquireKeySlot(q)
      BY <2>2, <3>6 DEF CheckQuota, AcquireKeySlot
    <3>7. CASE Count(q) \/ Release(q) \/ Refused(q)
      BY <2>2, <3>7 DEF Count, Release, Refused
    <3> QED
      BY <2>3, <3>1, <3>2, <3>3, <3>4, <3>5, <3>6, <3>7 DEF Step
  <2>4. CASE \E m \in Months : Persist(m)
    BY <2>4 DEF Persist, requestVars
  <2>5. CASE \/ \E h \in Reloads : ListKeys(h) \/ LoadUsage(h)
             \/ ChangeRow \/ ClearMaps \/ FillKeys \/ MonthEnds
    BY <2>5 DEF ChangeRow, ListKeys, LoadUsage, ClearMaps, FillKeys, MonthEnds,
          requestVars
  <2>6. CASE Restart
    BY <2>6 DEF Restart
  <2> QED
    BY <2>3, <2>4, <2>5, <2>6 DEF Next
<1> QED
  BY <1>1, IInvHolds, PTL DEF Spec, UnchangedKeyAccepted
=============================================================================
