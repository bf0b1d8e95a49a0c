------------------------------- MODULE KeyUsage -------------------------------
(***************************************************************************)
(* API keys in the KeyStore (internal/proxy/auth.go): authentication, the  *)
(* monthly quota, the key's own concurrency slots, and usage counted in    *)
(* memory and persisted behind the request's back (RecordUsage), while     *)
(* reloads rebuild the maps, months end and the process restarts.          *)
(*                                                                         *)
(* One key of several: with none in memory the gateway serves without keys *)
(* (HasKeys, auth.go:107). An operator rotates its secret, so requests may *)
(* carry either of several secrets.  An entry of ks.keys is an object, here*)
(* a number, that requests go on using when the map no longer has it.      *)
(* Reloads read the table without a lock, so one that read it early may    *)
(* install an old secret again, with an entry made anew.                   *)
(*                                                                         *)
(* A section under the read lock that makes one read is a step that waits  *)
(* for the write lock to be free.  Everything the code reads outside the   *)
(* lock is a step of its own: entry.Key, ks.groups, the atomic counters.   *)
(***************************************************************************)
EXTENDS Integers, FiniteSets, FiniteSetsExt

CONSTANTS
    Requests,       \* goroutines in ServeHTTP
    Secrets,        \* in the order the key is given them: 1..n
    Limits,         \* values of max_concurrent; 0 or less: unlimited
    Quotas,         \* values of the monthly token limits; 0 or less: none
    Months,         \* 1..n
    Reloads,        \* goroutines in reloadFn
    MaxTokens,      \* bound on tokens recorded
    MaxEvents       \* bound on changes of the key's row, reloads and restarts

ASSUME KeyUsageAssumption ==
    /\ IsFiniteSet(Requests)
    /\ IsFiniteSet(Secrets) /\ Secrets = 1..Cardinality(Secrets) /\ Secrets # {}
    /\ Limits \subseteq Int /\ Limits # {}
    /\ Quotas \subseteq Int /\ Quotas # {}
    /\ IsFiniteSet(Months) /\ Months = 1..Cardinality(Months) /\ Months # {}
    /\ {MaxTokens, MaxEvents} \subseteq Nat

Deleted == 0        \* the secret of a key that is not in the table
Rows == [secret : Secrets \cup {Deleted}, enabled : BOOLEAN, max : Limits, quota : Quotas]

\* No row at all, not even one that was deleted.
NoRow == [secret |-> -1, enabled |-> FALSE, max |-> 0, quota |-> 0]

VARIABLES
    clock,              \* the current month
    row,                \* api_keys: the key's row
    table,              \* api_key_usage: tokens of each month
    keys,               \* ks.keys: of each secret, its entry or None
    made,               \* entries this process made, which are 1..made
    key,                \* keyEntry.Key of every entry
    used,               \* keyEntry.usedInput and usedOutput, taken as one
    inflight,           \* keyEntry.inflight
    month,              \* ks.month
    listing,            \* the row a reload listed and has yet to install
    phase,              \* of the reload that holds the write lock
    listed,             \* the row it listed
    existing,           \* existingKeys
    loaded,             \* the month it is for and its usage, from GetAllUsage
    pc, purpose,        \* of a request: where it is, why it syncs the month
    secret,             \* the secret it came with
    snapshot,           \* the key Authenticate returned
    found,              \* the entry the last lookup found
    slot,               \* the entry releaseKeySlot gives a slot back to, or None
    now,                \* currentMonth() in syncMonth
    pending,            \* of each month: goroutines about to persist a token
    events,             \* changes, reloads and restarts so far
    \* History, read by the properties only.
    recorded,           \* tokens RecordUsage counted, by month
    lost,               \* of these, the ones never persisted
    givenLimits,        \* limits the entries of a secret have had in memory
    drifted,            \* memory's usage misses or exceeds this month's tokens
    changed,            \* the row was changed
    dirty               \* a token was counted since the reload read the usage

dbVars == <<row, table>>
keyVars == <<keys, made, key, givenLimits>>
reloadVars == <<listing, phase, listed, existing, loaded, dirty>>
requestVars == <<pc, purpose, secret, snapshot, found, slot, now>>
bounds == <<events, changed>>
vars == <<clock, dbVars, keyVars, used, inflight, month, reloadVars, requestVars,
          pending, bounds, recorded, lost, drifted>>

Phases == {"none", "loaded", "cleared"}
Places == {"idle", "authenticate", "compare", "roll", "quota", "check", "slot", "acquire",
           "stream", "lookup", "count", "release", "invalid"}

None == 0
Entries == 1..made
NoKeys == [s \in Secrets |-> None]

TypeOK ==
    /\ clock \in Months /\ month \in Months
    /\ row \in Rows /\ listed \in Rows \cup {NoRow}
    /\ listing \in [Reloads -> Rows \cup {NoRow}]
    /\ made \in Nat
    /\ keys \in [Secrets -> Entries \cup {None}] /\ existing \in [Secrets -> Entries \cup {None}]
    /\ key \in [Entries -> Rows]
    /\ used \in [Entries -> Nat]
    /\ inflight \in [Entries -> Nat]
    /\ phase \in Phases
    /\ loaded \in [month : Months, tokens : Nat]
    /\ pc \in [Requests -> Places]
    /\ purpose \in [Requests -> {"check", "record"}]
    /\ secret \in [Requests -> Secrets]
    /\ snapshot \in [Requests -> Rows \cup {NoRow}]
    /\ found \in [Requests -> Entries \cup {None}] /\ slot \in [Requests -> Entries \cup {None}]
    /\ now \in [Requests -> Months]
    /\ table \in [Months -> Nat] /\ pending \in [Months -> Nat]
    /\ recorded \in [Months -> Nat] /\ lost \in [Months -> Nat]
    /\ events \in 0..MaxEvents /\ changed \in BOOLEAN
    /\ givenLimits \in [Secrets -> SUBSET Limits]
    /\ drifted \in BOOLEAN /\ dirty \in BOOLEAN
    \* A request authenticated as a key was given one that exists.
    /\ \A r \in Requests : pc[r] \in {"quota", "slot", "stream"} =>
          snapshot[r].secret = secret[r]

\* The map with one entry more, or another, for the key of a row.
With(map, of, entry) == [map EXCEPT ![of.secret] = entry]
\* A field of the entries, of which one is made or set.
Put(field, entry, value) ==
    [e \in DOMAIN field \cup {entry} |-> IF e = entry THEN value ELSE field[e]]

Init ==
    /\ clock = 1 /\ month = 1
    /\ row \in [secret : {1}, enabled : {TRUE}, max : Limits, quota : Quotas]
    /\ table = [m \in Months |-> 0]
    /\ made = 1 /\ keys = With(NoKeys, row, 1)
    /\ key = [e \in Entries |-> row]
    /\ used = [e \in Entries |-> 0]
    /\ inflight = [e \in Entries |-> 0]
    /\ listing = [h \in Reloads |-> NoRow]
    /\ phase = "none" /\ listed = NoRow /\ existing = NoKeys
    /\ loaded = [month |-> 1, tokens |-> 0]
    /\ pc = [r \in Requests |-> "idle"]
    /\ purpose = [r \in Requests |-> "check"]
    /\ secret = [r \in Requests |-> 1]
    /\ snapshot = [r \in Requests |-> NoRow]
    /\ found = [r \in Requests |-> None] /\ slot = [r \in Requests |-> None]
    /\ now = [r \in Requests |-> 1]
    /\ pending = [m \in Months |-> 0]
    /\ recorded = [m \in Months |-> 0]
    /\ lost = [m \in Months |-> 0]
    /\ events = 0 /\ changed = FALSE
    /\ givenLimits = [s \in Secrets |-> IF s = 1 THEN {row.max} ELSE {}]
    /\ drifted = FALSE /\ dirty = FALSE

Locked == phase # "none"
At(r, place) == pc[r] = place
Goto(r, place) == pc' = [pc EXCEPT ![r] = place]

\* lookupKeyEntry, and the same lookup in Authenticate.
LookUp(r, s, thenGo, elseGo) ==
    /\ found' = [found EXCEPT ![r] = keys[s]]
    /\ Goto(r, IF keys[s] # None THEN thenGo ELSE elseGo)
Forget(r) == found' = [found EXCEPT ![r] = None]

\* The request was answered, and its goroutine is free for another.
Answered(r) ==
    /\ Goto(r, "idle")
    /\ secret' = [secret EXCEPT ![r] = 1]
    /\ snapshot' = [snapshot EXCEPT ![r] = NoRow]
    /\ now' = [now EXCEPT ![r] = 1]
    /\ purpose' = [purpose EXCEPT ![r] = "check"]

\* currentMonth() at the start of syncMonth.
CaptureMonth(r, why) ==
    /\ now' = [now EXCEPT ![r] = clock]
    /\ purpose' = [purpose EXCEPT ![r] = why]
    /\ Goto(r, "compare")

-----------------------------------------------------------------------------
(* Authenticate.                                                           *)

\* Faulty variant: the lookup does not take the lock.
AuthLookupUnlocked(r) ==
    /\ At(r, "idle")
    /\ \E s \in Secrets :
          /\ secret' = [secret EXCEPT ![r] = s]
          /\ LookUp(r, s, "authenticate", "invalid")
    /\ UNCHANGED <<clock, dbVars, keyVars, used, inflight, month, reloadVars, purpose,
                   snapshot, slot, now, pending, bounds, recorded, lost, drifted>>

\* A client sends a request, with any secret the key has or had.
AuthLookup(r) ==
    /\ At(r, "idle") /\ ~Locked
    /\ \E s \in Secrets :
          /\ secret' = [secret EXCEPT ![r] = s]
          /\ LookUp(r, s, "authenticate", "invalid")
    /\ UNCHANGED <<clock, dbVars, keyVars, used, inflight, month, reloadVars, purpose,
                   snapshot, slot, now, pending, bounds, recorded, lost, drifted>>

\* The map of groups, which a reload replaces and then fills.
GroupFound == phase # "cleared"

\* The key and the groups are read after the lock is released.  That the runtime
\* ends the process if it notices a read of the map concurrent to the fill is a
\* Restart at this point.
Authenticate(r) ==
    /\ At(r, "authenticate")
    /\ Forget(r)
    /\ \/ /\ ~key[found[r]].enabled
          /\ Answered(r)
       \/ /\ key[found[r]].enabled /\ ~GroupFound
          /\ Goto(r, "invalid")
          /\ UNCHANGED <<snapshot, purpose, now, secret>>
       \/ /\ key[found[r]].enabled /\ GroupFound
          /\ snapshot' = [snapshot EXCEPT ![r] = key[found[r]]]
          /\ CaptureMonth(r, "check")
          /\ UNCHANGED secret
    /\ UNCHANGED <<clock, dbVars, keyVars, used, inflight, month, reloadVars,
                   slot, pending, bounds, recorded, lost, drifted>>

-----------------------------------------------------------------------------
(* syncMonth, before the quota is checked and before usage is recorded.    *)

Synced(r) == Goto(r, IF purpose[r] = "check" THEN "quota" ELSE "lookup")

CompareMonth(r) ==
    /\ At(r, "compare") /\ ~Locked
    /\ IF now[r] = month THEN Synced(r) ELSE Goto(r, "roll")
    /\ UNCHANGED <<clock, dbVars, keyVars, used, inflight, month, reloadVars, purpose,
                   secret, snapshot, found, slot, now, pending, bounds, recorded, lost, drifted>>

\* Faulty variant: the counters of the month before go on.
ZeroedNever == used

\* The loop over ks.keys.
Zeroed == [e \in Entries |-> IF \E s \in Secrets : keys[s] = e THEN 0 ELSE used[e]]

\* The month the request captured may be over by now, and set back ks.month.
RollMonth(r) ==
    /\ At(r, "roll") /\ ~Locked
    /\ IF month = now[r]
          THEN UNCHANGED <<month, used, drifted>>
          ELSE /\ month' = now[r]
               /\ used' = Zeroed
               /\ drifted' = (recorded[now[r]] > 0)
    /\ Synced(r)
    /\ UNCHANGED <<clock, dbVars, keyVars, inflight, reloadVars, purpose,
                   secret, snapshot, found, slot, now, pending, bounds, recorded, lost>>

-----------------------------------------------------------------------------
(* CheckUsageLimit and AcquireKeyConcurrency, with the key as it was when  *)
(* the request was authenticated.                                          *)

WithinQuota(r) == snapshot[r].quota <= 0 \/ used[found[r]] < snapshot[r].quota

QuotaLookup(r) ==
    /\ At(r, "quota") /\ ~Locked
    /\ LookUp(r, secret[r], "check", "invalid")
    /\ UNCHANGED <<clock, dbVars, keyVars, used, inflight, month, reloadVars, purpose,
                   secret, snapshot, slot, now, pending, bounds, recorded, lost, drifted>>

\* The counters are read when the lock is free again, or taken by a reload.
CheckQuota(r) ==
    /\ At(r, "check")
    /\ Forget(r)
    /\ \/ /\ WithinQuota(r)
          /\ Goto(r, "slot")
          /\ UNCHANGED <<secret, snapshot, now, purpose>>
       \/ /\ ~WithinQuota(r)
          /\ Answered(r)
    /\ UNCHANGED <<clock, dbVars, keyVars, used, inflight, month, reloadVars,
                   slot, pending, bounds, recorded, lost, drifted>>

\* An unlimited key takes no slot.
NoSlotNeeded(r) ==
    /\ At(r, "slot") /\ snapshot[r].max <= 0
    /\ Goto(r, "stream")
    /\ UNCHANGED <<clock, dbVars, keyVars, used, inflight, month, reloadVars, purpose,
                   secret, snapshot, found, slot, now, pending, bounds, recorded, lost, drifted>>

SlotLookup(r) ==
    /\ At(r, "slot") /\ snapshot[r].max > 0 /\ ~Locked
    /\ LookUp(r, secret[r], "acquire", "invalid")
    /\ UNCHANGED <<clock, dbVars, keyVars, used, inflight, month, reloadVars, purpose,
                   secret, snapshot, slot, now, pending, bounds, recorded, lost, drifted>>

\* Faulty variant: the slot is counted before the limit is compared with it.
SlotFreeOffByOne(r) == inflight[found[r]] <= snapshot[r].max

SlotFree(r) == inflight[found[r]] < snapshot[r].max

\* The compare-and-swap that ends the loop, on the entry that was found.
AcquireKeySlot(r) ==
    /\ At(r, "acquire")
    /\ Forget(r)
    /\ \/ /\ ~SlotFree(r)
          /\ Answered(r)
          /\ UNCHANGED <<inflight, slot>>
       \/ /\ SlotFree(r)
          /\ inflight' = [inflight EXCEPT ![found[r]] = @ + 1]
          /\ slot' = [slot EXCEPT ![r] = found[r]]
          /\ Goto(r, "stream")
          /\ UNCHANGED <<secret, snapshot, now, purpose>>
    /\ UNCHANGED <<clock, dbVars, keyVars, used, month, reloadVars,
                   pending, bounds, recorded, lost, drifted>>

-----------------------------------------------------------------------------
(* RecordUsage, after every attempt that reports usage.                    *)

Recording == {r \in Requests : purpose[r] = "record"}
TokensLeft == MapThenSumSet(LAMBDA m : recorded[m], Months) + Cardinality(Recording) < MaxTokens

\* An attempt ends with usage to record, or the last one without.
AttemptEnds(r) ==
    /\ At(r, "stream")
    /\ \/ Goto(r, "release") /\ UNCHANGED <<purpose, now>>
       \/ TokensLeft /\ CaptureMonth(r, "record")
    /\ UNCHANGED <<clock, dbVars, keyVars, used, inflight, month, reloadVars,
                   secret, snapshot, found, slot, pending, bounds, recorded, lost, drifted>>

\* Usage of a secret that was rotated or deleted meanwhile is dropped.
RecordLookup(r) ==
    /\ At(r, "lookup") /\ ~Locked
    /\ LookUp(r, secret[r], "count", "release")
    /\ purpose' = [purpose EXCEPT ![r] = IF keys[secret[r]] # None THEN @ ELSE "check"]
    /\ UNCHANGED <<clock, dbVars, keyVars, used, inflight, month, reloadVars,
                   secret, snapshot, slot, now, pending, bounds, recorded, lost, drifted>>

\* The token belongs to the month and the entry in memory, and no reload will
\* overwrite it.
CountsNow(r) == now[r] = month /\ keys[secret[r]] = found[r] /\ ~Locked

Count(r) ==
    /\ At(r, "count")
    /\ Forget(r)
    /\ used' = [used EXCEPT ![found[r]] = @ + 1]
    /\ pending' = [pending EXCEPT ![now[r]] = @ + 1]
    /\ recorded' = [recorded EXCEPT ![now[r]] = @ + 1]
    /\ drifted' = (drifted \/ ~CountsNow(r))
    /\ dirty' = (dirty \/ Locked)
    \* The attempt succeeded or was the last, or the request fails over.
    /\ \E place \in {"stream", "release"} : Goto(r, place)
    /\ purpose' = [purpose EXCEPT ![r] = "check"]
    /\ now' = [now EXCEPT ![r] = 1]
    /\ UNCHANGED <<clock, dbVars, keyVars, inflight, month, listing, phase, listed, existing,
                   loaded, secret, snapshot, slot, bounds, lost>>

\* Faulty variant: the slot is given back to the entry the map has, if any.
ReleaseByLookup(r) ==
    /\ At(r, "release")
    /\ inflight' = [e \in Entries |-> IF slot[r] # None /\ e = keys[secret[r]]
                                      THEN inflight[e] - 1 ELSE inflight[e]]
    /\ slot' = [slot EXCEPT ![r] = None]
    /\ Answered(r)
    /\ UNCHANGED <<clock, dbVars, keyVars, used, month, reloadVars, found,
                   pending, bounds, recorded, lost, drifted>>

\* The deferred releaseKeySlot, which holds on to its entry.
Release(r) ==
    /\ At(r, "release")
    /\ inflight' = [e \in Entries |-> IF e = slot[r] THEN inflight[e] - 1 ELSE inflight[e]]
    /\ slot' = [slot EXCEPT ![r] = None]
    /\ Answered(r)
    /\ UNCHANGED <<clock, dbVars, keyVars, used, month, reloadVars, found,
                   pending, bounds, recorded, lost, drifted>>

\* ErrInvalidAPIKey was answered.
Refused(r) ==
    /\ At(r, "invalid")
    /\ Answered(r)
    /\ UNCHANGED <<clock, dbVars, keyVars, used, inflight, month, reloadVars,
                   found, slot, pending, bounds, recorded, lost, drifted>>

\* Faulty variant: the token goes to the month it is persisted in.
UpsertLate(m) == [table EXCEPT ![clock] = @ + 1]

\* IncrementUsage's statement, one atomic upsert.
Upsert(m) == [table EXCEPT ![m] = @ + 1]

\* A goroutine of RecordUsage persists its token, or fails within its 5 seconds.
Persist(m) ==
    /\ pending[m] > 0
    /\ pending' = [pending EXCEPT ![m] = @ - 1]
    /\ \/ table' = Upsert(m) /\ UNCHANGED lost
       \/ lost' = [lost EXCEPT ![m] = @ + 1] /\ UNCHANGED table
    /\ UNCHANGED <<clock, row, keyVars, used, inflight, month, reloadVars, requestVars,
                   bounds, recorded, drifted>>

-----------------------------------------------------------------------------
(* The operator changes the key; reloadFn and KeyStore.Reload.             *)

ChangeRow ==
    /\ row.secret # Deleted /\ events < MaxEvents
    /\ events' = events + 1 /\ changed' = TRUE
    /\ \/ row.secret + 1 \in Secrets /\ row' = [row EXCEPT !.secret = @ + 1]
       \/ row' = [row EXCEPT !.secret = Deleted]
       \/ row' = [row EXCEPT !.enabled = ~@]
       \/ \E l \in Limits \ {row.max} : row' = [row EXCEPT !.max = l]
    /\ UNCHANGED <<clock, table, keyVars, used, inflight, month, reloadVars, requestVars,
                   pending, recorded, lost, drifted>>

\* reloadFn lists the keys before it calls Reload, and nothing keeps several
\* from doing so at once.
ListKeys(h) ==
    /\ listing[h] = NoRow /\ events < MaxEvents
    /\ events' = events + 1
    /\ listing' = [listing EXCEPT ![h] = row]
    /\ UNCHANGED <<clock, dbVars, keyVars, used, inflight, month, phase, listed, existing,
                   loaded, dirty, requestVars, pending, changed, recorded, lost, drifted>>

\* Reload gets the lock, in any order.  When the query fails it goes on with no usage.
LoadUsage(h) ==
    /\ phase = "none" /\ listing[h] # NoRow
    /\ phase' = "loaded"
    /\ listed' = listing[h]
    /\ listing' = [listing EXCEPT ![h] = NoRow]
    /\ \/ loaded' = [month |-> clock, tokens |-> table[clock]]
          /\ dirty' = (pending[clock] + lost[clock] > 0)
       \/ /\ loaded' = [month |-> clock, tokens |-> 0]
          /\ dirty' = (recorded[clock] > 0)
    /\ UNCHANGED <<clock, dbVars, keyVars, used, inflight, month, existing, requestVars,
                   pending, bounds, recorded, lost, drifted>>

ClearMaps ==
    /\ phase = "loaded"
    /\ phase' = "cleared"
    /\ existing' = keys
    /\ keys' = NoKeys
    /\ month' = loaded.month
    /\ UNCHANGED <<clock, dbVars, made, key, givenLimits, used, inflight, listing, listed,
                   loaded, dirty, requestVars, pending, bounds, recorded, lost, drifted>>

\* An entry gets the listed key and the usage that was loaded, and its place in
\* the map.
Install(e) ==
    /\ keys' = With(keys, listed, e)
    /\ key' = Put(key, e, listed)
    /\ used' = Put(used, e, loaded.tokens)
    /\ givenLimits' = [givenLimits EXCEPT ![listed.secret] = @ \cup {listed.max}]

\* The key was not in the table.
KeyGone ==
    /\ listed.secret = Deleted
    /\ UNCHANGED <<keyVars, used, inflight>>

\* Faulty variant: the entry that was there starts again with no slots taken.
EntryResets ==
    /\ listed.secret # Deleted /\ existing[listed.secret] # None
    /\ Install(existing[listed.secret])
    /\ inflight' = Put(inflight, existing[listed.secret], 0)
    /\ UNCHANGED made

\* An entry of the map before stays the object it is, with its slots.
EntryStays ==
    /\ listed.secret # Deleted /\ existing[listed.secret] # None
    /\ Install(existing[listed.secret])
    /\ UNCHANGED <<made, inflight>>

\* A secret that was not in the map before gets a new entry, even if requests
\* still hold an earlier one of it.
EntryMade ==
    /\ listed.secret # Deleted /\ existing[listed.secret] = None
    /\ made' = made + 1
    /\ Install(made + 1)
    /\ inflight' = Put(inflight, made + 1, 0)

FillKeys ==
    /\ phase = "cleared"
    /\ phase' = "none"
    /\ KeyGone \/ EntryStays \/ EntryMade
    /\ drifted' = dirty
    /\ dirty' = FALSE
    /\ listed' = NoRow /\ loaded' = [month |-> 1, tokens |-> 0] /\ existing' = NoKeys
    /\ UNCHANGED <<clock, dbVars, month, listing, requestVars,
                   pending, bounds, recorded, lost>>

-----------------------------------------------------------------------------
(* The environment.                                                        *)

MonthEnds ==
    /\ clock + 1 \in Months
    /\ clock' = clock + 1
    /\ UNCHANGED <<dbVars, keyVars, used, inflight, month, reloadVars, requestVars,
                   pending, bounds, recorded, lost, drifted>>

\* The process ends, by a crash, a fatal error or a shutdown, which waits for
\* no goroutine of RecordUsage, and starts again from the database.
Restart ==
    /\ events < MaxEvents
    /\ events' = events + 1
    /\ pending' = [m \in Months |-> 0]
    /\ lost' = [m \in Months |-> lost[m] + pending[m]]
    /\ made' = IF row.secret = Deleted THEN 0 ELSE 1
    /\ keys' = [s \in Secrets |-> IF s = row.secret THEN 1 ELSE None]
    /\ key' = [e \in 1..made' |-> row]
    /\ used' = [e \in 1..made' |-> table[clock]]
    /\ inflight' = [e \in 1..made' |-> 0]
    /\ month' = clock
    /\ phase' = "none" /\ dirty' = FALSE
    /\ listing' = [h \in Reloads |-> NoRow]
    /\ listed' = NoRow /\ loaded' = [month |-> 1, tokens |-> 0] /\ existing' = NoKeys
    /\ pc' = [r \in Requests |-> "idle"]
    /\ found' = [r \in Requests |-> None] /\ slot' = [r \in Requests |-> None]
    /\ givenLimits' = [s \in Secrets |-> IF s = row.secret THEN {row.max} ELSE {}]
    /\ drifted' = (lost'[clock] > 0)
    /\ secret' = [r \in Requests |-> 1]
    /\ snapshot' = [r \in Requests |-> NoRow]
    /\ now' = [r \in Requests |-> 1]
    /\ purpose' = [r \in Requests |-> "check"]
    /\ UNCHANGED <<clock, dbVars, changed, recorded>>

Step(r) ==
    \/ AuthLookup(r) \/ Authenticate(r) \/ CompareMonth(r) \/ RollMonth(r)
    \/ QuotaLookup(r) \/ CheckQuota(r) \/ NoSlotNeeded(r) \/ SlotLookup(r) \/ AcquireKeySlot(r)
    \/ AttemptEnds(r) \/ RecordLookup(r) \/ Count(r) \/ Release(r) \/ Refused(r)

Next ==
    \/ \E r \in Requests : Step(r)
    \/ \E m \in Months : Persist(m)
    \/ \E h \in Reloads : ListKeys(h) \/ LoadUsage(h)
    \/ ChangeRow \/ ClearMaps \/ FillKeys
    \/ MonthEnds \/ Restart

Spec == Init /\ [][Next]_vars

-----------------------------------------------------------------------------
(* Properties.                                                             *)

\* Every token RecordUsage counted is in the table, on its way there, or lost by
\* a failed statement or the end of the process; none is written twice or in
\* another month (auth.go:228, apikey_repo.go:151).
DatabaseConserves == \A m \in Months : table[m] + pending[m] + lost[m] = recorded[m]

\* The counter the quota is compared with is this month's tokens: it is wrong
\* only after a reload or restart read the table while tokens were not in it,
\* or a month that a request captured was over when it used it; and the next
\* reload that reads them all puts it right (auth.go:273, 338).
QuotaCounterExact ==
    ~Locked /\ ~drifted =>
        \A s \in Secrets : keys[s] # None => used[keys[s]] = recorded[month]

\* What an entry counts are the requests that hold a slot of it, also when the
\* map has lost it: reloads, rotation, deletion and another entry of the same
\* secret neither lose nor double a slot (auth.go:172).
KeySlotsExact ==
    \A e \in Entries : inflight[e] = Cardinality({r \in Requests : slot[r] = e})

\* Requests holding slots of one entry never exceed the largest limit its secret
\* has had: a stale key a request still holds cannot exceed it (auth.go:178).
\* The requests of a secret may: see KeyMaxConcurrent.
KeyLimitHolds ==
    \A e \in Entries :
        inflight[e] > 0 => \E l \in givenLimits[key[e].secret] : inflight[e] <= l

HoldingSlots(s) == {r \in Requests : slot[r] # None /\ secret[r] = s}

\* Violated: requests holding slots of one secret never exceed the largest limit
\* it has had (docs/admin-api.md:438).  A reload that listed the secret before a
\* rotation and installs it after the rotation's makes the secret a new entry,
\* which does not count the requests of the old one (auth.go:348).
KeyMaxConcurrent ==
    \A s \in Secrets : HoldingSlots(s) # {} =>
        \E l \in givenLimits[s] : Cardinality(HoldingSlots(s)) <= l

\* A key nobody changed is refused as invalid only by a reload that has emptied
\* the map of groups and not filled it yet, which Authenticate reads without the
\* lock (auth.go:133).
UnchangedKeyAccepted ==
    [][\A r \in Requests :
          (~changed /\ secret'[r] = row.secret /\ pc[r] # "invalid") =>
              (pc'[r] = "invalid" => pc[r] = "authenticate" /\ phase = "cleared")]_vars
=============================================================================
