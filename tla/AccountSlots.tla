----------------------------- MODULE AccountSlots -----------------------------
(***************************************************************************)
(* The two counters every upstream attempt moves up and down: the account  *)
(* semaphore of the KeyStore (internal/proxy/auth.go), which enforces      *)
(* max_concurrent, and the inflight counter of the Router                  *)
(* (internal/router/router.go), which least_connections compares.          *)
(*                                                                         *)
(* Both live in maps that a reload rebuilds while attempts are under way,  *)
(* keeping the object of an account that stays and dropping that of an     *)
(* account that goes.  What goroutines share are the objects, so objects   *)
(* have identities: object n of account a, and a map holds the number of   *)
(* the current one, None if the account is not in the map.  A number is    *)
(* reused once neither map nor attempt refers to it.  An attempt keeps the *)
(* semaphore it acquired, but looks the inflight counter up again, by      *)
(* account ID, when it ends.                                               *)
(*                                                                         *)
(* semaphore.limit is written under the store's lock and read without it,  *)
(* so every read of it, and every atomic operation, is a step of its own.  *)
(***************************************************************************)
EXTENDS Integers, FiniteSets

CONSTANTS
    Attempts,       \* goroutines in the attempt loop of ServeHTTP
    Accounts,
    Limits,         \* values max_concurrent is given; 0 or less: unlimited
    MaxReloads      \* bound on reloads of each component

ASSUME SlotsAssumption ==
    /\ IsFiniteSet(Attempts)
    /\ Limits \subseteq Int
    /\ MaxReloads \in Nat

\* The current object of an account, and one per attempt that is behind.
Objects == 1..(Cardinality(Attempts) + 1)
None == 0

VARIABLES
    accountSems,        \* KeyStore: number of each account's semaphore
    limit,              \* semaphore.limit, of every object
    semInflight,        \* semaphore.inflight, of every object
    accounts,           \* Router: the accounts it may select
    inflightCounts,     \* Router: number of each account's counter
    counter,            \* the value of every counter
    pc, account,        \* of an attempt: where it is, the selected account
    sem, counted,       \* the semaphore it releases; whether it counted it
    seen,               \* s.inflight.Load() in Acquire
    cnt,                \* the counter it is about to change
    reloads,            \* reloads so far, of each component
    \* History, read by the properties only.
    limitsGiven,        \* limits each semaphore has had
    grantedSince,       \* attempts granted since the limit last changed
    orphaned            \* accounts the router dropped with attempts on them

semVars == <<accountSems, limit, semInflight, limitsGiven, grantedSince>>
routerVars == <<accounts, inflightCounts, counter, orphaned>>
attemptVars == <<pc, account, sem, counted, seen, cnt>>
vars == <<semVars, routerVars, attemptVars, reloads>>

Places == {"idle", "lookup", "checkLimit", "acquire", "load", "compare", "cas",
           "incLookup", "incAdd", "stream", "decLookup", "decAdd", "release"}

Refs == {None} \cup Objects

TypeOK ==
    /\ accountSems \in [Accounts -> Refs]
    /\ limit \in [Accounts -> [Objects -> Int]]
    /\ semInflight \in [Accounts -> [Objects -> Int]]
    /\ accounts \subseteq Accounts
    /\ inflightCounts \in [Accounts -> Refs]
    /\ counter \in [Accounts -> [Objects -> Int]]
    /\ pc \in [Attempts -> Places]
    /\ account \in [Attempts -> Accounts]
    /\ sem \in [Attempts -> Refs]
    /\ counted \in [Attempts -> BOOLEAN]
    /\ seen \in [Attempts -> Int]
    /\ cnt \in [Attempts -> Refs]
    \* No nil pointer is followed.
    /\ \A r \in Attempts :
          /\ pc[r] \in {"checkLimit", "acquire", "load", "compare", "cas"} => sem[r] # None
          /\ pc[r] \in {"incAdd", "decAdd"} => cnt[r] # None
    /\ reloads \in [{"router", "keystore"} -> 0..MaxReloads]
    /\ limitsGiven \in [Accounts -> [Objects -> SUBSET Limits]]
    /\ grantedSince \subseteq Attempts
    /\ orphaned \subseteq Accounts

-----------------------------------------------------------------------------
(* NewKeyStoreFromData and New with every account configured.              *)

Init ==
    /\ accountSems = [a \in Accounts |-> 1]
    /\ \E l \in [Accounts -> Limits] :
          /\ limit = [a \in Accounts |-> [n \in Objects |-> IF n = 1 THEN l[a] ELSE 0]]
          /\ limitsGiven = [a \in Accounts |->
                              [n \in Objects |-> IF n = 1 THEN {l[a]} ELSE {}]]
    /\ semInflight = [a \in Accounts |-> [n \in Objects |-> 0]]
    /\ accounts = Accounts
    /\ inflightCounts = [a \in Accounts |-> 1]
    /\ counter = [a \in Accounts |-> [n \in Objects |-> 0]]
    /\ pc = [r \in Attempts |-> "idle"]
    /\ account \in [Attempts -> Accounts]
    /\ sem = [r \in Attempts |-> None]
    /\ counted = [r \in Attempts |-> FALSE]
    /\ seen = [r \in Attempts |-> 0]
    /\ cnt = [r \in Attempts |-> None]
    /\ reloads = [c \in {"router", "keystore"} |-> 0]
    /\ grantedSince = {}
    /\ orphaned = {}

At(r, place) == pc[r] = place
Goto(r, place) == pc' = [pc EXCEPT ![r] = place]

-----------------------------------------------------------------------------
(* AcquireAccountConcurrency and semaphore.Acquire.                        *)

\* The router selected account a.
Select(r, a) ==
    /\ At(r, "idle") /\ a \in accounts
    /\ account' = [account EXCEPT ![r] = a]
    /\ Goto(r, "lookup")
    /\ UNCHANGED <<semVars, routerVars, sem, counted, seen, cnt, reloads>>

\* Faulty variant: an account without semaphore is not told apart.
LookupSemUnchecked(r) ==
    /\ At(r, "lookup")
    /\ sem' = [sem EXCEPT ![r] = accountSems[account[r]]]
    /\ Goto(r, "checkLimit")
    /\ UNCHANGED <<semVars, routerVars, account, counted, seen, cnt, reloads>>

LookupSem(r) ==
    /\ At(r, "lookup")
    /\ sem' = [sem EXCEPT ![r] = accountSems[account[r]]]
    /\ Goto(r, IF accountSems[account[r]] = None THEN "incLookup" ELSE "checkLimit")
    /\ UNCHANGED <<semVars, routerVars, account, counted, seen, cnt, reloads>>

LimitOf(r) == limit[account[r]][sem[r]]

\* An unlimited account is granted with a release that does nothing.
CheckLimit(r) ==
    /\ At(r, "checkLimit")
    /\ IF LimitOf(r) <= 0
       THEN sem' = [sem EXCEPT ![r] = None] /\ Goto(r, "incLookup")
       ELSE Goto(r, "acquire") /\ UNCHANGED sem
    /\ UNCHANGED <<semVars, routerVars, account, counted, seen, cnt, reloads>>

\* Acquire reads the limit again.  If it has become unlimited since, the slot
\* is granted without being counted, and will be released all the same.
AcquireStart(r) ==
    /\ At(r, "acquire")
    /\ Goto(r, IF LimitOf(r) <= 0 THEN "incLookup" ELSE "load")
    /\ UNCHANGED <<semVars, routerVars, account, sem, counted, seen, cnt, reloads>>

Load(r) ==
    /\ At(r, "load")
    /\ seen' = [seen EXCEPT ![r] = semInflight[account[r]][sem[r]]]
    /\ Goto(r, "compare")
    /\ UNCHANGED <<semVars, routerVars, account, sem, counted, cnt, reloads>>

\* Faulty variant: one slot more than the limit.
SlotFreeOffByOne(r) == seen[r] <= LimitOf(r)

SlotFree(r) == seen[r] < LimitOf(r)

\* No slot: ErrConcurrencyLimit, and the attempt loop goes on without it.
Compare(r) ==
    /\ At(r, "compare")
    /\ IF SlotFree(r)
       THEN Goto(r, "cas") /\ UNCHANGED <<sem, seen>>
       ELSE /\ Goto(r, "idle")
            /\ sem' = [sem EXCEPT ![r] = None]
            /\ seen' = [seen EXCEPT ![r] = 0]
    /\ UNCHANGED <<semVars, routerVars, account, counted, cnt, reloads>>

\* Faulty variant: a plain store where the code compares and swaps.
CasUnchecked(r) ==
    /\ At(r, "cas")
    /\ semInflight' = [semInflight EXCEPT ![account[r]][sem[r]] = seen[r] + 1]
    /\ counted' = [counted EXCEPT ![r] = TRUE]
    /\ grantedSince' = grantedSince \cup {r}
    /\ Goto(r, "incLookup")
    /\ seen' = [seen EXCEPT ![r] = 0]
    /\ UNCHANGED <<accountSems, limit, limitsGiven, routerVars, account, sem, cnt, reloads>>

Cas(r) ==
    /\ At(r, "cas")
    /\ IF semInflight[account[r]][sem[r]] = seen[r]
       THEN /\ semInflight' = [semInflight EXCEPT ![account[r]][sem[r]] = seen[r] + 1]
            /\ counted' = [counted EXCEPT ![r] = TRUE]
            /\ grantedSince' = grantedSince \cup {r}
            /\ Goto(r, "incLookup")
       ELSE Goto(r, "load") /\ UNCHANGED <<semInflight, counted, grantedSince>>
    /\ seen' = [seen EXCEPT ![r] = 0]
    /\ UNCHANGED <<accountSems, limit, limitsGiven, routerVars, account, sem, cnt, reloads>>

-----------------------------------------------------------------------------
(* IncrementInflight, the attempt, and releaseInflight.                    *)

\* A number that no attempt on the account refers to, for an account the map
\* has no object of.
Unused(a, refs) ==
    CHOOSE n \in Objects : \A r \in Attempts : account[r] = a => refs[r] # n

\* getOrCreateInflightCounter.
IncLookup(r) ==
    LET a == account[r]
        n == IF inflightCounts[a] # None THEN inflightCounts[a] ELSE Unused(a, cnt)
    IN  /\ At(r, "incLookup")
        /\ cnt' = [cnt EXCEPT ![r] = n]
        /\ counter' = [counter EXCEPT ![a][n] = IF inflightCounts[a] # None THEN @ ELSE 0]
        /\ inflightCounts' = [inflightCounts EXCEPT ![a] = n]
        /\ Goto(r, "incAdd")
        /\ UNCHANGED <<semVars, accounts, orphaned, account, sem, counted, seen, reloads>>

IncAdd(r) ==
    /\ At(r, "incAdd")
    /\ counter' = [counter EXCEPT ![account[r]][cnt[r]] = @ + 1]
    /\ cnt' = [cnt EXCEPT ![r] = None]
    /\ Goto(r, "stream")
    /\ UNCHANGED <<semVars, accounts, inflightCounts, orphaned, account, sem, counted, seen, reloads>>

\* The provider call and its retries end, in whichever way.
StreamEnds(r) ==
    /\ At(r, "stream")
    /\ Goto(r, "decLookup")
    /\ UNCHANGED <<semVars, routerVars, account, sem, counted, seen, cnt, reloads>>

\* DecrementInflight finds the counter by account ID, if there is one.
DecLookup(r) ==
    /\ At(r, "decLookup")
    /\ cnt' = [cnt EXCEPT ![r] = inflightCounts[account[r]]]
    /\ Goto(r, IF inflightCounts[account[r]] = None THEN "release" ELSE "decAdd")
    /\ UNCHANGED <<semVars, routerVars, account, sem, counted, seen, reloads>>

DecAdd(r) ==
    /\ At(r, "decAdd")
    /\ counter' = [counter EXCEPT ![account[r]][cnt[r]] = @ - 1]
    /\ cnt' = [cnt EXCEPT ![r] = None]
    /\ Goto(r, "release")
    /\ UNCHANGED <<semVars, accounts, inflightCounts, orphaned, account, sem, counted, seen, reloads>>

Release(r) ==
    /\ At(r, "release")
    /\ IF sem[r] = None
       THEN UNCHANGED semInflight
       ELSE semInflight' = [semInflight EXCEPT ![account[r]][sem[r]] = @ - 1]
    /\ sem' = [sem EXCEPT ![r] = None]
    /\ counted' = [counted EXCEPT ![r] = FALSE]
    /\ grantedSince' = grantedSince \ {r}
    /\ Goto(r, "idle")
    /\ UNCHANGED <<accountSems, limit, limitsGiven, routerVars, account, seen, cnt, reloads>>

-----------------------------------------------------------------------------
(* Reload of the KeyStore and of the Router.  reloadFn calls them one      *)
(* after the other, and several reloads may overlap, so each comes with    *)
(* accounts of its own: present with a new limit, or gone.                 *)

CountReload(component) ==
    /\ reloads[component] < MaxReloads
    /\ reloads' = [reloads EXCEPT ![component] = @ + 1]

\* Semaphores of accounts that stay are kept and get the new limit.
KeyStoreReload(present, newLimit) ==
    LET kept(a) == a \in present /\ accountSems[a] # None
        new(a) == a \in present /\ accountSems[a] = None
        num(a) == IF new(a) THEN Unused(a, sem) ELSE accountSems[a]
    IN  /\ CountReload("keystore")
        /\ accountSems' = [a \in Accounts |-> IF a \in present THEN num(a) ELSE None]
        /\ limit' = [a \in Accounts |-> [n \in Objects |->
                        IF a \in present /\ n = num(a) THEN newLimit[a] ELSE limit[a][n]]]
        /\ semInflight' = [a \in Accounts |-> [n \in Objects |->
                              IF new(a) /\ n = num(a) THEN 0 ELSE semInflight[a][n]]]
        /\ limitsGiven' = [a \in Accounts |-> [n \in Objects |->
                              CASE new(a) /\ n = num(a) -> {newLimit[a]}
                                [] kept(a) /\ n = num(a) -> limitsGiven[a][n] \cup {newLimit[a]}
                                [] OTHER -> limitsGiven[a][n]]]
        /\ grantedSince' = {r \in grantedSince :
              LET a == account[r]
              IN  kept(a) /\ sem[r] = accountSems[a] /\ newLimit[a] = limit[a][sem[r]]}
        /\ UNCHANGED <<routerVars, attemptVars>>

\* Attempts that have looked the account's counter up and not yet lowered it.
Underway(a) ==
    {r \in Attempts : account[r] = a /\ pc[r] \in {"incAdd", "stream", "decLookup", "decAdd"}}

\* Faulty variant: every account gets a new counter.
StartsAtZeroAlways(a, present) == a \in present

\* The router has no counter of the account yet.
StartsAtZero(a, present) == a \in present /\ inflightCounts[a] = None

\* Counters of accounts that stay are kept; the others start at zero.
RouterReload(present) ==
    LET new(a) == StartsAtZero(a, present)
        num(a) == IF new(a) THEN Unused(a, cnt) ELSE inflightCounts[a]
    IN  /\ CountReload("router")
        /\ accounts' = present
        /\ inflightCounts' = [a \in Accounts |-> IF a \in present THEN num(a) ELSE None]
        /\ counter' = [a \in Accounts |-> [n \in Objects |->
                          IF new(a) /\ n = num(a) THEN 0 ELSE counter[a][n]]]
        /\ orphaned' = orphaned \cup {a \in Accounts \ present : Underway(a) # {}}
        /\ UNCHANGED <<semVars, attemptVars>>

-----------------------------------------------------------------------------
Step(r) ==
    \/ LookupSem(r) \/ CheckLimit(r) \/ AcquireStart(r)
    \/ Load(r) \/ Compare(r) \/ Cas(r)
    \/ IncLookup(r) \/ IncAdd(r) \/ StreamEnds(r)
    \/ DecLookup(r) \/ DecAdd(r) \/ Release(r)

Next ==
    \/ \E r \in Attempts : Step(r) \/ \E a \in Accounts : Select(r, a)
    \/ \E present \in SUBSET Accounts :
          \/ RouterReload(present)
          \/ \E l \in [Accounts -> Limits] : KeyStoreReload(present, l)

Spec == Init /\ [][Next]_vars

-----------------------------------------------------------------------------
(* Properties.                                                             *)

Holders(a, n) == {r \in Attempts : account[r] = a /\ sem[r] = n /\ counted[r]}

AlwaysLimited(a, n) == \A l \in limitsGiven[a][n] : l > 0

\* A semaphore that has never been unlimited counts exactly the attempts that
\* hold one of its slots, through concurrent CAS loops, refusals, reloads,
\* deletion and re-creation of the account: no slot leaks, none is freed twice.
SlotsExact ==
    \A a \in Accounts, n \in Objects :
        AlwaysLimited(a, n) => semInflight[a][n] = Cardinality(Holders(a, n))

\* Such a semaphore never has more holders than the largest limit it was given.
WithinLargestLimit ==
    \A a \in Accounts, n \in Objects :
        AlwaysLimited(a, n) /\ Holders(a, n) # {} =>
            \E l \in limitsGiven[a][n] : Cardinality(Holders(a, n)) <= l

\* The counter least_connections compares is the number of attempts in
\* progress on the account, unless the account was dropped under an attempt.
CounterExact ==
    \A a \in Accounts \ orphaned :
        inflightCounts[a] # None =>
            counter[a][inflightCounts[a]] =
                Cardinality({r \in Attempts : /\ account[r] = a
                                              /\ pc[r] \in {"stream", "decLookup", "decAdd"}})

\* docs/admin-api.md:73 has max_concurrent as the upper bound on concurrency:
\* of the attempts granted since an account's limit last changed, no more than
\* the limit are in progress at once.
MaxConcurrentRespected ==
    \A a \in Accounts :
        LET n == accountSems[a]
        IN  n # None /\ limit[a][n] > 0 =>
              Cardinality({r \in grantedSince : account[r] = a /\ sem[r] = n}) <= limit[a][n]

=============================================================================
