-------------------------- MODULE AccountSlotsProofs --------------------------
(***************************************************************************)
(* What holds of the two counters of an account for any number of attempts,*)
(* accounts, limits and reloads.                                           *)
(***************************************************************************)
EXTENDS AccountSlots, FiniteSetTheorems, TLAPS

-----------------------------------------------------------------------------
(* The inductive invariant.                                                *)

\* From the grant of a slot to its release.
Granted == {"incLookup", "incAdd", "stream", "decLookup", "decAdd", "release"}

\* Where an attempt refers to the semaphore it asked.
Asking == {"checkLimit", "acquire", "load", "compare", "cas"}

\* A semaphore in the map, or one an attempt refers to, has been given limits,
\* and has one of them.
LimitWasGiven ==
    /\ \A a \in Accounts, n \in Objects :
          limitsGiven[a][n] # {} => limit[a][n] \in limitsGiven[a][n]
    /\ \A a \in Accounts : accountSems[a] # None => limitsGiven[a][accountSems[a]] # {}
    /\ \A r \in Attempts : sem[r] # None => limitsGiven[account[r]][sem[r]] # {}

\* An attempt that goes on with a semaphore has counted its slot, or the
\* semaphore was unlimited when it asked.
SlotCounted ==
    \A r \in Attempts :
        /\ sem[r] # None => pc[r] \in Asking \cup Granted
        /\ counted[r] => sem[r] # None /\ pc[r] \in Granted
        /\ sem[r] # None /\ pc[r] \in Granted /\ AlwaysLimited(account[r], sem[r]) => counted[r]

\* What the CAS is about to swap in is within a limit the semaphore was given.
SeenBelowLimit ==
    \A r \in Attempts :
        pc[r] = "cas" => \E l \in limitsGiven[account[r]][sem[r]] : seen[r] < l

\* An account that was never dropped under an attempt has a counter as long as
\* an attempt is in progress on it, and that is the counter the attempt changes.
CounterKept ==
    \A r \in Attempts :
        account[r] \notin orphaned =>
            /\ r \in Underway(account[r]) => inflightCounts[account[r]] # None
            /\ pc[r] \in {"incAdd", "decAdd"} => cnt[r] = inflightCounts[account[r]]

IInv ==
    /\ TypeOK
    /\ SlotsExact
    /\ WithinLargestLimit
    /\ CounterExact
    /\ LimitWasGiven
    /\ SlotCounted
    /\ SeenBelowLimit
    /\ CounterKept

\* The attempts the counter of account a counts.
InProgress(a) == {r \in Attempts : account[r] = a /\ pc[r] \in {"stream", "decLookup", "decAdd"}}

-----------------------------------------------------------------------------
(* Facts about the operators.                                              *)

\* There is an object more than attempts, so that one is left for an account
\* whose object the map has dropped (auth.go:294, router.go:163).
LEMMA UnusedIsUnused ==
    ASSUME NEW a, NEW refs
    PROVE  /\ Unused(a, refs) \in Objects
           /\ \A r \in Attempts : account[r] = a => refs[r] # Unused(a, refs)
<1>1. \E n \in Objects : \A r \in Attempts : account[r] = a => refs[r] # n
  <2> SUFFICES ASSUME \A n \in Objects : \E r \in Attempts : refs[r] = n PROVE FALSE
    OBVIOUS
  <2> DEFINE f == [n \in Objects |-> CHOOSE r \in Attempts : refs[r] = n]
  <2>1. f \in [Objects -> Attempts] /\ \A n \in Objects : refs[f[n]] = n
    OBVIOUS
  <2>2. IsFiniteSet(Attempts) /\ Cardinality(Attempts) \in Nat
    BY SlotsAssumption, FS_CardinalityType
  <2>3. IsFiniteSet(Objects) /\ Cardinality(Objects) = Cardinality(Attempts) + 1
    BY <2>2, FS_Interval DEF Objects
  <2> HIDE DEF f
  <2>4. \E m, n \in Objects : m # n /\ f[m] = f[n]
    BY <2>1, <2>2, <2>3, FS_PigeonHole
  <2> QED
    BY <2>1, <2>4
<1> QED
  BY <1>1 DEF Unused

\* The attempts that hold a slot are finitely many.
LEMMA HoldersFinite == \A a, n : IsFiniteSet(Holders(a, n))
BY SlotsAssumption, FS_Subset DEF Holders

\* A finite set with one more element, or without one of its elements.
LEMMA OneMore == ASSUME NEW S, IsFiniteSet(S), NEW x, x \notin S
                 PROVE  Cardinality(S \cup {x}) = Cardinality(S) + 1
BY FS_AddElement

\* The same when one element leaves.
LEMMA OneLess == ASSUME NEW S, IsFiniteSet(S), NEW x \in S
                 PROVE  Cardinality(S \ {x}) = Cardinality(S) - 1
BY FS_RemoveElement

\* The attempts in progress on an account are finitely many.
LEMMA InProgressFinite == \A a : IsFiniteSet(InProgress(a))
BY SlotsAssumption, FS_Subset DEF InProgress

\* The counter the router finds is the number of attempts in progress.
LEMMA CounterOfAccount ==
    ASSUME CounterExact, NEW a \in Accounts, a \notin orphaned, inflightCounts[a] # None
    PROVE  counter[a][inflightCounts[a]] = Cardinality(InProgress(a))
BY DEF CounterExact, InProgress

\* Whoever holds a slot keeps it, and no semaphore changes.
LEMMA SlotsKept ==
    ASSUME SlotsExact, WithinLargestLimit, UNCHANGED <<semInflight, limitsGiven, counted>>,
           \A q \in Attempts : counted[q] => account'[q] = account[q] /\ sem'[q] = sem[q]
    PROVE  SlotsExact' /\ WithinLargestLimit'
<1>1. \A a \in Accounts, n \in Objects : Holders(a, n)' = Holders(a, n)
  BY DEF Holders
<1>2. \A a \in Accounts, n \in Objects : AlwaysLimited(a, n)' = AlwaysLimited(a, n)
  BY DEF AlwaysLimited
<1> QED
  BY <1>1, <1>2 DEF SlotsExact, WithinLargestLimit

\* The counters of the router change neither by themselves nor by the attempts
\* they count.
LEMMA CountersKept ==
    ASSUME CounterExact, CounterKept, UNCHANGED <<inflightCounts, counter, orphaned, cnt>>,
           \A q \in Attempts :
              /\ \/ account'[q] = account[q]
                 \/ pc'[q] \notin {"incAdd", "stream", "decLookup", "decAdd"}
                    /\ pc[q] \notin {"incAdd", "stream", "decLookup", "decAdd"}
              /\ pc'[q] \in {"stream", "decLookup", "decAdd"} <=>
                    pc[q] \in {"stream", "decLookup", "decAdd"}
              /\ pc'[q] = "incAdd" <=> pc[q] = "incAdd"
              /\ pc'[q] = "decAdd" => pc[q] = "decAdd"
    PROVE  CounterExact' /\ CounterKept'
<1>1. \A a \in Accounts : InProgress(a)' = InProgress(a)
  BY DEF InProgress
<1>2. CounterExact'
  BY <1>1 DEF CounterExact, InProgress
<1>3. CounterKept'
  BY DEF CounterKept, Underway
<1> QED
  BY <1>2, <1>3

\* A semaphore or a counter has been written.
LEMMA ObjectUpdated ==
    ASSUME NEW f \in [Accounts -> [Objects -> Int]], NEW a \in Accounts, NEW n \in Objects,
           NEW v \in Int
    PROVE  [f EXCEPT ![a][n] = v] \in [Accounts -> [Objects -> Int]]
OBVIOUS

\* Attempt r has taken a slot of object n of account a.
LEMMA SlotTaken ==
    ASSUME SlotsExact, WithinLargestLimit, TypeOK,
           NEW r \in Attempts, NEW a \in Accounts, NEW n \in Objects,
           account[r] = a, sem[r] = n, ~counted[r],
           UNCHANGED <<account, sem, limitsGiven>>,
           counted' = [counted EXCEPT ![r] = TRUE],
           semInflight' = [semInflight EXCEPT ![a][n] = @ + 1],
           \E l \in limitsGiven[a][n] : semInflight[a][n] < l
    PROVE  SlotsExact' /\ WithinLargestLimit'
<1>1. \A b, m : AlwaysLimited(b, m)' = AlwaysLimited(b, m)
  BY DEF AlwaysLimited
<1>2. Holders(a, n)' = Holders(a, n) \cup {r} /\ r \notin Holders(a, n)
  BY DEF Holders, TypeOK
<1>3. Cardinality(Holders(a, n)') = Cardinality(Holders(a, n)) + 1
  BY <1>2, HoldersFinite, OneMore
<1>4. semInflight'[a][n] = semInflight[a][n] + 1
  BY DEF TypeOK
<1>5. \A b \in Accounts, m \in Objects :
         b # a \/ m # n => /\ semInflight'[b][m] = semInflight[b][m]
                           /\ Holders(b, m)' = Holders(b, m)
  BY DEF Holders, TypeOK
<1>6. SlotsExact'
  BY <1>1, <1>3, <1>4, <1>5 DEF SlotsExact
<1>7. WithinLargestLimit'
  <2> SUFFICES ASSUME NEW b \in Accounts, NEW m \in Objects,
                      AlwaysLimited(b, m)', Holders(b, m)' # {}
               PROVE  \E l \in limitsGiven'[b][m] : Cardinality(Holders(b, m)') <= l
    BY DEF WithinLargestLimit
  <2>1. CASE b # a \/ m # n
    BY <1>1, <1>5, <2>1 DEF WithinLargestLimit
  <2>2. CASE b = a /\ m = n
    <3>1. Cardinality(Holders(a, n)') = semInflight[a][n] + 1
      BY <1>1, <1>3, <2>2 DEF SlotsExact
    <3>2. PICK l \in limitsGiven[a][n] : semInflight[a][n] < l
      OBVIOUS
    <3>3. l \in Int /\ semInflight[a][n] \in Int
      BY SlotsAssumption DEF TypeOK
    <3> QED
      BY <2>2, <3>1, <3>2, <3>3
  <2> QED
    BY <2>1, <2>2
<1> QED
  BY <1>6, <1>7

\* Attempt r has given back the slot it took of object n of account a, if it
\* counted one.
LEMMA SlotFreed ==
    ASSUME SlotsExact, WithinLargestLimit, TypeOK,
           NEW r \in Attempts, NEW a \in Accounts, NEW n \in Objects,
           account[r] = a, sem[r] = n,
           AlwaysLimited(a, n) => counted[r],
           UNCHANGED <<account, limitsGiven>>,
           counted' = [counted EXCEPT ![r] = FALSE],
           sem' = [sem EXCEPT ![r] = None],
           semInflight' = [semInflight EXCEPT ![a][n] = @ - 1]
    PROVE  SlotsExact' /\ WithinLargestLimit'
<1>1. \A b, m : AlwaysLimited(b, m)' = AlwaysLimited(b, m)
  BY DEF AlwaysLimited
<1>2. Holders(a, n)' = Holders(a, n) \ {r} /\ (counted[r] => r \in Holders(a, n))
  BY DEF Holders, TypeOK
<1>3. counted[r] => Cardinality(Holders(a, n)') = Cardinality(Holders(a, n)) - 1
  BY <1>2, HoldersFinite, OneLess
<1>4. semInflight'[a][n] = semInflight[a][n] - 1
  BY DEF TypeOK
<1>5. \A b \in Accounts, m \in Objects :
         b # a \/ m # n => /\ semInflight'[b][m] = semInflight[b][m]
                           /\ Holders(b, m)' = Holders(b, m)
  BY DEF Holders, TypeOK, None, Objects
<1>6. SlotsExact'
  BY <1>1, <1>3, <1>4, <1>5 DEF SlotsExact
<1>7. WithinLargestLimit'
  <2> SUFFICES ASSUME NEW b \in Accounts, NEW m \in Objects,
                      AlwaysLimited(b, m)', Holders(b, m)' # {}
               PROVE  \E l \in limitsGiven'[b][m] : Cardinality(Holders(b, m)') <= l
    BY DEF WithinLargestLimit
  <2>1. CASE b # a \/ m # n
    BY <1>1, <1>5, <2>1 DEF WithinLargestLimit
  <2>2. CASE b = a /\ m = n
    <3>1. Holders(a, n) # {}
      BY <1>2, <2>2
    <3>2. PICK l \in limitsGiven[a][n] : Cardinality(Holders(a, n)) <= l
      BY <1>1, <2>2, <3>1 DEF WithinLargestLimit
    <3>3. l \in Int
      BY SlotsAssumption DEF TypeOK
    <3>4. Cardinality(Holders(a, n)) \in Nat
      BY HoldersFinite, FS_CardinalityType
    <3>5. Cardinality(Holders(a, n)') <= l
      BY <1>1, <1>3, <2>2, <3>2, <3>3, <3>4
    <3> QED
      BY <2>2, <3>5
  <2> QED
    BY <2>1, <2>2
<1> QED
  BY <1>6, <1>7

-----------------------------------------------------------------------------
(* Every step keeps the invariant.                                         *)

\* An attempt that selects an account holds no slot.
LEMMA SelectKeeps == ASSUME IInv, NEW r \in Attempts, NEW a \in Accounts, Select(r, a) PROVE IInv'
<1> USE DEF IInv, TypeOK, Places, Refs, None, At, Goto, semVars, routerVars, attemptVars,
      Select
<1>1. TypeOK'
  OBVIOUS
<1>2. SlotsExact' /\ WithinLargestLimit'
  BY SlotsKept DEF SlotCounted, Asking, Granted
<1>3. CounterExact' /\ CounterKept'
  BY CountersKept
<1>4. LimitWasGiven' /\ SlotCounted' /\ SeenBelowLimit'
  BY DEF LimitWasGiven, SlotCounted, SeenBelowLimit, AlwaysLimited, Asking, Granted
<1> QED
  BY <1>1, <1>2, <1>3, <1>4

\* The semaphore in the map has a limit.
LEMMA LookupSemKeeps == ASSUME IInv, NEW r \in Attempts, LookupSem(r) PROVE IInv'
<1> USE DEF IInv, TypeOK, Places, Refs, None, At, Goto, semVars, routerVars, attemptVars,
      LookupSem
<1>1. TypeOK'
  OBVIOUS
<1>2. SlotsExact' /\ WithinLargestLimit'
  BY SlotsKept DEF SlotCounted, Asking, Granted
<1>3. CounterExact' /\ CounterKept'
  BY CountersKept
<1>4. LimitWasGiven' /\ SlotCounted' /\ SeenBelowLimit'
  BY DEF LimitWasGiven, SlotCounted, SeenBelowLimit, AlwaysLimited, Asking, Granted
<1> QED
  BY <1>1, <1>2, <1>3, <1>4

\* An attempt without semaphore holds no slot.
LEMMA CheckLimitKeeps == ASSUME IInv, NEW r \in Attempts, CheckLimit(r) PROVE IInv'
<1> USE DEF IInv, TypeOK, Places, Refs, None, At, Goto, semVars, routerVars, attemptVars,
      CheckLimit, LimitOf
<1>1. TypeOK'
  <2>1. CASE LimitOf(r) <= 0
    BY <2>1
  <2>2. CASE ~(LimitOf(r) <= 0)
    <3>1. pc' = [pc EXCEPT ![r] = "acquire"] /\ UNCHANGED sem
      BY <2>2
    <3> QED
      BY <3>1
  <2> QED
    BY <2>1, <2>2
<1>2. SlotsExact' /\ WithinLargestLimit'
  BY SlotsKept DEF SlotCounted, Asking, Granted
<1>3. CounterExact' /\ CounterKept'
  BY CountersKept
<1>4. LimitWasGiven' /\ SlotCounted' /\ SeenBelowLimit'
  <2>1. CASE LimitOf(r) <= 0
    <3>1. sem' = [sem EXCEPT ![r] = None] /\ pc' = [pc EXCEPT ![r] = "incLookup"]
      BY <2>1
    <3>2. LimitWasGiven' /\ SeenBelowLimit'
      BY <3>1 DEF LimitWasGiven, SeenBelowLimit
    <3>3. SlotCounted'
      BY <3>1 DEF SlotCounted, AlwaysLimited, Asking, Granted
    <3> QED
      BY <3>2, <3>3
  <2>2. CASE ~(LimitOf(r) <= 0)
    <3>1. pc' = [pc EXCEPT ![r] = "acquire"] /\ UNCHANGED sem
      BY <2>2
    <3>2. LimitWasGiven' /\ SeenBelowLimit'
      BY <3>1 DEF LimitWasGiven, SeenBelowLimit
    <3>3. SlotCounted'
      BY <3>1 DEF SlotCounted, AlwaysLimited, Asking, Granted
    <3> QED
      BY <3>2, <3>3
  <2> QED
    BY <2>1, <2>2
<1> QED
  BY <1>1, <1>2, <1>3, <1>4

\* A slot granted without being counted is one of a semaphore that was unlimited.
LEMMA AcquireStartKeeps == ASSUME IInv, NEW r \in Attempts, AcquireStart(r) PROVE IInv'
<1> USE DEF IInv, TypeOK, Places, Refs, None, At, Goto, semVars, routerVars, attemptVars,
      AcquireStart, LimitOf
<1>1. TypeOK'
  OBVIOUS
<1>2. SlotsExact' /\ WithinLargestLimit'
  BY SlotsKept
<1>3. CounterExact' /\ CounterKept'
  BY CountersKept
<1>4. LimitWasGiven' /\ SlotCounted' /\ SeenBelowLimit'
  <2>1. LimitOf(r) <= 0 => ~AlwaysLimited(account[r], sem[r])
    <3>1. sem[r] \in Objects /\ account[r] \in Accounts
      OBVIOUS
    <3>2. LimitOf(r) \in limitsGiven[account[r]][sem[r]] /\ LimitOf(r) \in Int
      BY <3>1 DEF LimitWasGiven
    <3> QED
      BY <3>2 DEF AlwaysLimited
  <2> QED
    BY <2>1 DEF LimitWasGiven, SlotCounted, SeenBelowLimit, AlwaysLimited, Asking, Granted
<1> QED
  BY <1>1, <1>2, <1>3, <1>4

\* Loading the counter changes nothing.
LEMMA LoadKeeps == ASSUME IInv, NEW r \in Attempts, Load(r) PROVE IInv'
<1> USE DEF IInv, TypeOK, Places, Refs, None, At, Goto, semVars, routerVars, attemptVars,
      Load
<1>1. TypeOK'
  OBVIOUS
<1>2. SlotsExact' /\ WithinLargestLimit'
  BY SlotsKept
<1>3. CounterExact' /\ CounterKept'
  BY CountersKept
<1>4. LimitWasGiven' /\ SlotCounted' /\ SeenBelowLimit'
  BY DEF LimitWasGiven, SlotCounted, SeenBelowLimit, AlwaysLimited, Asking, Granted
<1> QED
  BY <1>1, <1>2, <1>3, <1>4

\* The limit compared with is one the semaphore was given.
LEMMA CompareKeeps == ASSUME IInv, NEW r \in Attempts, Compare(r) PROVE IInv'
<1> USE DEF IInv, TypeOK, Places, Refs, None, At, Goto, semVars, routerVars, attemptVars,
      Compare
<1>1. TypeOK'
  <2>1. CASE SlotFree(r)
    BY <2>1
  <2>2. CASE ~SlotFree(r)
    <3>1. /\ pc' = [pc EXCEPT ![r] = "idle"] /\ sem' = [sem EXCEPT ![r] = None]
          /\ seen' = [seen EXCEPT ![r] = 0]
      BY <2>2, Zenon
    <3> QED
      BY <3>1
  <2> QED
    BY <2>1, <2>2
<1>2. SlotsExact' /\ WithinLargestLimit'
  BY SlotsKept DEF SlotCounted, Asking, Granted
<1>3. CounterExact' /\ CounterKept'
  BY CountersKept
<1>4. LimitWasGiven' /\ SlotCounted' /\ SeenBelowLimit'
  <2>1. SlotFree(r) => \E l \in limitsGiven[account[r]][sem[r]] : seen[r] < l
    BY DEF LimitWasGiven, SlotFree, LimitOf
  <2>2. CASE SlotFree(r)
    <3>1. pc' = [pc EXCEPT ![r] = "cas"] /\ UNCHANGED <<sem, seen>>
      BY <2>2, Zenon
    <3>2. LimitWasGiven' /\ SeenBelowLimit'
      BY <2>1, <2>2, <3>1 DEF LimitWasGiven, SeenBelowLimit
    <3>3. SlotCounted'
      BY <3>1 DEF SlotCounted, AlwaysLimited, Asking, Granted
    <3> QED
      BY <3>2, <3>3
  <2>3. CASE ~SlotFree(r)
    <3>1. /\ pc' = [pc EXCEPT ![r] = "idle"] /\ sem' = [sem EXCEPT ![r] = None]
          /\ seen' = [seen EXCEPT ![r] = 0]
      BY <2>3, Zenon
    <3> QED
      BY <3>1 DEF LimitWasGiven, SlotCounted, SeenBelowLimit, AlwaysLimited, Asking, Granted
  <2> QED
    BY <2>2, <2>3
<1> QED
  BY <1>1, <1>2, <1>3, <1>4

\* A successful CAS makes the attempt one more holder, within the limit it compared with.
LEMMA CasKeeps == ASSUME IInv, NEW r \in Attempts, Cas(r) PROVE IInv'
<1> USE DEF IInv, TypeOK, Places, Refs, None, At, Goto, semVars, routerVars, attemptVars,
      Cas
<1>1. TypeOK'
  <2>1. CASE semInflight[account[r]][sem[r]] # seen[r]
    <3>1. pc' = [pc EXCEPT ![r] = "load"] /\ UNCHANGED <<semInflight, counted, grantedSince>>
      BY <2>1
    <3> QED
      BY <3>1
  <2>2. CASE semInflight[account[r]][sem[r]] = seen[r]
    <3>1. /\ semInflight' = [semInflight EXCEPT ![account[r]][sem[r]] = seen[r] + 1]
          /\ counted' = [counted EXCEPT ![r] = TRUE]
          /\ grantedSince' = grantedSince \cup {r}
          /\ pc' = [pc EXCEPT ![r] = "incLookup"]
      BY <2>2
    <3>2. account[r] \in Accounts /\ sem[r] \in Objects
      OBVIOUS
    <3>3. semInflight' \in [Accounts -> [Objects -> Int]]
      BY <3>1, <3>2, ObjectUpdated
    <3> QED
      BY <3>1, <3>3
  <2> QED
    BY <2>1, <2>2
<1>2. SlotsExact' /\ WithinLargestLimit'
  <2>1. CASE semInflight[account[r]][sem[r]] # seen[r]
    <3>1. UNCHANGED <<semInflight, limitsGiven, counted, account, sem>>
      BY <2>1
    <3> QED
      BY <3>1, SlotsKept
  <2>2. CASE semInflight[account[r]][sem[r]] = seen[r]
    <3>1. account[r] \in Accounts /\ sem[r] \in Objects /\ ~counted[r]
      BY DEF SlotCounted, Granted
    <3>2. /\ counted' = [counted EXCEPT ![r] = TRUE] /\ UNCHANGED <<account, sem, limitsGiven>>
          /\ semInflight' = [semInflight EXCEPT ![account[r]][sem[r]] = @ + 1]
      BY <2>2
    <3>3. \E l \in limitsGiven[account[r]][sem[r]] : semInflight[account[r]][sem[r]] < l
      BY <2>2 DEF SeenBelowLimit
    <3> QED
      BY <3>1, <3>2, <3>3, SlotTaken
  <2> QED
    BY <2>1, <2>2
<1>3. CounterExact' /\ CounterKept'
  BY CountersKept
<1>4. LimitWasGiven' /\ SlotCounted' /\ SeenBelowLimit'
  <2>1. CASE semInflight[account[r]][sem[r]] # seen[r]
    <3>1. pc' = [pc EXCEPT ![r] = "load"] /\ UNCHANGED counted
      BY <2>1
    <3> QED
      BY <3>1 DEF LimitWasGiven, SlotCounted, SeenBelowLimit, AlwaysLimited, Asking, Granted
  <2>2. CASE semInflight[account[r]][sem[r]] = seen[r]
    <3>1. pc' = [pc EXCEPT ![r] = "incLookup"] /\ counted' = [counted EXCEPT ![r] = TRUE]
      BY <2>2
    <3> QED
      BY <3>1 DEF LimitWasGiven, SlotCounted, SeenBelowLimit, AlwaysLimited, Asking, Granted
  <2> QED
    BY <2>1, <2>2
<1> QED
  BY <1>1, <1>2, <1>3, <1>4

\* An account without a counter, and never dropped, has no attempt in progress.
LEMMA IncLookupKeeps == ASSUME IInv, NEW r \in Attempts, IncLookup(r) PROVE IInv'
<1> USE DEF IInv, TypeOK, Places, Refs, None, At, Goto, semVars, routerVars, attemptVars,
      IncLookup
<1> DEFINE a == account[r]
           n == IF inflightCounts[a] # None THEN inflightCounts[a] ELSE Unused(a, cnt)
<1>n. n \in Objects /\ (inflightCounts[a] # None => n = inflightCounts[a])
  BY UnusedIsUnused
<1>c. /\ cnt' = [cnt EXCEPT ![r] = n]
      /\ inflightCounts' = [inflightCounts EXCEPT ![a] = n]
      /\ counter' = [counter EXCEPT ![a][n] = IF inflightCounts[a] # None THEN @ ELSE 0]
  OBVIOUS
<1> HIDE DEF n
<1>1. TypeOK'
  <2>1. counter' \in [Accounts -> [Objects -> Int]]
    BY <1>n, <1>c
  <2>2. n # None
    BY <1>n DEF Objects
  <2> QED
    BY <1>n, <1>c, <2>1, <2>2
<1>2. SlotsExact' /\ WithinLargestLimit'
  BY SlotsKept
<1>3. CounterExact' /\ CounterKept'
  <2>1. \A b \in Accounts : InProgress(b)' = InProgress(b)
    BY DEF InProgress
  <2>2. a \notin orphaned /\ inflightCounts[a] = None => InProgress(a) = {}
    BY DEF CounterKept, Underway, InProgress
  <2>3. counter'[a][n] = IF inflightCounts[a] # None THEN counter[a][n] ELSE 0
    BY <1>n, <1>c
  <2>4. \A b \in Accounts \ {a} : counter'[b] = counter[b] /\ inflightCounts'[b] = inflightCounts[b]
    BY <1>n, <1>c
  <2>5. \A b \in Accounts \ orphaned :
           inflightCounts'[b] # None => counter'[b][inflightCounts'[b]] = Cardinality(InProgress(b))
    <3> SUFFICES ASSUME NEW b \in Accounts, b \notin orphaned, inflightCounts'[b] # None
                 PROVE  counter'[b][inflightCounts'[b]] = Cardinality(InProgress(b))
      OBVIOUS
    <3>1. CASE b # a
      BY <2>4, <3>1, CounterOfAccount
    <3>2. CASE b = a /\ inflightCounts[a] # None
      BY <1>n, <1>c, <2>3, <3>2, CounterOfAccount
    <3>3. CASE b = a /\ inflightCounts[a] = None
      BY <1>c, <2>2, <2>3, <3>3, FS_EmptySet
    <3> QED
      BY <3>1, <3>2, <3>3
  <2>6. CounterExact'
    BY <2>1, <2>5 DEF CounterExact, InProgress
  <2>7. CounterKept'
    <3>1. n # None /\ inflightCounts'[a] = n /\ cnt'[r] = n
      BY <1>n, <1>c DEF Objects
    <3>2. \A q \in Attempts \ {r} : pc'[q] = pc[q] /\ cnt'[q] = cnt[q]
      BY <1>c
    <3> SUFFICES ASSUME NEW q \in Attempts, account[q] \notin orphaned
                 PROVE  /\ q \in Underway(account[q])' => inflightCounts'[account[q]] # None
                        /\ pc'[q] \in {"incAdd", "decAdd"} =>
                              cnt'[q] = inflightCounts'[account[q]]
      BY DEF CounterKept
    <3>3. CASE q = r
      BY <3>1, <3>3
    <3>4. CASE q # r /\ account[q] = a
      <4>1. q \in Underway(a) => inflightCounts[a] # None
        BY <3>4 DEF CounterKept
      <4>2. pc[q] \in {"incAdd", "decAdd"} => q \in Underway(a) /\ cnt[q] = inflightCounts[a]
        BY <3>4 DEF CounterKept, Underway
      <4> QED
        BY <1>n, <3>1, <3>2, <3>4, <4>1, <4>2
    <3>5. CASE q # r /\ account[q] # a
      <4>1. inflightCounts'[account[q]] = inflightCounts[account[q]]
        BY <2>4, <3>5
      <4> QED
        BY <3>2, <3>5, <4>1 DEF CounterKept, Underway
    <3> QED
      BY <3>3, <3>4, <3>5
  <2> QED
    BY <2>6, <2>7
<1>4. LimitWasGiven' /\ SlotCounted' /\ SeenBelowLimit'
  BY DEF LimitWasGiven, SlotCounted, SeenBelowLimit, AlwaysLimited, Asking, Granted
<1> QED
  BY <1>1, <1>2, <1>3, <1>4

\* The counter an attempt raises is the one of its account.
LEMMA IncAddKeeps == ASSUME IInv, NEW r \in Attempts, IncAdd(r) PROVE IInv'
<1> USE DEF IInv, TypeOK, Places, Refs, None, At, Goto, semVars, routerVars, attemptVars,
      IncAdd
<1>1. TypeOK'
  OBVIOUS
<1>2. SlotsExact' /\ WithinLargestLimit'
  BY SlotsKept
<1>3. CounterExact' /\ CounterKept'
  <2>1. CounterExact'
    <3> SUFFICES ASSUME NEW a \in Accounts, a \notin orphaned, inflightCounts[a] # None
                 PROVE  counter'[a][inflightCounts[a]] = Cardinality(InProgress(a)')
      BY DEF CounterExact, InProgress
    <3>1. counter[a][inflightCounts[a]] = Cardinality(InProgress(a))
      BY DEF CounterExact, InProgress
    <3>2. CASE a # account[r]
      <4>1. InProgress(a)' = InProgress(a) /\ counter'[a] = counter[a]
        BY <3>2 DEF InProgress
      <4> QED
        BY <3>1, <4>1
    <3>3. CASE a = account[r]
      <4>1. InProgress(a)' = InProgress(a) \cup {r} /\ r \notin InProgress(a)
        BY <3>3 DEF InProgress
      <4>2. Cardinality(InProgress(a)') = Cardinality(InProgress(a)) + 1
        BY <4>1, InProgressFinite, OneMore
      <4>3. cnt[r] = inflightCounts[a]
        BY <3>3 DEF CounterKept
      <4>4. counter'[a][inflightCounts[a]] = counter[a][inflightCounts[a]] + 1
        BY <3>3, <4>3
      <4> QED
        BY <3>1, <4>2, <4>4
    <3> QED
      BY <3>2, <3>3
  <2>2. CounterKept'
    BY DEF CounterKept, Underway
  <2> QED
    BY <2>1, <2>2
<1>4. LimitWasGiven' /\ SlotCounted' /\ SeenBelowLimit'
  BY DEF LimitWasGiven, SlotCounted, SeenBelowLimit, AlwaysLimited, Asking, Granted
<1> QED
  BY <1>1, <1>2, <1>3, <1>4

\* An attempt whose stream ended is still counted.
LEMMA StreamEndsKeeps == ASSUME IInv, NEW r \in Attempts, StreamEnds(r) PROVE IInv'
<1> USE DEF IInv, TypeOK, Places, Refs, None, At, Goto, semVars, routerVars, attemptVars,
      StreamEnds
<1>1. TypeOK'
  OBVIOUS
<1>2. SlotsExact' /\ WithinLargestLimit'
  BY SlotsKept
<1>3. CounterExact' /\ CounterKept'
  BY CountersKept
<1>4. LimitWasGiven' /\ SlotCounted' /\ SeenBelowLimit'
  BY DEF LimitWasGiven, SlotCounted, SeenBelowLimit, AlwaysLimited, Asking, Granted
<1> QED
  BY <1>1, <1>2, <1>3, <1>4

\* DecrementInflight finds the counter the attempt raised.
LEMMA DecLookupKeeps == ASSUME IInv, NEW r \in Attempts, DecLookup(r) PROVE IInv'
<1> USE DEF IInv, TypeOK, Places, Refs, None, At, Goto, semVars, routerVars, attemptVars,
      DecLookup
<1>1. TypeOK'
  OBVIOUS
<1>2. SlotsExact' /\ WithinLargestLimit'
  BY SlotsKept
<1>3. CounterExact' /\ CounterKept'
  <2>1. \A b \in Accounts \ orphaned : InProgress(b)' = InProgress(b)
    BY DEF InProgress, CounterKept, Underway
  <2>2. CounterExact'
    BY <2>1 DEF CounterExact, InProgress
  <2>3. CounterKept'
    BY DEF CounterKept, Underway
  <2> QED
    BY <2>2, <2>3
<1>4. LimitWasGiven' /\ SlotCounted' /\ SeenBelowLimit'
  BY DEF LimitWasGiven, SlotCounted, SeenBelowLimit, AlwaysLimited, Asking, Granted
<1> QED
  BY <1>1, <1>2, <1>3, <1>4

\* The counter an attempt lowers is the one of its account.
LEMMA DecAddKeeps == ASSUME IInv, NEW r \in Attempts, DecAdd(r) PROVE IInv'
<1> USE DEF IInv, TypeOK, Places, Refs, None, At, Goto, semVars, routerVars, attemptVars,
      DecAdd
<1>1. TypeOK'
  OBVIOUS
<1>2. SlotsExact' /\ WithinLargestLimit'
  BY SlotsKept
<1>3. CounterExact' /\ CounterKept'
  <2>1. CounterExact'
    <3> SUFFICES ASSUME NEW a \in Accounts, a \notin orphaned, inflightCounts[a] # None
                 PROVE  counter'[a][inflightCounts[a]] = Cardinality(InProgress(a)')
      BY DEF CounterExact, InProgress
    <3>1. counter[a][inflightCounts[a]] = Cardinality(InProgress(a))
      BY DEF CounterExact, InProgress
    <3>2. CASE a # account[r]
      <4>1. InProgress(a)' = InProgress(a) /\ counter'[a] = counter[a]
        BY <3>2 DEF InProgress
      <4> QED
        BY <3>1, <4>1
    <3>3. CASE a = account[r]
      <4>1. InProgress(a)' = InProgress(a) \ {r} /\ r \in InProgress(a)
        BY <3>3 DEF InProgress
      <4>2. Cardinality(InProgress(a)') = Cardinality(InProgress(a)) - 1
        BY <4>1, InProgressFinite, OneLess
      <4>3. cnt[r] = inflightCounts[a]
        BY <3>3 DEF CounterKept
      <4>4. counter'[a][inflightCounts[a]] = counter[a][inflightCounts[a]] - 1
        BY <3>3, <4>3
      <4> QED
        BY <3>1, <4>2, <4>4
    <3> QED
      BY <3>2, <3>3
  <2>2. CounterKept'
    BY DEF CounterKept, Underway
  <2> QED
    BY <2>1, <2>2
<1>4. LimitWasGiven' /\ SlotCounted' /\ SeenBelowLimit'
  BY DEF LimitWasGiven, SlotCounted, SeenBelowLimit, AlwaysLimited, Asking, Granted
<1> QED
  BY <1>1, <1>2, <1>3, <1>4

\* An attempt gives its slot back to the semaphore it took it from.
LEMMA ReleaseKeeps == ASSUME IInv, NEW r \in Attempts, Release(r) PROVE IInv'
<1> USE DEF IInv, TypeOK, Places, Refs, None, At, Goto, semVars, routerVars, attemptVars,
      Release
<1>1. TypeOK'
  <2>1. CASE sem[r] = None
    BY <2>1
  <2>2. CASE sem[r] # None
    <3>1. semInflight' \in [Accounts -> [Objects -> Int]]
      <4>1. account[r] \in Accounts /\ sem[r] \in Objects
        BY <2>2
      <4>2. semInflight[account[r]][sem[r]] - 1 \in Int
        BY <4>1
      <4>3. semInflight' = [semInflight EXCEPT ![account[r]][sem[r]] =
                               semInflight[account[r]][sem[r]] - 1]
        BY <2>2
      <4> QED
        BY <4>1, <4>2, <4>3, ObjectUpdated
    <3> QED
      BY <2>2, <3>1
  <2> QED
    BY <2>1, <2>2
<1>2. SlotsExact' /\ WithinLargestLimit'
  <2>1. CASE sem[r] = None
    <3>1. UNCHANGED <<semInflight, limitsGiven, counted, account>> /\ ~counted[r]
      BY <2>1 DEF SlotCounted
    <3> QED
      BY <3>1, SlotsKept
  <2>2. CASE sem[r] # None
    <3>1. account[r] \in Accounts /\ sem[r] \in Objects
      BY <2>2
    <3>2. AlwaysLimited(account[r], sem[r]) => counted[r]
      BY <2>2 DEF SlotCounted, Granted
    <3>3. semInflight' = [semInflight EXCEPT ![account[r]][sem[r]] = @ - 1]
      BY <2>2
    <3> QED
      BY <3>1, <3>2, <3>3, SlotFreed
  <2> QED
    BY <2>1, <2>2
<1>3. CounterExact' /\ CounterKept'
  BY CountersKept
<1>4. LimitWasGiven' /\ SlotCounted' /\ SeenBelowLimit'
  BY DEF LimitWasGiven, SlotCounted, SeenBelowLimit, AlwaysLimited, Asking, Granted
<1> QED
  BY <1>1, <1>2, <1>3, <1>4

\* An account keeps its counter, or starts one without attempts in progress.
LEMMA RouterReloadKeeps ==
    ASSUME IInv, NEW present \in SUBSET Accounts, RouterReload(present)
    PROVE  IInv'
<1> USE DEF IInv, TypeOK, Places, Refs, None, At, Goto, semVars, routerVars, attemptVars,
      RouterReload
<1> DEFINE num(a) == IF StartsAtZero(a, present) THEN Unused(a, cnt) ELSE inflightCounts[a]
<1>n. \A a \in present : num(a) \in Objects /\ (inflightCounts[a] # None => num(a) = inflightCounts[a])
  BY UnusedIsUnused DEF StartsAtZero
<1>c. /\ inflightCounts' = [a \in Accounts |-> IF a \in present THEN num(a) ELSE None]
      /\ counter' = [a \in Accounts |-> [n \in Objects |->
                        IF StartsAtZero(a, present) /\ n = num(a) THEN 0 ELSE counter[a][n]]]
  OBVIOUS
<1> HIDE DEF num
<1>1. TypeOK'
  <2>1. inflightCounts' \in [Accounts -> Refs] /\ counter' \in [Accounts -> [Objects -> Int]]
    BY <1>n, <1>c
  <2>2. reloads' \in [{"router", "keystore"} -> 0..MaxReloads]
    BY SlotsAssumption DEF CountReload
  <2> QED
    BY <2>1, <2>2
<1>2. SlotsExact' /\ WithinLargestLimit'
  BY SlotsKept
<1>3. CounterExact' /\ CounterKept'
  <2>1. \A a \in Accounts : InProgress(a)' = InProgress(a)
    BY DEF InProgress
  <2>2. \A a \in Accounts \ orphaned : inflightCounts[a] = None => InProgress(a) = {}
    BY DEF CounterKept, Underway, InProgress
  <2>3. \A a \in present : inflightCounts'[a] = num(a)
    BY <1>c
  <2>4. \A a \in present \ orphaned : counter'[a][num(a)] = Cardinality(InProgress(a))
    <3> SUFFICES ASSUME NEW a \in present, a \notin orphaned
                 PROVE  counter'[a][num(a)] = Cardinality(InProgress(a))
      OBVIOUS
    <3>1. CASE inflightCounts[a] # None
      BY <1>n, <1>c, <3>1, CounterOfAccount DEF StartsAtZero
    <3>2. CASE inflightCounts[a] = None
      <4>1. InProgress(a) = {}
        BY <2>2, <3>2
      <4>2. counter'[a][num(a)] = 0
        BY <1>n, <1>c, <3>2 DEF StartsAtZero
      <4> QED
        BY <4>1, <4>2, FS_EmptySet
    <3> QED
      BY <3>1, <3>2
  <2>5. \A a \in Accounts \ present : inflightCounts'[a] = None
    BY <1>c
  <2>6. CounterExact'
    <3> SUFFICES ASSUME NEW a \in Accounts, a \notin orphaned', inflightCounts'[a] # None
                 PROVE  counter'[a][inflightCounts'[a]] = Cardinality(InProgress(a)')
      BY DEF CounterExact, InProgress
    <3>1. a \in present /\ a \notin orphaned
      BY <2>5
    <3> QED
      BY <2>1, <2>3, <2>4, <3>1
  <2>7. \A a \in Accounts \ present : a \notin orphaned' => Underway(a) = {}
    OBVIOUS
  <2>8. CounterKept'
    <3> SUFFICES ASSUME NEW r \in Attempts, account[r] \notin orphaned', r \in Underway(account[r])
                 PROVE  inflightCounts'[account[r]] = inflightCounts[account[r]]
      BY DEF CounterKept, Underway
    <3>1. account[r] \in present /\ account[r] \notin orphaned
      BY <2>7
    <3>2. inflightCounts[account[r]] # None
      BY <3>1 DEF CounterKept
    <3> QED
      BY <1>n, <2>3, <3>1, <3>2
  <2> QED
    BY <2>6, <2>8
<1>4. LimitWasGiven' /\ SlotCounted' /\ SeenBelowLimit'
  BY DEF LimitWasGiven, SlotCounted, SeenBelowLimit, AlwaysLimited, Asking, Granted
<1> QED
  BY <1>1, <1>2, <1>3, <1>4

\* A semaphore of an account that stays is kept and given the new limit; one of
\* a new account is an object no attempt holds a slot of.
LEMMA KeyStoreReloadKeeps ==
    ASSUME IInv, NEW present \in SUBSET Accounts, NEW newLimit \in [Accounts -> Limits],
           KeyStoreReload(present, newLimit)
    PROVE  IInv'
<1> USE DEF IInv, TypeOK, Places, Refs, None, semVars, routerVars, attemptVars
<1> DEFINE kept(a) == a \in present /\ accountSems[a] # None
           new(a) == a \in present /\ accountSems[a] = None
           num(a) == IF new(a) THEN Unused(a, sem) ELSE accountSems[a]
<1>n. \A a \in present : /\ num(a) \in Objects
                         /\ kept(a) => num(a) = accountSems[a]
                         /\ new(a) => \A r \in Attempts : account[r] = a => sem[r] # num(a)
  BY UnusedIsUnused
<1>c. /\ accountSems' = [a \in Accounts |-> IF a \in present THEN num(a) ELSE None]
      /\ limit' = [a \in Accounts |-> [n \in Objects |->
                      IF a \in present /\ n = num(a) THEN newLimit[a] ELSE limit[a][n]]]
      /\ semInflight' = [a \in Accounts |-> [n \in Objects |->
                            IF new(a) /\ n = num(a) THEN 0 ELSE semInflight[a][n]]]
      /\ limitsGiven' = [a \in Accounts |-> [n \in Objects |->
                            CASE new(a) /\ n = num(a) -> {newLimit[a]}
                              [] kept(a) /\ n = num(a) -> limitsGiven[a][n] \cup {newLimit[a]}
                              [] OTHER -> limitsGiven[a][n]]]
      /\ UNCHANGED <<routerVars, attemptVars>>
  BY DEF KeyStoreReload
<1>g. grantedSince' \subseteq grantedSince /\ CountReload("keystore")
  BY DEF KeyStoreReload
<1>l. \A a \in Accounts : newLimit[a] \in Limits /\ newLimit[a] \in Int
  BY SlotsAssumption
<1> HIDE DEF num
<1>o. \A a \in Accounts, n \in Objects :
         \/ /\ new(a) /\ n = num(a)
            /\ semInflight'[a][n] = 0 /\ limit'[a][n] = newLimit[a]
            /\ limitsGiven'[a][n] = {newLimit[a]}
         \/ /\ kept(a) /\ n = num(a)
            /\ semInflight'[a][n] = semInflight[a][n] /\ limit'[a][n] = newLimit[a]
            /\ limitsGiven'[a][n] = limitsGiven[a][n] \cup {newLimit[a]}
         \/ /\ ~(a \in present /\ n = num(a))
            /\ semInflight'[a][n] = semInflight[a][n] /\ limit'[a][n] = limit[a][n]
            /\ limitsGiven'[a][n] = limitsGiven[a][n]
  BY <1>c
<1>1. TypeOK'
  <2>1. accountSems' \in [Accounts -> Refs]
    BY <1>n, <1>c
  <2>2. limit' \in [Accounts -> [Objects -> Int]] /\ semInflight' \in [Accounts -> [Objects -> Int]]
    BY <1>c, <1>l
  <2>3. limitsGiven' \in [Accounts -> [Objects -> SUBSET Limits]]
    <3>1. \A a \in Accounts, n \in Objects : limitsGiven'[a][n] \in SUBSET Limits
      <4> TAKE a \in Accounts, n \in Objects
      <4>1. limitsGiven[a][n] \in SUBSET Limits
        OBVIOUS
      <4>2. /\ {newLimit[a]} \in SUBSET Limits
            /\ limitsGiven[a][n] \cup {newLimit[a]} \in SUBSET Limits
        BY <1>l, <4>1
      <4> QED
        BY ONLY <1>o, <4>1, <4>2
    <3> QED
      BY <1>c, <3>1
  <2>4. reloads' \in [{"router", "keystore"} -> 0..MaxReloads]
    BY <1>g, SlotsAssumption DEF CountReload
  <2> QED
    BY <1>c, <1>g, <2>1, <2>2, <2>3, <2>4
<1>2. SlotsExact' /\ WithinLargestLimit'
  <2> SUFFICES ASSUME NEW a \in Accounts, NEW n \in Objects, AlwaysLimited(a, n)'
               PROVE  /\ semInflight'[a][n] = Cardinality(Holders(a, n))
                      /\ Holders(a, n) # {} =>
                            \E l \in limitsGiven'[a][n] : Cardinality(Holders(a, n)) <= l
    <3>1. \A a, n : Holders(a, n)' = Holders(a, n)
      BY <1>c DEF Holders
    <3> QED
      BY <3>1 DEF SlotsExact, WithinLargestLimit
  <2>1. CASE new(a) /\ n = num(a)
    <3>1. Holders(a, n) = {}
      BY <1>n, <2>1 DEF Holders
    <3>2. semInflight'[a][n] = 0
      BY <1>o, <2>1
    <3> QED
      BY <3>1, <3>2, FS_EmptySet
  <2>2. CASE ~(new(a) /\ n = num(a))
    <3>1. semInflight'[a][n] = semInflight[a][n] /\ limitsGiven[a][n] \subseteq limitsGiven'[a][n]
      BY <1>o, <2>2
    <3>2. AlwaysLimited(a, n)
      BY <3>1 DEF AlwaysLimited
    <3> QED
      BY <3>1, <3>2 DEF SlotsExact, WithinLargestLimit
  <2> QED
    BY <2>1, <2>2
<1>3. CounterExact' /\ CounterKept'
  BY <1>c, CountersKept
<1>4. \A r \in Attempts : sem[r] # None =>
         limitsGiven[account[r]][sem[r]] \subseteq limitsGiven'[account[r]][sem[r]]
  <2> SUFFICES ASSUME NEW a \in Accounts, NEW n \in Objects, ~(new(a) /\ n = num(a))
               PROVE  limitsGiven[a][n] \subseteq limitsGiven'[a][n]
    BY <1>n
  <2> QED
    BY <1>o
<1>5. LimitWasGiven'
  <2>1. \A a \in Accounts, n \in Objects :
           limitsGiven'[a][n] # {} => limit'[a][n] \in limitsGiven'[a][n]
    <3> TAKE a \in Accounts, n \in Objects
    <3>1. CASE ~(a \in present /\ n = num(a))
      BY <1>o, <3>1 DEF LimitWasGiven
    <3>2. CASE a \in present /\ n = num(a)
      BY <1>o, <3>2
    <3> QED
      BY <3>1, <3>2
  <2>2. \A a \in Accounts : accountSems'[a] # None => limitsGiven'[a][accountSems'[a]] # {}
    BY <1>n, <1>c, <1>o
  <2>3. \A r \in Attempts : sem[r] # None => limitsGiven'[account[r]][sem[r]] # {}
    BY <1>4 DEF LimitWasGiven
  <2> QED
    BY <1>c, <2>1, <2>2, <2>3 DEF LimitWasGiven
<1>6. SlotCounted' /\ SeenBelowLimit'
  BY <1>c, <1>4 DEF SlotCounted, SeenBelowLimit, AlwaysLimited, Asking, Granted
<1> QED
  BY <1>1, <1>2, <1>3, <1>5, <1>6

-----------------------------------------------------------------------------
(* What every behaviour keeps.                                             *)

\* NewKeyStoreFromData and New: every account has its objects, unused yet.
LEMMA InitEstablishes == Init => IInv
<1> SUFFICES ASSUME Init PROVE IInv
  OBVIOUS
<1> USE DEF Init
<1>1. PICK l \in [Accounts -> Limits] :
         /\ limit = [a \in Accounts |-> [n \in Objects |-> IF n = 1 THEN l[a] ELSE 0]]
         /\ limitsGiven = [a \in Accounts |-> [n \in Objects |-> IF n = 1 THEN {l[a]} ELSE {}]]
  OBVIOUS
<1>2. 1 \in Objects /\ None \notin Objects
  BY SlotsAssumption, FS_CardinalityType DEF Objects, None
<1>3. \A a \in Accounts : l[a] \in Limits /\ l[a] \in Int
  BY SlotsAssumption
<1>4. TypeOK
  <2>1. limit \in [Accounts -> [Objects -> Int]]
    BY <1>1, <1>3
  <2>2. limitsGiven \in [Accounts -> [Objects -> SUBSET Limits]]
    BY <1>1, <1>3
  <2>3. semInflight \in [Accounts -> [Objects -> Int]] /\ counter \in [Accounts -> [Objects -> Int]]
    OBVIOUS
  <2>4. reloads \in [{"router", "keystore"} -> 0..MaxReloads]
    BY SlotsAssumption
  <2>5. /\ accountSems \in [Accounts -> Refs] /\ inflightCounts \in [Accounts -> Refs]
        /\ sem \in [Attempts -> Refs] /\ cnt \in [Attempts -> Refs]
    BY <1>2 DEF Refs
  <2>6. pc \in [Attempts -> Places] /\ \A r \in Attempts : pc[r] = "idle"
    BY DEF Places
  <2> QED
    BY <2>1, <2>2, <2>3, <2>4, <2>5, <2>6 DEF TypeOK
<1>5. \A a, n : Holders(a, n) = {}
  BY DEF Holders
<1>6. SlotsExact /\ WithinLargestLimit
  BY <1>5, FS_EmptySet DEF SlotsExact, WithinLargestLimit
<1>7. CounterExact /\ CounterKept
  <2>1. \A a \in Accounts : InProgress(a) = {}
    BY DEF InProgress
  <2>2. CounterExact
    BY <1>2, <2>1, FS_EmptySet DEF CounterExact, InProgress
  <2> QED
    BY <2>2 DEF CounterKept, Underway
<1>8. LimitWasGiven /\ SlotCounted /\ SeenBelowLimit
  BY <1>1, <1>2 DEF LimitWasGiven, SlotCounted, SeenBelowLimit
<1> QED
  BY <1>4, <1>6, <1>7, <1>8 DEF IInv

\* Every step of attempts and reloads keeps the invariant.
LEMMA StepKeeps == IInv /\ [Next]_vars => IInv'
<1> SUFFICES ASSUME IInv, [Next]_vars PROVE IInv'
  OBVIOUS
<1>1. ASSUME NEW r \in Attempts, Step(r) PROVE IInv'
  BY <1>1, LookupSemKeeps, CheckLimitKeeps, AcquireStartKeeps, LoadKeeps, CompareKeeps, CasKeeps,
     IncLookupKeeps, IncAddKeeps, StreamEndsKeeps, DecLookupKeeps, DecAddKeeps, ReleaseKeeps
     DEF Step
<1>2. ASSUME NEW r \in Attempts, NEW a \in Accounts, Select(r, a) PROVE IInv'
  BY <1>2, SelectKeeps
<1>3. ASSUME NEW present \in SUBSET Accounts, RouterReload(present) PROVE IInv'
  BY <1>3, RouterReloadKeeps
<1>4. ASSUME NEW present \in SUBSET Accounts, NEW l \in [Accounts -> Limits],
             KeyStoreReload(present, l)
      PROVE  IInv'
  BY <1>4, KeyStoreReloadKeeps
<1>5. CASE UNCHANGED vars
  <2> USE <1>5 DEF vars, semVars, routerVars, attemptVars
  <2>1. TypeOK'
    BY DEF IInv, TypeOK
  <2>2. SlotsExact' /\ WithinLargestLimit'
    BY SlotsKept DEF IInv
  <2>3. CounterExact' /\ CounterKept'
    BY CountersKept DEF IInv
  <2>4. LimitWasGiven' /\ SlotCounted' /\ SeenBelowLimit'
    BY DEF IInv, LimitWasGiven, SlotCounted, SeenBelowLimit, AlwaysLimited
  <2> QED
    BY <2>1, <2>2, <2>3, <2>4 DEF IInv
<1> QED
  BY <1>1, <1>2, <1>3, <1>4, <1>5 DEF Next

\* The inductive invariant, which the theorems below are parts of.
THEOREM IInvHolds == Spec => []IInv
<1>1. Init => IInv
  BY InitEstablishes
<1>2. IInv /\ [Next]_vars => IInv'
  BY StepKeeps
<1> QED
  BY <1>1, <1>2, PTL DEF Spec

\* Every variable has its type, and no attempt follows a nil pointer to a
\* semaphore or a counter that a reload dropped.
THEOREM TypeCorrect == Spec => []TypeOK
<1>1. IInv => TypeOK
  BY DEF IInv
<1> QED
  BY <1>1, IInvHolds, PTL

\* AcquireAccountConcurrency and its release: no slot leaks and none is freed
\* twice, whatever CAS loops, refusals and reloads interleave.
THEOREM SlotsAreExact == Spec => []SlotsExact
<1>1. IInv => SlotsExact
  BY DEF IInv
<1> QED
  BY <1>1, IInvHolds, PTL

\* semaphore.Acquire never lets in more attempts than the largest limit its
\* semaphore was given, unless that was unlimited at some time.
THEOREM LimitHolds == Spec => []WithinLargestLimit
<1>1. IInv => WithinLargestLimit
  BY DEF IInv
<1> QED
  BY <1>1, IInvHolds, PTL

\* IncrementInflight and DecrementInflight move the counter of the account an
\* attempt is on, as long as no reload dropped the account under an attempt.
THEOREM CounterIsExact == Spec => []CounterExact
<1>1. IInv => CounterExact
  BY DEF IInv
<1> QED
  BY <1>1, IInvHolds, PTL
=============================================================================
