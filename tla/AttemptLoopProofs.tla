-------------------------- MODULE AttemptLoopProofs --------------------------
(***************************************************************************)
(* What the candidates and the balancers are for any accounts, weights and *)
(* turns (induction on a number is by its least counterexample), and what  *)
(* holds of the life of a request for any group of accounts, any models    *)
(* and weights, and any number of retries.                                 *)
(***************************************************************************)
EXTENDS AttemptLoop, SequenceTheorems, FiniteSetTheorems, FunctionTheorems,
        WellFoundedInduction, TLAPS

-----------------------------------------------------------------------------
(* Numbers.                                                                *)

\* A set of naturals has a least element.
LEMMA Least ==
    ASSUME NEW S \in SUBSET Nat, S # {}
    PROVE  \E n \in S : \A m \in S : n <= m
<1> DEFINE Less == {p \in Nat \X Nat : p[1] < p[2]}
<1>1. IsWellFoundedOn(Less, Nat)
  BY NatLessThanWellFounded, Zenon DEF OpToRel
<1>2. \E n \in S : \A m \in S : <<m, n>> \notin Less
  BY <1>1, WFMin
<1>3. \A m, n \in Nat : <<m, n>> \in Less <=> m < n
  OBVIOUS
<1> HIDE DEF Less
<1>4. PICK n \in S : \A m \in S : <<m, n>> \notin Less
  BY <1>2
<1>5. \A m \in S : n <= m
  <2> TAKE m \in S
  <2>1. m \in Nat /\ n \in Nat
    OBVIOUS
  <2>2. ~(m < n)
    BY <1>3, <1>4, <2>1, Zenon
  <2> QED
    BY <2>1, <2>2
<1> QED
  BY <1>5

\* First(S) is that element.
LEMMA FirstIsLeast ==
    ASSUME NEW S \in SUBSET Nat, S # {}
    PROVE  First(S) \in S /\ \A m \in S : First(S) <= m
BY Least DEF First

\* The turns of a balancer go round and round.
LEMMA TurnInRange ==
    ASSUME NEW t \in Nat, NEW n \in Nat \ {0}
    PROVE  t % n \in 0..n - 1 /\ (t < n => t % n = t)
OBVIOUS

\* As n goes up, the positions of a set up to n become one more, or none.
LEMMA OneMorePosition ==
    ASSUME NEW S \in SUBSET Nat, IsFiniteSet(S), NEW n \in Nat
    PROVE  LET upTo(m) == {j \in S : j <= m}
           IN  /\ Cardinality(upTo(n)) \in Nat
               /\ n + 1 \in S => Cardinality(upTo(n + 1)) = Cardinality(upTo(n)) + 1
               /\ n + 1 \notin S => Cardinality(upTo(n + 1)) = Cardinality(upTo(n))
<1> DEFINE upTo(m) == {j \in S : j <= m}
<1>1. IsFiniteSet(upTo(n))
  BY FS_Subset
<1>2. Cardinality(upTo(n)) \in Nat
  BY <1>1, FS_CardinalityType
<1>p. \A j \in S : j \in Nat /\ (j <= n + 1 <=> j <= n \/ j = n + 1)
  OBVIOUS
<1>3. n + 1 \in S => upTo(n + 1) = upTo(n) \cup {n + 1} /\ n + 1 \notin upTo(n)
  <2>1. n + 1 \notin upTo(n) /\ n + 1 <= n + 1
    OBVIOUS
  <2> QED
    BY <1>p, <2>1, Zenon
<1>4. n + 1 \notin S => upTo(n + 1) = upTo(n)
  BY <1>p, Zenon
<1> HIDE DEF upTo
<1>5. n + 1 \in S => Cardinality(upTo(n + 1)) = Cardinality(upTo(n)) + 1
  BY <1>1, <1>3, FS_AddElement
<1> QED
  BY <1>2, <1>4, <1>5 DEF upTo

\* A finite set of positions has an n-th one.
LEMMA NthPosition ==
    ASSUME NEW N \in Nat, NEW S \in SUBSET (1..N), NEW n \in 1..Cardinality(S)
    PROVE  \E i \in S : Cardinality({j \in S : j <= i}) = n
<1> DEFINE upTo(m) == {j \in S : j <= m}
           C(m) == Cardinality(upTo(m))
           reached == {m \in Nat : C(m) >= n}
<1>1. IsFiniteSet(S) /\ S \in SUBSET Nat
  <2>1. IsFiniteSet(1..N) /\ 1..N \subseteq Nat
    BY FS_Interval
  <2> QED
    BY <2>1, FS_Subset
<1>2. upTo(N) = S /\ upTo(0) = {} /\ n \in Nat /\ n >= 1
  <2>1. \A j \in S : j <= N /\ ~(j <= 0)
    OBVIOUS
  <2>2. Cardinality(S) \in Nat
    BY <1>1, FS_CardinalityType
  <2>3. upTo(N) = S /\ upTo(0) = {}
    BY <2>1, Zenon
  <2> QED
    BY <2>2, <2>3
<1>3. \A m \in Nat : /\ C(m) \in Nat
                     /\ m + 1 \in S => C(m + 1) = C(m) + 1
                     /\ m + 1 \notin S => C(m + 1) = C(m)
  BY <1>1, OneMorePosition
<1>4. C(N) >= n /\ C(0) = 0
  <2>1. Cardinality(S) \in Nat /\ n <= Cardinality(S)
    BY <1>1, FS_CardinalityType
  <2> QED
    BY <1>2, <2>1, FS_EmptySet
<1> HIDE DEF upTo, C
<1>5. PICK m \in reached : \A k \in reached : m <= k
  BY <1>4, Least
<1>6. m # 0
  BY <1>2, <1>4, <1>5
<1>7. m - 1 \in Nat /\ C(m - 1) < n
  BY <1>2, <1>3, <1>5, <1>6
<1>8. m \in S /\ C(m) = n
  <2>1. (m - 1) + 1 = m /\ C(m) >= n
    BY <1>5
  <2>2. C(m - 1) \in Nat /\ (m \in S => C(m) = C(m - 1) + 1) /\ (m \notin S => C(m) = C(m - 1))
    BY <1>3, <1>7, <2>1
  <2> QED
    BY <1>2, <1>7, <2>1, <2>2
<1> QED
  BY <1>8 DEF C, upTo

\* Of two positions of a set, more come up to the later one.
LEMMA PositionsGrow ==
    ASSUME NEW S \in SUBSET Nat, IsFiniteSet(S), NEW i \in S, NEW k \in S, i < k
    PROVE  Cardinality({j \in S : j <= i}) < Cardinality({j \in S : j <= k})
<1> DEFINE upTo(m) == {j \in S : j <= m}
<1>1. IsFiniteSet(upTo(i)) /\ IsFiniteSet(upTo(k))
  BY FS_Subset
<1>2. i \in Nat /\ k \in Nat /\ \A j \in S : j \in Nat
  OBVIOUS
<1>3. upTo(i) \cup {k} \subseteq upTo(k) /\ k \notin upTo(i)
  <2>1. \A j \in S : (j <= i => j <= k) /\ k <= k /\ ~(k <= i)
    BY <1>2
  <2> QED
    BY <2>1, Zenon
<1> HIDE DEF upTo
<1>4. Cardinality(upTo(i) \cup {k}) = Cardinality(upTo(i)) + 1
  BY <1>1, <1>3, FS_AddElement
<1>5. Cardinality(upTo(i) \cup {k}) <= Cardinality(upTo(k))
  BY <1>1, <1>3, FS_Subset
<1>6. Cardinality(upTo(i)) \in Nat /\ Cardinality(upTo(k)) \in Nat
  BY <1>1, FS_CardinalityType
<1> QED
  BY <1>4, <1>5, <1>6 DEF upTo

-----------------------------------------------------------------------------
(* The candidates.                                                         *)

\* They are the accounts of the order that are fit, in their order.
LEMMA CandidatesAre ==
    ASSUME NEW order \in Seq(Accounts), NEW asked, NEW tried, NEW usable
    PROVE  LET c == Candidates(order, asked, tried, usable)
           IN  /\ c \in Seq(Accounts)
               /\ \A n \in 1..Len(c) : AccountCandidate(c[n], asked, tried, usable)
               /\ \A i \in 1..Len(order) :
                     AccountCandidate(order[i], asked, tried, usable) =>
                         \E n \in 1..Len(c) : c[n] = order[i]
               /\ \A m, n \in 1..Len(c) : m < n =>
                     \E i, k \in 1..Len(order) : i < k /\ c[m] = order[i] /\ c[n] = order[k]
<1> DEFINE c == Candidates(order, asked, tried, usable)
           fit == {i \in DOMAIN order : AccountCandidate(order[i], asked, tried, usable)}
           C(i) == Cardinality({j \in fit : j <= i})
           nth(n) == CHOOSE i \in fit : C(i) = n
<1>1. DOMAIN order = 1..Len(order) /\ Len(order) \in Nat /\ \A i \in 1..Len(order) : order[i] \in Accounts
  BY LenProperties, ElementOfSeq
<1>2. fit \in SUBSET (1..Len(order)) /\ fit \in SUBSET Nat /\ IsFiniteSet(fit)
  <2>1. fit \subseteq 1..Len(order) /\ 1..Len(order) \subseteq Nat
    BY <1>1
  <2>2. IsFiniteSet(1..Len(order))
    BY <1>1, FS_Interval
  <2> QED
    BY <2>1, <2>2, FS_Subset
<1>3. \A i \in fit : AccountCandidate(order[i], asked, tried, usable)
  OBVIOUS
<1>4. \A i \in 1..Len(order) : AccountCandidate(order[i], asked, tried, usable) => i \in fit
  BY <1>1
<1>5. c = [n \in 1..Cardinality(fit) |-> order[nth(n)]] /\ Cardinality(fit) \in Nat
  BY <1>2, FS_CardinalityType DEF Candidates
<1> HIDE DEF c, fit
<1>6. \A n \in 1..Cardinality(fit) : nth(n) \in fit /\ C(nth(n)) = n
  <2> TAKE n \in 1..Cardinality(fit)
  <2>1. \E i \in fit : C(i) = n
    BY <1>1, <1>2, NthPosition
  <2> QED
    BY <2>1, Zenon
<1>7. \A i, k \in fit : i < k => C(i) < C(k)
  BY <1>2, PositionsGrow
<1>8. \A i \in fit : C(i) \in 1..Cardinality(fit)
  <2> TAKE i \in fit
  <2> DEFINE upTo == {j \in fit : j <= i}
  <2>1. upTo \subseteq fit /\ IsFiniteSet(upTo) /\ i \in upTo
    BY <1>2, FS_Subset
  <2>2. Cardinality(upTo) \in Nat /\ Cardinality(upTo) <= Cardinality(fit) /\ Cardinality(upTo) # 0
    BY <1>2, <2>1, FS_Subset, FS_CardinalityType, FS_EmptySet
  <2> QED
    BY <1>5, <2>2
<1> HIDE DEF C, nth
<1>9. \A i \in fit : nth(C(i)) = i
  <2> TAKE i \in fit
  <2>1. nth(C(i)) \in fit /\ C(nth(C(i))) = C(i) /\ i \in Nat /\ nth(C(i)) \in Nat
    BY <1>2, <1>6, <1>8
  <2>2. ~(i < nth(C(i))) /\ ~(nth(C(i)) < i)
    BY <1>7, <1>8, <2>1
  <2> QED
    BY <2>1, <2>2
<1>10. Len(c) = Cardinality(fit) /\ c \in Seq(Accounts)
  <2>1. \A n \in 1..Cardinality(fit) : order[nth(n)] \in Accounts
    BY <1>1, <1>2, <1>6
  <2>2. c \in [1..Cardinality(fit) -> Accounts]
    BY <1>5, <2>1
  <2> QED
    BY <1>5, <2>2, SeqDef, LenProperties
<1>11. \A n \in 1..Len(c) : AccountCandidate(c[n], asked, tried, usable)
  BY <1>3, <1>5, <1>6, <1>10
<1>12. ASSUME NEW i \in 1..Len(order), AccountCandidate(order[i], asked, tried, usable)
       PROVE  \E n \in 1..Len(c) : c[n] = order[i]
  <2>1. i \in fit /\ C(i) \in 1..Len(c)
    BY <1>4, <1>8, <1>10, <1>12
  <2> QED
    BY <1>5, <1>9, <1>10, <2>1
<1>13. ASSUME NEW m \in 1..Len(c), NEW n \in 1..Len(c), m < n
       PROVE  \E i, k \in 1..Len(order) : i < k /\ c[m] = order[i] /\ c[n] = order[k]
  <2>1. /\ nth(m) \in fit /\ nth(n) \in fit /\ C(nth(m)) = m /\ C(nth(n)) = n
        /\ c[m] = order[nth(m)] /\ c[n] = order[nth(n)]
    BY <1>5, <1>6, <1>10
  <2>2. nth(m) \in 1..Len(order) /\ nth(n) \in 1..Len(order)
    BY <1>2, <2>1
  <2>3. ~(nth(n) < nth(m)) /\ nth(n) # nth(m)
    BY <1>7, <1>13, <2>1
  <2> QED
    BY <1>1, <2>1, <2>2, <2>3
<1> QED
  BY <1>10, <1>11, <1>12, <1>13 DEF c

-----------------------------------------------------------------------------
(* The weights.                                                            *)

\* The code counts an account without a limit as 100: no weight is zero.
LEMMA WeightPositive == \A a \in Accounts : Weight(a) \in Nat \ {0}
BY SelectionAssumption DEF Weight

\* s sums up the weights w of the candidates c.
SumsUp(s, c, w) ==
    /\ s \in [0..Len(c) -> Nat]
    /\ s[0] = 0
    /\ \A i \in 1..Len(c) : s[i] = s[i - 1] + w[c[i]]

Weights == [a \in Accounts |-> Weight(a)]

\* The recursive definition has a solution, which sums up the weights.
LEMMA CumulativeSumsUp ==
    ASSUME NEW c \in Seq(Accounts)
    PROVE  SumsUp(Cumulative(c), c, Weights)
<1> DEFINE n == Len(c)
           W(i) == Weight(c[i])
           Sum(f, m) == /\ f \in [0..m -> Nat] /\ f[0] = 0
                        /\ \A i \in 1..m : f[i] = f[i - 1] + W(i)
           unsolved == {m \in Nat : m <= n /\ ~\E f : Sum(f, m)}
<1>1. n \in Nat /\ \A i \in 1..n : c[i] \in Accounts /\ W(i) \in Nat
  BY LenProperties, ElementOfSeq, WeightPositive
<1> HIDE DEF n, W
<1>2. unsolved = {}
  <2> SUFFICES ASSUME unsolved # {} PROVE FALSE
    OBVIOUS
  <2>1. PICK m \in unsolved : \A k \in unsolved : m <= k
    BY Least
  <2>2. CASE m = 0
    <3>1. Sum([i \in 0..0 |-> 0], 0)
      OBVIOUS
    <3> QED
      BY <2>1, <2>2, <3>1
  <2>3. CASE m # 0
    <3>1. m - 1 \in Nat /\ m - 1 <= n /\ m - 1 \notin unsolved
      <4>1. m \in Nat /\ m <= n
        OBVIOUS
      <4>2. m - 1 \in Nat /\ m - 1 <= n /\ ~(m <= m - 1)
        BY <1>1, <2>3, <4>1
      <4> HIDE DEF unsolved
      <4> QED
        BY <2>1, <4>2, Zenon
    <3>2. PICK f : Sum(f, m - 1)
      BY <3>1, Zenon
    <3> DEFINE g == [i \in 0..m |-> IF i < m THEN f[i] ELSE f[m - 1] + W(m)]
    <3>3. f[m - 1] \in Nat /\ W(m) \in Nat /\ m \in Nat
      BY <1>1, <2>1, <2>3, <3>1, <3>2
    <3>4. g \in [0..m -> Nat] /\ g[0] = 0
      BY <2>3, <3>2, <3>3
    <3>5. \A i \in 1..m : g[i] = g[i - 1] + W(i)
      BY <3>2, <3>3
    <3> QED
      BY <2>1, <3>4, <3>5
  <2> QED
    BY <2>2, <2>3
<1>3. PICK f : Sum(f, n)
  <2>1. n <= n /\ n \in Nat
    BY <1>1
  <2> QED
    BY <1>2, <2>1, Zenon
<1> DEFINE Solves(g) == g = [i \in 0..n |-> IF i = 0 THEN 0 ELSE g[i - 1] + W(i)]
<1>4. Solves(f)
  BY <1>1, <1>3
<1> DEFINE sum == CHOOSE g : Solves(g)
<1>5. Solves(sum)
  BY <1>4
<1>6. Cumulative(c) = sum
  BY DEF Cumulative, n, W
<1> HIDE DEF sum
<1>7. sum[0] = 0 /\ \A i \in 1..n : sum[i] = sum[i - 1] + W(i)
  BY <1>1, <1>5
<1>8. \A i \in 0..n : sum[i] \in Nat
  <2> DEFINE wrong == {m \in Nat : m <= n /\ sum[m] \notin Nat}
  <2> SUFFICES ASSUME wrong # {} PROVE FALSE
    BY <1>1
  <2>1. PICK m \in wrong : \A k \in wrong : m <= k
    BY Least
  <2>2. m # 0
    BY <1>7, <2>1
  <2>3. m - 1 \in Nat /\ m \in 1..n /\ sum[m - 1] \in Nat
    BY <1>1, <2>1, <2>2
  <2> QED
    BY <1>1, <1>7, <2>1, <2>3
<1>9. sum \in [0..n -> Nat]
  BY <1>5, <1>8
<1> QED
  BY <1>1, <1>6, <1>7, <1>9 DEF SumsUp, Weights, n, W

\* The sums grow.
LEMMA SumsGrow ==
    ASSUME NEW c \in Seq(Accounts), NEW w \in [Accounts -> Nat], NEW s, SumsUp(s, c, w)
    PROVE  \A i, k \in 0..Len(c) : i <= k => s[i] <= s[k]
<1> TAKE i \in 0..Len(c)
<1> DEFINE n == Len(c)
           smaller == {k \in Nat : i <= k /\ k <= n /\ ~(s[i] <= s[k])}
<1>1. n \in Nat /\ i \in Nat /\ s \in [0..n -> Nat] /\ \A k \in 1..n : w[c[k]] \in Nat
  BY LenProperties, ElementOfSeq DEF SumsUp
<1>2. \A k \in 1..n : s[k] = s[k - 1] + w[c[k]]
  BY DEF SumsUp
<1> HIDE DEF n
<1>3. smaller = {}
  <2> SUFFICES ASSUME smaller # {} PROVE FALSE
    OBVIOUS
  <2>1. PICK k \in smaller : \A m \in smaller : k <= m
    BY Least
  <2>2. k # i
    BY <1>1, <2>1
  <2>3. k - 1 \in Nat /\ k \in 1..n /\ i <= k - 1 /\ s[i] <= s[k - 1]
    BY <1>1, <2>1, <2>2
  <2>4. s[k] = s[k - 1] + w[c[k]] /\ w[c[k]] \in Nat
    BY <1>1, <1>2, <2>3
  <2>5. s[i] \in Nat /\ s[k - 1] \in Nat
    BY <1>1, <2>1, <2>3
  <2> QED
    BY <2>1, <2>3, <2>4, <2>5
<1> QED
  BY <1>1, <1>3 DEF n

\* How many numbers there are from 1 to k.
LEMMA NumbersTo == \A k \in Nat : IsFiniteSet(1..k) /\ Cardinality(1..k) = k
<1> TAKE k \in Nat
<1>1. IsFiniteSet(1..k) /\ Cardinality(1..k) = IF 1 > k THEN 0 ELSE k - 1 + 1
  BY FS_Interval
<1> QED
  BY <1>1

\* One ticket for each unit of the candidates' weights: the sum counts them.
LEMMA TicketsCounted ==
    ASSUME NEW c \in Seq(Accounts), IsInjective(c),
           NEW w \in [Accounts -> Nat], NEW s, SumsUp(s, c, w)
    PROVE  LET tickets == UNION {{a} \X (1..w[a]) : a \in {c[i] : i \in 1..Len(c)}}
           IN  IsFiniteSet(tickets) /\ Cardinality(tickets) = s[Len(c)]
<1> DEFINE n == Len(c)
           first(m) == {c[i] : i \in 1..m}
           of(a) == {a} \X (1..w[a])
           T(m) == UNION {of(a) : a \in first(m)}
           wrong == {m \in Nat : m <= n /\ ~(IsFiniteSet(T(m)) /\ Cardinality(T(m)) = s[m])}
<1>1. /\ n \in Nat /\ \A i \in 1..n : c[i] \in Accounts /\ w[c[i]] \in Nat
      /\ \A i, j \in 1..n : c[i] = c[j] => i = j
  BY LenProperties, ElementOfSeq DEF IsInjective
<1>2. s \in [0..n -> Nat] /\ s[0] = 0 /\ \A i \in 1..n : s[i] = s[i - 1] + w[c[i]]
  BY DEF SumsUp
<1> HIDE DEF n
<1>3. T(0) = {}
  OBVIOUS
<1>4. ASSUME NEW m \in 1..n
      PROVE  T(m) = T(m - 1) \cup of(c[m]) /\ T(m - 1) \cap of(c[m]) = {}
  <2>1. \A i \in Nat : i \in 1..m <=> i \in 1..m - 1 \/ i = m
    BY <1>1
  <2>2. first(m) = first(m - 1) \cup {c[m]}
    BY <1>1, <2>1
  <2>3. c[m] \notin first(m - 1)
    BY <1>1
  <2> HIDE DEF first
  <2>4. T(m) = T(m - 1) \cup of(c[m])
    BY <2>2
  <2>5. \A a : a # c[m] => of(a) \cap of(c[m]) = {}
    OBVIOUS
  <2>6. \A a \in first(m - 1) : of(a) \cap of(c[m]) = {}
    BY <2>3, <2>5
  <2> HIDE DEF of
  <2>7. T(m - 1) \cap of(c[m]) = {}
    BY <2>6
  <2> QED
    BY <2>4, <2>7
<1>5. ASSUME NEW m \in 1..n
      PROVE  IsFiniteSet(of(c[m])) /\ Cardinality(of(c[m])) = w[c[m]]
  <2>1. w[c[m]] \in Nat
    BY <1>1
  <2>2. IsFiniteSet(1..w[c[m]]) /\ Cardinality(1..w[c[m]]) = w[c[m]]
    BY <2>1, NumbersTo
  <2>3. IsFiniteSet({c[m]}) /\ Cardinality({c[m]}) = 1
    BY FS_Singleton
  <2>4. IsFiniteSet(of(c[m])) /\ Cardinality(of(c[m])) = 1 * w[c[m]]
    <3> DEFINE one == {c[m]}
               many == 1..w[c[m]]
    <3>1. of(c[m]) = one \X many
      OBVIOUS
    <3> HIDE DEF one, many, of
    <3>2. IsFiniteSet(one \X many) /\ Cardinality(one \X many) = Cardinality(one) * Cardinality(many)
      BY <2>2, <2>3, FS_Product DEF one, many
    <3> QED
      BY <2>2, <2>3, <3>1, <3>2 DEF one, many
  <2> QED
    BY <2>1, <2>4
<1> HIDE DEF T, of
<1>6. wrong = {}
  <2> SUFFICES ASSUME wrong # {} PROVE FALSE
    OBVIOUS
  <2>1. PICK m \in wrong : \A k \in wrong : m <= k
    BY Least
  <2>2. m # 0
    BY <1>2, <1>3, <2>1, FS_EmptySet
  <2>3. m \in 1..n /\ m - 1 \in Nat /\ m - 1 <= n /\ ~(m <= m - 1)
    BY <1>1, <2>1, <2>2
  <2>4. IsFiniteSet(T(m - 1)) /\ Cardinality(T(m - 1)) = s[m - 1]
    BY <2>1, <2>3, Zenon
  <2>5. IsFiniteSet(T(m)) /\ Cardinality(T(m)) = s[m - 1] + w[c[m]] - Cardinality({})
    <3>1. IsFiniteSet(of(c[m])) /\ Cardinality(of(c[m])) = w[c[m]]
      BY <1>5, <2>3
    <3>2. T(m) = T(m - 1) \cup of(c[m]) /\ T(m - 1) \cap of(c[m]) = {}
      BY <1>4, <2>3
    <3>3. /\ IsFiniteSet(T(m - 1) \cup of(c[m]))
          /\ Cardinality(T(m - 1) \cup of(c[m]))
                = Cardinality(T(m - 1)) + Cardinality(of(c[m]))
                     - Cardinality(T(m - 1) \cap of(c[m]))
      BY <2>4, <3>1, FS_Union
    <3> QED
      BY <2>4, <3>1, <3>2, <3>3
  <2>6. s[m - 1] \in Nat /\ w[c[m]] \in Nat /\ s[m] = s[m - 1] + w[c[m]] /\ Cardinality({}) = 0
    BY <1>1, <1>2, <2>3, FS_EmptySet
  <2>7. Cardinality(T(m)) = s[m]
    BY <2>5, <2>6
  <2> QED
    BY <2>1, <2>5, <2>7, Zenon
<1>7. IsFiniteSet(T(n)) /\ Cardinality(T(n)) = s[n]
  <2>1. n <= n /\ n \in Nat
    BY <1>1
  <2> QED
    BY <1>6, <2>1, Zenon
<1> QED
  BY <1>7 DEF T, of, n

-----------------------------------------------------------------------------
(* The balancers.                                                          *)

\* The weighted balancer goes to the candidate whose weights the turn falls on.
LEMMA WeightedPicks ==
    ASSUME NEW c \in Seq(Accounts), c # <<>>, NEW turn \in Nat
    PROVE  LET s == Cumulative(c)
               idx == turn % s[Len(c)]
           IN  /\ s[Len(c)] \in Nat \ {0}
               /\ \E p \in 1..Len(c) : /\ Weighted(c, turn) = c[p]
                                       /\ s[p - 1] <= idx /\ idx < s[p]
<1> DEFINE n == Len(c)
           s == Cumulative(c)
           idx == turn % s[n]
           reached == {i \in DOMAIN c : idx < s[i]}
<1>1. n \in Nat \ {0} /\ DOMAIN c = 1..n /\ \A i \in 1..n : c[i] \in Accounts
  BY LenProperties, ElementOfSeq, EmptySeq
<1>2. s \in [0..n -> Nat] /\ s[0] = 0 /\ \A i \in 1..n : s[i] = s[i - 1] + Weight(c[i])
  BY <1>1, CumulativeSumsUp DEF SumsUp, Weights
<1>3. Weighted(c, turn) = c[IF reached = {} THEN n ELSE First(reached)]
  BY DEF Weighted
<1> HIDE DEF s, n
<1>4. s[n] \in Nat \ {0}
  <2>1. n \in 1..n /\ n - 1 \in 0..n
    BY <1>1
  <2>2. s[n] = s[n - 1] + Weight(c[n]) /\ s[n - 1] \in Nat /\ Weight(c[n]) \in Nat \ {0}
    BY <1>1, <1>2, <2>1, WeightPositive
  <2> QED
    BY <2>2
<1>5. idx \in Nat /\ idx < s[n]
  <2>1. idx \in 0..s[n] - 1
    BY <1>4, TurnInRange
  <2> QED
    BY <1>4, <2>1
<1> HIDE DEF idx
<1>6. n \in reached /\ reached \in SUBSET Nat
  BY <1>1, <1>5
<1>7. PICK p \in reached : p = First(reached) /\ \A i \in reached : p <= i
  BY <1>6, FirstIsLeast
<1>8. Weighted(c, turn) = c[p] /\ p \in 1..n /\ idx < s[p]
  BY <1>1, <1>3, <1>6, <1>7
<1>9. s[p - 1] <= idx
  <2>1. CASE p = 1
    BY <1>2, <1>5, <2>1
  <2>2. CASE p # 1
    <3>1. p - 1 \in 1..n /\ ~(p <= p - 1)
      BY <1>1, <1>8, <2>2
    <3>2. p - 1 \notin reached
      BY <1>7, <3>1
    <3>3. ~(idx < s[p - 1]) /\ s[p - 1] \in Nat
      BY <1>1, <1>2, <3>1, <3>2
    <3> QED
      BY <1>5, <3>3
  <2> QED
    BY <2>1, <2>2
<1> QED
  BY <1>4, <1>8, <1>9 DEF s, n, idx

\* The least loaded candidate, whatever the loads are.
LEMMA LeastConnectionsPicks ==
    ASSUME NEW c \in Seq(Accounts), c # <<>>, NEW load \in [Accounts -> Nat]
    PROVE  \E p \in 1..Len(c) : /\ LeastConnections(c, load) = c[p]
                                /\ \A i \in 1..Len(c) : load[c[p]] <= load[c[i]]
<1> DEFINE n == Len(c)
           loads == {load[c[i]] : i \in 1..n}
           least == {i \in DOMAIN c : \A j \in DOMAIN c : load[c[i]] <= load[c[j]]}
<1>1. n \in Nat \ {0} /\ DOMAIN c = 1..n /\ \A i \in 1..n : c[i] \in Accounts
  BY LenProperties, ElementOfSeq, EmptySeq
<1> HIDE DEF n
<1>2. loads \in SUBSET Nat /\ load[c[1]] \in loads
  BY <1>1
<1>3. PICK k \in loads : \A m \in loads : k <= m
  BY <1>2, Least
<1>4. least # {} /\ least \in SUBSET Nat
  BY <1>1, <1>3
<1>5. First(least) \in least
  BY <1>4, FirstIsLeast
<1> QED
  BY <1>1, <1>5 DEF LeastConnections, n

\* Over as many turns as there are weights a candidate gets as many as its own
\* (balancer.go:66-97).
THEOREM WeightedShare ==
    ASSUME NEW c \in Seq(Accounts), IsInjective(c), NEW q \in 1..Len(c)
    PROVE  Cardinality({t \in 0..Cumulative(c)[Len(c)] - 1 : c[q] = Weighted(c, t)})
              = Weight(c[q])
<1> DEFINE n == Len(c)
           s == Cumulative(c)
           got == {t \in 0..s[n] - 1 : c[q] = Weighted(c, t)}
<1>1. n \in Nat \ {0} /\ DOMAIN c = 1..n /\ c # <<>> /\ c[q] \in Accounts
  BY LenProperties, ElementOfSeq, EmptySeq
<1>2. s \in [0..n -> Nat] /\ \A i \in 1..n : s[i] = s[i - 1] + Weight(c[i])
  BY <1>1, CumulativeSumsUp, ElementOfSeq DEF SumsUp, Weights
<1>3. \A i, k \in 0..n : i <= k => s[i] <= s[k]
  BY CumulativeSumsUp, SumsGrow, WeightPositive DEF Weights
<1>4. s[n] \in Nat \ {0} /\ \A t \in Nat : \E p \in 1..n :
          Weighted(c, t) = c[p] /\ s[p - 1] <= t % s[n] /\ t % s[n] < s[p]
  BY <1>1, WeightedPicks
<1>5. \A i, j \in 1..n : c[i] = c[j] => i = j
  BY <1>1 DEF IsInjective
<1> HIDE DEF s, n
<1>6. q \in 1..n
  BY DEF n
<1>7. ASSUME NEW t \in 0..s[n] - 1
      PROVE  c[q] = Weighted(c, t) <=> t \in s[q - 1]..s[q] - 1
  <2>1. t \in Nat /\ t < s[n] /\ t % s[n] = t
    <3>1. s[n] \in Nat \ {0}
      BY <1>4
    <3>2. t \in Nat /\ t < s[n]
      BY <3>1
    <3> QED
      BY <3>1, <3>2, TurnInRange
  <2>2. PICK p \in 1..n : Weighted(c, t) = c[p] /\ s[p - 1] <= t /\ t < s[p]
    BY <1>4, <2>1
  <2>3. /\ p - 1 \in 0..n /\ q - 1 \in 0..n /\ p \in 0..n /\ q \in 0..n
        /\ p \in Nat /\ q \in Nat
    BY <1>1, <1>6
  <2>4. s[p - 1] \in Nat /\ s[q - 1] \in Nat /\ s[p] \in Nat /\ s[q] \in Nat
    BY <1>2, <2>3
  <2>5. p < q => s[p] <= s[q - 1]
    BY <1>3, <2>3
  <2>6. q < p => s[q] <= s[p - 1]
    BY <1>3, <2>3
  <2>7. t \in s[q - 1]..s[q] - 1 <=> p = q
    <3>1. CASE p = q
      BY <2>1, <2>2, <2>4, <3>1
    <3>2. CASE p < q
      <4>1. t < s[q - 1]
        BY <2>1, <2>2, <2>4, <2>5, <3>2
      <4> QED
        BY <2>1, <2>3, <2>4, <3>2, <4>1
    <3>3. CASE q < p
      <4>1. s[q] <= t
        BY <2>1, <2>2, <2>4, <2>6, <3>3
      <4> QED
        BY <2>1, <2>3, <2>4, <3>3, <4>1
    <3> QED
      BY <2>3, <3>1, <3>2, <3>3
  <2> QED
    BY <1>5, <1>6, <2>2, <2>7
<1>8. s[q - 1] \in Nat /\ s[q] \in Nat /\ s[q] <= s[n] /\ s[q] = s[q - 1] + Weight(c[q])
  BY <1>1, <1>2, <1>3, <1>6
<1>9. got = s[q - 1]..s[q] - 1
  <2>1. \A t \in s[q - 1]..s[q] - 1 : t \in 0..s[n] - 1
    <3>1. s[n] \in Nat
      BY <1>4
    <3> QED
      BY <1>8, <3>1
  <2> QED
    BY <1>7, <2>1
<1>10. Weight(c[q]) \in Nat \ {0}
  BY <1>1, WeightPositive
<1>11. Cardinality(s[q - 1]..s[q] - 1) = Weight(c[q])
  <2> DEFINE a == s[q - 1]
             b == s[q] - 1
  <2>1. a \in Int /\ b \in Int /\ ~(a > b) /\ b - a + 1 = Weight(c[q])
    BY <1>8, <1>10
  <2> HIDE DEF a, b
  <2>2. Cardinality(a..b) = b - a + 1
    BY <2>1, FS_Interval
  <2> QED
    BY <2>1, <2>2 DEF a, b
<1> QED
  BY <1>9, <1>11 DEF s, n

\* Over as many turns as there are candidates each gets one (balancer.go:22-29).
THEOREM RoundRobinShare ==
    ASSUME NEW c \in Seq(Accounts), IsInjective(c), NEW q \in 1..Len(c)
    PROVE  Cardinality({t \in 0..Len(c) - 1 : c[q] = RoundRobin(c, t)}) = 1
<1> DEFINE n == Len(c)
<1>1. n \in Nat \ {0} /\ DOMAIN c = 1..n
  BY LenProperties
<1>2. \A i, j \in 1..n : c[i] = c[j] => i = j
  BY <1>1 DEF IsInjective
<1>3. ASSUME NEW t \in 0..n - 1 PROVE c[q] = RoundRobin(c, t) <=> t = q - 1
  <2>1. t % n = t
    <3>1. t \in Nat /\ t < n
      BY <1>1
    <3> QED
      BY <1>1, <3>1, TurnInRange
  <2>2. RoundRobin(c, t) = c[t + 1]
    BY <2>1 DEF RoundRobin
  <2> QED
    BY <1>1, <1>2, <2>2
<1>4. {t \in 0..n - 1 : c[q] = RoundRobin(c, t)} = {q - 1}
  BY <1>1, <1>3
<1> QED
  BY <1>4, FS_Singleton

\* Whatever the strategy, one of the candidates is selected.
THEOREM BalancePicks ==
    ASSUME NEW c \in Seq(Accounts), c # <<>>, NEW name \in Strategies,
           NEW turn \in Nat, NEW load \in [Accounts -> Nat]
    PROVE  \E p \in 1..Len(c) : Balance(name, c, turn, load) = c[p]
<1>1. Len(c) \in Nat \ {0}
  BY LenProperties, EmptySeq
<1>2. CASE name = "round_robin"
  <2>1. turn % Len(c) \in 0..Len(c) - 1
    BY <1>1, TurnInRange
  <2> QED
    <3> DEFINE k == turn % Len(c)
    <3>1. k \in 0..Len(c) - 1
      BY <2>1
    <3>2. Balance(name, c, turn, load) = c[k + 1]
      BY <1>2 DEF Balance, RoundRobin
    <3> HIDE DEF k
    <3>3. k + 1 \in 1..Len(c)
      BY <1>1, <3>1
    <3> QED
      BY <3>2, <3>3
<1>3. CASE name = "weighted"
  BY <1>3, WeightedPicks DEF Balance
<1>4. CASE name = "least_connections"
  BY <1>4, LeastConnectionsPicks DEF Balance
<1>5. CASE name = "priority"
  BY <1>1, <1>5 DEF Balance, Priority
<1> QED
  BY <1>2, <1>3, <1>4, <1>5 DEF Strategies

\* A sequence of all accounts has each of them once.
LEMMA SequencesOfAccounts ==
    ASSUME NEW order \in SetToSeqs(Accounts)
    PROVE  /\ order \in Seq(Accounts) /\ Len(order) = Cardinality(Accounts)
           /\ \A i, j \in 1..Len(order) : order[i] = order[j] => i = j
           /\ \A a \in Accounts : \E i \in 1..Len(order) : order[i] = a
<1> DEFINE N == Cardinality(Accounts)
<1>1. N \in Nat /\ IsFiniteSet(Accounts)
  BY SelectionAssumption, FS_CardinalityType
<1>2. order \in [1..N -> Accounts] /\ \A i, j \in 1..N : i # j => order[i] # order[j]
  BY DEF SetToSeqs
<1>3. order \in Injection(1..N, Accounts)
  BY <1>2 DEF Injection, IsInjective
<1>4. order \in Bijection(1..N, Range(order))
  BY <1>3, Fun_InjMeansBijImage
<1>5. Cardinality(Range(order)) = N
  <2>1. IsFiniteSet(1..N) /\ Cardinality(1..N) = N
    BY <1>1, NumbersTo
  <2>2. ExistsBijection(1..N, Range(order))
    BY <1>4 DEF ExistsBijection
  <2> QED
    BY <2>1, <2>2, FS_Bijection
<1>6. Range(order) = Accounts
  <2>1. Range(order) \subseteq Accounts
    BY <1>2 DEF Range
  <2> QED
    BY <1>1, <1>5, <2>1, FS_Subset
<1>7. order \in Seq(Accounts) /\ Len(order) = N
  BY <1>1, <1>2, SeqDef, LenProperties
<1> QED
  BY <1>2, <1>6, <1>7 DEF Range

-----------------------------------------------------------------------------
(* The inductive invariant.                                                *)

\* The attempt the request is at: each attempt before it has excluded one
\* account, and the one it works on is not among them.
InAttempt ==
    /\ pc # "done" => attempt < MaxAttempts /\ Cardinality(excluded) = attempt
    /\ pc \in {"slot", "call", "backoff", "settle"} =>
          \E a \in Accounts \ excluded : current = {a}
    /\ pc = "start" => attempt = 0
    /\ ~keyed => strategy = "round_robin"

\* A call made in an earlier attempt, on an account that was given up and
\* reported since.
Past(c) == c[2] < attempt /\ c[1] \in excluded /\ c[1] \in ReportedAccounts

\* A call made in this attempt, of the retries up to n.
Current(c, n) == c[2] = attempt /\ c[1] \in current /\ c[3] <= n

CallsInOrder ==
    /\ pc \in {"start", "select", "slot"} => \A c \in calls : Past(c)
    /\ pc = "call" => \A c \in calls : Past(c) \/ Current(c, retry - 1)
    /\ pc \in {"backoff", "settle"} => \A c \in calls : Past(c) \/ Current(c, retry)

\* What the retries leave behind.
Outcome ==
    /\ pc \in {"start", "select", "slot"} => result # "ok"
    /\ pc = "call" => result = IF retry = 0 THEN "none" ELSE "retry"
    /\ pc = "backoff" => result = "retry" /\ retry < MaxRetries

\* Nothing reaches the client before a call does, and what does ends the retries.
Heard ==
    /\ pc \notin {"settle", "done"} => seen = {} /\ header = "none"
    /\ pc = "settle" => /\ seen \subseteq {<<attempt, retry>>}
                        /\ seen # {} => header = "stream"

\* Until the answer, only failures are reported, of accounts given up.
Reported ==
    /\ IsFiniteSet(reported)
    /\ pc # "done" => /\ ReportedAccounts \subseteq excluded
                      /\ charged <= attempt
                      /\ \A r \in reported : r[2] = "failure"

IInv ==
    /\ TypeOK
    /\ InAttempt
    /\ CallsInOrder
    /\ Outcome
    /\ Heard
    /\ Reported
    /\ OneProviderSpeaks
    /\ SelectionKeepsPromise
    /\ SlotsBalanced
    /\ OutcomesReported

-----------------------------------------------------------------------------
(* The selection.                                                          *)

\* The candidates are the available accounts, each once, and in the order of
\* the group if there is one.
LEMMA CandidatesAvailable ==
    ASSUME TypeOK, NEW f \in Encounters
    PROVE  LET c == CandidatesOf(f)
           IN  /\ c \in Seq(Accounts) /\ IsInjective(c)
               /\ \A a \in Accounts : Available(a, f) <=> \E n \in 1..Len(c) : c[n] = a
               /\ keyed => \A m, n \in 1..Len(c) : m < n => c[m] < c[n]
<1> DEFINE c == CandidatesOf(f)
           o == f.order
<1>1. o \in SetToSeqs(Accounts) /\ (keyed => \A i, j \in DOMAIN o : i < j => o[i] < o[j])
  BY DEF Encounters, Orders
<1>2. /\ o \in Seq(Accounts)
      /\ \A i, j \in 1..Len(o) : o[i] = o[j] => i = j
      /\ \A a \in Accounts : \E i \in 1..Len(o) : o[i] = a
  BY <1>1, SequencesOfAccounts
<1>3. c = Candidates(o, model, excluded, f.usable)
  BY DEF CandidatesOf
<1>4. /\ c \in Seq(Accounts)
      /\ \A n \in 1..Len(c) : AccountCandidate(c[n], model, excluded, f.usable)
      /\ \A i \in 1..Len(o) :
            AccountCandidate(o[i], model, excluded, f.usable) =>
                \E n \in 1..Len(c) : c[n] = o[i]
      /\ \A m, n \in 1..Len(c) : m < n =>
            \E i, k \in 1..Len(o) : i < k /\ c[m] = o[i] /\ c[n] = o[k]
  <2> DEFINE d == Candidates(o, model, excluded, f.usable)
  <2> HIDE DEF o
  <2>1. o \in Seq(Accounts)
    BY <1>2
  <2>2. /\ d \in Seq(Accounts)
        /\ \A n \in 1..Len(d) : AccountCandidate(d[n], model, excluded, f.usable)
        /\ \A i \in 1..Len(o) :
              AccountCandidate(o[i], model, excluded, f.usable) =>
                  \E n \in 1..Len(d) : d[n] = o[i]
        /\ \A m, n \in 1..Len(d) : m < n =>
              \E i, k \in 1..Len(o) : i < k /\ d[m] = o[i] /\ d[n] = o[k]
    BY <2>1, CandidatesAre
  <2>3. c = d
    BY <1>3
  <2> HIDE DEF c, d
  <2> QED
    BY <2>2, <2>3
<1> HIDE DEF c, o
<1>5. DOMAIN o = 1..Len(o) /\ DOMAIN c = 1..Len(c) /\ Len(o) \in Nat /\ Len(c) \in Nat
  BY <1>2, <1>4, LenProperties
<1>6. \A m, n \in 1..Len(c) : m < n => c[m] # c[n]
  <2> TAKE m, n \in 1..Len(c)
  <2> HAVE m < n
  <2>1. PICK i, k \in 1..Len(o) : i < k /\ c[m] = o[i] /\ c[n] = o[k]
    BY <1>4
  <2>2. i # k
    BY <1>5, <2>1
  <2> QED
    BY <1>2, <2>1, <2>2
<1>7. IsInjective(c)
  BY <1>5, <1>6 DEF IsInjective
<1>8. \A a : Available(a, f) <=> AccountCandidate(a, model, excluded, f.usable)
  BY DEF Available, AccountCandidate
<1>9. \A a \in Accounts : Available(a, f) <=> \E n \in 1..Len(c) : c[n] = a
  <2> TAKE a \in Accounts
  <2>1. ASSUME Available(a, f) PROVE \E n \in 1..Len(c) : c[n] = a
    <3>1. PICK i \in 1..Len(o) : o[i] = a
      BY <1>2
    <3>2. AccountCandidate(o[i], model, excluded, f.usable)
      BY <1>8, <2>1, <3>1
    <3> QED
      BY <1>4, <3>1, <3>2
  <2>2. ASSUME NEW n \in 1..Len(c), c[n] = a PROVE Available(a, f)
    BY <1>4, <1>8, <2>2
  <2> QED
    BY <2>1, <2>2
<1>10. keyed => \A m, n \in 1..Len(c) : m < n => c[m] < c[n]
  <2> SUFFICES ASSUME keyed, NEW m \in 1..Len(c), NEW n \in 1..Len(c), m < n
               PROVE  c[m] < c[n]
    OBVIOUS
  <2>1. PICK i, k \in 1..Len(o) : i < k /\ c[m] = o[i] /\ c[n] = o[k]
    BY <1>4
  <2> QED
    BY <1>1, <1>5, <2>1
<1> QED
  BY <1>4, <1>7, <1>9, <1>10 DEF c

\* What a selection meets is what the balancers take.
LEMMA EncounterTypes ==
    ASSUME TypeOK, NEW f \in Encounters
    PROVE  f.turn \in Nat /\ f.load \in [Accounts -> Nat]
<1>1. f.turn \in (0..MaxTurn) \cup {0}
  BY DEF Encounters
<1>2. f.load \in [Accounts -> {0, 1}] \cup {[a \in Accounts |-> 0]}
  BY DEF Encounters
<1> QED
  BY <1>1, <1>2, LoopAssumption

\* The account selected is available, and the strategy keeps its promise.
LEMMA SelectedAsPromised ==
    ASSUME TypeOK, InAttempt, NEW f \in Encounters, CandidatesOf(f) # <<>>,
           NEW a, a = Balance(strategy, CandidatesOf(f), f.turn, f.load)
    PROVE  /\ a \in Accounts /\ Available(a, f)
           /\ \A b \in Accounts : Available(b, f) =>
                 CASE strategy = "priority" -> a <= b
                   [] strategy = "least_connections" -> f.load[a] <= f.load[b]
                   [] OTHER -> Share(a, f)
<1> DEFINE c == CandidatesOf(f)
<1>1. /\ c \in Seq(Accounts) /\ IsInjective(c) /\ c # <<>>
      /\ \A b \in Accounts : Available(b, f) <=> \E n \in 1..Len(c) : c[n] = b
      /\ keyed => \A m, n \in 1..Len(c) : m < n => c[m] < c[n]
  BY CandidatesAvailable
<1>2. f.turn \in Nat /\ f.load \in [Accounts -> Nat] /\ strategy \in Strategies
  BY EncounterTypes DEF TypeOK
<1> HIDE DEF c
<1>3. Len(c) \in Nat \ {0} /\ \A n \in 1..Len(c) : c[n] \in Accounts
  BY <1>1, LenProperties, ElementOfSeq, EmptySeq
<1>4. PICK p \in 1..Len(c) : a = c[p]
  <2>1. \E p \in 1..Len(c) : Balance(strategy, c, f.turn, f.load) = c[p]
    BY <1>1, <1>2, BalancePicks
  <2>2. a = Balance(strategy, c, f.turn, f.load)
    BY DEF c
  <2> QED
    BY <2>1, <2>2
<1>5. a \in Accounts /\ Available(a, f)
  BY <1>1, <1>3, <1>4
<1>6. ASSUME strategy = "priority", NEW b \in Accounts, Available(b, f) PROVE a <= b
  <2>1. a = c[1]
    BY <1>6 DEF Balance, Priority, c
  <2>2. PICK n \in 1..Len(c) : c[n] = b
    BY <1>1, <1>6
  <2>3. keyed
    BY <1>6 DEF InAttempt
  <2>4. 1 \in 1..Len(c) /\ (n = 1 \/ 1 < n)
    BY <1>3
  <2>5. n = 1 \/ c[1] < c[n]
    BY <1>1, <2>3, <2>4
  <2>6. c[1] \in Int /\ c[n] \in Int
    BY <1>3, <2>4, SelectionAssumption
  <2> QED
    BY <2>1, <2>2, <2>5, <2>6
<1>7. ASSUME strategy = "least_connections", NEW b \in Accounts, Available(b, f)
      PROVE  f.load[a] <= f.load[b]
  <2>1. a = LeastConnections(c, f.load)
    BY <1>7 DEF Balance, c
  <2>2. PICK n \in 1..Len(c) : c[n] = b
    BY <1>1, <1>7
  <2> QED
    BY <1>1, <1>2, <2>1, <2>2, LeastConnectionsPicks
<1> DEFINE w(b) == IF strategy = "weighted" THEN Weight(b) ELSE 1
           weights == [b \in Accounts |-> w(b)]
           available == {b \in Accounts : Available(b, f)}
           tickets == UNION {{b} \X (1..w(b)) : b \in available}
<1>8. ASSUME NEW s, SumsUp(s, c, weights) PROVE Cardinality(tickets) = s[Len(c)]
  <2>1. weights \in [Accounts -> Nat] /\ \A b \in Accounts : weights[b] = w(b)
    BY WeightPositive
  <2>2. available = {c[n] : n \in 1..Len(c)}
    BY <1>1, <1>3
  <2> HIDE DEF weights, w
  <2>3. Cardinality(UNION {{b} \X (1..weights[b]) : b \in {c[n] : n \in 1..Len(c)}}) = s[Len(c)]
    BY <1>1, <1>8, <2>1, TicketsCounted
  <2>4. \A b \in available : {b} \X (1..w(b)) = {b} \X (1..weights[b])
    BY <2>1
  <2>5. tickets = UNION {{b} \X (1..weights[b]) : b \in available}
    BY <2>4
  <2> QED
    BY <2>2, <2>3, <2>5
<1>9. ASSUME strategy = "weighted" PROVE Share(a, f)
  <2>1. weights = Weights
    BY <1>9 DEF Weights
  <2>2. Cardinality(tickets) = Cumulative(c)[Len(c)]
    BY <1>1, <1>8, <2>1, CumulativeSumsUp
  <2>3. Cardinality({t \in 0..Cumulative(c)[Len(c)] - 1 : a = Weighted(c, t)}) = Weight(a)
    BY <1>1, <1>4, WeightedShare
  <2>4. \A t : Balance(strategy, c, t, f.load) = Weighted(c, t)
    BY <1>9 DEF Balance
  <2> QED
    BY <1>9, <2>2, <2>3, <2>4 DEF Share, c
<1>10. ASSUME strategy = "round_robin" PROVE Share(a, f)
  <2>1. SumsUp([n \in 0..Len(c) |-> n], c, weights)
    BY <1>3, <1>10 DEF SumsUp
  <2>2. Cardinality(tickets) = Len(c)
    BY <1>3, <1>8, <2>1
  <2>3. Cardinality({t \in 0..Len(c) - 1 : a = RoundRobin(c, t)}) = 1
    BY <1>1, <1>4, RoundRobinShare
  <2>4. \A t : Balance(strategy, c, t, f.load) = RoundRobin(c, t)
    BY <1>10 DEF Balance
  <2> QED
    BY <1>10, <2>2, <2>3, <2>4 DEF Share, c
<1> QED
  BY <1>2, <1>5, <1>6, <1>7, <1>9, <1>10 DEF Strategies

-----------------------------------------------------------------------------
(* Facts the steps share.                                                  *)

\* At least one more account is tried after a failure.
LEMMA MaxAttemptsNat == MaxAttempts \in Nat /\ MaxAttempts >= 2
<1>1. Cardinality(Accounts) \in Nat
  BY SelectionAssumption, FS_CardinalityType
<1> QED
  BY <1>1 DEF MaxAttempts

\* The number of attempts is settled by the request's key.
LEMMA MaxAttemptsStays == ASSUME UNCHANGED keyed PROVE MaxAttempts' = MaxAttempts
BY DEF MaxAttempts

\* What a strategy promised of a selection does not depend on what follows.
LEMMA PromiseStays ==
    ASSUME UNCHANGED <<strategy, model, excluded>>
    PROVE  \A a, f : (Available(a, f)' <=> Available(a, f)) /\ (Share(a, f)' <=> Share(a, f))
BY DEF Available, Share, CandidatesOf

\* One more account is excluded.
LEMMA OneMoreExcluded ==
    ASSUME TypeOK, NEW a \in Accounts, a \notin excluded
    PROVE  Cardinality(excluded \cup {a}) = Cardinality(excluded) + 1
<1>1. IsFiniteSet(excluded)
  BY SelectionAssumption, FS_Subset DEF TypeOK
<1> QED
  BY <1>1, FS_AddElement

\* An account that was not reported is reported.
LEMMA OneMoreReport ==
    ASSUME NEW rep, IsFiniteSet(rep), NEW a, NEW outcome, a \notin {r[1] : r \in rep},
           IsFiniteSet({r[1] : r \in rep}),
           Cardinality({r[1] : r \in rep}) = Cardinality(rep)
    PROVE  LET more == rep \cup {<<a, outcome>>}
           IN  /\ IsFiniteSet(more) /\ Cardinality(more) = Cardinality(rep) + 1
               /\ {r[1] : r \in more} = {r[1] : r \in rep} \cup {a}
               /\ Cardinality({r[1] : r \in more}) = Cardinality(more)
               /\ Cardinality(rep) \in Nat
<1> DEFINE more == rep \cup {<<a, outcome>>}
           names == {r[1] : r \in rep}
<1>1. <<a, outcome>>[1] = a
  OBVIOUS
<1>2. <<a, outcome>> \notin rep
  BY <1>1
<1>3. {r[1] : r \in more} = names \cup {a}
  BY <1>1
<1>4. IsFiniteSet(names)
  OBVIOUS
<1>5. IsFiniteSet(more) /\ Cardinality(more) = Cardinality(rep) + 1
  BY <1>2, FS_AddElement
<1>6. Cardinality(names \cup {a}) = Cardinality(names) + 1
  BY <1>4, FS_AddElement
<1>7. Cardinality(rep) \in Nat
  BY FS_CardinalityType
<1> QED
  BY <1>3, <1>5, <1>6, <1>7

-----------------------------------------------------------------------------
(* Every step keeps the invariant.                                         *)

\* A request is turned away before it acquires anything.
LEMMA RejectKeeps == ASSUME IInv, NEW status \in Statuses, Reject(status) PROVE IInv'
<1> USE DEF IInv
<1>1. /\ pc = "start" /\ pc' = "done" /\ keySlot' = FALSE
      /\ header' = status /\ recordErr' = TRUE
      /\ UNCHANGED <<requestVars, routerVars, loopVars, seen, charged, reported, calls>>
  BY DEF Reject, Fail
<1> USE DEF requestVars, routerVars, loopVars
<1>2. MaxAttempts' = MaxAttempts
  BY <1>1, MaxAttemptsStays
<1>3. TypeOK'
  BY <1>1, <1>2 DEF TypeOK
<1>4. InAttempt' /\ CallsInOrder' /\ Outcome' /\ Heard' /\ Reported' /\ SelectionKeepsPromise'
  BY <1>1 DEF InAttempt, CallsInOrder, Outcome, Heard, Reported, SelectionKeepsPromise
<1>5. OneProviderSpeaks'
  BY <1>1, FS_EmptySet DEF OneProviderSpeaks, Heard
<1>6. SlotsBalanced'
  BY <1>1 DEF SlotsBalanced, OnAccount
<1>7. OutcomesReported'
  BY <1>1 DEF OutcomesReported, CalledAccounts, ReportedAccounts, OnAccount, Reported, Outcome,
     CallsInOrder, Past
<1> QED
  BY <1>3, <1>4, <1>5, <1>6, <1>7

\* A request is admitted and holds a slot of its key.
LEMMA AdmitKeeps == ASSUME IInv, Admit PROVE IInv'
<1> USE DEF IInv
<1>1. /\ pc = "start" /\ pc' = "select" /\ keySlot' = keyed
      /\ UNCHANGED <<requestVars, routerVars, loopVars, clientVars, recordVars, calls>>
  BY DEF Admit
<1> USE DEF requestVars, routerVars, loopVars, clientVars, recordVars
<1>2. MaxAttempts' = MaxAttempts
  BY <1>1, MaxAttemptsStays
<1>3. TypeOK'
  BY <1>1, <1>2 DEF TypeOK
<1>4. InAttempt' /\ Outcome' /\ Heard' /\ SelectionKeepsPromise'
  BY <1>1, <1>2 DEF InAttempt, Outcome, Heard, SelectionKeepsPromise
<1>5. CallsInOrder' /\ Reported'
  BY <1>1 DEF CallsInOrder, Past, ReportedAccounts, Reported
<1>6. OneProviderSpeaks'
  BY <1>1 DEF OneProviderSpeaks
<1>7. SlotsBalanced'
  BY <1>1 DEF SlotsBalanced, OnAccount
<1>8. OutcomesReported'
  BY <1>1 DEF OutcomesReported, CalledAccounts, ReportedAccounts, OnAccount
<1> QED
  BY <1>3, <1>4, <1>5, <1>6, <1>7, <1>8

\* No account is left: the request is answered.
LEMMA NoAccountKeeps == ASSUME IInv, NoAccount PROVE IInv'
<1> USE DEF IInv
<1>1. /\ pc = "select" /\ pc' = "done" /\ keySlot' = FALSE
      /\ header' \in Statuses /\ recordErr' = TRUE
      /\ UNCHANGED <<requestVars, routerVars, loopVars, seen, charged, reported, calls>>
  BY DEF NoAccount, Fail, TypeOK, Statuses
<1> USE DEF requestVars, routerVars, loopVars
<1>2. MaxAttempts' = MaxAttempts
  BY <1>1, MaxAttemptsStays
<1>3. TypeOK'
  BY <1>1, <1>2 DEF TypeOK
<1>4. InAttempt' /\ CallsInOrder' /\ Outcome' /\ Heard' /\ Reported' /\ SelectionKeepsPromise'
  BY <1>1 DEF InAttempt, CallsInOrder, Outcome, Heard, Reported, SelectionKeepsPromise
<1>5. OneProviderSpeaks'
  BY <1>1, FS_EmptySet DEF OneProviderSpeaks, Heard
<1>6. SlotsBalanced'
  BY <1>1 DEF SlotsBalanced, OnAccount
<1>7. OutcomesReported'
  BY <1>1 DEF OutcomesReported, CalledAccounts, ReportedAccounts, OnAccount, Reported, Outcome,
     CallsInOrder, Past
<1> QED
  BY <1>3, <1>4, <1>5, <1>6, <1>7

\* An account that was not tried is selected, as the strategy promises.
LEMMA SelectKeeps == ASSUME IInv, NEW f \in Encounters, Select(f) PROVE IInv'
<1> USE DEF IInv
<1> DEFINE a == Balance(strategy, CandidatesOf(f), f.turn, f.load)
<1>1. /\ pc = "select" /\ pc' = "slot" /\ current' = {a} /\ found' = {f}
      /\ CandidatesOf(f) # <<>>
      /\ UNCHANGED <<requestVars, keySlot, attempt, retry, excluded, slots, lastErr, result,
                     sent, clientVars, recordVars, calls>>
  BY DEF Select
<1>2. /\ a \in Accounts /\ Available(a, f)
      /\ \A b \in Accounts : Available(b, f) =>
            CASE strategy = "priority" -> a <= b
              [] strategy = "least_connections" -> f.load[a] <= f.load[b]
              [] OTHER -> Share(a, f)
  BY <1>1, SelectedAsPromised
<1> HIDE DEF a
<1> USE DEF requestVars, clientVars, recordVars
<1>3. a \notin excluded
  BY <1>2 DEF Available
<1>4. MaxAttempts' = MaxAttempts
  BY <1>1, MaxAttemptsStays
<1>5. TypeOK'
  <2>1. current' \subseteq Accounts /\ Cardinality(current') <= 1
    <3>1. Cardinality({a}) = 1
      BY FS_Singleton
    <3> QED
      BY <1>1, <1>2, <3>1
  <2> QED
    BY <1>1, <1>4, <2>1 DEF TypeOK
<1>6. InAttempt' /\ Outcome' /\ Heard'
  BY <1>1, <1>2, <1>3, <1>4 DEF InAttempt, Outcome, Heard
<1>7. CallsInOrder' /\ Reported'
  BY <1>1 DEF CallsInOrder, Past, ReportedAccounts, Reported
<1>8. SelectionKeepsPromise'
  <2>1. \A b, g : (Available(b, g)' <=> Available(b, g)) /\ (Share(b, g)' <=> Share(b, g))
    BY <1>1, PromiseStays
  <2> QED
    BY <1>1, <1>2, <2>1 DEF SelectionKeepsPromise
<1>9. OneProviderSpeaks'
  BY <1>1 DEF OneProviderSpeaks
<1>10. SlotsBalanced'
  BY <1>1 DEF SlotsBalanced, OnAccount
<1>11. OutcomesReported'
  BY <1>1, <1>3 DEF OutcomesReported, CalledAccounts, ReportedAccounts, OnAccount, CallsInOrder,
     Past, Reported
<1> QED
  BY <1>5, <1>6, <1>7, <1>8, <1>9, <1>10, <1>11

\* The account has no free slot: it is excluded, and the next attempt begins
\* unless it was the last one.
LEMMA NoSlotKeeps == ASSUME IInv, NoSlot PROVE IInv'
<1> USE DEF IInv
<1>1. /\ pc = "slot" /\ lastErr' = "limit" /\ found' = {}
      /\ excluded' = excluded \cup current
      /\ UNCHANGED <<requestVars, sent, retry, current, slots, result, seen, charged, reported,
                     calls>>
  BY DEF NoSlot
<1> USE DEF requestVars
<1>2. PICK a \in Accounts : a \notin excluded /\ current = {a}
  BY <1>1 DEF InAttempt
<1>3. MaxAttempts' = MaxAttempts /\ MaxAttempts \in Nat
  BY <1>1, MaxAttemptsStays, MaxAttemptsNat
<1>4. Cardinality(excluded') = attempt + 1 /\ attempt \in Nat /\ attempt < MaxAttempts
  BY <1>1, <1>2, <1>3, OneMoreExcluded DEF InAttempt, TypeOK
<1>5. \/ pc' = "done" /\ keySlot' = FALSE /\ header' = "429" /\ recordErr' = TRUE /\ UNCHANGED attempt
      \/ /\ pc' = "select" /\ attempt' = attempt + 1 /\ attempt + 1 < MaxAttempts
         /\ UNCHANGED <<keySlot, header, recordErr>>
  <2>1. CASE GivesUp /\ Fail("429") /\ UNCHANGED attempt
    BY <2>1 DEF Fail
  <2>2. CASE ~GivesUp /\ NextAttempt /\ UNCHANGED <<keySlot, header, recordErr>>
    <3>1. attempt + 1 < MaxAttempts
      BY <1>3, <1>4, <2>2 DEF GivesUp
    <3> QED
      BY <2>2, <3>1 DEF NextAttempt
  <2> QED
    BY <2>1, <2>2 DEF NoSlot
<1>6. TypeOK'
  <2>1. attempt' \in 0..MaxAttempts /\ excluded' \subseteq Accounts
    BY <1>1, <1>3, <1>4, <1>5 DEF TypeOK
  <2>2. header' \in {"none", "stream"} \cup Statuses /\ recordErr' \in BOOLEAN /\ keySlot' \in BOOLEAN
    BY <1>5 DEF TypeOK, Statuses
  <2> QED
    BY <1>1, <1>3, <1>5, <2>1, <2>2 DEF TypeOK
<1>7. InAttempt' /\ Outcome' /\ Heard' /\ SelectionKeepsPromise'
  BY <1>1, <1>3, <1>4, <1>5 DEF InAttempt, Outcome, Heard, SelectionKeepsPromise
<1>8. CallsInOrder' /\ Reported'
  <2>1. \A c \in calls : Past(c) => Past(c)'
    <3>1. \A c \in calls : c[2] \in Nat
      BY DEF TypeOK
    <3>2. attempt' = attempt \/ attempt' = attempt + 1
      BY <1>5
    <3>3. \A c \in calls : c[2] < attempt => c[2] < attempt'
      BY <1>4, <3>1, <3>2
    <3> QED
      BY <1>1, <3>3 DEF Past, ReportedAccounts
  <2> QED
    BY <1>1, <1>4, <1>5, <2>1 DEF CallsInOrder, Reported, ReportedAccounts, TypeOK
<1>9. OneProviderSpeaks'
  BY <1>1, FS_EmptySet DEF OneProviderSpeaks, Heard
<1>10. SlotsBalanced'
  BY <1>1, <1>5 DEF SlotsBalanced, OnAccount
<1>11. OutcomesReported'
  BY <1>1, <1>5 DEF OutcomesReported, CalledAccounts, ReportedAccounts, OnAccount, CallsInOrder,
     Past, Reported, Outcome
<1> QED
  BY <1>6, <1>7, <1>8, <1>9, <1>10, <1>11

\* The account's slot is acquired, and its first call is due.
LEMMA GotSlotKeeps == ASSUME IInv, GotSlot PROVE IInv'
<1> USE DEF IInv
<1>1. /\ pc = "slot" /\ pc' = "call" /\ slots' = slots \cup current
      /\ retry' = 0 /\ result' = "none"
      /\ UNCHANGED <<requestVars, keySlot, attempt, excluded, current, lastErr, clientVars,
                     recordVars, calls>>
  BY DEF GotSlot
<1> USE DEF requestVars, clientVars, recordVars
<1>2. MaxAttempts' = MaxAttempts
  BY <1>1, MaxAttemptsStays
<1>3. TypeOK'
  <2>1. 0 \in 0..MaxRetries
    BY LoopAssumption
  <2> QED
    BY <1>1, <1>2, <2>1 DEF TypeOK
<1>4. InAttempt' /\ Outcome' /\ Heard' /\ SelectionKeepsPromise'
  BY <1>1, <1>2 DEF InAttempt, Outcome, Heard, SelectionKeepsPromise
<1>5. CallsInOrder' /\ Reported'
  BY <1>1 DEF CallsInOrder, Past, ReportedAccounts, Reported
<1>6. OneProviderSpeaks'
  BY <1>1 DEF OneProviderSpeaks
<1>7. SlotsBalanced'
  BY <1>1 DEF SlotsBalanced, OnAccount
<1>8. OutcomesReported'
  BY <1>1 DEF OutcomesReported, CalledAccounts, ReportedAccounts, OnAccount, CallsInOrder, Past,
     Reported
<1> QED
  BY <1>3, <1>4, <1>5, <1>6, <1>7, <1>8

\* The account's provider is not there: its slot is released.
LEMMA NoProviderKeeps == ASSUME IInv, NoProvider PROVE IInv'
<1> USE DEF IInv
<1>1. /\ pc = "call" /\ retry = 0 /\ pc' = "done" /\ slots' = slots \ current
      /\ keySlot' = FALSE /\ header' = "500" /\ recordErr' = TRUE
      /\ UNCHANGED <<requestVars, routerVars, attempt, retry, excluded, current, lastErr, result,
                     seen, charged, reported, calls>>
  BY DEF NoProvider, Fail
<1> USE DEF requestVars, routerVars
<1>2. MaxAttempts' = MaxAttempts
  BY <1>1, MaxAttemptsStays
<1>3. TypeOK'
  BY <1>1, <1>2 DEF TypeOK, Statuses
<1>4. InAttempt' /\ CallsInOrder' /\ Outcome' /\ Heard' /\ Reported' /\ SelectionKeepsPromise'
  BY <1>1 DEF InAttempt, CallsInOrder, Outcome, Heard, Reported, SelectionKeepsPromise
<1>5. OneProviderSpeaks'
  BY <1>1, FS_EmptySet DEF OneProviderSpeaks, Heard
<1>6. SlotsBalanced'
  BY <1>1 DEF SlotsBalanced, OnAccount
<1>7. \A c \in calls : Past(c)
  BY <1>1 DEF CallsInOrder, Current, TypeOK
<1>8. OutcomesReported'
  BY <1>1, <1>7 DEF OutcomesReported, CalledAccounts, ReportedAccounts, OnAccount, Reported, Outcome,
     Past
<1> QED
  BY <1>3, <1>4, <1>5, <1>6, <1>8

\* A call ends.  What reached the client, if anything, came from this call, and
\* then there is no retry.
LEMMA CallKeeps ==
    ASSUME IInv, NEW outcome \in {"ok", "retry", "fail"},
           NEW reach \in {"nothing", "bytes", "failedWrite"}, Call(outcome, reach)
    PROVE  IInv'
<1> USE DEF IInv
<1>1. /\ pc = "call" /\ calls' = calls \cup (current \X {attempt} \X {retry})
      /\ result' = outcome
      /\ seen' = IF reach = "bytes" THEN seen \cup {<<attempt, retry>>} ELSE seen
      /\ header' = IF reach = "nothing" THEN header ELSE "stream"
      /\ UNCHANGED <<requestVars, routerVars, keySlot, attempt, retry, excluded, current, slots,
                     lastErr, recordVars>>
  BY DEF Call
<1> USE DEF requestVars, routerVars, recordVars
<1>2. PICK a \in Accounts : a \notin excluded /\ current = {a}
  BY <1>1 DEF InAttempt
<1>3. calls' = calls \cup {<<a, attempt, retry>>}
  BY <1>1, <1>2
<1>4. /\ pc' = "settle" \/ (pc' = "backoff" /\ outcome = "retry" /\ retry < MaxRetries /\ seen' = {}
                               /\ header' = "none")
      /\ seen' \subseteq {<<attempt, retry>>} /\ (seen' # {} => header' = "stream")
      /\ header' \in {"none", "stream"}
  <2>1. seen = {} /\ header = "none"
    BY <1>1 DEF Heard
  <2>2. pc' = IF GoesOn(outcome) THEN "backoff" ELSE "settle"
    BY DEF Call
  <2> QED
    BY <1>1, <2>1, <2>2 DEF GoesOn
<1>5. MaxAttempts' = MaxAttempts /\ attempt \in 0..MaxAttempts /\ retry \in 0..MaxRetries
  BY <1>1, MaxAttemptsStays DEF TypeOK
<1>6. TypeOK'
  <2>1. calls' \subseteq Accounts \X (0..MaxAttempts) \X (0..MaxRetries)
    BY <1>2, <1>3, <1>5 DEF TypeOK
  <2>2. seen' \subseteq (0..MaxAttempts) \X (0..MaxRetries)
    BY <1>4, <1>5
  <2> QED
    BY <1>1, <1>4, <1>5, <2>1, <2>2 DEF TypeOK
<1>7. InAttempt' /\ Outcome' /\ Heard' /\ Reported' /\ SelectionKeepsPromise'
  BY <1>1, <1>4, <1>5 DEF InAttempt, Outcome, Heard, Reported, ReportedAccounts,
     SelectionKeepsPromise
<1>8. \A c \in calls' : Past(c) \/ Current(c, retry)
  <2>1. \A c \in calls : c[3] \in Nat /\ (c[3] <= retry - 1 => c[3] <= retry)
    BY <1>5 DEF TypeOK
  <2>2. \A c \in calls : Past(c) \/ Current(c, retry - 1)
    BY <1>1 DEF CallsInOrder
  <2>3. Current(<<a, attempt, retry>>, retry)
    BY <1>2, <1>5 DEF Current
  <2> QED
    BY <1>3, <2>1, <2>2, <2>3 DEF Current
<1>9. \A c : (Past(c)' <=> Past(c)) /\ (Current(c, retry)' <=> Current(c, retry))
  BY <1>1 DEF Past, Current, ReportedAccounts
<1>10. CallsInOrder'
  BY <1>4, <1>8, <1>9 DEF CallsInOrder
<1>11. OneProviderSpeaks'
  <2>1. seen' = {} \/ seen' = {<<attempt, retry>>}
    BY <1>4
  <2>2. Cardinality(seen') <= 1
    BY <2>1, FS_EmptySet, FS_Singleton
  <2>3. \A c \in calls' : c[2] < attempt \/ (c[2] = attempt /\ c[3] <= retry)
    BY <1>8 DEF Past, Current
  <2> QED
    BY <1>4, <2>1, <2>2, <2>3 DEF OneProviderSpeaks
<1>12. SlotsBalanced'
  BY <1>1, <1>4 DEF SlotsBalanced, OnAccount
<1>13. OutcomesReported'
  <2>1. \A b \in CalledAccounts' : b \in ReportedAccounts \/ b \in current
    BY <1>8 DEF CalledAccounts, Past, Current
  <2> QED
    BY <1>1, <1>4, <2>1 DEF OutcomesReported, ReportedAccounts, OnAccount, Reported
<1> QED
  BY <1>6, <1>7, <1>10, <1>11, <1>12, <1>13

\* The backoff is over.
LEMMA RetryKeeps == ASSUME IInv, Retry PROVE IInv'
<1> USE DEF IInv
<1>1. /\ pc = "backoff" /\ pc' = "call" /\ retry' = retry + 1
      /\ UNCHANGED <<requestVars, routerVars, keySlot, attempt, excluded, current, slots, lastErr,
                     result, clientVars, recordVars, calls>>
  BY DEF Retry
<1> USE DEF requestVars, routerVars, clientVars, recordVars
<1>2. MaxAttempts' = MaxAttempts
  BY <1>1, MaxAttemptsStays
<1>3. retry \in Nat /\ retry' \in 0..MaxRetries /\ retry' # 0 /\ retry' - 1 = retry
  BY <1>1, LoopAssumption DEF TypeOK, Outcome
<1>4. TypeOK'
  BY <1>1, <1>2, <1>3 DEF TypeOK
<1>5. InAttempt' /\ Outcome' /\ Heard' /\ Reported' /\ SelectionKeepsPromise'
  BY <1>1, <1>2, <1>3 DEF InAttempt, Outcome, Heard, Reported, ReportedAccounts,
     SelectionKeepsPromise
<1>6. CallsInOrder'
  BY <1>1, <1>3 DEF CallsInOrder, Past, Current, ReportedAccounts
<1>7. OneProviderSpeaks'
  BY <1>1 DEF OneProviderSpeaks
<1>8. SlotsBalanced'
  BY <1>1 DEF SlotsBalanced, OnAccount
<1>9. OutcomesReported'
  BY <1>1 DEF OutcomesReported, CalledAccounts, ReportedAccounts, OnAccount
<1> QED
  BY <1>4, <1>5, <1>6, <1>7, <1>8, <1>9

\* The client goes away during the backoff: the slots are released.
LEMMA CancelledKeeps == ASSUME IInv, Cancelled PROVE IInv'
<1> USE DEF IInv
<1>1. /\ pc = "backoff" /\ pc' = "done" /\ slots' = slots \ current
      /\ keySlot' = FALSE /\ header' = "502" /\ recordErr' = TRUE
      /\ UNCHANGED <<requestVars, routerVars, attempt, retry, excluded, current, lastErr, result,
                     seen, charged, reported, calls>>
  BY DEF Cancelled, Fail
<1> USE DEF requestVars, routerVars
<1>2. MaxAttempts' = MaxAttempts
  BY <1>1, MaxAttemptsStays
<1>3. TypeOK'
  BY <1>1, <1>2 DEF TypeOK, Statuses
<1>4. InAttempt' /\ CallsInOrder' /\ Outcome' /\ Heard' /\ Reported' /\ SelectionKeepsPromise'
  BY <1>1 DEF InAttempt, CallsInOrder, Outcome, Heard, Reported, SelectionKeepsPromise
<1>5. OneProviderSpeaks'
  BY <1>1, FS_EmptySet DEF OneProviderSpeaks, Heard
<1>6. SlotsBalanced'
  BY <1>1 DEF SlotsBalanced, OnAccount
<1>7. OutcomesReported'
  BY <1>1 DEF OutcomesReported, CalledAccounts, ReportedAccounts, OnAccount, Reported, Outcome,
     InAttempt
<1> QED
  BY <1>3, <1>4, <1>5, <1>6, <1>7

\* The account is released and reported for the first time, and the key
\* charged once at most.
LEMMA Settled ==
    ASSUME IInv, NEW usage \in BOOLEAN, Settle(usage), NEW outcome \in {"success", "failure"},
           reported' = reported \cup (current \X {outcome})
    PROVE  \E a \in Accounts \ excluded :
              /\ current = {a} /\ a \notin ReportedAccounts
              /\ reported' = reported \cup {<<a, outcome>>}
              /\ reported' \subseteq Accounts \X {"success", "failure"}
              /\ IsFiniteSet(reported')
              /\ ReportedAccounts' = ReportedAccounts \cup {a}
              /\ Cardinality(ReportedAccounts') = Cardinality(reported')
              /\ charged' \in Nat /\ charged' <= Cardinality(reported') /\ charged' <= attempt + 1
              /\ slots' = {}
<1> USE DEF IInv
<1>1. /\ pc = "settle" /\ slots' = slots \ current
      /\ charged' = charged \/ charged' = charged + 1
  BY DEF Settle
<1>2. PICK a \in Accounts \ excluded : current = {a}
  BY <1>1 DEF InAttempt
<1>3. a \notin ReportedAccounts
  BY <1>1, <1>2 DEF Reported
<1>4. reported' = reported \cup {<<a, outcome>>}
  BY <1>2
<1>5. IsFiniteSet(ReportedAccounts)
  <2>1. ReportedAccounts \subseteq Accounts
    BY DEF ReportedAccounts, TypeOK
  <2> QED
    BY <2>1, SelectionAssumption, FS_Subset
<1>6. IsFiniteSet(reported) /\ Cardinality(ReportedAccounts) = Cardinality(reported)
  BY DEF Reported, OutcomesReported
<1>7. LET more == reported \cup {<<a, outcome>>}
      IN  /\ IsFiniteSet(more) /\ Cardinality(more) = Cardinality(reported) + 1
          /\ {r[1] : r \in more} = {r[1] : r \in reported} \cup {a}
          /\ Cardinality({r[1] : r \in more}) = Cardinality(more)
          /\ Cardinality(reported) \in Nat
  BY <1>3, <1>5, <1>6, OneMoreReport DEF ReportedAccounts
<1>8. /\ IsFiniteSet(reported') /\ Cardinality(reported') = Cardinality(reported) + 1
      /\ ReportedAccounts' = ReportedAccounts \cup {a}
      /\ Cardinality(ReportedAccounts') = Cardinality(reported')
      /\ Cardinality(reported) \in Nat
  BY <1>4, <1>7 DEF ReportedAccounts
<1>9. charged' \in Nat /\ charged' <= Cardinality(reported') /\ charged' <= attempt + 1
  <2>1. charged \in Nat /\ charged <= Cardinality(reported) /\ charged <= attempt /\ attempt \in Nat
    BY <1>1 DEF TypeOK, OutcomesReported, Reported
  <2> QED
    BY <1>1, <1>8, <2>1
<1>10. slots' = {}
  BY <1>1, <1>2 DEF SlotsBalanced, OnAccount
<1>11. reported' \subseteq Accounts \X {"success", "failure"}
  BY <1>2, <1>4 DEF TypeOK
<1> QED
  BY <1>2, <1>3, <1>4, <1>8, <1>9, <1>10, <1>11

\* A call succeeded: that ends the request.
LEMMA SucceedKeeps == ASSUME IInv, pc = "settle", NEW usage \in BOOLEAN, Succeed(usage) PROVE IInv'
<1> USE DEF IInv
<1>1. /\ result = "ok" /\ pc' = "done" /\ keySlot' = FALSE
      /\ UNCHANGED <<requestVars, routerVars, retry, current, result, seen, calls, attempt,
                     excluded, lastErr, header, recordErr>>
  BY DEF Succeed, Settle
<1>2. PICK a \in Accounts \ excluded :
        /\ current = {a} /\ a \notin ReportedAccounts
        /\ reported' = reported \cup {<<a, "success">>}
        /\ reported' \subseteq Accounts \X {"success", "failure"}
        /\ IsFiniteSet(reported')
        /\ ReportedAccounts' = ReportedAccounts \cup {a}
        /\ Cardinality(ReportedAccounts') = Cardinality(reported')
        /\ charged' \in Nat /\ charged' <= Cardinality(reported') /\ charged' <= attempt + 1
        /\ slots' = {}
  BY Settled DEF Succeed
<1> USE DEF requestVars, routerVars
<1>3. MaxAttempts' = MaxAttempts /\ charged' \in 0..MaxAttempts
  <2>1. attempt < MaxAttempts /\ attempt \in Nat
    BY DEF InAttempt, TypeOK
  <2> QED
    BY <1>1, <1>2, <2>1, MaxAttemptsStays, MaxAttemptsNat
<1>4. TypeOK'
  BY <1>1, <1>2, <1>3 DEF TypeOK
<1>5. InAttempt' /\ CallsInOrder' /\ Outcome' /\ Heard' /\ Reported' /\ SelectionKeepsPromise'
  BY <1>1, <1>2 DEF InAttempt, CallsInOrder, Outcome, Heard, Reported, SelectionKeepsPromise
<1>6. OneProviderSpeaks'
  BY <1>1 DEF OneProviderSpeaks
<1>7. SlotsBalanced'
  BY <1>1, <1>2 DEF SlotsBalanced, OnAccount
<1>8. OutcomesReported'
  <2>1. \A b \in CalledAccounts' : b \in ReportedAccounts'
    BY <1>1, <1>2 DEF CalledAccounts, CallsInOrder, Past, Current
  <2>2. \A b \in ReportedAccounts' : <<b, "success">> \in reported' <=> b \in current
    BY <1>1, <1>2 DEF Reported, ReportedAccounts
  <2> QED
    BY <1>1, <1>2, <2>1, <2>2 DEF OutcomesReported
<1> QED
  BY <1>4, <1>5, <1>6, <1>7, <1>8

\* A call failed, and bytes are out or no attempt is left.
LEMMA GiveUpKeeps == ASSUME IInv, pc = "settle", NEW usage \in BOOLEAN, GiveUp(usage) PROVE IInv'
<1> USE DEF IInv
<1>1. /\ result # "ok" /\ pc' = "done" /\ keySlot' = FALSE /\ lastErr' = "upstream"
      /\ recordErr' = TRUE /\ header' = IF header = "none" THEN "502" ELSE header
      /\ UNCHANGED <<requestVars, routerVars, retry, current, result, seen, calls, attempt,
                     excluded>>
  BY DEF GiveUp, Settle
<1>2. PICK a \in Accounts \ excluded :
        /\ current = {a} /\ a \notin ReportedAccounts
        /\ reported' = reported \cup {<<a, "failure">>}
        /\ reported' \subseteq Accounts \X {"success", "failure"}
        /\ IsFiniteSet(reported')
        /\ ReportedAccounts' = ReportedAccounts \cup {a}
        /\ Cardinality(ReportedAccounts') = Cardinality(reported')
        /\ charged' \in Nat /\ charged' <= Cardinality(reported') /\ charged' <= attempt + 1
        /\ slots' = {}
  BY Settled DEF GiveUp
<1> USE DEF requestVars, routerVars
<1>3. MaxAttempts' = MaxAttempts /\ charged' \in 0..MaxAttempts
  <2>1. attempt < MaxAttempts /\ attempt \in Nat
    BY DEF InAttempt, TypeOK
  <2> QED
    BY <1>1, <1>2, <2>1, MaxAttemptsStays, MaxAttemptsNat
<1>4. TypeOK'
  BY <1>1, <1>2, <1>3 DEF TypeOK, Statuses
<1>5. InAttempt' /\ CallsInOrder' /\ Outcome' /\ Heard' /\ Reported' /\ SelectionKeepsPromise'
  BY <1>1, <1>2 DEF InAttempt, CallsInOrder, Outcome, Heard, Reported, SelectionKeepsPromise
<1>6. OneProviderSpeaks'
  BY <1>1 DEF OneProviderSpeaks
<1>7. SlotsBalanced'
  BY <1>1, <1>2 DEF SlotsBalanced, OnAccount
<1>8. OutcomesReported'
  <2>1. \A b \in CalledAccounts' : b \in ReportedAccounts'
    BY <1>1, <1>2 DEF CalledAccounts, CallsInOrder, Past, Current
  <2>2. \A r \in reported' : r[2] = "failure"
    BY <1>2 DEF Reported
  <2>3. \A b : <<b, "success">> \notin reported'
    BY <2>2
  <2> QED
    BY <1>1, <1>2, <2>1, <2>3 DEF OutcomesReported
<1> QED
  BY <1>4, <1>5, <1>6, <1>7, <1>8

\* A call failed before anything reached the client: the next attempt.
LEMMA FailoverKeeps ==
    ASSUME IInv, pc = "settle", NEW usage \in BOOLEAN, Failover(usage) PROVE IInv'
<1> USE DEF IInv
<1>1. /\ result # "ok" /\ lastErr' = "upstream" /\ recordErr' = TRUE
      /\ excluded' = excluded \cup current /\ attempt' = attempt + 1
      /\ UNCHANGED <<requestVars, routerVars, retry, current, result, seen, calls, keySlot, header>>
  BY DEF Failover, Settle, NextAttempt
<1>2. PICK a \in Accounts \ excluded :
        /\ current = {a} /\ a \notin ReportedAccounts
        /\ reported' = reported \cup {<<a, "failure">>}
        /\ reported' \subseteq Accounts \X {"success", "failure"}
        /\ IsFiniteSet(reported')
        /\ ReportedAccounts' = ReportedAccounts \cup {a}
        /\ Cardinality(ReportedAccounts') = Cardinality(reported')
        /\ charged' \in Nat /\ charged' <= Cardinality(reported') /\ charged' <= attempt + 1
        /\ slots' = {}
  BY Settled DEF Failover
<1> USE DEF requestVars, routerVars
<1>3. header = "none" /\ seen = {} /\ attempt \in Nat /\ attempt + 1 < MaxAttempts /\ pc' = "select"
  <2>1. header = "none" /\ attempt # MaxAttempts - 1
    BY DEF Failover, LastWord
  <2>2. attempt \in Nat /\ attempt < MaxAttempts
    BY DEF InAttempt, TypeOK
  <2>3. attempt + 1 < MaxAttempts
    BY <2>1, <2>2, MaxAttemptsNat
  <2> QED
    BY <2>1, <2>2, <2>3 DEF Failover, NextAttempt, Heard
<1>4. MaxAttempts' = MaxAttempts /\ MaxAttempts \in Nat
  BY <1>1, MaxAttemptsStays, MaxAttemptsNat
<1>5. TypeOK'
  <2>1. attempt' \in 0..MaxAttempts /\ charged' \in 0..MaxAttempts
    BY <1>1, <1>2, <1>3, <1>4
  <2>2. excluded' \subseteq Accounts
    BY <1>1, <1>2 DEF TypeOK
  <2> QED
    BY <1>1, <1>2, <1>3, <1>4, <2>1, <2>2 DEF TypeOK
<1>6. Cardinality(excluded') = attempt'
  BY <1>1, <1>2, OneMoreExcluded DEF InAttempt
<1>7. InAttempt' /\ Outcome' /\ Heard' /\ Reported' /\ SelectionKeepsPromise'
  <2>1. \A r \in reported' : r[2] = "failure"
    BY <1>2 DEF Reported
  <2> QED
    BY <1>1, <1>2, <1>3, <1>4, <1>6, <2>1 DEF InAttempt, Outcome, Heard, Reported,
       SelectionKeepsPromise
<1>8. \A c \in calls : c[2] < attempt + 1 /\ c[1] \in excluded' /\ c[1] \in ReportedAccounts'
  <2>1. \A c \in calls : c[2] \in Nat
    BY DEF TypeOK
  <2>2. \A c \in calls : Past(c) \/ Current(c, retry)
    BY DEF CallsInOrder
  <2>3. \A c \in calls : c[2] < attempt \/ c[2] = attempt
    BY <2>2 DEF Past, Current
  <2>4. \A c \in calls : c[2] < attempt + 1
    BY <1>3, <2>1, <2>3
  <2> QED
    BY <1>1, <1>2, <2>2, <2>4 DEF Past, Current
<1>9. CallsInOrder'
  BY <1>1, <1>3, <1>8 DEF CallsInOrder, Past
<1>10. OneProviderSpeaks'
  BY <1>1, <1>3, FS_EmptySet DEF OneProviderSpeaks
<1>11. SlotsBalanced'
  BY <1>1, <1>2, <1>3 DEF SlotsBalanced, OnAccount
<1>12. OutcomesReported'
  <2>1. \A b \in CalledAccounts' : b \in ReportedAccounts'
    BY <1>1, <1>8 DEF CalledAccounts
  <2>2. \A r \in reported' : r[2] = "failure"
    BY <1>2 DEF Reported
  <2>3. \A b : <<b, "success">> \notin reported'
    BY <2>2
  <2> QED
    BY <1>1, <1>2, <1>3, <2>1, <2>3 DEF OutcomesReported
<1> QED
  BY <1>5, <1>7, <1>9, <1>10, <1>11, <1>12
-----------------------------------------------------------------------------
(* The theorems.                                                           *)

\* A request that has just arrived has nothing, and nothing was said of it.
LEMMA InitEstablishes == Init => IInv
<1> SUFFICES ASSUME Init PROVE IInv
  OBVIOUS
<1> USE DEF Init
<1>1. MaxAttempts \in Nat /\ MaxAttempts >= 2
  BY MaxAttemptsNat
<1>2. Cardinality({}) = 0 /\ IsFiniteSet({})
  BY FS_EmptySet
<1>3. 0 \in 0..MaxAttempts /\ 0 \in 0..MaxRetries
  BY <1>1, LoopAssumption
<1>4. strategy \in Strategies
  BY DEF Strategies
<1>5. TypeOK
  <2>1. /\ pc \in {"start"} /\ keyed \in BOOLEAN /\ model \in Models /\ keySlot \in BOOLEAN
        /\ lastErr = "none" /\ result = "none" /\ header = "none" /\ recordErr \in BOOLEAN
        /\ attempt \in 0..MaxAttempts /\ charged \in 0..MaxAttempts /\ retry \in 0..MaxRetries
    BY <1>3
  <2>2. /\ excluded = {} /\ current = {} /\ slots = {} /\ seen = {} /\ reported = {}
        /\ calls = {}
    OBVIOUS
  <2> QED
    BY <1>2, <1>4, <2>1, <2>2 DEF TypeOK
<1>6. InAttempt /\ CallsInOrder /\ Outcome /\ Heard
  BY <1>1, <1>2 DEF InAttempt, CallsInOrder, Outcome, Heard
<1>7. ReportedAccounts = {} /\ CalledAccounts = {}
  BY DEF ReportedAccounts, CalledAccounts
<1>8. Reported /\ OutcomesReported
  BY <1>2, <1>7 DEF Reported, OutcomesReported
<1>9. OneProviderSpeaks /\ SelectionKeepsPromise /\ SlotsBalanced
  BY <1>2 DEF OneProviderSpeaks, SelectionKeepsPromise, SlotsBalanced, OnAccount
<1> QED
  BY <1>5, <1>6, <1>8, <1>9 DEF IInv

\* Another goroutine's steps leave this request alone.
LEMMA NothingChanges == ASSUME IInv, UNCHANGED vars PROVE IInv'
<1> USE DEF IInv, vars, requestVars, routerVars, loopVars, clientVars, recordVars
<1>1. MaxAttempts' = MaxAttempts
  BY MaxAttemptsStays
<1>2. TypeOK'
  BY <1>1 DEF TypeOK
<1>3. InAttempt' /\ Outcome' /\ Heard'
  BY <1>1 DEF InAttempt, Outcome, Heard
<1>4. CallsInOrder' /\ Reported'
  BY DEF CallsInOrder, Past, Current, ReportedAccounts, Reported
<1>5. SelectionKeepsPromise'
  BY PromiseStays DEF SelectionKeepsPromise
<1>6. OneProviderSpeaks' /\ SlotsBalanced'
  BY DEF OneProviderSpeaks, SlotsBalanced, OnAccount
<1>7. OutcomesReported'
  BY DEF OutcomesReported, CalledAccounts, ReportedAccounts, OnAccount
<1> QED
  BY <1>2, <1>3, <1>4, <1>5, <1>6, <1>7

\* Every step of the request keeps the invariant.
LEMMA StepKeeps == ASSUME IInv, [Next]_vars PROVE IInv'
<1>1. ASSUME NEW s \in Statuses \ {"500", "502"}, Reject(s) PROVE IInv'
  BY <1>1, RejectKeeps
<1>2. ASSUME NEW f \in Encounters, Select(f) PROVE IInv'
  BY <1>2, SelectKeeps
<1>3. ASSUME NEW r \in {"nothing", "bytes"}, Call("ok", r) PROVE IInv'
  <2>1. r \in {"nothing", "bytes", "failedWrite"} /\ "ok" \in {"ok", "retry", "fail"}
    OBVIOUS
  <2> QED
    BY <1>3, <2>1, CallKeeps
<1>4. ASSUME NEW o \in {"retry", "fail"}, NEW r \in {"nothing", "bytes", "failedWrite"}, Call(o, r)
      PROVE  IInv'
  <2>1. o \in {"ok", "retry", "fail"}
    OBVIOUS
  <2> QED
    BY <1>4, <2>1, CallKeeps
<1>5. ASSUME NEW u \in BOOLEAN, Succeed(u) \/ GiveUp(u) \/ Failover(u) PROVE IInv'
  <2>1. pc = "settle"
    BY <1>5 DEF Succeed, GiveUp, Failover, Settle
  <2> QED
    BY <1>5, <2>1, SucceedKeeps, GiveUpKeeps, FailoverKeeps
<1>6. CASE Admit \/ NoAccount \/ NoSlot \/ GotSlot
  BY <1>6, AdmitKeeps, NoAccountKeeps, NoSlotKeeps, GotSlotKeeps
<1>7. CASE NoProvider \/ Retry \/ Cancelled
  BY <1>7, NoProviderKeeps, RetryKeeps, CancelledKeeps
<1>8. CASE UNCHANGED vars
  BY <1>8, NothingChanges
<1> QED
  BY <1>1, <1>2, <1>3, <1>4, <1>5, <1>6, <1>7, <1>8 DEF Next

\* What holds at every moment of the request: the attempts exclude one account
\* each, the calls come in the order of ServeHTTP's loops (handler.go:179-321).
THEOREM IInvHolds == Spec => []IInv
<1>1. Init => IInv
  BY InitEstablishes
<1>2. IInv /\ [Next]_vars => IInv'
  BY StepKeeps
<1> QED
  BY <1>1, <1>2, PTL DEF Spec

\* The loop variables keep their ranges; no request falls through the attempts
\* to the statements after the loop (handler.go:324-331).
THEOREM TypeCorrect == Spec => []TypeOK
<1>1. IInv => TypeOK
  BY DEF IInv
<1> QED
  BY <1>1, IInvHolds, PTL

\* Once bytes of a call are out, no retry, no other account and no error body
\* follows (handler.go:264, 313).
THEOREM OneProvider == Spec => []OneProviderSpeaks
<1>1. IInv => OneProviderSpeaks
  BY DEF IInv
<1> QED
  BY <1>1, IInvHolds, PTL

\* Whatever the group's accounts, weights and counters, the account selected
\* is available and untried, and the one its strategy promises (balancer.go).
THEOREM SelectionPromise == Spec => []SelectionKeepsPromise
<1>1. IInv => SelectionKeepsPromise
  BY DEF IInv
<1> QED
  BY <1>1, IInvHolds, PTL

\* Every exit of the loop gives back the account's slot and the key's.
THEOREM SlotsBalance == Spec => []SlotsBalanced
<1>1. IInv => SlotsBalanced
  BY DEF IInv
<1> QED
  BY <1>1, IInvHolds, PTL

\* ReportSuccess or ReportFailure is called once for every account called, and
\* the key is charged once at most for each.
THEOREM Outcomes == Spec => []OutcomesReported
<1>1. IInv => OutcomesReported
  BY DEF IInv
<1> QED
  BY <1>1, IInvHolds, PTL
=============================================================================
