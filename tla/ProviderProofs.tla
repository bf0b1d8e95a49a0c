---------------------------- MODULE ProviderProofs ----------------------------
(***************************************************************************)
(* Proofs about Provider: whatever the upstream does, the client sees a    *)
(* well-formed message stream, which tells what the upstream said.  First  *)
(* what a message tells, then that each converter keeps it equal to what   *)
(* its upstream says, chunk by chunk, then the invariant of a conversation.*)
(***************************************************************************)
EXTENDS Provider, StreamProofs

-----------------------------------------------------------------------------
(* What the blocks of a message tell.                                      *)

\* The k-th number of a set is the one up to which there are k.
LEMMA AscendingCounts ==
    ASSUME NEW N \in Nat, NEW S \in SUBSET (0..N), NEW k \in 1..Cardinality(S)
    PROVE  LET i == Ascending(S)[k]
           IN  i \in S /\ Cardinality({j \in S : j <= i}) = k
<1> DEFINE C(i) == Cardinality({j \in S : j <= i})
           i == Ascending(S)[k]
<1>1. \E j \in S : C(j) = k
  BY NthPosition
<1> HIDE DEF C
<1>2. Ascending(S)[k] = CHOOSE j \in S : C(j) = k
  BY DEF Ascending, C
<1>3. i \in S /\ C(i) = k
  <2> HIDE DEF i
  <2>1. i = CHOOSE j \in S : C(j) = k
    BY <1>2 DEF i
  <2> QED
    BY <1>1, <2>1, Zenon
<1> QED
  BY <1>3 DEF C

\* A set that has more numbers, all above, begins with the same ones.
LEMMA AscendingBegins ==
    ASSUME NEW N \in Nat, NEW U \in SUBSET (0..N), NEW S \in SUBSET U,
           \A i \in S : \A j \in U \ S : i < j
    PROVE  /\ Cardinality(S) \in Nat /\ Cardinality(U) \in Nat /\ Cardinality(S) <= Cardinality(U)
           /\ \A k \in 1..Cardinality(S) : Ascending(U)[k] = Ascending(S)[k]
<1>1. IsFiniteSet(U) /\ IsFiniteSet(S) /\ U \in SUBSET Nat /\ S \in SUBSET (0..N)
  <2>1. IsFiniteSet(0..N) /\ 0..N \subseteq Nat
    BY FS_Interval
  <2>2. IsFiniteSet(U)
    BY <2>1, FS_Subset
  <2>3. IsFiniteSet(S)
    BY <2>2, FS_Subset
  <2> QED
    BY <2>1, <2>2, <2>3
<1>2. Cardinality(S) \in Nat /\ Cardinality(U) \in Nat /\ Cardinality(S) <= Cardinality(U)
  <2>1. S \subseteq U
    OBVIOUS
  <2> QED
    BY <1>1, <2>1, FS_Subset, FS_CardinalityType
<1>3. ASSUME NEW k \in 1..Cardinality(S)
      PROVE  Ascending(U)[k] = Ascending(S)[k]
  <2> DEFINE i == Ascending(S)[k]
             l == Ascending(U)[k]
  <2>1. i \in S /\ Cardinality({j \in S : j <= i}) = k
    BY <1>1, AscendingCounts
  <2>2. l \in U /\ Cardinality({j \in U : j <= l}) = k
    <3>1. k \in 1..Cardinality(U)
      BY <1>2
    <3> QED
      BY <3>1, AscendingCounts
  <2> HIDE DEF i, l
  <2>3. {j \in U : j <= i} = {j \in S : j <= i}
    <3>1. \A j \in U : j <= i => j \in S
      <4>1. \A j \in U : j \in Nat
        BY <1>1
      <4>2. i \in Nat
        BY <1>1, <2>1
      <4>3. \A j \in U \ S : ~(j <= i)
        <5>1. \A j \in U \ S : i < j /\ j \in Nat
          BY <2>1, <4>1
        <5> QED
          BY <4>2, <5>1
      <4> QED
        BY <4>3, Zenon
    <3> QED
      BY <3>1, Zenon
  <2>4. i \in U /\ i \in Nat /\ l \in Nat
    BY <1>1, <2>1, <2>2
  <2>5. ~(i < l)
    <3> SUFFICES ASSUME i < l PROVE FALSE
      OBVIOUS
    <3>1. Cardinality({j \in U : j <= i}) < Cardinality({j \in U : j <= l})
      BY <1>1, <2>2, <2>4, PositionsGrow
    <3> QED
      BY <2>1, <2>2, <2>3, <3>1
  <2>6. ~(l < i)
    <3> SUFFICES ASSUME l < i PROVE FALSE
      OBVIOUS
    <3>1. Cardinality({j \in U : j <= l}) < Cardinality({j \in U : j <= i})
      BY <1>1, <2>2, <2>4, PositionsGrow
    <3> QED
      BY <2>1, <2>2, <2>3, <3>1
  <2> QED
    BY <2>4, <2>5, <2>6 DEF i, l
<1> QED
  BY <1>2, <1>3

\* A set with a number above all others lists it last.
LEMMA AscendingMore ==
    ASSUME NEW N \in Nat, NEW S \in SUBSET (0..N), NEW n \in 0..N, \A i \in S : i < n
    PROVE  Ascending(S \cup {n}) = Append(Ascending(S), n)
<1> DEFINE U == S \cup {n}
           a == Ascending(S)
           b == Ascending(U)
           m == Cardinality(S)
<1>1. /\ a \in Seq(S) /\ Len(a) = m /\ m \in Nat /\ IsFiniteSet(S)
  <2>1. IsFiniteSet(0..N)
    BY FS_Interval
  <2>2. IsFiniteSet(S)
    BY <2>1, FS_Subset
  <2> QED
    BY <2>2, AscendingLists, FS_CardinalityType
<1>2. n \notin S /\ U \in SUBSET (0..N)
  <2>1. n \in Int /\ ~(n < n)
    OBVIOUS
  <2> QED
    BY <2>1
<1>3. Cardinality(U) = m + 1
  BY <1>1, <1>2, FS_AddElement
<1> HIDE DEF m
<1>4. \A k \in 1..m : b[k] = a[k]
  <2>1. S \in SUBSET U /\ \A i \in S : \A j \in U \ S : i < j
    BY <1>2
  <2> HIDE DEF U
  <2> QED
    BY <1>2, <2>1, AscendingBegins DEF m
<1>5. b \in Seq(U) /\ Len(b) = m + 1 /\ \E k \in 1..m + 1 : b[k] = n
  <2>1. /\ b \in Seq(U) /\ Len(b) = Cardinality(U)
        /\ \A i \in U : \E k \in 1..Len(b) : b[k] = i
    BY <1>2, AscendingLists
  <2>2. n \in U
    OBVIOUS
  <2> HIDE DEF U, b
  <2> QED
    BY <1>3, <2>1, <2>2
<1> HIDE DEF a, b
<1>6. \A k \in 1..m : a[k] \in S
  BY <1>1, ElementOfSeq
<1>7. b[m + 1] = n
  <2>1. PICK k \in 1..m + 1 : b[k] = n
    BY <1>5
  <2>2. k \notin 1..m
    BY <1>2, <1>4, <1>6, <2>1
  <2>3. k = m + 1
    BY <1>1, <2>2
  <2> QED
    BY <2>1, <2>3
<1>8. /\ Append(a, n) \in Seq(U) /\ Len(Append(a, n)) = m + 1
      /\ \A k \in 1..m : Append(a, n)[k] = a[k]
      /\ Append(a, n)[m + 1] = n
  <2>1. a \in Seq(U)
    <3>1. S \subseteq U
      OBVIOUS
    <3>2. a \in [1..m -> S]
      BY <1>1, LenProperties
    <3>3. a \in [1..m -> U]
      BY <3>1, <3>2
    <3> QED
      BY <1>1, <3>3, SeqDef
  <2>2. n \in U
    OBVIOUS
  <2> HIDE DEF U
  <2> QED
    BY <1>1, <2>1, <2>2, AppendProperties
<1>9. \A k \in 1..m + 1 : b[k] = Append(a, n)[k]
  <2> TAKE k \in 1..m + 1
  <2>1. k \in 1..m \/ k = m + 1
    BY <1>1
  <2> QED
    BY <1>4, <1>7, <1>8, <2>1
<1> QED
  BY <1>5, <1>8, <1>9, SeqEqual DEF a, b

\* The blocks of a client's message that are told, those of the kinds in omit
\* left out, and what they tell.
ToldBlocks(omit, v) == {i \in 1..Len(v.blocks) : v.blocks[i].kind \notin omit}
Spoken(omit, v) ==
    [k \in 1..Len(Ascending(ToldBlocks(omit, v))) |->
        Bare(v.blocks[Ascending(ToldBlocks(omit, v))[k]])]

Pieces == [kind : Kinds, data : Seq(Nat)]

\* s tells the blocks T of v, in their order.
Tells(v, T, s) ==
    /\ T \in SUBSET (0..Len(v.blocks)) /\ T \in SUBSET (1..Len(v.blocks))
    /\ Ascending(T) \in Seq(T) /\ Cardinality(T) \in Nat
    /\ Len(Ascending(T)) = Cardinality(T)
    /\ Len(s) = Cardinality(T) /\ s \in Seq(Pieces)
    /\ \A k \in 1..Cardinality(T) : /\ Ascending(T)[k] \in T
                                    /\ s[k] = Bare(v.blocks[Ascending(T)[k]])
    /\ \A i \in T : \E k \in 1..Cardinality(T) : Ascending(T)[k] = i
    /\ \A k, l \in 1..Cardinality(T) : k < l => Ascending(T)[k] < Ascending(T)[l]

\* What is told is a sequence of pieces, those of the blocks, in their order.
LEMMA SpokenIs ==
    ASSUME NEW omit, NEW v \in Views
    PROVE  Tells(v, ToldBlocks(omit, v), Spoken(omit, v))
<1> DEFINE T == ToldBlocks(omit, v)
           n == Len(v.blocks)
           a == Ascending(T)
           m == Cardinality(T)
           s == Spoken(omit, v)
<1>1. n \in Nat /\ \A i \in 1..n : v.blocks[i] \in ViewBlocks
  BY BlocksOfView
<1>2. T \in SUBSET (1..n) /\ T \in SUBSET (0..n)
  <2>1. 1..n \subseteq 0..n
    BY <1>1
  <2>2. T \in SUBSET (1..n)
    BY DEF ToldBlocks
  <2> QED
    BY <2>1, <2>2
<1> HIDE DEF T, n
<1>3. m \in Nat
  <2>1. IsFiniteSet(0..n)
    <3>1. 0 \in Int /\ n \in Int
      BY <1>1
    <3> QED
      BY <3>1, FS_Interval
  <2>2. IsFiniteSet(T)
    BY <1>2, <2>1, FS_Subset
  <2> QED
    BY <2>2, FS_CardinalityType
<1>4. /\ a \in Seq(T) /\ Len(a) = m
      /\ \A i \in T : \E k \in 1..m : a[k] = i
      /\ \A k, l \in 1..m : k < l => a[k] < a[l]
  <2>1. /\ a \in Seq(T) /\ Len(a) = m
        /\ \A i \in T : \E k \in 1..Len(a) : a[k] = i
        /\ \A k, l \in 1..Len(a) : k < l => a[k] < a[l]
    BY <1>1, <1>2, AscendingLists
  <2> HIDE DEF a, m
  <2> QED
    BY <2>1
<1> HIDE DEF a, m
<1>5. \A k \in 1..m : a[k] \in T
  BY <1>4, ElementOfSeq
<1>6. s = [k \in 1..m |-> Bare(v.blocks[a[k]])]
  BY <1>4 DEF Spoken, T, a
<1>7. \A k \in 1..m : Bare(v.blocks[a[k]]) \in Pieces
  <2> TAKE k \in 1..m
  <2>1. v.blocks[a[k]] \in ViewBlocks
    BY <1>1, <1>2, <1>5
  <2> QED
    BY <2>1 DEF Bare, Pieces, ViewBlocks
<1> HIDE DEF s
<1>8. s \in Seq(Pieces) /\ Len(s) = m
  <2>1. s \in [1..m -> Pieces]
    BY <1>6, <1>7
  <2> QED
    BY <1>3, <2>1, SeqDef, LenProperties
<1>9. \A k \in 1..m : s[k] = Bare(v.blocks[a[k]])
  BY <1>6
<1> QED
  BY <1>2, <1>3, <1>4, <1>5, <1>8, <1>9 DEF Tells, T, n, a, m, s

\* Blocks that changed in nothing that is told tell the same.
LEMMA SpokenSame ==
    ASSUME NEW omit, NEW v \in Views, NEW w \in Views,
           ToldBlocks(omit, w) = ToldBlocks(omit, v),
           \A i \in ToldBlocks(omit, v) : /\ w.blocks[i].kind = v.blocks[i].kind
                                          /\ w.blocks[i].data = v.blocks[i].data
    PROVE  Spoken(omit, w) = Spoken(omit, v)
<1> DEFINE T == ToldBlocks(omit, v)
           s == Spoken(omit, v)
           t == Spoken(omit, w)
<1>t. Tells(v, T, s) /\ Tells(w, T, t)
  BY SpokenIs
<1> HIDE DEF T, s, t
<1>1. /\ Len(s) = Cardinality(T) /\ s \in Seq(Pieces)
      /\ \A k \in 1..Cardinality(T) : Ascending(T)[k] \in T /\ s[k] = Bare(v.blocks[Ascending(T)[k]])
  BY <1>t DEF Tells
<1>2. /\ Len(t) = Cardinality(T) /\ t \in Seq(Pieces)
      /\ \A k \in 1..Cardinality(T) : t[k] = Bare(w.blocks[Ascending(T)[k]])
  BY <1>t DEF Tells
<1>3. \A i \in T : Bare(w.blocks[i]) = Bare(v.blocks[i])
  BY DEF Bare, T
<1>4. \A k \in 1..Cardinality(T) : s[k] = t[k]
  BY <1>1, <1>2, <1>3
<1> QED
  BY <1>1, <1>2, <1>4, SeqEqual DEF s, t

\* One more block that is told.
LEMMA SpokenMore ==
    ASSUME NEW omit, NEW v \in Views, NEW w \in Views, Len(w.blocks) = Len(v.blocks) + 1,
           \A i \in 1..Len(v.blocks) : w.blocks[i].kind = v.blocks[i].kind
                                       /\ w.blocks[i].data = v.blocks[i].data,
           w.blocks[Len(v.blocks) + 1].kind \notin omit
    PROVE  Spoken(omit, w) = Append(Spoken(omit, v), Bare(w.blocks[Len(v.blocks) + 1]))
<1> DEFINE n == Len(v.blocks)
           T == ToldBlocks(omit, v)
           U == ToldBlocks(omit, w)
           s == Spoken(omit, v)
           t == Spoken(omit, w)
           m == Cardinality(T)
           last == Bare(w.blocks[n + 1])
           a == Ascending(T)
           b == Ascending(U)
<1>1. n \in Nat /\ w.blocks[n + 1] \in ViewBlocks
  <2>1. n \in Nat /\ \A i \in 1..Len(w.blocks) : w.blocks[i] \in ViewBlocks
    BY BlocksOfView
  <2>2. n + 1 \in 1..Len(w.blocks)
    BY <2>1
  <2> QED
    BY <2>1, <2>2
<1>t. Tells(v, T, s) /\ Tells(w, U, t)
  BY SpokenIs
<1> HIDE DEF T, U, s, t
<1>2. /\ T \in SUBSET (1..n) /\ a \in Seq(T) /\ m \in Nat /\ Len(a) = m
      /\ Len(s) = m /\ s \in Seq(Pieces)
      /\ \A k \in 1..m : a[k] \in T /\ s[k] = Bare(v.blocks[a[k]])
  BY <1>t DEF Tells
<1>3. /\ Len(t) = Cardinality(U) /\ t \in Seq(Pieces) /\ Len(b) = Cardinality(U)
      /\ \A k \in 1..Cardinality(U) : t[k] = Bare(w.blocks[b[k]])
  BY <1>t DEF Tells
<1>4. U = T \cup {n + 1}
  <2>1. Len(w.blocks) = n + 1 /\ 1..n + 1 = (1..n) \cup {n + 1}
    BY <1>1
  <2>2. \A i \in 1..n : w.blocks[i].kind = v.blocks[i].kind
    OBVIOUS
  <2>3. w.blocks[n + 1].kind \notin omit
    OBVIOUS
  <2>4. T = {i \in 1..n : v.blocks[i].kind \notin omit}
    BY DEF ToldBlocks, T
  <2>5. U = {i \in 1..n + 1 : w.blocks[i].kind \notin omit}
    BY <2>1 DEF ToldBlocks, U
  <2> HIDE DEF n
  <2> QED
    BY <2>1, <2>2, <2>3, <2>4, <2>5
<1> HIDE DEF last
<1>5. b = Append(a, n + 1)
  <2>1. T \in SUBSET (0..n + 1) /\ n + 1 \in 0..n + 1 /\ n + 1 \in Nat /\ \A i \in T : i < n + 1
    BY <1>1, <1>2
  <2> HIDE DEF T, n
  <2> QED
    BY <1>4, <2>1, AscendingMore
<1>6. \A i \in T : Bare(w.blocks[i]) = Bare(v.blocks[i])
  BY <1>2 DEF Bare
<1> HIDE DEF T, m, a, n
<1>7. Len(b) = m + 1 /\ b[m + 1] = n + 1 /\ \A k \in 1..m : b[k] = a[k]
  <2>1. a \in Seq(Nat)
    <3>1. a \in [1..m -> T] /\ \A i \in T : i \in Nat
      BY <1>1, <1>2, LenProperties
    <3>2. a \in [1..m -> Nat]
      BY <3>1
    <3> QED
      BY <1>2, <3>2, SeqDef
  <2>2. n + 1 \in Nat
    BY <1>1
  <2> QED
    BY <1>2, <1>5, <2>1, <2>2, AppendProperties
<1>8. Len(t) = m + 1 /\ t[m + 1] = last /\ \A k \in 1..m : t[k] = s[k]
  <2>1. Cardinality(U) = m + 1
    BY <1>3, <1>7
  <2>2. m + 1 \in 1..m + 1 /\ \A k \in 1..m : k \in 1..m + 1
    BY <1>2
  <2> QED
    <3>1. Len(t) = m + 1
      BY <1>3, <2>1
    <3>2. t[m + 1] = last
      BY <1>3, <1>7, <2>1, <2>2 DEF last
    <3>3. \A k \in 1..m : t[k] = s[k]
      BY <1>2, <1>3, <1>6, <1>7, <2>1, <2>2
    <3> QED
      BY <3>1, <3>2, <3>3
<1>9. last \in Pieces
  BY <1>1 DEF last, Bare, Pieces, ViewBlocks
<1>10. /\ Append(s, last) \in Seq(Pieces) /\ Len(Append(s, last)) = m + 1
       /\ Append(s, last)[m + 1] = last /\ \A k \in 1..m : Append(s, last)[k] = s[k]
  BY <1>2, <1>9, AppendProperties
<1>11. m \in Nat
  BY <1>2
<1>12. \A k \in 1..m + 1 : k \in 1..m \/ k = m + 1
  BY ONLY <1>11
<1>13. \A k \in 1..m + 1 : t[k] = Append(s, last)[k]
  BY <1>8, <1>10, <1>12
<1> QED
  BY <1>3, <1>8, <1>10, <1>13, SeqEqual DEF s, t, last, n

-----------------------------------------------------------------------------
(* An answer of OpenAI: what it said, and what the client holds.           *)

SaidParts == [kind : Kinds \cup PartKinds, data : Seq(Nat), signature : Nat]
OpenAIUpstreams == [part : [Parts -> Nat], done : SUBSET Parts, ended : BOOLEAN]

\* w holds what was said; w holds an empty text.
Says(w, s) ==
    /\ Len(w.blocks) = Len(s)
    /\ \A i \in 1..Len(s) : w.blocks[i].kind = s[i].kind /\ w.blocks[i].data = s[i].data
Fills(w) == /\ Len(w.blocks) = 1
            /\ w.blocks[1].kind = "text" /\ w.blocks[1].data = <<>>

\* The parts that were announced, and are not done, are the open blocks.
BlockOfPart(c, u, s, p) ==
    /\ u.part[p] \in 0..Len(s)
    /\ c.block[p] = u.part[p] - 1
    /\ u.part[p] # 0 /\ p \notin u.done /\ ~c.stopReasonSent => c.block[p] \in c.open

\* The converter c reads the upstream u, which has said s; its client holds w.
FollowsOpenAI(c, u, s, w) ==
    /\ Matches(c, w)
    /\ u \in OpenAIUpstreams /\ s \in Seq(SaidParts)
    /\ u.ended <=> c.stopReasonSent
    /\ Says(w, s) \/ (s = <<>> /\ Fills(w))
    /\ ~c.stopReasonSent => Says(w, s)
    /\ \A p \in Parts : BlockOfPart(c, u, s, p)
    /\ \A p, q \in Parts : p # q /\ u.part[p] = u.part[q] => u.part[p] = 0

\* The step r takes the client from w to one that follows the upstream u, s.
GoesOn(size, w, r, u, s) ==
    ~r.err /\ \E x : Emits(size, w, r.events, x) /\ FollowsOpenAI(r.conv, u, s, x)

\* A message that is ended holds what was said, or was filled.
LEMMA KeptSays ==
    ASSUME NEW s \in Seq(SaidParts), NEW w, Says(w, s), NEW x, Kept(w, x)
    PROVE  Says(x, s) \/ (s = <<>> /\ Fills(x))
<1>1. Len(s) \in Nat /\ (Len(s) = 0 => s = <<>>)
  BY LenProperties, EmptySeq
<1>2. Len(w.blocks) = Len(s)
  BY DEF Says
<1>3. CASE Len(w.blocks) = 0 /\ Len(x.blocks) = 1
           /\ x.blocks[1].kind = "text" /\ x.blocks[1].data = <<>>
  BY <1>1, <1>2, <1>3 DEF Fills
<1>4. CASE /\ Len(x.blocks) = Len(w.blocks)
           /\ \A i \in 1..Len(w.blocks) : /\ x.blocks[i].kind = w.blocks[i].kind
                                          /\ x.blocks[i].data = w.blocks[i].data
  BY <1>2, <1>4 DEF Says
<1> QED
  BY <1>3, <1>4 DEF Kept

\* A new upstream has said nothing.
LEMMA NewFollows ==
    LET u == [part |-> [p \in Parts |-> 0], done |-> {}, ended |-> FALSE]
    IN  FollowsOpenAI(NewStreamConverter, u, <<>>, NoMessage)
<1> DEFINE u == [part |-> [p \in Parts |-> 0], done |-> {}, ended |-> FALSE]
           c == NewStreamConverter
<1>1. Matches(c, NoMessage)
  BY NewMatches
<1>2. u \in OpenAIUpstreams /\ u.ended = FALSE /\ \A p \in Parts : u.part[p] = 0
  BY DEF OpenAIUpstreams
<1>3. c.stopReasonSent = FALSE /\ \A p \in Parts : c.block[p] = -1
  BY DEF NewStreamConverter, None
<1>4. Len(<<>>) = 0 /\ <<>> \in Seq(SaidParts)
  BY EmptySeq
<1>5. Says(NoMessage, <<>>)
  <2>1. Len(NoMessage.blocks) = 0
    BY DEF NoMessage
  <2> QED
    BY <1>4, <2>1 DEF Says
<1> HIDE DEF u, c
<1>6. \A p \in Parts : BlockOfPart(c, u, <<>>, p)
  BY <1>2, <1>3, <1>4 DEF BlockOfPart
<1>7. FollowsOpenAI(c, u, <<>>, NoMessage)
  BY <1>1, <1>2, <1>3, <1>4, <1>5, <1>6 DEF FollowsOpenAI
<1> QED
  BY <1>7 DEF c, u

\* The upstream announces a part.
LEMMA AddFollows ==
    ASSUME NEW size \in Nat, NEW c, NEW u, NEW s, NEW w, FollowsOpenAI(c, u, s, w), ~u.ended,
           NEW p \in Parts, u.part[p] = 0, NEW kind \in Kinds
    PROVE  GoesOn(size, w, Added(c, p, kind), [u EXCEPT !.part[p] = Len(s) + 1],
                  Append(s, [kind |-> kind, data |-> <<>>, signature |-> 0]))
<1> DEFINE r == Added(c, p, kind)
           b == Begun(w)
           x == WithBlock(b, kind)
           n == Len(s)
           new == [kind |-> kind, data |-> <<>>, signature |-> 0]
           t == Append(s, new)
           y == [u EXCEPT !.part[p] = n + 1]
<1>1. /\ Matches(c, w) /\ ~c.stopReasonSent /\ c \in Converters /\ w \in Views
      /\ u \in OpenAIUpstreams /\ s \in Seq(SaidParts) /\ Says(w, s)
      /\ \A q \in Parts : BlockOfPart(c, u, s, q)
      /\ \A q, l \in Parts : q # l /\ u.part[q] = u.part[l] => u.part[q] = 0
  BY DEF FollowsOpenAI, Matches
<1>2. n \in Nat /\ Len(w.blocks) = n
  BY <1>1, LenProperties DEF Says
<1>3. /\ Emits(size, w, r.events, x) /\ Matches(r.conv, x) /\ ~r.conv.stopReasonSent
      /\ ~r.err /\ r.conv.block = [c.block EXCEPT ![p] = Len(w.blocks)]
  <2>1. Emits(size, w, r.events, x) /\ Matches(r.conv, x) /\ ~r.conv.stopReasonSent /\ ~r.err
    BY <1>1, AddedMatches
  <2>2. BlockAt(c, p, Len(w.blocks), r.conv)
    BY <1>1, AddedMatches
  <2> QED
    BY <2>1, <2>2 DEF BlockAt
<1>4. b \in Views /\ b.blocks = w.blocks
  BY <1>1, BeginMatches
<1> HIDE DEF r, b, n
<1>5. /\ Len(x.blocks) = n + 1
      /\ x.blocks[n + 1] = NewBlock(kind)
      /\ \A j \in 1..n : x.blocks[j] = w.blocks[j]
  <2>1. /\ Len(x.blocks) = Len(b.blocks) + 1
        /\ x.blocks[Len(b.blocks) + 1] = NewBlock(kind)
        /\ \A j \in 1..Len(b.blocks) : x.blocks[j] = b.blocks[j]
    BY <1>4, WithBlockIs
  <2> HIDE DEF x
  <2> QED
    BY <1>2, <1>4, <2>1
<1>6. r.conv.open = c.open \cup {n}
  <2>1. x.blocks[n + 1].open
    BY <1>5 DEF NewBlock
  <2> HIDE DEF x
  <2>2. OpenIn(x) = OpenIn(w) \cup {n}
    BY <1>1, <1>2, <1>5, <2>1, OpenedBlock
  <2>3. r.conv.open = OpenIn(x) /\ c.open = OpenIn(w)
    BY <1>1, <1>3 DEF Matches
  <2> QED
    BY <2>2, <2>3
<1> HIDE DEF x
<1>7. y \in OpenAIUpstreams /\ y.ended = u.ended /\ y.done = u.done
      /\ y.part[p] = n + 1 /\ \A q \in Parts : q # p => y.part[q] = u.part[q]
  <2> DEFINE f == [u.part EXCEPT ![p] = n + 1]
  <2>1. u.part \in [Parts -> Nat] /\ n + 1 \in Nat
    BY <1>1, <1>2 DEF OpenAIUpstreams
  <2>2. f \in [Parts -> Nat] /\ f[p] = n + 1 /\ \A q \in Parts : q # p => f[q] = u.part[q]
    BY <2>1
  <2>3. y = [u EXCEPT !.part = f]
    OBVIOUS
  <2> HIDE DEF f, y
  <2>4. y \in OpenAIUpstreams /\ y.ended = u.ended /\ y.done = u.done /\ y.part = f
    BY <1>1, <2>2, <2>3 DEF OpenAIUpstreams
  <2> QED
    BY <2>2, <2>4
<1>8. /\ t \in Seq(SaidParts) /\ Len(t) = n + 1 /\ t[n + 1] = new
      /\ \A i \in 1..n : t[i] = s[i]
  <2>1. new \in SaidParts
    BY EmptySeq DEF SaidParts
  <2> HIDE DEF new
  <2> QED
    BY <1>1, <2>1, AppendProperties DEF n
<1>9. new.kind = kind /\ new.data = <<>>
  OBVIOUS
<1> HIDE DEF y, t, new
<1>10. Says(x, t)
  <2>1. x.blocks[n + 1].kind = kind /\ x.blocks[n + 1].data = <<>>
    BY <1>5 DEF NewBlock
  <2>2. \A i \in 1..n : w.blocks[i].kind = s[i].kind /\ w.blocks[i].data = s[i].data
    BY <1>1 DEF Says, n
  <2>3. \A i \in 1..n + 1 : i \in 1..n \/ i = n + 1
    BY <1>2
  <2> QED
    BY <1>5, <1>8, <1>9, <2>1, <2>2, <2>3 DEF Says
<1>11. \A q \in Parts : BlockOfPart(r.conv, y, t, q)
  <2> TAKE q \in Parts
  <2>1. c.block \in [Parts -> Int]
    BY <1>1 DEF Converters
  <2>2. CASE q = p
    <3>1. r.conv.block[q] = n
      BY <1>2, <1>3, <2>1, <2>2
    <3> QED
      BY <1>2, <1>6, <1>7, <1>8, <2>2, <3>1 DEF BlockOfPart
  <2>3. CASE q # p
    <3>1. r.conv.block[q] = c.block[q]
      BY <1>3, <2>1, <2>3
    <3>2. BlockOfPart(c, u, s, q)
      BY <1>1
    <3> QED
      BY <1>1, <1>2, <1>6, <1>7, <1>8, <2>3, <3>1, <3>2 DEF BlockOfPart, n
  <2> QED
    BY <2>2, <2>3
<1>12. \A q, l \in Parts : q # l /\ y.part[q] = y.part[l] => y.part[q] = 0
  <2>1. \A q \in Parts : u.part[q] \in 0..n
    BY <1>1 DEF BlockOfPart, n
  <2>2. \A q \in Parts : u.part[q] # n + 1
    BY <1>2, <2>1
  <2> QED
    BY <1>1, <1>7, <2>2
<1>13. FollowsOpenAI(r.conv, y, t, x)
  <2>1. ~y.ended
    BY <1>7
  <2> QED
    BY <1>3, <1>7, <1>8, <1>10, <1>11, <1>12, <2>1 DEF FollowsOpenAI
<1>14. GoesOn(size, w, r, y, t)
  BY <1>3, <1>13 DEF GoesOn
<1> QED
  BY <1>14 DEF r, y, t, n, new

\* A step that says nothing new.
LEMMA FollowsAgain ==
    ASSUME NEW c, NEW u, NEW s, NEW w, FollowsOpenAI(c, u, s, w), ~c.stopReasonSent,
           NEW d, NEW x, Matches(d, x), d.block = c.block, Kept(w, x),
           ~d.stopReasonSent => Says(x, s),
           NEW y \in OpenAIUpstreams, y.part = u.part, y.ended <=> d.stopReasonSent,
           \A q \in Parts : u.part[q] # 0 /\ q \notin y.done /\ ~d.stopReasonSent =>
                               c.block[q] \in d.open
    PROVE  FollowsOpenAI(d, y, s, x)
<1>1. /\ s \in Seq(SaidParts) /\ Says(w, s)
      /\ \A q \in Parts : BlockOfPart(c, u, s, q)
      /\ \A q, l \in Parts : q # l /\ u.part[q] = u.part[l] => u.part[q] = 0
  BY DEF FollowsOpenAI
<1>2. Says(x, s) \/ (s = <<>> /\ Fills(x))
  BY <1>1, KeptSays
<1>3. \A q \in Parts : BlockOfPart(d, y, s, q)
  BY <1>1 DEF BlockOfPart
<1> QED
  BY <1>1, <1>2, <1>3 DEF FollowsOpenAI

\* A view keeps what it holds; so does one whose message begins.
LEMMA SaysAgain ==
    ASSUME NEW w, NEW x, x.blocks = w.blocks
    PROVE  Kept(w, x) /\ \A s : Says(w, s) => Says(x, s)
BY DEF Kept, Says

\* The upstream is done with a part.
LEMMA CompleteFollows ==
    ASSUME NEW size \in Nat, NEW c, NEW u, NEW s, NEW w, FollowsOpenAI(c, u, s, w), ~u.ended,
           NEW p \in Parts, u.part[p] # 0, p \notin u.done
    PROVE  GoesOn(size, w, Done(c, p), [u EXCEPT !.done = @ \cup {p}], s)
<1> DEFINE r == Done(c, p)
           i == c.block[p]
           x == WithStopped(w, i)
           y == [u EXCEPT !.done = @ \cup {p}]
<1>1. /\ Matches(c, w) /\ ~c.stopReasonSent /\ c \in Converters /\ w \in Views
      /\ u \in OpenAIUpstreams /\ s \in Seq(SaidParts) /\ Says(w, s) /\ c.open = OpenIn(w)
      /\ \A q \in Parts : BlockOfPart(c, u, s, q)
      /\ \A q, l \in Parts : q # l /\ u.part[q] = u.part[l] => u.part[q] = 0
  BY DEF FollowsOpenAI, Matches
<1>2. i \in c.open
  BY <1>1 DEF BlockOfPart
<1>3. /\ Emits(size, w, r.events, x) /\ Matches(r.conv, x) /\ ~r.err
      /\ ~r.conv.stopReasonSent /\ r.conv.block = c.block
      /\ r.conv.open = c.open \ {i}
  BY <1>1, <1>2, DoneMatches
<1>4. /\ Len(x.blocks) = Len(w.blocks)
      /\ \A j \in 1..Len(w.blocks) : /\ x.blocks[j].kind = w.blocks[j].kind
                                     /\ x.blocks[j].data = w.blocks[j].data
  <2>1. w \in Views /\ i \in OpenIn(w)
    BY <1>1, <1>2
  <2> HIDE DEF i
  <2>2. /\ Len(x.blocks) = Len(w.blocks)
        /\ x.blocks[i + 1].kind = w.blocks[i + 1].kind
        /\ x.blocks[i + 1].data = w.blocks[i + 1].data
        /\ \A j \in 1..Len(w.blocks) : j # i + 1 => x.blocks[j] = w.blocks[j]
    BY <2>1, WithStoppedIs
  <2> HIDE DEF x
  <2> QED
    BY <2>2
<1> HIDE DEF r, x
<1>5. Kept(w, x) /\ Says(x, s)
  <2>1. Kept(w, x)
    BY <1>4 DEF Kept
  <2>2. Says(x, s)
    BY <1>1, <1>4 DEF Says
  <2> QED
    BY <2>1, <2>2
<1>6. y \in OpenAIUpstreams /\ y.part = u.part /\ y.ended = u.ended /\ y.done = u.done \cup {p}
  BY <1>1 DEF OpenAIUpstreams
<1> HIDE DEF y, i
<1>7. \A q \in Parts : u.part[q] # 0 /\ q \notin y.done => c.block[q] \in r.conv.open
  <2> SUFFICES ASSUME NEW q \in Parts, u.part[q] # 0, q \notin y.done
               PROVE  c.block[q] \in c.open /\ c.block[q] # i
    BY <1>3
  <2>1. q # p /\ q \notin u.done /\ u.part[q] # u.part[p]
    BY <1>1, <1>6
  <2>2. BlockOfPart(c, u, s, q) /\ BlockOfPart(c, u, s, p)
    BY <1>1
  <2>3. Len(s) \in Nat
    BY <1>1, LenProperties
  <2>4. c.block[q] = u.part[q] - 1 /\ i = u.part[p] - 1 /\ u.part[q] \in Nat /\ u.part[p] \in Nat
    BY <2>2, <2>3 DEF BlockOfPart, i
  <2> QED
    BY <1>1, <2>1, <2>2, <2>4 DEF BlockOfPart
<1>8. FollowsOpenAI(r.conv, y, s, x)
  <2>1. y.ended <=> r.conv.stopReasonSent
    BY <1>3, <1>6
  <2> QED
    BY <1>1, <1>3, <1>5, <1>6, <1>7, <2>1, FollowsAgain
<1>9. GoesOn(size, w, r, y, s)
  BY <1>3, <1>8 DEF GoesOn
<1> QED
  BY <1>9 DEF r, y

\* The upstream signals that it began, or goes on; that it is complete.
LEMMA SignalFollows ==
    ASSUME NEW size \in Nat, NEW c, NEW u, NEW s, NEW w, FollowsOpenAI(c, u, s, w), ~u.ended
    PROVE  /\ GoesOn(size, w, Begin(c), [u EXCEPT !.ended = FALSE], s)
           /\ GoesOn(size, w, Silent(c), [u EXCEPT !.ended = FALSE], s)
           /\ GoesOn(size, w, Completed(c), [u EXCEPT !.ended = TRUE], s)
<1> DEFINE y == [u EXCEPT !.ended = FALSE]
           z == [u EXCEPT !.ended = TRUE]
<1>1. /\ Matches(c, w) /\ ~c.stopReasonSent /\ c \in Converters /\ w \in Views
      /\ u \in OpenAIUpstreams /\ s \in Seq(SaidParts) /\ Says(w, s)
      /\ \A q \in Parts : BlockOfPart(c, u, s, q)
  BY DEF FollowsOpenAI, Matches
<1>2. /\ y \in OpenAIUpstreams /\ y.part = u.part /\ y.done = u.done /\ ~y.ended
      /\ z \in OpenAIUpstreams /\ z.part = u.part /\ z.ended
  BY <1>1 DEF OpenAIUpstreams
<1> HIDE DEF y, z
<1>3. \A q \in Parts : u.part[q] # 0 /\ q \notin y.done => c.block[q] \in c.open
  BY <1>1, <1>2 DEF BlockOfPart
<1>4. GoesOn(size, w, Begin(c), y, s)
  <2> DEFINE r == Begin(c)
             b == Begun(w)
             d == Started(c)
  <2>1. /\ Emits(size, w, MissingStart(c), b) /\ Matches(d, b) /\ ~d.stopReasonSent
        /\ b.blocks = w.blocks
    BY <1>1, BeginMatches
  <2>2. r.conv = d /\ r.events = MissingStart(c) /\ ~r.err
    BY DEF Begin, Out
  <2>3. d.block = c.block /\ d.open = c.open
    BY <1>1 DEF Started, Converters
  <2> HIDE DEF r, b, d
  <2>4. Kept(w, b) /\ Says(b, s)
    BY <1>1, <2>1, SaysAgain
  <2>5. y.ended <=> d.stopReasonSent
    BY <1>2, <2>1
  <2>6. FollowsOpenAI(d, y, s, b)
    BY <1>1, <1>2, <1>3, <2>1, <2>3, <2>4, <2>5, FollowsAgain
  <2>7. GoesOn(size, w, r, y, s)
    BY <2>1, <2>2, <2>6 DEF GoesOn
  <2> QED
    BY <2>7 DEF r
<1>5. GoesOn(size, w, Silent(c), y, s)
  <2> DEFINE r == Silent(c)
  <2>1. r.conv = c /\ r.events = <<>> /\ ~r.err
    BY DEF Silent, Out
  <2> HIDE DEF r
  <2>2. Kept(w, w)
    BY SaysAgain
  <2>3. y.ended <=> c.stopReasonSent
    BY <1>1, <1>2
  <2>4. FollowsOpenAI(c, y, s, w)
    BY <1>1, <1>2, <1>3, <2>2, <2>3, FollowsAgain
  <2>5. Emits(size, w, <<>>, w)
    BY <1>1, EmitsNothing
  <2>6. GoesOn(size, w, r, y, s)
    BY <2>1, <2>4, <2>5 DEF GoesOn
  <2> QED
    BY <2>6 DEF r
<1>6. GoesOn(size, w, Completed(c), z, s)
  <2> DEFINE r == Completed(c)
  <2>1. \E x : /\ Emits(size, w, r.events, x) /\ Matches(r.conv, x) /\ ~r.err
               /\ r.conv.stopReasonSent /\ r.conv.block = c.block /\ Kept(w, x)
    BY <1>1, CompletedMatches
  <2> HIDE DEF r
  <2>2. PICK x : /\ Emits(size, w, r.events, x) /\ Matches(r.conv, x) /\ ~r.err
                 /\ r.conv.stopReasonSent /\ r.conv.block = c.block /\ Kept(w, x)
    BY <2>1
  <2>3. z.ended <=> r.conv.stopReasonSent
    BY <1>2, <2>2
  <2>4. FollowsOpenAI(r.conv, z, s, x)
    BY <1>1, <1>2, <2>2, <2>3, FollowsAgain
  <2>5. GoesOn(size, w, r, z, s)
    BY <2>2, <2>4 DEF GoesOn
  <2> QED
    BY <2>5 DEF r
<1> QED
  BY <1>4, <1>5, <1>6 DEF y, z

\* The upstream goes on with a part.
LEMMA ExtendFollows ==
    ASSUME NEW size \in Nat, NEW c, NEW u, NEW s, NEW w, FollowsOpenAI(c, u, s, w), ~u.ended,
           NEW p \in Parts, u.part[p] # 0, p \notin u.done,
           NEW k, k = s[u.part[p]].kind,
           NEW letter \in Nat, letter <= size, 1 <= size
    PROVE  GoesOn(size, w,
                  ProcessEvent(c, [type |-> "delta", part |-> p, kind |-> k, data |-> <<letter>>]),
                  u, [s EXCEPT ![u.part[p]].data = Append(@, letter)])
<1> DEFINE n == u.part[p]
           i == c.block[p]
           d == <<letter>>
           r == ProcessEvent(c, [type |-> "delta", part |-> p, kind |-> k, data |-> d])
           x == WithData(w, i, d)
           t == [s EXCEPT ![n].data = Append(@, letter)]
<1>1. /\ Matches(c, w) /\ ~c.stopReasonSent /\ c \in Converters /\ w \in Views
      /\ u \in OpenAIUpstreams /\ s \in Seq(SaidParts) /\ Says(w, s) /\ c.open = OpenIn(w)
      /\ \A q \in Parts : BlockOfPart(c, u, s, q)
      /\ \A q, l \in Parts : q # l /\ u.part[q] = u.part[l] => u.part[q] = 0
  BY DEF FollowsOpenAI, Matches
<1>2. /\ n \in 1..Len(s) /\ i + 1 = n /\ i \in OpenIn(w) /\ Len(s) \in Nat
      /\ Len(w.blocks) = Len(s) /\ w.blocks[n].kind = s[n].kind /\ w.blocks[n].data = s[n].data
  <2>1. BlockOfPart(c, u, s, p) /\ Len(s) \in Nat
    BY <1>1, LenProperties
  <2>2. n \in 1..Len(s) /\ i = n - 1 /\ i \in OpenIn(w)
    BY <1>1, <2>1 DEF BlockOfPart
  <2> QED
    BY <1>1, <2>1, <2>2 DEF Says
<1>3. w.blocks[n].data \in Seq(Nat) /\ w.blocks[n].kind \in Kinds
  BY <1>1, <1>2, DataOfView
<1>4. d \in Seq(Nat) /\ Len(d) = 1
  OBVIOUS
<1> HIDE DEF d
<1>5. Emits(size, w, r.events, x) /\ Matches(c, x) /\ Leaves(c, r)
  <2>1. i \in c.open /\ k \in Kinds /\ w.blocks[i + 1].kind = k /\ Len(d) <= size
    BY <1>1, <1>2, <1>3, <1>4
  <2> QED
    BY <1>1, <1>4, <2>1, DeltaMatches
<1> HIDE DEF r, i
<1>6. /\ Len(x.blocks) = Len(w.blocks)
      /\ x.blocks[n].kind = w.blocks[n].kind /\ x.blocks[n].data = w.blocks[n].data \o d
      /\ \A j \in 1..Len(w.blocks) : j # n => x.blocks[j] = w.blocks[j]
  <2>1. /\ Len(x.blocks) = Len(w.blocks)
        /\ x.blocks[i + 1].kind = w.blocks[i + 1].kind
        /\ x.blocks[i + 1].data = w.blocks[i + 1].data \o d
        /\ \A j \in 1..Len(w.blocks) : j # i + 1 => x.blocks[j] = w.blocks[j]
    BY <1>1, <1>2, <1>4, WithDataIs
  <2> HIDE DEF x, n
  <2> QED
    BY <1>2, <2>1
<1> HIDE DEF x, n
<1>7. /\ t \in Seq(SaidParts) /\ Len(t) = Len(s)
      /\ t[n].kind = s[n].kind /\ t[n].data = Append(s[n].data, letter)
      /\ \A j \in 1..Len(s) : j # n => t[j] = s[j]
  <2> DEFINE new == [s[n] EXCEPT !.data = Append(s[n].data, letter)]
  <2>1. s[n] \in SaidParts
    BY <1>1, <1>2, ElementOfSeq
  <2>2. Append(s[n].data, letter) \in Seq(Nat)
    BY <1>2, <1>3, AppendProperties
  <2>3. new \in SaidParts /\ new.kind = s[n].kind /\ new.data = Append(s[n].data, letter)
    BY <2>1, <2>2 DEF SaidParts
  <2>4. t = [s EXCEPT ![n] = new]
    OBVIOUS
  <2> HIDE DEF new, t
  <2>5. /\ t \in Seq(SaidParts) /\ Len(t) = Len(s) /\ t[n] = new
        /\ \A j \in 1..Len(s) : j # n => t[j] = s[j]
    BY <1>1, <1>2, <2>3, <2>4, ExceptSeq
  <2> QED
    BY <2>3, <2>5
<1> HIDE DEF t
<1>8. x.blocks[n].data = t[n].data
  <2>1. s[n].data \in Seq(Nat)
    BY <1>2, <1>3
  <2>2. Append(s[n].data, letter) = s[n].data \o d
    BY <2>1, AppendIsConcat DEF d
  <2> QED
    BY <1>2, <1>6, <1>7, <2>2
<1>9. Says(x, t)
  <2>1. \A j \in 1..Len(s) : w.blocks[j].kind = s[j].kind /\ w.blocks[j].data = s[j].data
    BY <1>1 DEF Says
  <2>2. Len(x.blocks) = Len(t) /\ Len(t) = Len(s)
    BY <1>2, <1>6, <1>7
  <2>3. ASSUME NEW j \in 1..Len(s)
        PROVE  x.blocks[j].kind = t[j].kind /\ x.blocks[j].data = t[j].data
    <3>1. CASE j = n
      BY <1>2, <1>6, <1>7, <1>8, <3>1
    <3>2. CASE j # n
      BY <1>2, <1>6, <1>7, <2>1, <3>2
    <3> QED
      BY <3>1, <3>2
  <2> QED
    BY <2>2, <2>3 DEF Says
<1>10. \A q \in Parts : BlockOfPart(c, u, t, q)
  BY <1>1, <1>7 DEF BlockOfPart
<1>11. FollowsOpenAI(c, u, t, x)
  <2>1. ~u.ended <=> ~c.stopReasonSent
    BY <1>1
  <2>2. Matches(c, x)
    BY <1>5
  <2> QED
    BY <1>1, <1>7, <1>9, <1>10, <2>1, <2>2 DEF FollowsOpenAI
<1>12. GoesOn(size, w, r, u, t)
  <2>1. r.conv = c /\ ~r.err
    BY <1>5 DEF Leaves
  <2> QED
    BY <1>5, <1>11, <2>1 DEF GoesOn
<1> QED
  BY <1>12 DEF r, t, n, d

\* What Finalize leaves: all that was said, in a message that ended.
EndsOpenAI(s, x) ==
    \/ s = <<>> /\ x = NoMessage
    \/ /\ x.msg = "stopped" /\ (Says(x, s) \/ (s = <<>> /\ Fills(x)))
       /\ x.stop = "tool_use" <=> \E i \in 1..Len(x.blocks) : x.blocks[i].kind = "tool"

\* Finalize ends the message of a client that holds what was said (openai/stream.go:503-552).
LEMMA FinalizeFollows ==
    ASSUME NEW size \in Nat, NEW c, NEW u, NEW s, NEW w, FollowsOpenAI(c, u, s, w)
    PROVE  LET r == Finalize(c)
           IN  ~r.err /\ \E x : Emits(size, w, r.events, x) /\ x \in Views /\ EndsOpenAI(s, x)
<1> DEFINE r == Finalize(c)
<1>1. /\ Matches(c, w) /\ w \in Views /\ c \in Converters /\ s \in Seq(SaidParts)
      /\ Says(w, s) \/ (s = <<>> /\ Fills(w))
      /\ ~c.stopReasonSent => Says(w, s)
      /\ c.stopReasonSent => c.messageStarted
      /\ ~c.messageStarted => w = NoMessage
  BY DEF FollowsOpenAI, Matches
<1>2. PICK x : /\ Emits(size, w, r.events, x) /\ Matches(r.conv, x) /\ ~r.err
               /\ Kept(w, x)
               /\ c.messageStarted => r.conv.stopReasonSent
               /\ ~c.messageStarted => r.conv = c /\ x = w
  BY <1>1, FinalizeMatches
<1> HIDE DEF r
<1>3. x \in Views
  BY <1>2 DEF Matches
<1>4. CASE ~c.messageStarted
  <2>1. x = NoMessage /\ Says(NoMessage, s)
    BY <1>1, <1>2, <1>4
  <2>2. Len(s) = 0
    <3>1. Len(NoMessage.blocks) = 0
      BY DEF NoMessage
    <3> QED
      BY <2>1, <3>1 DEF Says
  <2>3. s = <<>>
    BY <1>1, <2>2, EmptySeq
  <2> QED
    BY <1>2, <1>3, <2>1, <2>3 DEF EndsOpenAI, r
<1>5. CASE c.messageStarted
  <2>1. Says(x, s) \/ (s = <<>> /\ Fills(x))
    <3>1. CASE Says(w, s)
      BY <1>1, <1>2, <3>1, KeptSays
    <3>2. CASE s = <<>> /\ Fills(w)
      <4>1. Len(w.blocks) = 1 /\ w.blocks[1].kind = "text" /\ w.blocks[1].data = <<>>
        BY <3>2 DEF Fills
      <4>2. Fills(x)
        <5>1. 1 \in 1..1
          OBVIOUS
        <5> QED
          BY <1>2, <4>1, <5>1 DEF Kept, Fills
      <4> QED
        BY <3>2, <4>2
    <3> QED
      BY <1>1, <3>1, <3>2
  <2> DEFINE g == r.conv
  <2>2. Matches(g, x) /\ g.stopReasonSent
    BY <1>2, <1>5
  <2> HIDE DEF g
  <2>3. /\ g.messageStarted /\ x.msg = "stopped" /\ x.stop = StopReason(g)
        /\ g.sawFunctionCall <=> \E i \in 1..Len(x.blocks) : x.blocks[i].kind = "tool"
    BY <2>2 DEF Matches
  <2>4. x.stop = "tool_use" <=> g.sawFunctionCall
    BY <2>3 DEF StopReason
  <2>5. EndsOpenAI(s, x)
    BY <2>1, <2>3, <2>4 DEF EndsOpenAI
  <2> QED
    BY <1>2, <1>3, <2>5 DEF r
<1> QED
  BY <1>4, <1>5

\* Events that fill the prelude's buffer are among the first, or the others.
LEMMA FullConcat ==
    ASSUME NEW E, NEW p \in Seq(E), NEW q \in Seq(E)
    PROVE  MayBeFull(p \o q) <=> MayBeFull(p) \/ MayBeFull(q)
<1> DEFINE r == p \o q
           m == Len(p)
           n == Len(q)
<1>1. m \in Nat /\ n \in Nat /\ DOMAIN p = 1..m /\ DOMAIN q = 1..n
  BY LenProperties
<1>2. /\ r \in Seq(E) /\ Len(r) = m + n
      /\ \A i \in 1..m + n : r[i] = IF i <= m THEN p[i] ELSE q[i - m]
  BY ConcatProperties
<1> HIDE DEF r
<1>3. DOMAIN r = 1..m + n
  BY <1>2, LenProperties
<1> HIDE DEF m, n
<1>4. \A i \in 1..m : i \in 1..m + n /\ r[i] = p[i]
  BY <1>1, <1>2
<1>5. \A i \in 1..n : i + m \in 1..m + n /\ r[i + m] = q[i]
  <2> TAKE i \in 1..n
  <2> DEFINE l == i + m
  <2>1. l \in 1..m + n /\ ~(l <= m) /\ l - m = i
    BY <1>1
  <2> HIDE DEF l
  <2>2. r[l] = q[l - m]
    BY <1>2, <2>1
  <2> QED
    BY <2>1, <2>2 DEF l
<1>6. \A i \in 1..m + n : (i \in 1..m /\ r[i] = p[i]) \/ (i - m \in 1..n /\ r[i] = q[i - m])
  BY <1>1, <1>2
<1>7. MayBeFull(r) <=> MayBeFull(p) \/ MayBeFull(q)
  BY <1>1, <1>3, <1>4, <1>5, <1>6, Zenon DEF MayBeFull
<1> QED
  BY <1>7 DEF r

\* Finalize after a call that was never announced, in a message that was not
\* begun: events that do not fill the prelude's buffer.
LEMMA FinalizeOrphan ==
    ASSUME NEW c, NEW u, NEW s, NEW w, FollowsOpenAI(c, u, s, w), ~c.messageStarted
    PROVE  LET r == Finalize(Started(c))
           IN  ~r.err /\ r.events \in Seq(Events) /\ ~MayBeFull(r.events)
<1> DEFINE d == Started(c)
           r == Finalize(d)
           closed == CloseOpenBlocks(d)
           filled == EnsureContentBlock(closed.conv)
           stop == StopReason(d)
<1>1. Matches(c, w) /\ w = NoMessage /\ c \in Converters /\ ~c.stopReasonSent
  BY DEF FollowsOpenAI, Matches
<1>2. /\ d.messageStarted = TRUE /\ ~d.stopReasonSent /\ d \in Converters
      /\ d.nextBlockIndex = c.nextBlockIndex /\ d.open = c.open
      /\ d.contentBlockCompleted = c.contentBlockCompleted
  BY <1>1 DEF Started, Converters
<1>3. c.open = {} /\ ~c.contentBlockCompleted /\ c.nextBlockIndex = 0
  <2>1. Len(NoMessage.blocks) = 0 /\ 1..0 = {} /\ 0..0 - 1 = {}
    BY DEF NoMessage
  <2> QED
    BY <1>1, <2>1 DEF Matches, OpenIn
<1> HIDE DEF d
<1>4. closed.events = <<>>
  <2>1. closed.events = Stops(Reverse(Ascending({})))
    BY <1>2, <1>3 DEF CloseOpenBlocks, Out
  <2>2. Len(Ascending({})) = 0 /\ Ascending({}) \in Seq({})
    <3>1. {} \in SUBSET (0..0)
      OBVIOUS
    <3> QED
      BY <3>1, AscendingLists, FS_EmptySet
  <2>3. Ascending({}) = <<>>
    BY <2>2, EmptySeq
  <2>4. Reverse(<<>>) = <<>>
    BY DEF Reverse
  <2>5. Stops(<<>>) = <<>>
    BY DEF Stops
  <2> QED
    BY <2>1, <2>3, <2>4, <2>5
<1>5. closed.conv.contentBlockCompleted = FALSE /\ closed.conv.nextBlockIndex = 0
  <2>1. /\ closed.conv.nextBlockIndex = d.nextBlockIndex
        /\ closed.conv.contentBlockCompleted <=> d.contentBlockCompleted \/ d.open # {}
        /\ closed.conv \in Converters
    BY <1>2, ClosedConverter
  <2> QED
    BY <1>2, <1>3, <2>1 DEF Converters
<1> HIDE DEF closed
<1>6. filled.events = <<BlockStart(0, "text"), BlockStop(0)>>
  BY <1>5 DEF EnsureContentBlock, Out
<1> HIDE DEF filled
<1>7. r.events = closed.events \o filled.events \o Ending(stop) /\ ~r.err
  BY <1>2 DEF Finalize, End, Out, closed, filled
<1>8. stop \in StopReasons
  BY DEF StopReason, StopReasons
<1> HIDE DEF r, stop
<1> DEFINE p == <<BlockStart(0, "text"), BlockStop(0)>>
           q == <<MessageDelta(stop), MessageStop>>
<1>9. /\ ~Unbounded(BlockStart(0, "text")) /\ ~Unbounded(BlockStop(0))
      /\ ~Unbounded(MessageDelta(stop)) /\ ~Unbounded(MessageStop)
  BY DEF Unbounded, BlockStart, BlockStop, MessageDelta, MessageStop
<1>10. ~MayBeFull(p) /\ ~MayBeFull(q)
  <2>1. DOMAIN p = 1..2 /\ DOMAIN q = 1..2 /\ 1..2 = {1, 2}
    OBVIOUS
  <2>2. \A i \in {1, 2} : ~Unbounded(p[i]) /\ ~Unbounded(q[i])
    BY <1>9
  <2> QED
    BY <2>1, <2>2 DEF MayBeFull
<1>11. p \in Seq(Events) /\ q \in Seq(Events)
  <2>1. BlockStart(0, "text") \in Events
    <3>1. 0 \in Nat /\ "text" \in Kinds
      BY DEF Kinds
    <3> QED
      BY <3>1 DEF Events
  <2>2. BlockStop(0) \in Events
    <3>1. 0 \in Nat
      OBVIOUS
    <3> QED
      BY <3>1 DEF Events
  <2>3. MessageDelta(stop) \in Events /\ MessageStop \in Events
    BY <1>8 DEF Events
  <2> QED
    BY <2>1, <2>2, <2>3
<1> HIDE DEF p, q
<1>12. r.events = p \o q
  <2>1. <<>> \o p = p
    BY <1>11, ConcatEmptySeq
  <2>2. r.events = <<>> \o p \o q
    BY <1>4, <1>6, <1>7 DEF Ending, p, q
  <2> QED
    BY <2>1, <2>2
<1>13. ~r.err /\ r.events \in Seq(Events) /\ ~MayBeFull(r.events)
  BY <1>7, <1>10, <1>11, <1>12, FullConcat, ConcatProperties
<1> QED
  BY <1>13 DEF r, d

-----------------------------------------------------------------------------
(* What the client was told, and what it should be.                        *)

\* a is what b begins with; or b is nothing, and a its filling.
Under(a, b) ==
    /\ Len(a) <= Len(b)
    /\ \A i \in 1..Len(a) : a[i].kind = b[i].kind /\ IsPrefix(a[i].data, b[i].data)
Beneath(a, b) == Under(a, b) \/ (b = <<>> /\ a = Filled)

\* Nothing is less than anything.
LEMMA NothingUnder ==
    ASSUME NEW b \in Seq(Pieces)
    PROVE  Under(<<>>, b)
<1>1. Len(<<>>) = 0 /\ 1..0 = {} /\ Len(b) \in Nat
  BY LenProperties
<1> QED
  BY <1>1 DEF Under

\* Pieces of a sequence.
LEMMA PiecesIs ==
    ASSUME NEW a \in Seq(Pieces)
    PROVE  /\ Len(a) \in Nat /\ DOMAIN a = 1..Len(a) /\ (Len(a) = 0 => a = <<>>)
           /\ \A i \in 1..Len(a) : /\ a[i] \in Pieces /\ a[i].kind \in Kinds
                                   /\ a[i].data \in Seq(Nat)
                                   /\ a[i] = [kind |-> a[i].kind, data |-> a[i].data]
<1>1. Len(a) \in Nat /\ DOMAIN a = 1..Len(a) /\ (Len(a) = 0 => a = <<>>)
  BY LenProperties, EmptySeq
<1>2. \A i \in 1..Len(a) : a[i] \in Pieces
  BY ElementOfSeq
<1>3. \A b \in Pieces : b.kind \in Kinds /\ b.data \in Seq(Nat) /\ b = [kind |-> b.kind, data |-> b.data]
  BY DEF Pieces
<1> QED
  BY <1>1, <1>2, <1>3

\* A sequence is what it begins with.
LEMMA UnderItself ==
    ASSUME NEW a \in Seq(Pieces)
    PROVE  Under(a, a)
<1>1. Len(a) \in Nat /\ \A i \in 1..Len(a) : a[i].data \in Seq(Nat)
  BY PiecesIs
<1>2. \A i \in 1..Len(a) : IsPrefix(a[i].data, a[i].data)
  BY <1>1, PrefixOfItself
<1> QED
  BY <1>1, <1>2 DEF Under

\* Being what another begins with is transitive.
LEMMA UnderTransitive ==
    ASSUME NEW a \in Seq(Pieces), NEW b \in Seq(Pieces), NEW c \in Seq(Pieces),
           Under(a, b), Under(b, c)
    PROVE  Under(a, c)
<1>1. /\ Len(a) \in Nat /\ Len(b) \in Nat /\ Len(c) \in Nat
      /\ \A i \in 1..Len(a) : a[i].data \in Seq(Nat)
      /\ \A i \in 1..Len(b) : b[i].data \in Seq(Nat)
      /\ \A i \in 1..Len(c) : c[i].data \in Seq(Nat)
  BY PiecesIs
<1>2. Len(a) <= Len(b) /\ Len(b) <= Len(c)
  BY DEF Under
<1>3. ASSUME NEW i \in 1..Len(a)
      PROVE  a[i].kind = c[i].kind /\ IsPrefix(a[i].data, c[i].data)
  <2>1. i \in 1..Len(b) /\ i \in 1..Len(c)
    BY <1>1, <1>2
  <2>2. /\ a[i].kind = b[i].kind /\ IsPrefix(a[i].data, b[i].data)
        /\ b[i].kind = c[i].kind /\ IsPrefix(b[i].data, c[i].data)
    BY <2>1 DEF Under
  <2>3. a[i].data \in Seq(Nat) /\ b[i].data \in Seq(Nat) /\ c[i].data \in Seq(Nat)
    BY <1>1, <2>1
  <2> QED
    BY <2>2, <2>3, PrefixTransitive
<1> QED
  BY <1>1, <1>2, <1>3 DEF Under

\* What the filling begins with is nothing, or itself.
LEMMA UnderFilled ==
    ASSUME NEW a \in Seq(Pieces), Under(a, Filled)
    PROVE  a = <<>> \/ a = Filled
<1> DEFINE f == [kind |-> "text", data |-> <<>>]
<1>1. Filled = <<f>> /\ f.kind = "text" /\ f.data = <<>>
  BY DEF Filled
<1> HIDE DEF f
<1>2. Len(<<f>>) = 1 /\ <<f>>[1] = f
  OBVIOUS
<1>3. Len(a) \in Nat /\ Len(a) <= 1
  <2>1. Len(a) <= Len(<<f>>)
    BY <1>1 DEF Under
  <2> QED
    BY <1>2, <2>1, PiecesIs
<1>4. CASE Len(a) = 0
  BY <1>4, PiecesIs
<1>5. CASE Len(a) = 1
  <2>1. /\ a[1] \in Pieces /\ a[1].data \in Seq(Nat)
        /\ a[1] = [kind |-> a[1].kind, data |-> a[1].data]
    <3>1. \A i \in 1..Len(a) : /\ a[i] \in Pieces /\ a[i].data \in Seq(Nat)
                               /\ a[i] = [kind |-> a[i].kind, data |-> a[i].data]
      BY PiecesIs
    <3>2. 1 \in 1..Len(a)
      BY <1>5
    <3> QED
      BY <3>1, <3>2
  <2>2. a[1].kind = "text" /\ IsPrefix(a[1].data, <<>>)
    <3>1. 1 \in 1..1
      OBVIOUS
    <3> QED
      BY <1>1, <1>2, <1>5, <3>1 DEF Under
  <2>3. a[1].data = <<>>
    <3> DEFINE d == a[1].data
    <3>1. d \in Seq(Nat) /\ IsPrefix(d, <<>>)
      BY <2>1, <2>2
    <3> HIDE DEF d
    <3>2. Len(d) <= Len(<<>>) /\ Len(<<>>) = 0 /\ Len(d) \in Nat
      BY <3>1, PrefixIs, EmptySeq, LenProperties
    <3>3. d = <<>>
      BY <3>1, <3>2, EmptySeq
    <3> QED
      BY <3>3 DEF d
  <2>4. a[1] = f
    BY <2>1, <2>2, <2>3 DEF f
  <2>5. a = <<f>>
    <3>1. f \in Pieces
      BY <2>1, <2>4
    <3>2. <<f>> \in Seq(Pieces)
      BY <3>1
    <3>3. \A i \in 1..1 : a[i] = <<f>>[i]
      BY <1>2, <2>4
    <3> QED
      BY <1>2, <1>5, <3>2, <3>3, SeqEqual
  <2> QED
    BY <1>1, <2>5
<1>6. Len(a) = 0 \/ Len(a) = 1
  BY <1>3
<1> QED
  BY <1>4, <1>5, <1>6

\* What is told of a part is beneath what all is beneath.
LEMMA BeneathTransitive ==
    ASSUME NEW a \in Seq(Pieces), NEW b \in Seq(Pieces), NEW c \in Seq(Pieces),
           Under(a, b), Beneath(b, c)
    PROVE  Beneath(a, c)
<1>1. CASE Under(b, c)
  BY <1>1, UnderTransitive DEF Beneath
<1>2. CASE c = <<>> /\ b = Filled
  <2>1. a = <<>> \/ a = Filled
    BY <1>2, UnderFilled
  <2>2. Under(<<>>, c)
    BY NothingUnder
  <2> QED
    BY <1>2, <2>1, <2>2 DEF Beneath
<1> QED
  BY <1>1, <1>2 DEF Beneath

\* A client that holds more was told more.
LEMMA SpokenGrows ==
    ASSUME NEW omit, NEW v \in Views, NEW w \in Views, Grows(v, w)
    PROVE  Under(Spoken(omit, v), Spoken(omit, w))
<1> DEFINE n == Len(v.blocks)
           N == Len(w.blocks)
           T == ToldBlocks(omit, v)
           U == ToldBlocks(omit, w)
           s == Spoken(omit, v)
           t == Spoken(omit, w)
<1>1. /\ n \in Nat /\ N \in Nat /\ n <= N
      /\ \A i \in 1..n : v.blocks[i].kind = w.blocks[i].kind
                         /\ IsPrefix(v.blocks[i].data, w.blocks[i].data)
  BY BlocksOfView DEF Grows
<1>2. T = {i \in 1..n : v.blocks[i].kind \notin omit} /\ U = {i \in 1..N : w.blocks[i].kind \notin omit}
  BY DEF ToldBlocks
<1>3. Tells(v, T, s) /\ Tells(w, U, t)
  BY SpokenIs
<1> HIDE DEF T, U, s, t, n, N
<1>4. U \in SUBSET (0..N) /\ T \in SUBSET U /\ \A i \in T : \A j \in U \ T : i < j
  BY <1>1, <1>2
<1>5. /\ Cardinality(T) \in Nat /\ Cardinality(U) \in Nat /\ Cardinality(T) <= Cardinality(U)
      /\ \A k \in 1..Cardinality(T) : Ascending(U)[k] = Ascending(T)[k]
  BY <1>1, <1>4, AscendingBegins
<1>6. /\ Len(s) = Cardinality(T)
      /\ \A k \in 1..Cardinality(T) : /\ Ascending(T)[k] \in T
                                      /\ s[k] = Bare(v.blocks[Ascending(T)[k]])
  BY <1>3 DEF Tells
<1>7. /\ Len(t) = Cardinality(U)
      /\ \A k \in 1..Cardinality(U) : t[k] = Bare(w.blocks[Ascending(U)[k]])
  BY <1>3 DEF Tells
<1>8. ASSUME NEW k \in 1..Cardinality(T)
      PROVE  s[k].kind = t[k].kind /\ IsPrefix(s[k].data, t[k].data)
  <2> DEFINE i == Ascending(T)[k]
  <2>1. i \in T /\ s[k] = Bare(v.blocks[i])
    BY <1>6
  <2>2. k \in 1..Cardinality(U) /\ t[k] = Bare(w.blocks[i])
    BY <1>5, <1>7
  <2> HIDE DEF i
  <2>3. i \in 1..n
    BY <1>2, <2>1
  <2> QED
    BY <1>1, <2>1, <2>2, <2>3 DEF Bare
<1>9. Under(s, t)
  BY <1>5, <1>6, <1>7, <1>8 DEF Under
<1> QED
  BY <1>9 DEF s, t

\* The numbers up to n, in ascending order.
LEMMA AscendingAll ==
    ASSUME NEW n \in Nat, NEW k \in 1..n
    PROVE  Cardinality(1..n) = n /\ Ascending(1..n)[k] = k
<1> DEFINE S == 1..n
           i == Ascending(S)[k]
<1>1. \A m \in Nat : IsFiniteSet(1..m) /\ Cardinality(1..m) = m
  <2> TAKE m \in Nat
  <2>1. 1 \in Int /\ m \in Int
    OBVIOUS
  <2>2. IsFiniteSet(1..m) /\ Cardinality(1..m) = IF 1 > m THEN 0 ELSE m - 1 + 1
    BY <2>1, FS_Interval
  <2> QED
    BY <2>2
<1>2. S \in SUBSET (0..n) /\ Cardinality(S) = n
  BY <1>1
<1>3. i \in S /\ Cardinality({j \in S : j <= i}) = k
  BY <1>2, AscendingCounts
<1> HIDE DEF i
<1>4. {j \in S : j <= i} = 1..i /\ i \in Nat
  BY <1>3
<1>5. i = k
  BY <1>1, <1>3, <1>4
<1> QED
  BY <1>1, <1>5 DEF i

\* All blocks are told, if no kind is left out.
LEMMA SpokenAll ==
    ASSUME NEW w \in Views
    PROVE  /\ Spoken({}, w) \in Seq(Pieces) /\ Len(Spoken({}, w)) = Len(w.blocks)
           /\ \A i \in 1..Len(w.blocks) : Spoken({}, w)[i] = Bare(w.blocks[i])
<1> DEFINE T == ToldBlocks({}, w)
           n == Len(w.blocks)
           s == Spoken({}, w)
<1>1. n \in Nat
  BY BlocksOfView
<1>2. T = 1..n
  BY DEF ToldBlocks
<1>3. Tells(w, T, s)
  BY SpokenIs
<1> HIDE DEF T, s, n
<1>4. /\ Len(s) = Cardinality(T) /\ s \in Seq(Pieces)
      /\ \A k \in 1..Cardinality(T) : s[k] = Bare(w.blocks[Ascending(T)[k]])
  BY <1>3 DEF Tells
<1>5. \A k \in 1..n : Cardinality(T) = n /\ Ascending(T)[k] = k
  BY <1>1, <1>2, AscendingAll
<1>6. Cardinality(T) = n
  <2>1. CASE n = 0
    <3>1. 1..0 = {}
      OBVIOUS
    <3> QED
      BY <1>2, <2>1, <3>1, FS_EmptySet
  <2>2. CASE n # 0
    <3>1. 1 \in 1..n
      BY <1>1, <2>2
    <3> QED
      BY <1>5, <3>1
  <2> QED
    BY <2>1, <2>2
<1> QED
  BY <1>4, <1>5, <1>6 DEF s, n

\* What OpenAI said, without its signatures.
BareParts(s) == [i \in DOMAIN s |-> Bare(s[i])]

\* A client that holds what was said was told it.
LEMMA SaysSpoken ==
    ASSUME NEW s \in Seq(SaidParts), NEW w \in Views
    PROVE  /\ Says(w, s) => Spoken({}, w) = BareParts(s)
           /\ Fills(w) => Spoken({}, w) = Filled
           /\ DOMAIN BareParts(s) = DOMAIN s /\ (s = <<>> => BareParts(s) = <<>>)
<1> DEFINE n == Len(s)
           a == Spoken({}, w)
           b == BareParts(s)
<1>1. n \in Nat /\ DOMAIN s = 1..n
  BY LenProperties
<1>2. /\ a \in Seq(Pieces) /\ Len(a) = Len(w.blocks)
      /\ \A i \in 1..Len(w.blocks) : a[i] = Bare(w.blocks[i])
  BY SpokenAll
<1>3. b = [i \in 1..n |-> Bare(s[i])]
  BY <1>1 DEF BareParts
<1> HIDE DEF a
<1>4. ASSUME Says(w, s)
      PROVE  a = b
  <2>1. /\ Len(w.blocks) = n
        /\ \A i \in 1..n : w.blocks[i].kind = s[i].kind /\ w.blocks[i].data = s[i].data
    BY <1>4 DEF Says
  <2>2. \A i \in 1..n : Bare(w.blocks[i]) = Bare(s[i])
    BY <2>1 DEF Bare
  <2>3. DOMAIN a = 1..n /\ a = [i \in DOMAIN a |-> a[i]]
    BY <1>2, <2>1, LenProperties
  <2>4. \A i \in 1..n : a[i] = Bare(s[i])
    BY <1>2, <2>1, <2>2
  <2> QED
    BY <1>3, <2>3, <2>4
<1>5. ASSUME Fills(w)
      PROVE  a = Filled
  <2> DEFINE f == [kind |-> "text", data |-> <<>>]
  <2>1. /\ Len(w.blocks) = 1
        /\ w.blocks[1].kind = "text" /\ w.blocks[1].data = <<>>
    BY <1>5 DEF Fills
  <2>2. Len(a) = 1 /\ a[1] = f
    <3>1. 1 \in 1..1
      OBVIOUS
    <3> QED
      BY <1>2, <2>1, <3>1 DEF Bare
  <2> HIDE DEF f
  <2>3. DOMAIN a = 1..1 /\ a \in Seq(Pieces)
    BY <1>2, <2>2, LenProperties
  <2>4. f \in Pieces
    BY EmptySeq DEF f, Pieces, Kinds
  <2>5. <<f>> \in Seq(Pieces) /\ Len(<<f>>) = 1 /\ <<f>>[1] = f
    BY <2>4
  <2>6. \A i \in 1..1 : a[i] = <<f>>[i]
    BY <2>2, <2>5
  <2>7. a = <<f>>
    BY <2>2, <2>3, <2>5, <2>6, SeqEqual
  <2> QED
    BY <2>7 DEF f, Filled
<1>6. ASSUME s = <<>>
      PROVE  b = <<>>
  BY <1>6 DEF BareParts
<1>7. DOMAIN b = DOMAIN s
  BY DEF BareParts
<1> QED
  BY <1>4, <1>5, <1>6, <1>7 DEF a

\* A client of OpenAI's answer was told what was said.
LEMMA SaysBeneath ==
    ASSUME NEW s \in Seq(SaidParts), NEW w \in Views, Says(w, s) \/ (s = <<>> /\ Fills(w))
    PROVE  BareParts(s) \in Seq(Pieces) /\ Beneath(Spoken({}, w), BareParts(s))
<1> DEFINE a == Spoken({}, w)
           b == BareParts(s)
<1>1. /\ Says(w, s) => a = b
      /\ Fills(w) => a = Filled
      /\ s = <<>> => b = <<>>
  BY SaysSpoken
<1>2. a \in Seq(Pieces) /\ <<>> \in Seq(Pieces)
  BY SpokenAll, EmptySeq
<1> HIDE DEF a, b
<1>3. CASE Says(w, s)
  BY <1>1, <1>2, <1>3, UnderItself DEF Beneath, a, b
<1>4. CASE s = <<>> /\ Fills(w)
  BY <1>1, <1>2, <1>4 DEF Beneath, a, b
<1> QED
  BY <1>3, <1>4

-----------------------------------------------------------------------------
(* An answer of Gemini: what its parts amount to, and what the client      *)
(* holds.                                                                  *)

\* What holds of 0, and of every number after one it holds of, holds up to N.
LEMMA Climb ==
    ASSUME NEW N \in Nat, NEW J, 0 \in J, \A n \in 1..N : n - 1 \in J => n \in J
    PROVE  \A n \in 0..N : n \in J
<1> DEFINE out == {n \in Nat : n <= N /\ n \notin J}
<1>1. out = {}
  <2> SUFFICES ASSUME out # {} PROVE FALSE
    OBVIOUS
  <2>1. PICK m \in out : \A k \in out : m <= k
    BY Least
  <2>2. m \in Nat /\ m <= N /\ m \notin J
    OBVIOUS
  <2>3. m # 0
    BY <2>2
  <2>4. m - 1 \in Nat /\ m - 1 <= N /\ ~(m <= m - 1) /\ m \in 1..N
    BY <2>2, <2>3
  <2>5. m - 1 \in J
    <3>1. m - 1 \notin out
      <4> HIDE DEF out
      <4> QED
        BY <2>1, <2>4, Zenon
    <3> QED
      BY <2>4, <3>1
  <2> QED
    BY <2>2, <2>4, <2>5
<1>2. \A n \in 0..N : n \in Nat /\ n <= N
  OBVIOUS
<1> QED
  BY <1>1, <1>2

\* f[n] is what the first n parts amount to.
Merges(f, s) == f = [n \in 0..Len(s) |-> IF n = 0 THEN <<>> ELSE WithPart(f[n - 1], s[n])]

\* The recursive definition has a solution.
LEMMA PartsAreMerged ==
    ASSUME NEW s, Len(s) \in Nat
    PROVE  \E f : Merges(f, s)
<1> DEFINE n == Len(s)
           Q(b, i) == WithPart(b, s[i])
           Solves(f, m) == f[0] = <<>> /\ \A i \in 1..m : f[i] = Q(f[i - 1], i)
           J == {m \in 0..n : \E f : Solves(f, m)}
<1> HIDE DEF n, Q
<1>1. n \in Nat
  BY DEF n
<1>2. 0 \in J
  <2>1. Solves([i \in 0..0 |-> <<>>], 0)
    OBVIOUS
  <2> HIDE DEF Solves
  <2> QED
    BY <1>1, <2>1
<1>3. ASSUME NEW m \in 1..n, m - 1 \in J PROVE m \in J
  <2>1. PICK f : Solves(f, m - 1)
    <3> HIDE DEF Solves
    <3> QED
      BY <1>3
  <2> DEFINE g == [i \in 0..m |-> IF i < m THEN f[i] ELSE Q(f[m - 1], m)]
  <2>2. m \in Nat /\ m # 0
    BY <1>1
  <2>3. g[0] = <<>>
    BY <2>1, <2>2
  <2>4. \A i \in 1..m : g[i] = Q(g[i - 1], i)
    <3> TAKE i \in 1..m
    <3>1. i - 1 \in 0..m /\ i - 1 < m /\ i \in 0..m /\ i \in Nat
      BY <2>2
    <3>2. g[i - 1] = f[i - 1]
      BY <3>1
    <3>3. CASE i < m
      <4>1. g[i] = f[i] /\ i \in 1..m - 1
        BY <2>2, <3>1, <3>3
      <4> HIDE DEF g
      <4>2. f[i] = Q(f[i - 1], i)
        BY <2>1, <4>1
      <4> QED
        BY <3>2, <4>1, <4>2
    <3>4. CASE i = m
      BY <3>1, <3>2, <3>4
    <3> QED
      BY <2>2, <3>1, <3>3, <3>4
  <2>5. Solves(g, m)
    BY <2>3, <2>4
  <2> HIDE DEF Solves, g
  <2> QED
    BY <1>1, <2>5
<1>4. n \in J
  <2> HIDE DEF J
  <2>1. \A m \in 0..n : m \in J
    BY <1>1, <1>2, <1>3, Climb
  <2> QED
    BY <1>1, <2>1
<1>5. PICK f : Solves(f, n)
  <2> HIDE DEF Solves
  <2> QED
    BY <1>4
<1> DEFINE h == [i \in 0..n |-> f[i]]
<1>6. \A i \in 0..n : h[i] = IF i = 0 THEN <<>> ELSE Q(h[i - 1], i)
  <2> TAKE i \in 0..n
  <2>1. CASE i = 0
    BY <1>1, <1>5, <2>1
  <2>2. CASE i # 0
    <3>1. i \in 1..n /\ i - 1 \in 0..n
      BY <1>1, <2>2
    <3>2. f[i] = Q(f[i - 1], i)
      BY <1>5, <3>1
    <3>3. h[i] = f[i] /\ h[i - 1] = f[i - 1]
      BY <3>1
    <3> QED
      BY <2>2, <3>2, <3>3
  <2> QED
    BY <2>1, <2>2
<1>7. h = [i \in 0..n |-> IF i = 0 THEN <<>> ELSE Q(h[i - 1], i)]
  <2>1. h = [i \in 0..n |-> h[i]]
    OBVIOUS
  <2> HIDE DEF h
  <2> QED
    BY <1>6, <2>1
<1>8. Merges(h, s)
  <2> HIDE DEF h
  <2> QED
    BY <1>7 DEF Merges, n, Q
<1> QED
  BY <1>8

\* What parts amount to, by way of what each of them adds.
LEMMA MergedIs ==
    ASSUME NEW s, Len(s) \in Nat
    PROVE  \E f : Merges(f, s) /\ Merged(s) = f[Len(s)]
<1> DEFINE c == CHOOSE f : Merges(f, s)
<1>1. Merges(c, s)
  BY PartsAreMerged
<1>2. Merged(s) = c[Len(s)]
  BY DEF Merged, Merges
<1> HIDE DEF c
<1> QED
  BY <1>1, <1>2

\* Of parts, each is merged with what those before it amount to.
LEMMA MergedMore ==
    ASSUME NEW s, NEW t, Len(s) \in Nat, Len(t) = Len(s) + 1,
           \A i \in 1..Len(s) : t[i] = s[i]
    PROVE  Merged(t) = WithPart(Merged(s), t[Len(t)])
<1> DEFINE n == Len(s)
<1>1. PICK f : Merges(f, s) /\ Merged(s) = f[n]
  BY MergedIs
<1>2. PICK g : Merges(g, t) /\ Merged(t) = g[n + 1]
  BY MergedIs
<1>3. f[0] = <<>> /\ \A i \in 1..n : f[i] = WithPart(f[i - 1], s[i])
  BY <1>1 DEF Merges
<1>4. g[0] = <<>> /\ \A i \in 1..n + 1 : g[i] = WithPart(g[i - 1], t[i])
  BY <1>2 DEF Merges
<1> HIDE DEF n
<1>5. n \in Nat /\ Len(t) = n + 1 /\ \A i \in 1..n : t[i] = s[i]
  BY DEF n
<1> DEFINE J == {i \in 0..n : g[i] = f[i]}
<1>6. 0 \in J
  BY <1>3, <1>4, <1>5
<1>7. ASSUME NEW i \in 1..n, i - 1 \in J PROVE i \in J
  <2>1. i \in 1..n + 1 /\ i \in 0..n
    BY <1>5
  <2> QED
    BY <1>3, <1>4, <1>5, <1>7, <2>1
<1> HIDE DEF J
<1>8. n \in J
  <2>1. \A i \in 0..n : i \in J
    BY <1>5, <1>6, <1>7, Climb
  <2> QED
    BY <1>5, <2>1
<1>9. g[n] = f[n]
  BY <1>8 DEF J
<1>10. n + 1 \in 1..n + 1 /\ (n + 1) - 1 = n
  BY <1>5
<1> QED
  BY <1>1, <1>2, <1>4, <1>5, <1>9, <1>10

\* No parts amount to nothing.
LEMMA MergedNothing == Merged(<<>>) = <<>>
<1>1. Len(<<>>) = 0
  OBVIOUS
<1>2. PICK f : Merges(f, <<>>) /\ Merged(<<>>) = f[0]
  BY <1>1, MergedIs
<1> QED
  BY <1>1, <1>2 DEF Merges

\* The texts of parts, or of pieces.
TextsOf(h) == {i \in 1..Len(h) : h[i].kind = "text"}

\* b is a with d at the end of its text.
Lengthened(a, d, b) ==
    /\ Len(b) = Len(a)
    /\ \A k \in 1..Len(a) : b[k] = IF k \in TextsOf(a)
                                  THEN [kind |-> "text", data |-> a[k].data \o d]
                                  ELSE a[k]

\* A thought adds nothing, a call a piece, the first text too.
LEMMA WithPartIs ==
    ASSUME NEW b \in Seq(Pieces), NEW p \in SaidParts, p.kind \in PartKinds
    PROVE  /\ WithPart(b, p) \in Seq(Pieces)
           /\ p.kind = "thought" => WithPart(b, p) = b
           /\ p.kind = "call" => WithPart(b, p) = Append(b, [kind |-> "tool", data |-> p.data])
           /\ p.kind = "text" /\ TextsOf(b) = {} =>
                 WithPart(b, p) = Append(b, [kind |-> "text", data |-> p.data])
           /\ p.kind = "text" /\ TextsOf(b) # {} => Lengthened(b, p.data, WithPart(b, p))
<1>1. DOMAIN b = 1..Len(b) /\ Len(b) \in Nat
  BY LenProperties
<1>2. {i \in DOMAIN b : b[i].kind = "text"} = TextsOf(b)
  BY <1>1 DEF TextsOf
<1>3. p.data \in Seq(Nat)
  BY DEF SaidParts
<1>4. CASE p.kind = "thought"
  <2>1. WithPart(b, p) = b
    BY <1>4 DEF WithPart
  <2> QED
    BY <1>4, <2>1
<1>5. CASE p.kind = "call"
  <2>1. WithPart(b, p) = Append(b, [kind |-> "tool", data |-> p.data])
    BY <1>5 DEF WithPart
  <2>2. [kind |-> "tool", data |-> p.data] \in Pieces
    BY <1>3 DEF Pieces, Kinds
  <2>3. Append(b, [kind |-> "tool", data |-> p.data]) \in Seq(Pieces)
    BY <2>2, AppendProperties
  <2> QED
    BY <1>5, <2>1, <2>3
<1>6. CASE p.kind = "text" /\ TextsOf(b) = {}
  <2>1. WithPart(b, p) = Append(b, Bare(p))
    BY <1>2, <1>6 DEF WithPart
  <2>2. Bare(p) = [kind |-> "text", data |-> p.data]
    BY <1>6 DEF Bare
  <2>3. [kind |-> "text", data |-> p.data] \in Pieces
    BY <1>3 DEF Pieces, Kinds
  <2>4. Append(b, [kind |-> "text", data |-> p.data]) \in Seq(Pieces)
    BY <2>3, AppendProperties
  <2> QED
    BY <1>6, <2>1, <2>2, <2>4
<1>7. CASE p.kind = "text" /\ TextsOf(b) # {}
  <2> DEFINE T == TextsOf(b)
             x == [i \in 1..Len(b) |-> IF i \in T THEN [b[i] EXCEPT !.data = @ \o p.data] ELSE b[i]]
  <2>1. WithPart(b, p) = [i \in DOMAIN b |-> IF i \in T THEN [b[i] EXCEPT !.data = @ \o p.data] ELSE b[i]]
    BY <1>2, <1>7 DEF WithPart
  <2>2. WithPart(b, p) = x
    BY <1>1, <2>1
  <2>3. \A i \in T : b[i] \in Pieces /\ b[i].kind = "text" /\ b[i].data \in Seq(Nat)
    <3>1. \A i \in 1..Len(b) : b[i] \in Pieces
      BY ElementOfSeq
    <3> QED
      BY <3>1 DEF TextsOf, Pieces
  <2>4. \A i \in T : /\ [b[i] EXCEPT !.data = @ \o p.data] = [kind |-> "text", data |-> b[i].data \o p.data]
                     /\ [b[i] EXCEPT !.data = @ \o p.data] \in Pieces
    <3> SUFFICES ASSUME NEW i \in T
                 PROVE  /\ [b[i] EXCEPT !.data = @ \o p.data] = [kind |-> "text", data |-> b[i].data \o p.data]
                        /\ [b[i] EXCEPT !.data = @ \o p.data] \in Pieces
      OBVIOUS
    <3>1. PICK q : q = b[i]
      OBVIOUS
    <3>2. q \in Pieces /\ q.kind = "text" /\ q.data \in Seq(Nat)
      BY <2>3, <3>1
    <3>3. q.data \o p.data \in Seq(Nat)
      BY <1>3, <3>2, ConcatProperties
    <3>4. PICK d : d = q.data \o p.data
      OBVIOUS
    <3>5. d \in Seq(Nat)
      BY <3>3, <3>4
    <3>6. [q EXCEPT !.data = d] \in Pieces /\ [q EXCEPT !.data = d] = [kind |-> "text", data |-> d]
      <4> DEFINE S == Seq(Nat)
                 K == Kinds
      <4>1. q \in [kind : K, data : S] /\ d \in S /\ q.kind = "text"
        BY <3>2, <3>5 DEF Pieces
      <4> HIDE DEF S, K
      <4>2. /\ [q EXCEPT !.data = d] \in [kind : K, data : S]
            /\ [q EXCEPT !.data = d] = [kind |-> "text", data |-> d]
        BY <4>1
      <4> QED
        BY <4>2 DEF Pieces, S, K
    <3> QED
      BY <3>1, <3>4, <3>6
  <2> HIDE DEF T
  <2>5. x \in [1..Len(b) -> Pieces]
    <3>1. \A i \in 1..Len(b) : b[i] \in Pieces
      BY ElementOfSeq
    <3> QED
      BY <2>4, <3>1
  <2>6. x \in Seq(Pieces) /\ Len(x) = Len(b)
    <3> HIDE DEF x
    <3> QED
      BY <1>1, <2>5, SeqDef, LenProperties
  <2>7. \A i \in 1..Len(b) : x[i] = IF i \in T THEN [kind |-> "text", data |-> b[i].data \o p.data] ELSE b[i]
    BY <2>4
  <2> HIDE DEF x
  <2> QED
    BY <1>7, <2>2, <2>6, <2>7 DEF T, Lengthened
<1> QED
  BY <1>4, <1>5, <1>6, <1>7 DEF PartKinds

\* A part that says something.
Heard == {p \in SaidParts : p.kind \in PartKinds /\ p.data # <<>>}

\* The first n parts, and one more.
LEMMA FirstParts ==
    ASSUME NEW S, NEW s \in Seq(S), NEW n \in 0..Len(s)
    PROVE  /\ SubSeq(s, 1, n) \in Seq(S) /\ Len(SubSeq(s, 1, n)) = n
           /\ \A i \in 1..n : SubSeq(s, 1, n)[i] = s[i]
<1>1. Len(s) \in Nat /\ n \in Nat /\ n <= Len(s)
  BY LenProperties
<1>2. \A i \in 1..n : s[i] \in S
  BY <1>1, ElementOfSeq
<1>3. 1 \in Int /\ n \in Int /\ (IF 1 <= n THEN n - 1 + 1 ELSE 0) = n
  BY <1>1
<1> QED
  BY <1>1, <1>2, <1>3, SubSeqProperties

\* What parts amount to are pieces, a text among them if there was one.
LEMMA MergedPieces ==
    ASSUME NEW s \in Seq(Heard)
    PROVE  Merged(s) \in Seq(Pieces) /\ (TextsOf(Merged(s)) = {} <=> TextsOf(s) = {})
<1> DEFINE N == Len(s)
           part(n) == SubSeq(s, 1, n)
           Good(n) == /\ Merged(part(n)) \in Seq(Pieces)
                      /\ TextsOf(Merged(part(n))) = {} <=> \A i \in 1..n : s[i].kind # "text"
           J == {n \in 0..N : Good(n)}
<1>1. N \in Nat /\ \A i \in 1..N : s[i] \in Heard
  BY LenProperties, ElementOfSeq
<1>2. 0 \in J
  <2>1. part(0) = <<>>
    BY SubSeqEmpty
  <2>2. Merged(part(0)) = <<>> /\ <<>> \in Seq(Pieces) /\ TextsOf(<<>>) = {}
    <3>1. TextsOf(<<>>) = {}
      BY EmptySeq DEF TextsOf
    <3> QED
      BY <2>1, <3>1, MergedNothing, EmptySeq
  <2>3. Good(0)
    <3>1. \A i \in 1..0 : s[i].kind # "text"
      OBVIOUS
    <3> QED
      BY <2>2, <3>1
  <2> QED
    BY <1>1, <2>3
<1>3. ASSUME NEW n \in 1..N, n - 1 \in J PROVE n \in J
  <2> DEFINE a == part(n - 1)
             c == part(n)
             b == Merged(a)
             p == s[n]
  <2>1. /\ n \in Nat /\ n - 1 \in 0..N /\ n \in 0..N
        /\ Len(a) = n - 1 /\ Len(c) = n
        /\ \A i \in 1..n - 1 : a[i] = s[i]
        /\ \A i \in 1..n : c[i] = s[i]
    <3>1. n \in Nat /\ n - 1 \in 0..N /\ n \in 0..N
      BY <1>1
    <3> QED
      BY <1>1, <3>1, FirstParts
  <2>2. b \in Seq(Pieces) /\ (TextsOf(b) = {} <=> \A i \in 1..n - 1 : s[i].kind # "text")
    BY <1>3
  <2>3. p \in SaidParts /\ p.kind \in PartKinds
    BY <1>1 DEF Heard
  <2> HIDE DEF a, c
  <2>4. Merged(c) = WithPart(b, p)
    <3>1. \A i \in 1..Len(a) : c[i] = a[i]
      BY <2>1
    <3>2. Len(a) \in Nat /\ Len(c) = Len(a) + 1 /\ c[Len(c)] = p
      BY <2>1
    <3> QED
      BY <3>1, <3>2, MergedMore
  <2> HIDE DEF b, p
  <2>5. Merged(c) \in Seq(Pieces)
    BY <2>2, <2>3, <2>4, WithPartIs
  <2>6. TextsOf(Merged(c)) = {} <=> TextsOf(b) = {} /\ p.kind # "text"
    <3>0. Len(b) \in Nat /\ DOMAIN b = 1..Len(b)
      BY <2>2, LenProperties
    <3>1. CASE p.kind = "thought"
      BY <2>2, <2>3, <2>4, <3>1, WithPartIs
    <3>2. ASSUME NEW k, NEW x, x = [kind |-> k, data |-> p.data], x \in Pieces, Merged(c) = Append(b, x)
          PROVE  TextsOf(Merged(c)) = {} <=> TextsOf(b) = {} /\ k # "text"
      <4> DEFINE m == Append(b, x)
      <4>1. /\ Len(m) = Len(b) + 1 /\ m[Len(b) + 1] = x
            /\ \A i \in 1..Len(b) : m[i] = b[i]
        BY <2>2, <3>2, AppendProperties
      <4> HIDE DEF m
      <4>2. TextsOf(m) = {} <=> TextsOf(b) = {} /\ x.kind # "text"
        BY <3>0, <4>1 DEF TextsOf
      <4> QED
        BY <3>2, <4>2 DEF m
    <3>3. CASE p.kind = "call"
      <4>1. Merged(c) = Append(b, [kind |-> "tool", data |-> p.data])
        BY <2>2, <2>3, <2>4, <3>3, WithPartIs
      <4>2. [kind |-> "tool", data |-> p.data] \in Pieces
        BY <2>3 DEF Pieces, Kinds, SaidParts
      <4> QED
        BY <3>2, <3>3, <4>1, <4>2
    <3>4. CASE p.kind = "text" /\ TextsOf(b) = {}
      <4>1. Merged(c) = Append(b, [kind |-> "text", data |-> p.data])
        BY <2>2, <2>3, <2>4, <3>4, WithPartIs
      <4>2. [kind |-> "text", data |-> p.data] \in Pieces
        BY <2>3 DEF Pieces, Kinds, SaidParts
      <4> QED
        BY <3>2, <3>4, <4>1, <4>2
    <3>5. CASE p.kind = "text" /\ TextsOf(b) # {}
      <4>1. PICK i \in TextsOf(b) : TRUE
        BY <3>5
      <4>2. /\ Len(Merged(c)) = Len(b)
            /\ \A j \in 1..Len(b) : Merged(c)[j] = IF j \in TextsOf(b)
                                                   THEN [kind |-> "text", data |-> b[j].data \o p.data]
                                                   ELSE b[j]
        <5>1. Lengthened(b, p.data, WithPart(b, p))
          BY <2>2, <2>3, <3>5, WithPartIs
        <5> QED
          BY <2>4, <5>1 DEF Lengthened
      <4>3. i \in 1..Len(b)
        BY <4>1 DEF TextsOf
      <4>4. Merged(c)[i].kind = "text"
        <5>1. Merged(c)[i] = [kind |-> "text", data |-> b[i].data \o p.data]
          BY <4>1, <4>2, <4>3
        <5> QED
          BY <5>1
      <4>5. i \in TextsOf(Merged(c))
        BY <4>2, <4>3, <4>4 DEF TextsOf
      <4> QED
        BY <3>5, <4>5
    <3> QED
      BY <2>3, <3>1, <3>3, <3>4, <3>5 DEF PartKinds
  <2>7. Good(n)
    <3>1. (\A i \in 1..n : s[i].kind # "text") <=> (\A i \in 1..n - 1 : s[i].kind # "text") /\ p.kind # "text"
      BY <2>1 DEF p
    <3> QED
      BY <2>2, <2>5, <2>6, <3>1 DEF c
  <2> QED
    BY <2>1, <2>7
<1> HIDE DEF J
<1>4. N \in J
  <2>1. \A n \in 0..N : n \in J
    BY <1>1, <1>2, <1>3, Climb
  <2> QED
    BY <1>1, <2>1
<1>5. part(N) = s
  BY SubSeqFull
<1>6. Good(N)
  BY <1>4 DEF J
<1> QED
  BY <1>5, <1>6 DEF TextsOf

\* The only text of a message goes on.
LEMMA SpokenText ==
    ASSUME NEW omit, NEW v \in Views, NEW w \in Views, Len(w.blocks) = Len(v.blocks),
           NEW t \in 1..Len(v.blocks), v.blocks[t].kind = "text", "text" \notin omit,
           \A j \in 1..Len(v.blocks) : v.blocks[j].kind = "text" => j = t,
           NEW d \in Seq(Nat), w.blocks[t].kind = "text", w.blocks[t].data = v.blocks[t].data \o d,
           \A j \in 1..Len(v.blocks) : j # t => w.blocks[j] = v.blocks[j]
    PROVE  Lengthened(Spoken(omit, v), d, Spoken(omit, w))
<1> DEFINE T == ToldBlocks(omit, v)
           a == Spoken(omit, v)
           b == Spoken(omit, w)
           n == Cardinality(T)
<1>1. Len(v.blocks) \in Nat
  BY BlocksOfView
<1>2. ToldBlocks(omit, w) = T
  BY DEF ToldBlocks
<1>t. Tells(v, T, a) /\ Tells(w, T, b)
  BY <1>2, SpokenIs
<1>3. \A i \in T : i \in 1..Len(v.blocks)
  BY DEF ToldBlocks
<1> HIDE DEF T, a, b
<1>4. /\ Len(a) = n /\ Len(b) = n /\ n \in Nat
      /\ \A k \in 1..n : /\ Ascending(T)[k] \in T
                         /\ a[k] = Bare(v.blocks[Ascending(T)[k]])
                         /\ b[k] = Bare(w.blocks[Ascending(T)[k]])
  BY <1>t DEF Tells
<1>5. ASSUME NEW k \in 1..n
      PROVE  b[k] = IF k \in TextsOf(a) THEN [kind |-> "text", data |-> a[k].data \o d] ELSE a[k]
  <2> DEFINE j == Ascending(T)[k]
  <2>1. j \in T /\ a[k] = Bare(v.blocks[j]) /\ b[k] = Bare(w.blocks[j])
    BY <1>4
  <2>2. k \in TextsOf(a) <=> a[k].kind = "text"
    BY <1>4 DEF TextsOf
  <2> HIDE DEF j
  <2>3. j \in 1..Len(v.blocks)
    BY <1>3, <2>1
  <2>4. a[k].kind = v.blocks[j].kind /\ a[k].data = v.blocks[j].data
    BY <2>1 DEF Bare
  <2>5. CASE j = t
    <3>1. a[k].kind = "text" /\ a[k].data = v.blocks[t].data
      BY <2>4, <2>5
    <3>2. b[k] = [kind |-> "text", data |-> v.blocks[t].data \o d]
      BY <2>1, <2>5 DEF Bare
    <3> QED
      BY <2>2, <3>1, <3>2
  <2>6. CASE j # t
    <3>1. v.blocks[j].kind # "text" /\ w.blocks[j] = v.blocks[j]
      BY <2>3, <2>6
    <3>2. b[k] = a[k]
      BY <2>1, <3>1
    <3> QED
      BY <2>2, <2>4, <3>1, <3>2
  <2> QED
    BY <2>5, <2>6
<1> QED
  BY <1>4, <1>5 DEF a, b, Lengthened

-----------------------------------------------------------------------------
(* What a part of a Gemini chunk does to the client.                       *)

\* The blocks of Gemini that are not compared.
Aside == {"thinking"}

\* x is w with a block more, and that holds d.
Opened(w, k, d, x) ==
    /\ x \in Views /\ Len(x.blocks) = Len(w.blocks) + 1
    /\ \A j \in 1..Len(w.blocks) : x.blocks[j] = w.blocks[j]
    /\ x.blocks[Len(w.blocks) + 1].kind = k /\ x.blocks[Len(w.blocks) + 1].data = d

\* x is w with d at the end of block t.
Extended(w, t, d, x) ==
    /\ x \in Views /\ Len(x.blocks) = Len(w.blocks)
    /\ x.blocks[t].kind = w.blocks[t].kind /\ x.blocks[t].data = w.blocks[t].data \o d
    /\ \A j \in 1..Len(w.blocks) : j # t => x.blocks[j] = w.blocks[j]

\* A block that is opened and filled is one more at the end.
LEMMA OpenedIs ==
    ASSUME NEW w \in Views, NEW k \in Kinds, NEW d \in Seq(Nat)
    PROVE  Opened(w, k, d, WithData(WithBlock(w, k), Len(w.blocks), d))
<1> DEFINE u == WithBlock(w, k)
           n == Len(w.blocks)
           x == WithData(u, n, d)
<1>1. /\ u \in Views /\ Len(u.blocks) = n + 1 /\ u.blocks[n + 1] = NewBlock(k)
      /\ \A j \in 1..n : u.blocks[j] = w.blocks[j]
  BY WithBlockIs
<1>2. n \in Nat
  BY BlocksOfView
<1> HIDE DEF u, n
<1>3. u.blocks[n + 1].kind = k /\ u.blocks[n + 1].data = <<>> /\ u.blocks[n + 1].open
  BY <1>1 DEF NewBlock
<1>4. n \in OpenIn(u)
  BY <1>1, <1>2, <1>3 DEF OpenIn
<1>5. /\ x \in Views /\ Len(x.blocks) = Len(u.blocks)
      /\ x.blocks[n + 1].kind = u.blocks[n + 1].kind
      /\ x.blocks[n + 1].data = u.blocks[n + 1].data \o d
      /\ \A j \in 1..Len(u.blocks) : j # n + 1 => x.blocks[j] = u.blocks[j]
  BY <1>1, <1>4, WithDataIs
<1> HIDE DEF x
<1>6. <<>> \o d = d
  BY ConcatEmptySeq
<1>7. \A j \in 1..n : x.blocks[j] = w.blocks[j]
  BY <1>1, <1>2, <1>5
<1>8. x.blocks[n + 1].kind = k /\ x.blocks[n + 1].data = d
  BY <1>3, <1>5, <1>6
<1> QED
  BY <1>1, <1>5, <1>7, <1>8 DEF Opened, x, u, n

\* A block that is filled again holds more.
LEMMA ExtendedIs ==
    ASSUME NEW w \in Views, NEW i \in OpenIn(w), NEW d \in Seq(Nat)
    PROVE  Extended(w, i + 1, d, IF d = <<>> THEN w ELSE WithData(w, i, d))
<1>1. i \in Nat /\ w.blocks[i + 1] \in ViewBlocks
  BY BlocksOfView
<1>2. CASE d = <<>>
  <2>1. w.blocks[i + 1].data \in Seq(Nat)
    BY <1>1 DEF ViewBlocks
  <2>2. w.blocks[i + 1].data \o d = w.blocks[i + 1].data
    BY <1>2, <2>1, ConcatEmptySeq
  <2> QED
    BY <1>2, <2>2 DEF Extended
<1>3. CASE d # <<>>
  <2> DEFINE x == WithData(w, i, d)
  <2>1. /\ x \in Views /\ Len(x.blocks) = Len(w.blocks)
        /\ x.blocks[i + 1].kind = w.blocks[i + 1].kind
        /\ x.blocks[i + 1].data = w.blocks[i + 1].data \o d
        /\ \A j \in 1..Len(w.blocks) : j # i + 1 => x.blocks[j] = w.blocks[j]
    BY WithDataIs
  <2> HIDE DEF x
  <2>2. Extended(w, i + 1, d, x)
    BY <2>1 DEF Extended
  <2> QED
    BY <1>3, <2>2 DEF x
<1> QED
  BY <1>2, <1>3

\* A thinking block is not told.
LEMMA SpokenAside ==
    ASSUME NEW w \in Views, NEW x, ClosedBlock(w, "thinking", x)
    PROVE  x \in Views /\ Spoken(Aside, x) = Spoken(Aside, w)
<1>1. /\ x \in Views /\ Len(w.blocks) \in Nat /\ Len(x.blocks) = Len(w.blocks) + 1
      /\ \A j \in 1..Len(w.blocks) : x.blocks[j] = w.blocks[j]
      /\ x.blocks[Len(w.blocks) + 1].kind = "thinking"
  BY BlocksOfView DEF ClosedBlock
<1>2. ToldBlocks(Aside, x) = ToldBlocks(Aside, w)
  BY <1>1 DEF ToldBlocks, Aside
<1>3. \A i \in ToldBlocks(Aside, w) : x.blocks[i] = w.blocks[i]
  BY <1>1 DEF ToldBlocks
<1> QED
  BY <1>1, <1>2, <1>3, SpokenSame

\* Another block is told after the others.
LEMMA SpokenOpened ==
    ASSUME NEW w \in Views, NEW k \in {"text", "tool"}, NEW d, NEW x, Opened(w, k, d, x)
    PROVE  Spoken(Aside, x) = Append(Spoken(Aside, w), [kind |-> k, data |-> d])
<1>1. /\ x \in Views /\ Len(x.blocks) = Len(w.blocks) + 1
      /\ \A j \in 1..Len(w.blocks) : x.blocks[j] = w.blocks[j]
      /\ x.blocks[Len(w.blocks) + 1].kind = k /\ x.blocks[Len(w.blocks) + 1].data = d
  BY DEF Opened
<1>2. x.blocks[Len(w.blocks) + 1].kind \notin Aside
  BY <1>1 DEF Aside
<1>3. Bare(x.blocks[Len(w.blocks) + 1]) = [kind |-> k, data |-> d]
  BY <1>1 DEF Bare
<1> QED
  BY <1>1, <1>2, <1>3, SpokenMore

\* A call was seen only if there is one.
Calling(g) == g.sawFunctionCall => \E i \in Positions : g.toolStates[i].open

\* The step r takes the client from v to x, in the middle of the message.
Arrives(size, v, r, x) ==
    IsStep(r) /\ Emits(size, v, r.events, x) /\ Reads(r.conv, x) /\ Calling(r.conv)

\* A thought is told in a block of its own (gemini/stream.go:233-272).
LEMMA ThoughtArrives ==
    ASSUME NEW size \in Nat, NEW v, NEW s, NEW w, Arrives(size, v, s, w),
           NEW p, IsPart(size, p)
    PROVE  LET r == Thought(s, p)
           IN  /\ SameText(s.conv, r.conv) /\ SameTools(s.conv, r.conv)
               /\ \E x : Arrives(size, v, r, x) /\ ClosedBlock(w, "thinking", x)
<1> DEFINE r == Thought(s, p)
<1>1. /\ IsStep(r) /\ SameText(s.conv, r.conv) /\ SameTools(s.conv, r.conv)
      /\ \E x : /\ Emits(size, v, r.events, x) /\ Reads(r.conv, x)
                /\ ClosedBlock(w, "thinking", x)
  BY ThoughtReads DEF Arrives
<1> HIDE DEF r
<1>2. Calling(r.conv)
  BY <1>1 DEF Arrives, Calling, SameTools
<1> QED
  BY <1>1, <1>2 DEF Arrives, r

\* A text: in a block of its own, or more of the block there is.
TextHeard(g, p, w, e, x) ==
    /\ SameTools(g, e) /\ e.previousText = p.data /\ e.textBlockOpen
    /\ IF g.textBlockOpen
       THEN /\ e.textIndex = g.textIndex /\ g.textIndex \in OpenIn(w)
            /\ Extended(w, g.textIndex + 1, StreamDelta(p.data, g.previousText), x)
       ELSE /\ e.textIndex = Len(w.blocks)
            /\ g.previousText = <<>> => Opened(w, "text", p.data, x)

\* All of a text is new after nothing, and nothing of it after itself.
LEMMA DeltaOfAll ==
    ASSUME NEW d \in Seq(Nat)
    PROVE  StreamDelta(d, <<>>) = d /\ StreamDelta(d, d) = <<>>
<1>1. <<>> \in Seq(Nat) /\ Len(<<>>) = 0 /\ Len(d) \in Nat
  BY EmptySeq, LenProperties
<1>2. IsPrefix(<<>>, d) /\ IsPrefix(d, d)
  <2> DEFINE e == <<>>
  <2>1. e \in Seq(Nat) /\ Len(e) = 0
    BY <1>1
  <2> HIDE DEF e
  <2>2. Len(e) <= Len(d) /\ \A i \in 1..Len(e) : e[i] = d[i]
    BY <1>1, <2>1
  <2>3. IsPrefix(e, d)
    BY <2>1, <2>2, PrefixIs
  <2> QED
    BY <2>3, PrefixOfItself DEF e
<1>3. <<>> \o StreamDelta(d, <<>>) = StreamDelta(d, <<>>) /\ <<>> \o StreamDelta(d, <<>>) = d
  BY <1>1, <1>2, StreamDeltaIs, ConcatEmptySeq
<1>4. StreamDelta(d, d) = <<>>
  <2>1. StreamDelta(d, d) = SubSeq(d, Len(d) + 1, Len(d))
    BY <1>2 DEF StreamDelta
  <2> QED
    BY <1>1, <2>1, SubSeqEmpty
<1> QED
  BY <1>3, <1>4

\* What is new of a text goes to the one block of text.
LEMMA TextArrives ==
    ASSUME NEW size \in Nat, NEW v, NEW s, NEW w, Arrives(size, v, s, w),
           NEW p, IsPart(size, p), p.data # <<>>
    PROVE  LET r == TextPart(s, p)
           IN  \E x : Arrives(size, v, r, x) /\ TextHeard(s.conv, p, w, r.conv, x)
<1> DEFINE g == s.conv
           r == TextPart(s, p)
           u == TextView(g, w)
           i == TextAt(g, w)
           d == StreamDelta(p.data, g.previousText)
           x == IF d = <<>> THEN u ELSE WithData(u, i, d)
<1>1. /\ IsStep(r) /\ SameTools(g, r.conv)
      /\ r.conv.previousText = p.data
      /\ r.conv.textBlockOpen /\ r.conv.textIndex = i
      /\ Emits(size, v, r.events, x) /\ Reads(r.conv, x)
  BY TextPartReads DEF Arrives
<1>2. /\ g \in GeminiConverters /\ w \in Views /\ Len(w.blocks) \in Nat
      /\ g.textBlockOpen => g.textIndex \in OpenIn(w)
  BY OpenTracks DEF Arrives
<1>3. p.data \in Seq(Nat) /\ g.previousText \in Seq(Nat)
  BY <1>2 DEF IsPart, GeminiConverters
<1>4. d \in Seq(Nat)
  BY <1>3, StreamDeltaIs
<1> HIDE DEF r
<1>5. Calling(r.conv)
  BY <1>1 DEF Arrives, Calling, SameTools
<1>6. CASE g.textBlockOpen
  <2>1. u = w /\ i = g.textIndex
    BY <1>6 DEF TextView, TextAt
  <2>2. Extended(w, g.textIndex + 1, d, x)
    <3> DEFINE j == g.textIndex
    <3>1. j \in OpenIn(w)
      BY <1>2, <1>6
    <3> HIDE DEF j, d
    <3>2. Extended(w, j + 1, d, IF d = <<>> THEN w ELSE WithData(w, j, d))
      BY <1>2, <1>4, <3>1, ExtendedIs
    <3> QED
      BY <2>1, <3>2 DEF j
  <2>3. TextHeard(g, p, w, r.conv, x)
    <3> HIDE DEF x
    <3> QED
      BY <1>1, <1>2, <1>6, <2>1, <2>2 DEF TextHeard
  <2>4. Arrives(size, v, r, x)
    <3> HIDE DEF x
    <3> QED
      BY <1>1, <1>5 DEF Arrives
  <2> HIDE DEF x
  <2> QED
    BY <2>3, <2>4 DEF r
<1>7. CASE ~g.textBlockOpen
  <2>1. u = WithBlock(w, "text") /\ i = Len(w.blocks)
    BY <1>7 DEF TextView, TextAt
  <2>2. ASSUME g.previousText = <<>> PROVE Opened(w, "text", p.data, x)
    <3>1. d = p.data
      BY <1>3, <2>2, DeltaOfAll
    <3>2. x = WithData(WithBlock(w, "text"), Len(w.blocks), p.data)
      BY <2>1, <3>1
    <3>3. "text" \in Kinds
      BY DEF Kinds
    <3> HIDE DEF x
    <3> QED
      BY <1>2, <1>3, <3>2, <3>3, OpenedIs
  <2>3. TextHeard(g, p, w, r.conv, x)
    <3> HIDE DEF x
    <3> QED
      BY <1>1, <1>2, <1>7, <2>1, <2>2 DEF TextHeard
  <2>4. Arrives(size, v, r, x)
    <3> HIDE DEF x
    <3> QED
      BY <1>1, <1>5 DEF Arrives
  <2> HIDE DEF x
  <2> QED
    BY <2>3, <2>4 DEF r
<1> QED
  BY <1>6, <1>7

\* A call: in a block of its own, or one that is repeated; a thinking block that
\* carries its signature may come before.
CallHeard(g, i, p, w, e, x) ==
    /\ CallAt(g, i, e)
    /\ e.toolStates[i].open /\ e.toolStates[i].previousJSON = p.data
    /\ \E t \in Views :
          /\ t = w \/ ClosedBlock(w, "thinking", t)
          /\ IF g.toolStates[i].open
             THEN g.toolStates[i].previousJSON = p.data => x = t
             ELSE g.toolStates[i].previousJSON = <<>> => Opened(t, "tool", p.data, x)

\* What is new of a call goes to the block of its position.
LEMMA CallArrives ==
    ASSUME NEW size \in Nat, NEW v, NEW s, NEW w, Arrives(size, v, s, w),
           NEW i \in Positions, NEW p, IsPart(size, p), p.data # <<>>
    PROVE  LET r == CallPart(s, i, p)
           IN  \E x : Arrives(size, v, r, x) /\ CallHeard(s.conv, i, p, w, r.conv, x)
<1> DEFINE g == s.conv
           r == CallPart(s, i, p)
           d == StreamDelta(p.data, g.toolStates[i].previousJSON)
           Goes(t, x) == x = IF d = <<>> THEN ToolView(g, i, t)
                             ELSE WithData(ToolView(g, i, t), ToolAt(g, i, t), d)
<1>0. Emits(size, v, s.events, w) /\ Reads(s.conv, w) /\ IsStep(s)
  BY DEF Arrives
<1>1. /\ IsStep(r) /\ CallAt(g, i, r.conv)
      /\ r.conv.toolStates[i].previousJSON = p.data /\ r.conv.toolStates[i].open
      /\ \E t : /\ t = w \/ ClosedBlock(w, "thinking", t)
                /\ t \in Views
                /\ LET u == ToolView(g, i, t)
                       x == IF d = <<>> THEN u ELSE WithData(u, ToolAt(g, i, t), d)
                   IN  /\ Emits(size, v, r.events, x) /\ Reads(r.conv, x)
                       /\ u \in Views
                       /\ r.conv.toolStates[i].index = ToolAt(g, i, t)
                       /\ ToolAt(g, i, t) \in OpenIn(u)
  BY <1>0, CallPartReads
<1>2. p.data \in Seq(Nat)
  BY DEF IsPart
<1>3. PICK t, x : /\ t \in Views /\ (t = w \/ ClosedBlock(w, "thinking", t))
                  /\ Goes(t, x) /\ Emits(size, v, r.events, x) /\ Reads(r.conv, x)
  <2> HIDE DEF r, d
  <2>1. PICK t : /\ t = w \/ ClosedBlock(w, "thinking", t)
                 /\ t \in Views
                 /\ LET u == ToolView(g, i, t)
                        x == IF d = <<>> THEN u ELSE WithData(u, ToolAt(g, i, t), d)
                    IN  Emits(size, v, r.events, x) /\ Reads(r.conv, x)
    BY <1>1
  <2> DEFINE y == IF d = <<>> THEN ToolView(g, i, t) ELSE WithData(ToolView(g, i, t), ToolAt(g, i, t), d)
  <2>2. Emits(size, v, r.events, y) /\ Reads(r.conv, y) /\ Goes(t, y)
    BY <2>1
  <2> HIDE DEF Goes, y
  <2> QED
    BY <2>1, <2>2, Zenon
<1>4. Calling(r.conv)
  <2> HIDE DEF r
  <2> QED
    BY <1>1 DEF Calling
<1>5. Arrives(size, v, r, x)
  <2> HIDE DEF r, Goes
  <2> QED
    BY <1>1, <1>3, <1>4 DEF Arrives
<1>6. ASSUME g.toolStates[i].open, g.toolStates[i].previousJSON = p.data PROVE x = t
  <2>1. d = <<>>
    BY <1>2, <1>6, DeltaOfAll
  <2>2. ToolView(g, i, t) = t
    BY <1>6 DEF ToolView
  <2> QED
    BY <1>3, <2>1, <2>2
<1>7. ASSUME ~g.toolStates[i].open, g.toolStates[i].previousJSON = <<>>
      PROVE  Opened(t, "tool", p.data, x)
  <2>1. d = p.data
    BY <1>2, <1>7, DeltaOfAll
  <2>2. ToolView(g, i, t) = WithBlock(t, "tool") /\ ToolAt(g, i, t) = Len(t.blocks)
    BY <1>7 DEF ToolView, ToolAt
  <2>3. x = WithData(WithBlock(t, "tool"), Len(t.blocks), p.data)
    BY <1>3, <2>1, <2>2
  <2>4. "tool" \in Kinds
    BY DEF Kinds
  <2>5. t \in Views
    BY <1>3
  <2> QED
    BY <1>2, <2>3, <2>4, <2>5, OpenedIs
<1>8. CallHeard(g, i, p, w, r.conv, x)
  <2> HIDE DEF r, Goes
  <2> QED
    BY <1>1, <1>3, <1>6, <1>7 DEF CallHeard
<1> QED
  BY <1>5, <1>8

\* Whatever the part, the client follows.
LEMMA PartArrives ==
    ASSUME NEW size \in Nat, NEW v, NEW s, NEW w, Arrives(size, v, s, w),
           NEW i \in Positions, NEW p, IsPart(size, p), p.data # <<>>
    PROVE  \E x : Arrives(size, v, Part(s, i, p), x)
<1>1. CASE p.kind = "thought"
  <2>1. Part(s, i, p) = Thought(s, p)
    BY <1>1 DEF Part
  <2> QED
    BY <2>1, ThoughtArrives
<1>2. CASE p.kind = "text"
  <2>1. Part(s, i, p) = TextPart(s, p)
    BY <1>2 DEF Part, Data
  <2> QED
    BY <2>1, TextArrives
<1>3. CASE p.kind = "call"
  <2>1. Part(s, i, p) = CallPart(s, i, p)
    BY <1>3 DEF Part
  <2> QED
    BY <2>1, CallArrives
<1> QED
  BY <1>1, <1>2, <1>3 DEF IsPart, PartKinds

-----------------------------------------------------------------------------
(* What the client is told is what the parts amount to.                    *)

\* A sequence lengthened in its texts is determined.
LEMMA LengthenedSame ==
    ASSUME NEW a, NEW d, NEW b \in Seq(Pieces), NEW c \in Seq(Pieces),
           Lengthened(a, d, b), Lengthened(a, d, c)
    PROVE  b = c
<1>1. Len(b) = Len(a) /\ Len(c) = Len(a) /\ \A k \in 1..Len(a) : b[k] = c[k]
  BY DEF Lengthened
<1> QED
  BY <1>1, SeqEqual

\* The converter g and the client's w: w tells what the parts h amount to, its
\* one text is open, and g knows the last text and the calls.
Heeds(g, w, h) ==
    /\ h \in Seq(Heard) /\ Spoken(Aside, w) = Merged(h)
    /\ g.textBlockOpen <=> TextsOf(h) # {}
    /\ ~g.textBlockOpen => g.previousText = <<>>
    /\ \A j \in 1..Len(w.blocks) : w.blocks[j].kind = "text" => g.textBlockOpen /\ j = g.textIndex + 1
    /\ \A i \in TextsOf(h) : (\A k \in TextsOf(h) : k <= i) => g.previousText = h[i].data
    /\ \A i \in Positions : ~g.toolStates[i].open => g.toolStates[i].previousJSON = <<>>

\* h with one part more.
LEMMA OneMorePart ==
    ASSUME NEW h \in Seq(Heard), NEW p \in Heard
    PROVE  LET k == Append(h, p)
           IN  /\ k \in Seq(Heard) /\ Len(h) \in Nat /\ Len(k) = Len(h) + 1
               /\ k[Len(h) + 1] = p /\ \A i \in 1..Len(h) : k[i] = h[i]
               /\ Merged(k) = WithPart(Merged(h), p)
               /\ TextsOf(k) = IF p.kind = "text" THEN TextsOf(h) \cup {Len(h) + 1} ELSE TextsOf(h)
<1> DEFINE k == Append(h, p)
<1>1. /\ k \in Seq(Heard) /\ Len(h) \in Nat /\ Len(k) = Len(h) + 1
      /\ k[Len(h) + 1] = p /\ \A i \in 1..Len(h) : k[i] = h[i]
  BY AppendProperties, LenProperties
<1> HIDE DEF k
<1>2. Merged(k) = WithPart(Merged(h), p)
  BY <1>1, MergedMore
<1>3. TextsOf(k) = IF p.kind = "text" THEN TextsOf(h) \cup {Len(h) + 1} ELSE TextsOf(h)
  BY <1>1 DEF TextsOf
<1> QED
  BY <1>1, <1>2, <1>3 DEF k

\* A new text is told at the end of what was said.
LEMMA TextTold ==
    ASSUME NEW g, NEW w, Reads(g, w), NEW h, Heeds(g, w, h), NEW p \in Heard, p.kind = "text",
           g.textBlockOpen => StreamDelta(p.data, g.previousText) = p.data,
           NEW e, NEW x, TextHeard(g, p, w, e, x)
    PROVE  Spoken(Aside, x) = Merged(Append(h, p))
<1> DEFINE a == Merged(h)
           b == WithPart(a, p)
           t == g.textIndex + 1
<1>1. /\ h \in Seq(Heard) /\ Spoken(Aside, w) = a
      /\ g.textBlockOpen <=> TextsOf(h) # {}
      /\ ~g.textBlockOpen => g.previousText = <<>>
      /\ \A j \in 1..Len(w.blocks) : w.blocks[j].kind = "text" => g.textBlockOpen /\ j = t
  BY DEF Heeds
<1>2. /\ w \in Views /\ Len(w.blocks) \in Nat
      /\ g.textBlockOpen => t \in 1..Len(w.blocks) /\ w.blocks[t].kind = "text"
  <2>1. /\ w \in Views /\ Len(w.blocks) \in Nat
        /\ g.textBlockOpen => g.textIndex < Len(w.blocks) /\ g.textIndex \in Nat
    BY OpenTracks
  <2>2. g.textBlockOpen => w.blocks[t].kind = "text"
    BY DEF Reads, Tracks
  <2> QED
    BY <2>1, <2>2
<1>3. p \in SaidParts /\ p.kind \in PartKinds /\ p.data \in Seq(Nat)
  BY DEF Heard, SaidParts
<1>4. a \in Seq(Pieces) /\ (TextsOf(a) = {} <=> TextsOf(h) = {})
  BY <1>1, MergedPieces
<1>5. Merged(Append(h, p)) = b
  BY <1>1, OneMorePart
<1> HIDE DEF a, t
<1>6. /\ b \in Seq(Pieces)
      /\ TextsOf(a) = {} => b = Append(a, [kind |-> "text", data |-> p.data])
      /\ TextsOf(a) # {} => Lengthened(a, p.data, b)
  BY <1>3, <1>4, WithPartIs
<1> HIDE DEF b
<1>7. CASE g.textBlockOpen
  <2>1. Extended(w, t, p.data, x)
    BY <1>7 DEF TextHeard, t
  <2>2. Lengthened(a, p.data, Spoken(Aside, x))
    <3>1. /\ x \in Views /\ Len(x.blocks) = Len(w.blocks)
          /\ x.blocks[t].kind = "text" /\ x.blocks[t].data = w.blocks[t].data \o p.data
          /\ \A j \in 1..Len(w.blocks) : j # t => x.blocks[j] = w.blocks[j]
      BY <1>2, <1>7, <2>1 DEF Extended
    <3>2. "text" \notin Aside
      BY DEF Aside
    <3>3. \A j \in 1..Len(w.blocks) : w.blocks[j].kind = "text" => j = t
      BY <1>1
    <3>4. t \in 1..Len(w.blocks) /\ w.blocks[t].kind = "text"
      BY <1>2, <1>7
    <3>5. Lengthened(Spoken(Aside, w), p.data, Spoken(Aside, x))
      BY <1>2, <1>3, <3>1, <3>2, <3>3, <3>4, SpokenText
    <3> QED
      BY <1>1, <3>5
  <2>3. Spoken(Aside, x) \in Seq(Pieces)
    BY <2>1, SpokenIs DEF Extended, Tells
  <2>4. Lengthened(a, p.data, b)
    BY <1>1, <1>4, <1>6, <1>7
  <2>5. Spoken(Aside, x) = b
    <3> DEFINE y == Spoken(Aside, x)
               d == p.data
    <3>1. y \in Seq(Pieces) /\ b \in Seq(Pieces) /\ Lengthened(a, d, y) /\ Lengthened(a, d, b)
      BY <1>6, <2>2, <2>3, <2>4
    <3> HIDE DEF y, d
    <3>2. y = b
      BY <3>1, LengthenedSame
    <3> QED
      BY <3>2 DEF y
  <2> QED
    BY <1>5, <2>5
<1>8. CASE ~g.textBlockOpen
  <2>1. Opened(w, "text", p.data, x)
    BY <1>1, <1>8 DEF TextHeard
  <2>2. Spoken(Aside, x) = Append(a, [kind |-> "text", data |-> p.data])
    BY <1>1, <1>2, <2>1, SpokenOpened
  <2> QED
    BY <1>1, <1>4, <1>5, <1>6, <1>8, <2>2
<1> QED
  BY <1>7, <1>8

\* A new call is told at the end of what was said.
LEMMA CallTold ==
    ASSUME NEW g, NEW w, Reads(g, w), NEW h, Heeds(g, w, h), NEW p \in Heard, p.kind = "call",
           NEW t \in Views, t = w \/ ClosedBlock(w, "thinking", t),
           NEW x, Opened(t, "tool", p.data, x)
    PROVE  Spoken(Aside, x) = Merged(Append(h, p))
<1> DEFINE a == Merged(h)
           b == WithPart(a, p)
<1>1. h \in Seq(Heard) /\ Spoken(Aside, w) = a /\ w \in Views
  BY OpenTracks DEF Heeds
<1>2. a \in Seq(Pieces) /\ Merged(Append(h, p)) = b
  BY <1>1, MergedPieces, OneMorePart
<1> HIDE DEF a
<1>3. b = Append(a, [kind |-> "tool", data |-> p.data])
  BY <1>2, WithPartIs DEF Heard
<1>4. Spoken(Aside, t) = a
  BY <1>1, SpokenAside
<1>5. Spoken(Aside, x) = Append(Spoken(Aside, t), [kind |-> "tool", data |-> p.data])
  BY SpokenOpened
<1> QED
  BY <1>2, <1>3, <1>4, <1>5

\* Where the texts of x are, those of w, of which g knows.
LEMMA AsideTexts ==
    ASSUME NEW w \in Views, NEW x, x = w \/ ClosedBlock(w, "thinking", x),
           NEW j \in 1..Len(x.blocks), x.blocks[j].kind = "text"
    PROVE  j \in 1..Len(w.blocks) /\ w.blocks[j].kind = "text"
<1>1. CASE x = w
  BY <1>1
<1>2. CASE ClosedBlock(w, "thinking", x)
  <2>1. /\ Len(w.blocks) \in Nat /\ Len(x.blocks) = Len(w.blocks) + 1
        /\ \A k \in 1..Len(w.blocks) : x.blocks[k] = w.blocks[k]
        /\ x.blocks[Len(w.blocks) + 1].kind = "thinking"
    BY <1>2, BlocksOfView DEF ClosedBlock
  <2>2. j # Len(w.blocks) + 1
    BY <2>1
  <2>3. j \in 1..Len(w.blocks)
    BY <2>1, <2>2
  <2> QED
    BY <2>1, <2>3
<1> QED
  BY <1>1, <1>2

\* What a part does to what the converter knows of calls.
Recalls(g, i, p, e) ==
    /\ p.kind = "call" =>
          /\ e.toolStates[i].open /\ e.toolStates[i].previousJSON = p.data
          /\ \A j \in Positions : j # i => e.toolStates[j] = g.toolStates[j]
    /\ p.kind # "call" => e.toolStates = g.toolStates

\* The step r, of the part p at i, takes the client from w on, to what h amounts to.
Hears(size, v, w, g, i, p, r, h) ==
    \E x : Arrives(size, v, r, x) /\ Heeds(r.conv, x, h) /\ Recalls(g, i, p, r.conv)

\* A call that was not seen at its position.
LEMMA NewCall ==
    ASSUME NEW size \in Nat, NEW v, NEW s, NEW w, Arrives(size, v, s, w),
           NEW h, Heeds(s.conv, w, h), NEW i \in Positions,
           NEW p \in Heard, p.kind = "call", IsPart(size, p), ~s.conv.toolStates[i].open
    PROVE  Hears(size, v, w, s.conv, i, p, Part(s, i, p), Append(h, p))
<1> DEFINE r == CallPart(s, i, p)
           g == s.conv
           e == r.conv
           k == Append(h, p)
<1>1. Part(s, i, p) = r
  BY DEF Part
<1>2. p.data # <<>>
  BY DEF Heard
<1>3. PICK x : Arrives(size, v, r, x) /\ CallHeard(g, i, p, w, e, x)
  BY <1>2, CallArrives
<1> HIDE DEF r
<1>4. /\ h \in Seq(Heard)
      /\ g.textBlockOpen <=> TextsOf(h) # {}
      /\ ~g.textBlockOpen => g.previousText = <<>>
      /\ \A j \in 1..Len(w.blocks) : w.blocks[j].kind = "text" => g.textBlockOpen /\ j = g.textIndex + 1
      /\ \A j \in TextsOf(h) : (\A l \in TextsOf(h) : l <= j) => g.previousText = h[j].data
      /\ \A j \in Positions : ~g.toolStates[j].open => g.toolStates[j].previousJSON = <<>>
  BY DEF Heeds
<1>5. /\ k \in Seq(Heard) /\ TextsOf(k) = TextsOf(h)
      /\ \A j \in TextsOf(h) : k[j] = h[j]
  <2>1. \A j \in TextsOf(h) : j \in 1..Len(h)
    BY DEF TextsOf
  <2> QED
    BY <1>4, <2>1, OneMorePart
<1>6. w \in Views /\ Reads(g, w)
  BY OpenTracks DEF Arrives
<1>7. PICK t \in Views : /\ t = w \/ ClosedBlock(w, "thinking", t)
                         /\ Opened(t, "tool", p.data, x)
  BY <1>3, <1>4 DEF CallHeard
<1>8. Spoken(Aside, x) = Merged(k)
  BY <1>6, <1>7, CallTold
<1> HIDE DEF k
<1>9. /\ e.textBlockOpen = g.textBlockOpen /\ e.textIndex = g.textIndex
      /\ e.previousText = g.previousText
      /\ e.toolStates[i].open /\ e.toolStates[i].previousJSON = p.data
      /\ \A j \in Positions : j # i => e.toolStates[j] = g.toolStates[j]
  BY <1>3 DEF CallHeard, CallAt, SameText
<1>10. ASSUME NEW j \in 1..Len(x.blocks), x.blocks[j].kind = "text"
       PROVE  g.textBlockOpen /\ j = g.textIndex + 1
  <2>1. /\ Len(x.blocks) = Len(t.blocks) + 1 /\ x.blocks[Len(t.blocks) + 1].kind = "tool"
        /\ \A l \in 1..Len(t.blocks) : x.blocks[l] = t.blocks[l]
        /\ Len(t.blocks) \in Nat
    BY <1>7, BlocksOfView DEF Opened
  <2>2. j # Len(t.blocks) + 1
    BY <1>10, <2>1
  <2>3. j \in 1..Len(t.blocks) /\ t.blocks[j].kind = "text"
    BY <1>10, <2>1, <2>2
  <2>4. j \in 1..Len(w.blocks) /\ w.blocks[j].kind = "text"
    BY <1>6, <1>7, <2>3, AsideTexts
  <2> QED
    BY <1>4, <2>4
<1>11. \A j \in Positions : ~e.toolStates[j].open => e.toolStates[j].previousJSON = <<>>
  BY <1>4, <1>9
<1> HIDE DEF g, e
<1>12. Heeds(e, x, k)
  BY <1>4, <1>5, <1>8, <1>9, <1>10, <1>11 DEF Heeds
<1>13. Recalls(g, i, p, e)
  BY <1>9 DEF Recalls
<1> QED
  BY <1>1, <1>3, <1>12, <1>13 DEF Hears, g, e, k

\* A text that is no more of the last one, as far as the converter can tell.
LEMMA NewText ==
    ASSUME NEW size \in Nat, NEW v, NEW s, NEW w, Arrives(size, v, s, w),
           NEW h, Heeds(s.conv, w, h), NEW i \in Positions,
           NEW p \in Heard, p.kind = "text", IsPart(size, p),
           s.conv.textBlockOpen => StreamDelta(p.data, s.conv.previousText) = p.data
    PROVE  Hears(size, v, w, s.conv, i, p, Part(s, i, p), Append(h, p))
<1> DEFINE r == TextPart(s, p)
           g == s.conv
           e == r.conv
           k == Append(h, p)
<1>1. p.data # <<>>
  BY DEF Heard
<1>2. Part(s, i, p) = r
  BY <1>1 DEF Part, Data
<1>3. PICK x : Arrives(size, v, r, x) /\ TextHeard(g, p, w, e, x)
  BY <1>1, TextArrives
<1> HIDE DEF r
<1>4. w \in Views /\ Reads(g, w) /\ Len(w.blocks) \in Nat
  BY OpenTracks DEF Arrives
<1>5. Spoken(Aside, x) = Merged(k)
  BY <1>3, <1>4, TextTold
<1>6. /\ h \in Seq(Heard)
      /\ ~g.textBlockOpen => g.previousText = <<>>
      /\ \A j \in 1..Len(w.blocks) : w.blocks[j].kind = "text" => g.textBlockOpen /\ j = g.textIndex + 1
      /\ \A j \in Positions : ~g.toolStates[j].open => g.toolStates[j].previousJSON = <<>>
  BY DEF Heeds
<1>7. /\ k \in Seq(Heard) /\ TextsOf(k) = TextsOf(h) \cup {Len(h) + 1}
      /\ k[Len(h) + 1] = p /\ Len(h) \in Nat
  BY <1>6, OneMorePart
<1>8. /\ e.toolStates = g.toolStates /\ e.previousText = p.data /\ e.textBlockOpen
      /\ g.textBlockOpen => /\ e.textIndex = g.textIndex
                            /\ Len(x.blocks) = Len(w.blocks)
                            /\ \A j \in 1..Len(w.blocks) : x.blocks[j].kind = w.blocks[j].kind
      /\ ~g.textBlockOpen => /\ e.textIndex = Len(w.blocks)
                             /\ Len(x.blocks) = Len(w.blocks) + 1
                             /\ \A j \in 1..Len(w.blocks) : x.blocks[j].kind = w.blocks[j].kind
  BY <1>3, <1>6 DEF TextHeard, SameTools, Extended, Opened
<1> HIDE DEF k, g, e
<1>9. \A j \in 1..Len(x.blocks) : x.blocks[j].kind = "text" => e.textBlockOpen /\ j = e.textIndex + 1
  <2> SUFFICES ASSUME NEW j \in 1..Len(x.blocks), x.blocks[j].kind = "text"
               PROVE  j = e.textIndex + 1
    BY <1>8
  <2>1. CASE g.textBlockOpen
    <3>1. j \in 1..Len(w.blocks) /\ w.blocks[j].kind = "text"
      BY <1>8, <2>1
    <3> QED
      BY <1>6, <1>8, <2>1, <3>1
  <2>2. CASE ~g.textBlockOpen
    <3>1. j \notin 1..Len(w.blocks)
      BY <1>6, <1>8, <2>2
    <3> QED
      BY <1>4, <1>8, <2>2, <3>1
  <2> QED
    BY <2>1, <2>2
<1>10. \A j \in TextsOf(k) : (\A l \in TextsOf(k) : l <= j) => e.previousText = k[j].data
  <2> TAKE j \in TextsOf(k)
  <2> HAVE \A l \in TextsOf(k) : l <= j
  <2>1. Len(h) + 1 <= j
    BY <1>7
  <2>2. \A l \in TextsOf(h) : l \in 1..Len(h)
    BY DEF TextsOf
  <2>3. j = Len(h) + 1
    BY <1>7, <2>1, <2>2
  <2> QED
    BY <1>7, <1>8, <2>3
<1>11. Heeds(e, x, k)
  BY <1>5, <1>6, <1>7, <1>8, <1>9, <1>10 DEF Heeds
<1>12. Recalls(g, i, p, e)
  BY <1>8 DEF Recalls
<1> QED
  BY <1>2, <1>3, <1>11, <1>12 DEF Hears, g, e, k

\* What the converter knows is about what the client is told and not about its
\* thoughts; what else it depends on.
LEMMA StillHeeds ==
    ASSUME NEW g, NEW w \in Views, NEW h, Heeds(g, w, h), NEW e, SameText(g, e),
           NEW x \in Views, Spoken(Aside, x) = Spoken(Aside, w),
           \A j \in 1..Len(x.blocks) : x.blocks[j].kind = "text" =>
               j \in 1..Len(w.blocks) /\ w.blocks[j].kind = "text",
           \A j \in Positions : e.toolStates[j] = g.toolStates[j] \/ e.toolStates[j].open
    PROVE  Heeds(e, x, h)
<1>1. /\ h \in Seq(Heard) /\ Spoken(Aside, w) = Merged(h)
      /\ g.textBlockOpen <=> TextsOf(h) # {}
      /\ ~g.textBlockOpen => g.previousText = <<>>
      /\ \A j \in 1..Len(w.blocks) : w.blocks[j].kind = "text" => g.textBlockOpen /\ j = g.textIndex + 1
      /\ \A j \in TextsOf(h) : (\A l \in TextsOf(h) : l <= j) => g.previousText = h[j].data
      /\ \A j \in Positions : ~g.toolStates[j].open => g.toolStates[j].previousJSON = <<>>
  BY DEF Heeds
<1>2. /\ e.textBlockOpen = g.textBlockOpen /\ e.textIndex = g.textIndex
      /\ e.previousText = g.previousText
  BY DEF SameText
<1>3. \A j \in Positions : ~e.toolStates[j].open => e.toolStates[j].previousJSON = <<>>
  BY <1>1
<1> QED
  BY <1>1, <1>2, <1>3 DEF Heeds

\* A thought is not told, new or not.
LEMMA AnyThought ==
    ASSUME NEW size \in Nat, NEW v, NEW s, NEW w, Arrives(size, v, s, w),
           NEW h, Heeds(s.conv, w, h), NEW i \in Positions,
           NEW p \in Heard, p.kind = "thought", IsPart(size, p)
    PROVE  /\ Hears(size, v, w, s.conv, i, p, Part(s, i, p), h)
           /\ Hears(size, v, w, s.conv, i, p, Part(s, i, p), Append(h, p))
<1> DEFINE r == Thought(s, p)
           g == s.conv
           e == r.conv
           k == Append(h, p)
<1>1. Part(s, i, p) = r
  BY DEF Part
<1>2. SameText(g, e) /\ SameTools(g, e) /\ \E x : Arrives(size, v, r, x) /\ ClosedBlock(w, "thinking", x)
  BY ThoughtArrives
<1>3. PICK x : Arrives(size, v, r, x) /\ ClosedBlock(w, "thinking", x)
  BY <1>2
<1> HIDE DEF r
<1>4. w \in Views /\ x \in Views /\ Spoken(Aside, x) = Spoken(Aside, w)
  BY <1>3, OpenTracks, SpokenAside DEF Arrives
<1>5. \A j \in 1..Len(x.blocks) : x.blocks[j].kind = "text" =>
          j \in 1..Len(w.blocks) /\ w.blocks[j].kind = "text"
  BY <1>3, <1>4, AsideTexts
<1>6. \A j \in Positions : e.toolStates[j] = g.toolStates[j] \/ e.toolStates[j].open
  BY <1>2 DEF SameTools
<1>7. Heeds(e, x, h)
  <2> HIDE DEF e
  <2> QED
    BY <1>2, <1>4, <1>5, <1>6, StillHeeds
<1>8. Recalls(g, i, p, e)
  BY <1>2 DEF Recalls, SameTools
<1>9. Hears(size, v, w, g, i, p, r, h)
  BY <1>3, <1>7, <1>8 DEF Hears
<1>10. Heeds(e, x, k)
  <2>1. h \in Seq(Heard)
    BY DEF Heeds
  <2>2. /\ k \in Seq(Heard) /\ TextsOf(k) = TextsOf(h) /\ Merged(k) = WithPart(Merged(h), p)
        /\ \A j \in 1..Len(h) : k[j] = h[j]
    BY <2>1, OneMorePart
  <2>3. WithPart(Merged(h), p) = Merged(h)
    BY <2>1, MergedPieces, WithPartIs DEF Heard
  <2>4. \A j \in TextsOf(h) : k[j] = h[j]
    BY <2>2 DEF TextsOf
  <2> HIDE DEF e, k
  <2> QED
    BY <1>7, <2>2, <2>3, <2>4 DEF Heeds
<1>11. Hears(size, v, w, g, i, p, r, k)
  BY <1>3, <1>8, <1>10 DEF Hears
<1> QED
  BY <1>1, <1>9, <1>11

\* A text that is repeated.
LEMMA AgainText ==
    ASSUME NEW size \in Nat, NEW v, NEW s, NEW w, Arrives(size, v, s, w),
           NEW h, Heeds(s.conv, w, h), NEW i \in Positions,
           NEW p \in Heard, p.kind = "text", IsPart(size, p),
           s.conv.textBlockOpen, s.conv.previousText = p.data
    PROVE  Hears(size, v, w, s.conv, i, p, Part(s, i, p), h)
<1> DEFINE r == TextPart(s, p)
           g == s.conv
           e == r.conv
           t == g.textIndex + 1
<1>1. p.data # <<>> /\ p.data \in Seq(Nat)
  BY DEF Heard, SaidParts
<1>2. Part(s, i, p) = r
  BY <1>1 DEF Part, Data
<1>3. PICK x : Arrives(size, v, r, x) /\ TextHeard(g, p, w, e, x)
  BY <1>1, TextArrives
<1> HIDE DEF r
<1>4. w \in Views /\ Len(w.blocks) \in Nat /\ t \in 1..Len(w.blocks)
  <2>1. /\ w \in Views /\ Len(w.blocks) \in Nat
        /\ g.textIndex < Len(w.blocks) /\ g.textIndex \in Nat
    BY OpenTracks DEF Arrives
  <2> QED
    BY <2>1
<1>5. StreamDelta(p.data, g.previousText) = <<>>
  BY <1>1, DeltaOfAll
<1>6. /\ SameTools(g, e) /\ e.previousText = p.data /\ e.textBlockOpen /\ e.textIndex = g.textIndex
      /\ Extended(w, t, <<>>, x)
  BY <1>3, <1>5 DEF TextHeard
<1> HIDE DEF e, t
<1>7. /\ x \in Views /\ Len(x.blocks) = Len(w.blocks)
      /\ \A j \in 1..Len(w.blocks) : /\ x.blocks[j].kind = w.blocks[j].kind
                                     /\ x.blocks[j].data = w.blocks[j].data
  <2>1. w.blocks[t].data \o <<>> = w.blocks[t].data
    <3>1. w.blocks[t] \in ViewBlocks
      BY <1>4, BlocksOfView
    <3>2. w.blocks[t].data \in Seq(Nat)
      BY <3>1 DEF ViewBlocks
    <3> QED
      BY <3>2, ConcatEmptySeq
  <2> QED
    BY <1>4, <1>6, <2>1 DEF Extended
<1>8. Spoken(Aside, x) = Spoken(Aside, w)
  <2>1. ToldBlocks(Aside, x) = ToldBlocks(Aside, w)
    BY <1>7 DEF ToldBlocks
  <2>2. \A j \in ToldBlocks(Aside, w) : j \in 1..Len(w.blocks)
    BY DEF ToldBlocks
  <2> QED
    BY <1>4, <1>7, <2>1, <2>2, SpokenSame
<1>9. SameText(g, e) /\ \A j \in Positions : e.toolStates[j] = g.toolStates[j]
  BY <1>6 DEF SameText, SameTools
<1>10. Heeds(e, x, h)
  BY <1>4, <1>7, <1>8, <1>9, StillHeeds
<1>11. Recalls(g, i, p, e)
  BY <1>6 DEF Recalls, SameTools
<1> QED
  BY <1>2, <1>3, <1>10, <1>11 DEF Hears, e

\* A call that is repeated.
LEMMA AgainCall ==
    ASSUME NEW size \in Nat, NEW v, NEW s, NEW w, Arrives(size, v, s, w),
           NEW h, Heeds(s.conv, w, h), NEW i \in Positions,
           NEW p \in Heard, p.kind = "call", IsPart(size, p),
           s.conv.toolStates[i].open, s.conv.toolStates[i].previousJSON = p.data
    PROVE  Hears(size, v, w, s.conv, i, p, Part(s, i, p), h)
<1> DEFINE r == CallPart(s, i, p)
           g == s.conv
           e == r.conv
<1>1. Part(s, i, p) = r
  BY DEF Part
<1>2. p.data # <<>>
  BY DEF Heard
<1>3. PICK x : Arrives(size, v, r, x) /\ CallHeard(g, i, p, w, e, x)
  BY <1>2, CallArrives
<1> HIDE DEF r
<1>4. w \in Views
  BY OpenTracks DEF Arrives
<1>5. x \in Views /\ (x = w \/ ClosedBlock(w, "thinking", x))
  BY <1>3 DEF CallHeard
<1>6. Spoken(Aside, x) = Spoken(Aside, w)
  BY <1>4, <1>5, SpokenAside
<1>7. \A j \in 1..Len(x.blocks) : x.blocks[j].kind = "text" =>
          j \in 1..Len(w.blocks) /\ w.blocks[j].kind = "text"
  BY <1>4, <1>5, AsideTexts
<1>8. /\ SameText(g, e) /\ e.toolStates[i].open /\ e.toolStates[i].previousJSON = p.data
      /\ \A j \in Positions : j # i => e.toolStates[j] = g.toolStates[j]
  BY <1>3 DEF CallHeard, CallAt
<1> HIDE DEF e
<1>9. Heeds(e, x, h)
  BY <1>4, <1>5, <1>6, <1>7, <1>8, StillHeeds
<1>10. Recalls(g, i, p, e)
  BY <1>8 DEF Recalls
<1> QED
  BY <1>1, <1>3, <1>9, <1>10 DEF Hears, e

\* What a snapshot adds to the last one.
LEMMA DeltaOfMore ==
    ASSUME NEW a \in Seq(Nat), NEW d \in Seq(Nat)
    PROVE  StreamDelta(a \o d, a) = d
<1> DEFINE c == a \o d
           m == Len(a)
           n == Len(d)
<1>1. /\ c \in Seq(Nat) /\ Len(c) = m + n /\ m \in Nat /\ n \in Nat
      /\ \A i \in 1..m + n : c[i] = IF i <= m THEN a[i] ELSE d[i - m]
  BY ConcatProperties, LenProperties
<1> HIDE DEF c
<1>0. m = Len(a) /\ n = Len(d)
  OBVIOUS
<1> HIDE DEF m, n
<1>2. IsPrefix(a, c)
  <2>1. \A i \in 1..m : i \in 1..m + n /\ i <= m
    BY <1>1
  <2>2. Len(a) <= Len(c) /\ \A i \in 1..Len(a) : a[i] = c[i]
    BY <1>0, <1>1, <2>1
  <2> QED
    BY <1>1, <2>2, PrefixIs
<1>3. StreamDelta(c, a) = SubSeq(c, m + 1, m + n)
  BY <1>0, <1>1, <1>2 DEF StreamDelta
<1> DEFINE u == SubSeq(c, m + 1, m + n)
<1>4. /\ u \in Seq(Nat) /\ Len(u) = n /\ \A i \in 1..n : u[i] = c[m + i]
  <2>1. /\ u \in Seq(Nat)
        /\ Len(u) = IF m + 1 <= m + n THEN m + n - (m + 1) + 1 ELSE 0
        /\ \A i \in 1..m + n - (m + 1) + 1 : u[i] = c[m + 1 + i - 1]
    <3>1. m + 1 \in Int /\ m + n \in Int /\ \A i \in m + 1..m + n : c[i] \in Nat
      <4>1. \A i \in m + 1..m + n : i \in 1..m + n
        BY <1>1
      <4>2. \A i \in 1..m + n : c[i] \in Nat
        BY <1>1, ElementOfSeq
      <4> QED
        BY <1>1, <4>1, <4>2
    <3> QED
      BY <1>1, <3>1, SubSeqProperties
  <2> HIDE DEF u
  <2>2. \A i \in 1..n : i \in 1..m + n - (m + 1) + 1 /\ m + 1 + i - 1 = m + i
    BY <1>1
  <2>3. (IF m + 1 <= m + n THEN m + n - (m + 1) + 1 ELSE 0) = n
    BY <1>1
  <2> QED
    BY <2>1, <2>2, <2>3
<1> HIDE DEF u
<1>5. \A i \in 1..n : u[i] = d[i]
  <2> TAKE i \in 1..n
  <2>1. m + i \in 1..m + n /\ ~(m + i <= m) /\ m + i - m = i
    BY <1>1
  <2> QED
    BY <1>1, <1>4, <2>1
<1>6. u = d
  BY <1>0, <1>4, <1>5, SeqEqual
<1> QED
  BY <1>3, <1>6 DEF u, c

\* k is h, its last part, its one text, longer by d.
Longer(h, d, k) ==
    /\ h \in Seq(Heard) /\ k \in Seq(Heard) /\ Len(h) >= 1 /\ Len(k) = Len(h)
    /\ TextsOf(h) = {Len(h)} /\ k[Len(h)].kind = "text"
    /\ \A i \in 1..Len(h) - 1 : k[i] = h[i]
    /\ d \in Seq(Nat) /\ k[Len(h)].data = h[Len(h)].data \o d

\* What parts amount to when the last is longer.
LEMMA LongerMerged ==
    ASSUME NEW h, NEW d, NEW k, Longer(h, d, k), NEW b \in Seq(Pieces), Lengthened(Merged(h), d, b)
    PROVE  b = Merged(k)
<1> DEFINE n == Len(h)
           f == SubSeq(h, 1, n - 1)
           a == Merged(f)
           piece(q) == [kind |-> "text", data |-> q.data]
<1>1. /\ h \in Seq(Heard) /\ k \in Seq(Heard) /\ n >= 1 /\ Len(k) = n /\ n \in Nat
      /\ TextsOf(h) = {n} /\ k[n].kind = "text"
      /\ \A i \in 1..n - 1 : k[i] = h[i]
      /\ d \in Seq(Nat) /\ k[n].data = h[n].data \o d
  BY LenProperties DEF Longer
<1>2. f \in Seq(Heard) /\ Len(f) = n - 1 /\ \A i \in 1..n - 1 : f[i] = h[i]
  <2>1. n - 1 \in 0..n
    BY <1>1
  <2> QED
    BY <1>1, <2>1, FirstParts
<1>3. h[n] \in Heard /\ k[n] \in Heard /\ h[n].kind = "text" /\ n \in 1..n
  <2>1. n \in TextsOf(h) /\ n \in 1..n
    BY <1>1
  <2> QED
    BY <1>1, <2>1, ElementOfSeq DEF TextsOf
<1> HIDE DEF f
<1>4. TextsOf(f) = {}
  <2> SUFFICES ASSUME NEW i \in 1..n - 1, f[i].kind = "text" PROVE FALSE
    BY <1>2 DEF TextsOf
  <2>1. i \in 1..n /\ h[i].kind = "text" /\ i # n
    BY <1>1, <1>2
  <2>2. i \in TextsOf(h)
    BY <2>1 DEF TextsOf
  <2> QED
    BY <1>1, <2>1, <2>2
<1>5. a \in Seq(Pieces) /\ TextsOf(a) = {}
  BY <1>2, <1>4, MergedPieces
<1>6. Merged(h) = WithPart(a, h[n]) /\ Merged(k) = WithPart(a, k[n])
  <2>1. /\ Len(f) \in Nat /\ Len(h) = Len(f) + 1 /\ Len(k) = Len(f) + 1
        /\ \A i \in 1..Len(f) : h[i] = f[i] /\ k[i] = f[i]
    BY <1>1, <1>2
  <2>2. Merged(h) = WithPart(Merged(f), h[Len(h)])
    BY <2>1, MergedMore
  <2>3. Merged(k) = WithPart(Merged(f), k[Len(k)])
    BY <2>1, MergedMore
  <2> QED
    BY <1>1, <2>2, <2>3
<1> HIDE DEF a, n
<1>7. Merged(h) = Append(a, piece(h[n])) /\ Merged(k) = Append(a, piece(k[n]))
  <2>1. \A q \in Heard : q.kind = "text" => WithPart(a, q) = Append(a, piece(q))
    BY <1>5, WithPartIs DEF Heard
  <2> QED
    BY <1>1, <1>3, <1>6, <2>1
<1>8. /\ piece(h[n]) \in Pieces /\ piece(k[n]) \in Pieces
      /\ piece(k[n]) = [kind |-> "text", data |-> h[n].data \o d]
  BY <1>1, <1>3 DEF Heard, SaidParts, Pieces, Kinds
<1> DEFINE P == piece(h[n])
           Q == piece(k[n])
           A == Append(a, P)
           B == Append(a, Q)
           m == Len(a)
<1>9. P.kind = "text" /\ Q = [kind |-> "text", data |-> P.data \o d] /\ P \in Pieces /\ Q \in Pieces
  BY <1>8
<1>10. Merged(h) = A /\ Merged(k) = B
  BY <1>7
<1> HIDE DEF P, Q
<1>11. /\ m \in Nat /\ Len(A) = m + 1 /\ Len(B) = m + 1 /\ A[m + 1] = P /\ B[m + 1] = Q
       /\ B \in Seq(Pieces)
       /\ \A i \in 1..m : A[i] = a[i] /\ B[i] = a[i]
  BY <1>5, <1>9, AppendProperties, LenProperties
<1> HIDE DEF A, B
<1>12. TextsOf(A) = {m + 1}
  <2>1. \A i \in 1..m : a[i].kind # "text"
    BY <1>5 DEF TextsOf
  <2> HIDE DEF m
  <2>2. \A i \in 1..m + 1 : i = m + 1 \/ i \in 1..m
    BY <1>11
  <2>3. m + 1 \in 1..m + 1 /\ A[m + 1].kind = "text"
    BY <1>9, <1>11
  <2>4. \A i \in 1..m : A[i].kind # "text"
    BY <1>11, <2>1
  <2>5. TextsOf(A) = {i \in 1..m + 1 : A[i].kind = "text"}
    BY <1>11 DEF TextsOf
  <2> QED
    BY <2>2, <2>3, <2>4, <2>5
<1>13. /\ Len(b) = m + 1
       /\ \A i \in 1..m + 1 : b[i] = IF i = m + 1 THEN [kind |-> "text", data |-> A[i].data \o d] ELSE A[i]
  BY <1>10, <1>11, <1>12 DEF Lengthened
<1> HIDE DEF m
<1>14. \A i \in 1..m + 1 : b[i] = B[i]
  <2> TAKE i \in 1..m + 1
  <2>1. CASE i = m + 1
    BY <1>9, <1>11, <1>13, <2>1
  <2>2. CASE i # m + 1
    <3>1. i \in 1..m
      BY <1>11, <2>2
    <3> QED
      BY <1>11, <1>13, <2>2, <3>1
  <2> QED
    BY <2>1, <2>2
<1>15. b = B
  BY <1>11, <1>13, <1>14, SeqEqual
<1> QED
  BY <1>10, <1>15

\* More of the one text.
LEMMA MoreText ==
    ASSUME NEW size \in Nat, NEW v, NEW s, NEW w, Arrives(size, v, s, w),
           NEW h, Heeds(s.conv, w, h), NEW i \in Positions,
           NEW p \in Heard, p.kind = "text", IsPart(size, p),
           NEW d, NEW k, Longer(h, d, k), k[Len(h)].data = p.data
    PROVE  Hears(size, v, w, s.conv, i, p, Part(s, i, p), k)
<1> DEFINE r == TextPart(s, p)
           g == s.conv
           e == r.conv
           t == g.textIndex + 1
           n == Len(h)
<1>1. p.data # <<>> /\ p.data \in Seq(Nat)
  BY DEF Heard, SaidParts
<1>2. Part(s, i, p) = r
  BY <1>1 DEF Part, Data
<1>3. PICK x : Arrives(size, v, r, x) /\ TextHeard(g, p, w, e, x)
  BY <1>1, TextArrives
<1> HIDE DEF r
<1>4. /\ h \in Seq(Heard) /\ Spoken(Aside, w) = Merged(h)
      /\ g.textBlockOpen <=> TextsOf(h) # {}
      /\ \A j \in 1..Len(w.blocks) : w.blocks[j].kind = "text" => g.textBlockOpen /\ j = t
      /\ \A j \in TextsOf(h) : (\A l \in TextsOf(h) : l <= j) => g.previousText = h[j].data
      /\ \A j \in Positions : ~g.toolStates[j].open => g.toolStates[j].previousJSON = <<>>
  BY DEF Heeds
<1>5. /\ k \in Seq(Heard) /\ n >= 1 /\ Len(k) = n /\ n \in Nat
      /\ TextsOf(h) = {n} /\ k[n].kind = "text"
      /\ \A j \in 1..n - 1 : k[j] = h[j]
      /\ d \in Seq(Nat) /\ p.data = h[n].data \o d
  BY <1>4, LenProperties DEF Longer
<1>6. g.textBlockOpen /\ g.previousText = h[n].data /\ h[n].data \in Seq(Nat)
  <2>1. g.textBlockOpen /\ g.previousText = h[n].data
    BY <1>4, <1>5
  <2>2. h[n] \in Heard
    BY <1>4, <1>5, ElementOfSeq
  <2> QED
    BY <2>1, <2>2 DEF Heard, SaidParts
<1>7. StreamDelta(p.data, g.previousText) = d
  <2> DEFINE a == h[n].data
  <2>1. a \in Seq(Nat) /\ p.data = a \o d /\ g.previousText = a
    BY <1>5, <1>6
  <2> HIDE DEF a
  <2> QED
    BY <1>5, <2>1, DeltaOfMore
<1>8. /\ w \in Views /\ Len(w.blocks) \in Nat /\ t \in 1..Len(w.blocks)
      /\ w.blocks[t].kind = "text"
  <2>1. Reads(g, w)
    BY DEF Arrives
  <2>2. /\ w \in Views /\ Len(w.blocks) \in Nat
        /\ g.textIndex < Len(w.blocks) /\ g.textIndex \in Nat
    BY <1>6, <2>1, OpenTracks
  <2>3. w.blocks[t].kind = "text"
    BY <1>6, <2>1 DEF Reads, Tracks
  <2> QED
    BY <2>2, <2>3
<1>9. /\ SameTools(g, e) /\ e.previousText = p.data /\ e.textBlockOpen /\ e.textIndex = g.textIndex
      /\ Extended(w, t, d, x)
  BY <1>3, <1>6, <1>7 DEF TextHeard
<1> HIDE DEF g, e, t, n
<1>10. /\ x \in Views /\ Len(x.blocks) = Len(w.blocks)
       /\ x.blocks[t].kind = "text" /\ x.blocks[t].data = w.blocks[t].data \o d
       /\ \A j \in 1..Len(w.blocks) : j # t => x.blocks[j] = w.blocks[j]
  BY <1>8, <1>9 DEF Extended
<1>11. Lengthened(Spoken(Aside, w), d, Spoken(Aside, x))
  <2>1. "text" \notin Aside
    BY DEF Aside
  <2>2. \A j \in 1..Len(w.blocks) : w.blocks[j].kind = "text" => j = t
    BY <1>4
  <2> QED
    BY <1>5, <1>8, <1>10, <2>1, <2>2, SpokenText
<1>12. Spoken(Aside, x) = Merged(k)
  <2> DEFINE b == Spoken(Aside, x)
  <2>1. b \in Seq(Pieces)
    BY <1>10, SpokenIs DEF Tells
  <2>2. Lengthened(Merged(h), d, b)
    BY <1>4, <1>11
  <2> HIDE DEF b
  <2>3. b = Merged(k)
    BY <2>1, <2>2, LongerMerged
  <2> QED
    BY <2>3 DEF b
<1>13. TextsOf(k) = {n} /\ k[n].data = p.data
  <2>1. TextsOf(h) = {j \in 1..n : h[j].kind = "text"} /\ TextsOf(k) = {j \in 1..n : k[j].kind = "text"}
    BY <1>5 DEF TextsOf, n
  <2>2. \A j \in 1..n : j # n => j \in 1..n - 1
    BY <1>5
  <2> QED
    BY <1>5, <2>1, <2>2 DEF n
<1>14. \A j \in 1..Len(x.blocks) : x.blocks[j].kind = "text" => e.textBlockOpen /\ j = e.textIndex + 1
  BY <1>4, <1>9, <1>10 DEF t
<1>15. Heeds(e, x, k)
  BY <1>4, <1>5, <1>9, <1>12, <1>13, <1>14 DEF Heeds, SameTools
<1>16. Recalls(g, i, p, e)
  BY <1>9 DEF Recalls, SameTools
<1> QED
  BY <1>2, <1>3, <1>15, <1>16 DEF Hears, e, g

-----------------------------------------------------------------------------
(* A chunk of Gemini, part by part.                                        *)

\* The loop over the parts, step by step.
LEMMA ReadsPartsIs ==
    ASSUME NEW begun, NEW parts, Len(parts) \in Nat, NEW f, ReadsParts(f, begun, parts)
    PROVE  f[0] = begun /\ \A i \in 1..Len(parts) : f[i] = Part(f[i - 1], i, parts[i])
<1> DEFINE n == Len(parts)
<1>1. n \in Nat
  OBVIOUS
<1>2. f = [i \in 0..n |-> IF i = 0 THEN begun ELSE Part(f[i - 1], i, parts[i])]
  BY DEF ReadsParts
<1> HIDE DEF n
<1>3. f[0] = begun
  BY <1>1, <1>2
<1>4. \A i \in 1..n : f[i] = Part(f[i - 1], i, parts[i])
  <2> TAKE i \in 1..n
  <2>1. i \in 0..n /\ i # 0
    BY <1>1
  <2> DEFINE P(j) == Part(f[j - 1], j, parts[j])
  <2> HIDE DEF P
  <2>2. f = [j \in 0..n |-> IF j = 0 THEN begun ELSE P(j)]
    BY <1>2 DEF P
  <2>3. f[i] = P(i)
    BY <2>1, <2>2
  <2> QED
    BY <2>3 DEF P
<1> QED
  BY <1>3, <1>4 DEF n

\* The parts of a chunk that can be read.
Readable(size, parts) ==
    /\ parts \in Seq(Heard)
    /\ \A i \in 1..Len(parts) : i \in Positions /\ IsPart(size, parts[i])

\* Whatever the parts, the client follows.
LEMMA PartsArrive ==
    ASSUME NEW size \in Nat, NEW v, NEW begun, NEW w, Arrives(size, v, begun, w),
           NEW parts, Readable(size, parts), NEW f, ReadsParts(f, begun, parts)
    PROVE  \E x : Arrives(size, v, f[Len(parts)], x)
<1> DEFINE N == Len(parts)
           J == {n \in 0..N : \E x : Arrives(size, v, f[n], x)}
<1>1. /\ N \in Nat
      /\ \A i \in 1..N : i \in Positions /\ IsPart(size, parts[i]) /\ parts[i].data # <<>>
  <2>1. parts \in Seq(Heard)
    BY DEF Readable
  <2>2. N \in Nat /\ \A i \in 1..N : parts[i] \in Heard
    BY <2>1, LenProperties, ElementOfSeq
  <2> QED
    BY <2>2 DEF Readable, Heard
<1>2. f[0] = begun /\ \A i \in 1..N : f[i] = Part(f[i - 1], i, parts[i])
  BY <1>1, ReadsPartsIs
<1> HIDE DEF N
<1>3. 0 \in J
  BY <1>1, <1>2
<1>4. ASSUME NEW n \in 1..N, n - 1 \in J PROVE n \in J
  <2>1. PICK x : Arrives(size, v, f[n - 1], x)
    BY <1>4
  <2> DEFINE s == f[n - 1]
             p == parts[n]
  <2>2. n \in Positions /\ IsPart(size, p) /\ p.data # <<>> /\ Arrives(size, v, s, x) /\ f[n] = Part(s, n, p)
    BY <1>1, <1>2, <2>1
  <2> HIDE DEF s, p
  <2>3. \E y : Arrives(size, v, Part(s, n, p), y)
    BY <2>2, PartArrives
  <2>4. n \in 0..N
    BY <1>1
  <2> QED
    BY <2>2, <2>3, <2>4
<1> HIDE DEF J
<1>5. N \in J
  <2>1. \A n \in 0..N : n \in J
    BY <1>1, <1>3, <1>4, Climb
  <2> QED
    BY <1>1, <2>1
<1> QED
  BY <1>5 DEF J, N

\* The last of the texts.
LEMMA LastText ==
    ASSUME NEW h, Len(h) \in Nat, TextsOf(h) # {}
    PROVE  \E i \in TextsOf(h) : \A k \in TextsOf(h) : k <= i
<1> DEFINE n == Len(h)
           T == TextsOf(h)
           R == {n - i : i \in T}
<1>1. n \in Nat /\ \A i \in T : i \in 1..n
  BY DEF TextsOf
<1> HIDE DEF T, n
<1>2. R \in SUBSET Nat
  BY <1>1
<1>3. R # {}
  BY DEF T
<1> HIDE DEF R
<1>4. PICK r \in R : \A q \in R : r <= q
  BY <1>2, <1>3, Least
<1>5. PICK i \in T : r = n - i
  BY DEF R
<1>6. \A k \in T : k <= i
  <2> TAKE k \in T
  <2>1. n - k \in R
    BY DEF R
  <2> QED
    BY <1>1, <1>4, <1>5, <2>1
<1> QED
  BY <1>6 DEF T

\* An open call is one that was heard of.
Adds(g, called) == \A i \in Positions : g.toolStates[i].open => i \in called

\* No text starts with the one before it.
Distinct(t) ==
    \A i, j \in TextsOf(t) :
        i < j /\ (\A k \in TextsOf(t) : k <= i \/ j <= k) => ~IsPrefix(t[i].data, t[j].data)

\* One part of an increment.
LEMMA PartAdds ==
    ASSUME NEW size \in Nat, NEW v, NEW s, NEW w, Arrives(size, v, s, w),
           NEW t \in Seq(Heard), NEW n \in 0..Len(t) - 1, Heeds(s.conv, w, SubSeq(t, 1, n)),
           Distinct(t), NEW i \in Positions, IsPart(size, t[n + 1]),
           t[n + 1].kind = "call" => ~s.conv.toolStates[i].open
    PROVE  Hears(size, v, w, s.conv, i, t[n + 1], Part(s, i, t[n + 1]), SubSeq(t, 1, n + 1))
<1> DEFINE h == SubSeq(t, 1, n)
           k == SubSeq(t, 1, n + 1)
           p == t[n + 1]
           g == s.conv
<1>1. Len(t) \in Nat /\ n \in Nat /\ n + 1 \in 1..Len(t) /\ n \in 0..Len(t) /\ n + 1 \in 0..Len(t)
  BY LenProperties
<1>2. p \in Heard
  BY <1>1, ElementOfSeq
<1>3. /\ h \in Seq(Heard) /\ Len(h) = n /\ \A j \in 1..n : h[j] = t[j]
      /\ k \in Seq(Heard) /\ Len(k) = n + 1 /\ \A j \in 1..n + 1 : k[j] = t[j]
  BY <1>1, FirstParts
<1> HIDE DEF h, k
<1>4. k = Append(h, p)
  <2>1. /\ Append(h, p) \in Seq(Heard) /\ Len(Append(h, p)) = n + 1
        /\ Append(h, p)[n + 1] = p /\ \A j \in 1..n : Append(h, p)[j] = t[j]
    BY <1>2, <1>3, OneMorePart
  <2> DEFINE c == Append(h, p)
  <2> HIDE DEF c
  <2>2. \A j \in 1..n + 1 : k[j] = c[j]
    <3> TAKE j \in 1..n + 1
    <3>1. j = n + 1 \/ j \in 1..n
      BY <1>1
    <3> QED
      BY <1>3, <2>1, <3>1 DEF c
  <2>3. k = c
    BY <1>3, <2>1, <2>2, SeqEqual DEF c
  <2> QED
    BY <2>3 DEF c
<1>5. Heeds(g, w, h) /\ IsPart(size, p) /\ (p.kind = "call" => ~g.toolStates[i].open)
  BY DEF h
<1>6. ASSUME p.kind = "text", g.textBlockOpen PROVE StreamDelta(p.data, g.previousText) = p.data
  <2>1. TextsOf(h) # {}
    BY <1>5, <1>6 DEF Heeds
  <2>2. PICK j \in TextsOf(h) : \A l \in TextsOf(h) : l <= j
    BY <1>1, <1>3, <2>1, LastText
  <2>3. g.previousText = h[j].data
    BY <1>5, <2>2 DEF Heeds
  <2>4. j \in 1..n /\ h[j] = t[j] /\ t[j].kind = "text"
    BY <1>3, <2>2 DEF TextsOf
  <2>5. \A l \in 1..n : l \in TextsOf(t) => l \in TextsOf(h)
    BY <1>3 DEF TextsOf
  <2>6. j \in TextsOf(t) /\ n + 1 \in TextsOf(t)
    BY <1>1, <1>6, <2>4 DEF TextsOf
  <2>7. \A l \in TextsOf(t) : l <= j \/ n + 1 <= l
    <3> TAKE l \in TextsOf(t)
    <3>1. l \in 1..Len(t)
      BY DEF TextsOf
    <3>2. CASE l \in 1..n
      BY <2>2, <2>5, <3>2
    <3>3. CASE l \notin 1..n
      BY <1>1, <3>1, <3>3
    <3> QED
      BY <3>2, <3>3
  <2>8. ~IsPrefix(t[j].data, p.data)
    <3>1. j < n + 1
      BY <1>1, <2>4
    <3> QED
      BY <2>6, <2>7, <3>1 DEF Distinct
  <2>9. t[j].data \in Seq(Nat) /\ p.data \in Seq(Nat)
    <3>1. t[j] \in Heard
      <4>1. j \in 1..Len(t)
        BY <1>1, <2>4
      <4> QED
        BY <4>1, ElementOfSeq
    <3> QED
      BY <1>2, <3>1 DEF Heard, SaidParts
  <2> HIDE DEF p, g
  <2> QED
    BY <2>3, <2>4, <2>8, <2>9, StreamDeltaIs
<1> DEFINE r == Hears(size, v, w, g, i, p, Part(s, i, p), k)
<1> HIDE DEF p
<1>7. ASSUME p.kind = "thought" PROVE r
  <2>1. Hears(size, v, w, g, i, p, Part(s, i, p), Append(h, p))
    BY <1>2, <1>5, <1>7, AnyThought
  <2> QED
    BY <1>4, <2>1
<1>8. ASSUME p.kind = "text" PROVE r
  <2>1. Hears(size, v, w, g, i, p, Part(s, i, p), Append(h, p))
    BY <1>2, <1>5, <1>6, <1>8, NewText
  <2> QED
    BY <1>4, <2>1
<1>9. ASSUME p.kind = "call" PROVE r
  <2>1. Hears(size, v, w, g, i, p, Part(s, i, p), Append(h, p))
    BY <1>2, <1>5, <1>9, NewCall
  <2> QED
    BY <1>4, <2>1
<1>10. p.kind \in PartKinds
  BY <1>2 DEF Heard
<1>11. r
  BY <1>7, <1>8, <1>9, <1>10 DEF PartKinds
<1> QED
  BY <1>11 DEF p, k

\* Where a call may be open after the first n parts of a chunk.
Called(called, parts, n) == {i \in Positions : i \in called \/ (i <= n /\ i \in Calls(parts))}

\* An increment that repeats neither the text before it nor the position of a call.
LEMMA IncrementHeard ==
    ASSUME NEW size \in Nat, NEW v, NEW begun, NEW w, Arrives(size, v, begun, w),
           NEW parts, Readable(size, parts), NEW f, ReadsParts(f, begun, parts),
           NEW s, Heeds(begun.conv, w, s), NEW called, Adds(begun.conv, called),
           called \cap Calls(parts) = {}, Distinct(s \o parts)
    PROVE  \E x : /\ Arrives(size, v, f[Len(parts)], x)
                  /\ Heeds(f[Len(parts)].conv, x, s \o parts)
                  /\ Adds(f[Len(parts)].conv, called \cup Calls(parts))
<1> DEFINE N == Len(parts)
           m == Len(s)
           t == s \o parts
           h(n) == SubSeq(t, 1, m + n)
           Good(n) == \E x : /\ Arrives(size, v, f[n], x) /\ Heeds(f[n].conv, x, h(n))
                             /\ Adds(f[n].conv, Called(called, parts, n))
           J == {n \in 0..N : Good(n)}
<1>1. /\ parts \in Seq(Heard) /\ s \in Seq(Heard) /\ N \in Nat /\ m \in Nat
      /\ \A i \in 1..N : i \in Positions /\ IsPart(size, parts[i])
  BY LenProperties DEF Readable, Heeds
<1>2. /\ t \in Seq(Heard) /\ Len(t) = m + N
      /\ \A i \in 1..m + N : t[i] = IF i <= m THEN s[i] ELSE parts[i - m]
  BY <1>1, ConcatProperties
<1>3. f[0] = begun /\ \A i \in 1..N : f[i] = Part(f[i - 1], i, parts[i])
  BY <1>1, ReadsPartsIs
<1>4. Distinct(t) /\ DOMAIN parts = 1..N
  BY <1>1, LenProperties
<1>5. /\ SubSeq(t, 1, m) = s /\ SubSeq(t, 1, m + N) = t
  <2> HIDE DEF t, m
  <2>1. m \in 0..Len(t)
    BY <1>1, <1>2
  <2>2. /\ SubSeq(t, 1, m) \in Seq(Heard) /\ Len(SubSeq(t, 1, m)) = m
        /\ \A i \in 1..m : SubSeq(t, 1, m)[i] = t[i]
    BY <1>2, <2>1, FirstParts
  <2>3. \A i \in 1..m : t[i] = s[i]
    BY <1>1, <1>2
  <2> DEFINE u == SubSeq(t, 1, m)
  <2> HIDE DEF u
  <2>4. Len(u) = m /\ u \in Seq(Heard) /\ \A i \in 1..m : u[i] = s[i]
    BY <2>2, <2>3 DEF u
  <2>5. u = s
    BY <1>1, <2>4, SeqEqual DEF m
  <2>6. SubSeq(t, 1, m + N) = t
    BY <1>2, SubSeqFull
  <2> QED
    BY <2>5, <2>6 DEF u
<1> HIDE DEF N, m, t
<1>6. 0 \in J
  <2>1. h(0) = s
    BY <1>1, <1>5
  <2>2. Adds(begun.conv, Called(called, parts, 0))
    BY DEF Adds, Called
  <2>3. Good(0)
    BY <1>3, <2>1, <2>2
  <2> QED
    BY <1>1, <2>3
<1>7. ASSUME NEW n \in 1..N, n - 1 \in J PROVE n \in J
  <2> DEFINE a == f[n - 1]
             p == parts[n]
             g == a.conv
  <2>1. n \in Nat /\ n \in 0..N /\ n \in Positions /\ IsPart(size, p) /\ f[n] = Part(a, n, p)
    BY <1>1, <1>3
  <2>2. PICK x : /\ Arrives(size, v, a, x) /\ Heeds(g, x, SubSeq(t, 1, m + (n - 1)))
                 /\ Adds(g, Called(called, parts, n - 1))
    BY <1>7
  <2>3. p.kind = "call" => n \in Calls(parts)
    BY <1>4, <2>1 DEF Calls
  <2>4. p.kind = "call" => ~g.toolStates[n].open
    <3> SUFFICES ASSUME p.kind = "call", g.toolStates[n].open PROVE FALSE
      OBVIOUS
    <3>1. n \in Called(called, parts, n - 1)
      BY <2>1, <2>2 DEF Adds
    <3>2. n \in called
      BY <2>1, <3>1 DEF Called
    <3> QED
      BY <2>3, <3>2
  <2> DEFINE o == m + (n - 1)
  <2>5. o \in 0..Len(t) - 1 /\ o + 1 = m + n /\ t[o + 1] = p
    <3>1. m + n \in 1..m + N /\ ~(m + n <= m) /\ m + n - m = n /\ o + 1 = m + n
      BY <1>1
    <3>2. t[m + n] = p
      <4> DEFINE q == m + n
      <4>1. q \in 1..m + N /\ ~(q <= m) /\ q - m = n
        BY <1>1, <2>1
      <4> HIDE DEF q
      <4>2. t[q] = parts[n]
        BY <1>2, <4>1
      <4> QED
        BY <4>2 DEF q
    <3>3. o \in 0..Len(t) - 1
      BY <1>1, <1>2
    <3> QED
      BY <3>1, <3>2, <3>3
  <2>6. Arrives(size, v, a, x) /\ Heeds(a.conv, x, SubSeq(t, 1, o))
    BY <2>2
  <2>h. h(n) = SubSeq(t, 1, o + 1)
    BY <2>5
  <2>f. f[n] = Part(a, n, p)
    BY <2>1
  <2> HIDE DEF a, p, o
  <2>7. Hears(size, v, x, a.conv, n, t[o + 1], Part(a, n, t[o + 1]), SubSeq(t, 1, o + 1))
    BY <1>2, <1>4, <2>1, <2>4, <2>5, <2>6, PartAdds
  <2>8. PICK y : /\ Arrives(size, v, Part(a, n, p), y) /\ Heeds(Part(a, n, p).conv, y, h(n))
                 /\ Recalls(a.conv, n, p, Part(a, n, p).conv)
    BY <2>5, <2>7, <2>h DEF Hears
  <2>9. Adds(Part(a, n, p).conv, Called(called, parts, n))
    <3> DEFINE e == Part(a, n, p).conv
    <3>1. Adds(a.conv, Called(called, parts, n - 1)) /\ Recalls(a.conv, n, p, e)
      BY <2>2, <2>8
    <3>2. Called(called, parts, n - 1) \subseteq Called(called, parts, n)
      <4>1. \A i \in Positions : i \in Nat
        BY BoundsAssumption, FS_CardinalityType
      <4>2. \A i \in Nat : i <= n - 1 => i <= n
        BY <2>1
      <4> QED
        BY <4>1, <4>2 DEF Called
    <3>3. p.kind = "call" => n \in Called(called, parts, n)
      BY <2>1, <2>3 DEF Called
    <3> HIDE DEF e, g
    <3>4. ASSUME NEW i \in Positions, e.toolStates[i].open PROVE i \in Called(called, parts, n)
      <4>1. CASE p.kind = "call" /\ i = n
        BY <3>3, <4>1
      <4>2. CASE ~(p.kind = "call" /\ i = n)
        <5>1. e.toolStates[i] = a.conv.toolStates[i]
          BY <3>1, <4>2 DEF Recalls
        <5> QED
          BY <3>1, <3>2, <3>4, <5>1 DEF Adds
      <4> QED
        BY <4>1, <4>2
    <3>5. Adds(e, Called(called, parts, n))
      BY <3>4 DEF Adds
    <3> QED
      BY <3>5 DEF e
  <2>10. Good(n)
    BY <2>8, <2>9, <2>f
  <2> QED
    BY <2>1, <2>10
<1> HIDE DEF J
<1>8. N \in J
  <2>1. \A n \in 0..N : n \in J
    BY <1>1, <1>6, <1>7, Climb
  <2> QED
    BY <1>1, <2>1
<1>9. PICK x : /\ Arrives(size, v, f[N], x) /\ Heeds(f[N].conv, x, SubSeq(t, 1, m + N))
               /\ Adds(f[N].conv, Called(called, parts, N))
  BY <1>8 DEF J
<1>10. Adds(f[N].conv, called \cup Calls(parts))
  BY <1>9 DEF Adds, Called
<1> QED
  BY <1>5, <1>9, <1>10 DEF N, t

\* The calls the converter knows are those of h.
Repeats(g, h) ==
    \A i \in Positions :
        /\ g.toolStates[i].open <=> i \in 1..Len(h) /\ h[i].kind = "call"
        /\ g.toolStates[i].open => g.toolStates[i].previousJSON = h[i].data

\* The snapshot t says what s said, its last text perhaps with one more letter,
\* and perhaps more.
Regrows(s, t) ==
    /\ s \in Seq(Heard) /\ t \in Seq(Heard) /\ Len(s) <= Len(t)
    /\ \A i \in 1..Len(s) :
          \/ t[i] = s[i]
          \/ /\ i = Len(s) /\ s[i].kind = "text" /\ t[i].kind = "text"
             /\ \E l \in Nat : t[i].data = Append(s[i].data, l)

\* There is one text at most.
OneText(t) == \A i, j \in TextsOf(t) : i = j

\* What was heard after the first n parts of the snapshot t.
SoFar(s, t, n) == IF n < Len(s) THEN s ELSE SubSeq(t, 1, n)

\* What the converter knows of calls, as a part is added to those it is about.
LEMMA RepeatsMore ==
    ASSUME NEW g, NEW h, Repeats(g, h), NEW k, Len(h) \in Nat, Len(k) = Len(h) + 1,
           \A i \in 1..Len(h) : k[i] = h[i], NEW e, Len(k) \in Positions,
           Recalls(g, Len(k), k[Len(k)], e)
    PROVE  Repeats(e, k)
<1> DEFINE n == Len(k)
<1>1. /\ n \in Nat /\ n \in 1..n /\ n \notin 1..Len(h)
      /\ \A i \in 1..n : i # n => i \in 1..Len(h)
      /\ \A i \in 1..Len(h) : i \in 1..n /\ i # n
  OBVIOUS
<1>2. Recalls(g, n, k[n], e) /\ n \in Positions
  OBVIOUS
<1> HIDE DEF n
<1>3. ASSUME NEW i \in Positions
      PROVE  /\ e.toolStates[i].open <=> i \in 1..n /\ k[i].kind = "call"
             /\ e.toolStates[i].open => e.toolStates[i].previousJSON = k[i].data
  <2>1. CASE i # n
    <3>1. e.toolStates[i] = g.toolStates[i]
      BY <1>2, <2>1 DEF Recalls
    <3>2. i \in 1..n <=> i \in 1..Len(h)
      BY <1>1, <2>1
    <3> QED
      BY <3>1, <3>2 DEF Repeats
  <2>2. CASE i = n /\ k[n].kind = "call"
    BY <1>1, <1>2, <2>2 DEF Recalls
  <2>3. CASE i = n /\ k[n].kind # "call"
    <3>1. e.toolStates[i] = g.toolStates[i]
      BY <1>2, <2>3 DEF Recalls
    <3>2. ~g.toolStates[i].open
      BY <1>1, <2>3 DEF Repeats
    <3> QED
      BY <2>3, <3>1, <3>2
  <2> QED
    BY <2>1, <2>2, <2>3
<1> QED
  BY <1>3 DEF Repeats, n

\* The same, as a part is repeated, or is more of a text.
LEMMA RepeatsAgain ==
    ASSUME NEW g, NEW h, Repeats(g, h), NEW k, Len(k) = Len(h),
           NEW n \in 1..Len(h), k[n].kind = h[n].kind,
           \A i \in 1..Len(h) : i # n => k[i] = h[i], NEW e, Recalls(g, n, k[n], e)
    PROVE  Repeats(e, k)
<1>1. ASSUME NEW i \in Positions
      PROVE  /\ e.toolStates[i].open <=> i \in 1..Len(k) /\ k[i].kind = "call"
             /\ e.toolStates[i].open => e.toolStates[i].previousJSON = k[i].data
  <2>1. CASE i # n
    <3>1. e.toolStates[i] = g.toolStates[i]
      BY <2>1 DEF Recalls
    <3> QED
      BY <2>1, <3>1 DEF Repeats
  <2>2. CASE i = n /\ k[n].kind = "call"
    BY <2>2 DEF Recalls
  <2>3. CASE i = n /\ k[n].kind # "call"
    <3>1. e.toolStates[i] = g.toolStates[i]
      BY <2>3 DEF Recalls
    <3>2. ~g.toolStates[i].open
      BY <2>3 DEF Repeats
    <3> QED
      BY <2>3, <3>1, <3>2
  <2> QED
    BY <2>1, <2>2, <2>3
<1> QED
  BY <1>1 DEF Repeats

\* A part of a snapshot that was said before.
LEMMA PartAgain ==
    ASSUME NEW size \in Nat, NEW v, NEW s, NEW w, Arrives(size, v, s, w),
           NEW h, Heeds(s.conv, w, h), Repeats(s.conv, h), \A i, j \in TextsOf(h) : i = j,
           NEW n \in 1..Len(h), n \in Positions, IsPart(size, h[n])
    PROVE  Hears(size, v, w, s.conv, n, h[n], Part(s, n, h[n]), h)
<1> DEFINE p == h[n]
           g == s.conv
<1>1. h \in Seq(Heard)
  BY DEF Heeds
<1>2. p \in Heard
  BY <1>1, ElementOfSeq
<1>3. Heeds(g, w, h) /\ IsPart(size, p)
  OBVIOUS
<1>4. p.kind = "call" => g.toolStates[n].open /\ g.toolStates[n].previousJSON = p.data
  BY DEF Repeats
<1>5. ASSUME p.kind = "text" PROVE g.textBlockOpen /\ g.previousText = p.data
  <2>1. n \in TextsOf(h)
    BY <1>5 DEF TextsOf
  <2>2. \A i \in TextsOf(h) : i <= n
    <3> TAKE i \in TextsOf(h)
    <3>1. i = n
      BY <2>1
    <3> QED
      BY <1>1, <3>1, LenProperties
  <2> QED
    BY <1>3, <2>1, <2>2 DEF Heeds
<1> DEFINE r == Hears(size, v, w, g, n, p, Part(s, n, p), h)
<1> HIDE DEF p
<1>7. ASSUME p.kind = "thought" PROVE r
  BY <1>2, <1>3, <1>7, AnyThought
<1>8. ASSUME p.kind = "text" PROVE r
  BY <1>2, <1>3, <1>5, <1>8, AgainText
<1>9. ASSUME p.kind = "call" PROVE r
  BY <1>2, <1>3, <1>4, <1>9, AgainCall
<1>10. p.kind \in PartKinds
  BY <1>2 DEF Heard
<1>11. r
  BY <1>7, <1>8, <1>9, <1>10 DEF PartKinds
<1> QED
  BY <1>11 DEF p

\* A part of a snapshot that was not said before.
LEMMA PartNew ==
    ASSUME NEW size \in Nat, NEW v, NEW s, NEW w, Arrives(size, v, s, w),
           NEW h, Heeds(s.conv, w, h), Repeats(s.conv, h), NEW p \in Heard,
           p.kind = "text" => TextsOf(h) = {},
           Len(h) + 1 \in Positions, IsPart(size, p)
    PROVE  Hears(size, v, w, s.conv, Len(h) + 1, p, Part(s, Len(h) + 1, p), Append(h, p))
<1> DEFINE n == Len(h) + 1
           g == s.conv
           r == Hears(size, v, w, g, n, p, Part(s, n, p), Append(h, p))
<1>1. n \in Positions /\ ~g.toolStates[n].open
  <2>1. h \in Seq(Heard)
    BY DEF Heeds
  <2>2. n \notin 1..Len(h)
    BY <2>1, LenProperties
  <2> HIDE DEF n
  <2> QED
    BY <2>2 DEF Repeats, n
<1>2. p.kind = "text" => ~g.textBlockOpen
  BY DEF Heeds
<1> HIDE DEF n
<1>7. ASSUME p.kind = "thought" PROVE r
  BY <1>1, <1>7, AnyThought
<1>8. ASSUME p.kind = "text" PROVE r
  BY <1>1, <1>2, <1>8, NewText
<1>9. ASSUME p.kind = "call" PROVE r
  BY <1>1, <1>9, NewCall
<1>10. p.kind \in PartKinds
  BY DEF Heard
<1>11. r
  BY <1>7, <1>8, <1>9, <1>10 DEF PartKinds
<1> QED
  BY <1>11 DEF n

\* A snapshot with one text at most.
LEMMA SnapshotHeard ==
    ASSUME NEW size \in Nat, NEW v, NEW begun, NEW w, Arrives(size, v, begun, w),
           NEW t, Readable(size, t), NEW f, ReadsParts(f, begun, t),
           NEW s, Heeds(begun.conv, w, s), Repeats(begun.conv, s), Regrows(s, t), OneText(t)
    PROVE  \E x : /\ Arrives(size, v, f[Len(t)], x)
                  /\ Heeds(f[Len(t)].conv, x, t) /\ Repeats(f[Len(t)].conv, t)
<1> DEFINE N == Len(t)
           m == Len(s)
           Good(n) == \E x : /\ Arrives(size, v, f[n], x) /\ Heeds(f[n].conv, x, SoFar(s, t, n))
                             /\ Repeats(f[n].conv, SoFar(s, t, n))
           J == {n \in 0..N : Good(n)}
<1>1. /\ t \in Seq(Heard) /\ s \in Seq(Heard) /\ N \in Nat /\ m \in Nat /\ m <= N
      /\ \A i \in 1..N : i \in Positions /\ IsPart(size, t[i]) /\ t[i] \in Heard
      /\ \A i \in 1..m : s[i] \in Heard
      /\ \A i \in 1..m :
            \/ t[i] = s[i]
            \/ /\ i = m /\ s[i].kind = "text" /\ t[i].kind = "text"
               /\ \E l \in Nat : t[i].data = Append(s[i].data, l)
      /\ \A i, j \in TextsOf(t) : i = j
  <2>1. t \in Seq(Heard) /\ s \in Seq(Heard)
    BY DEF Regrows
  <2> QED
    BY <2>1, LenProperties, ElementOfSeq DEF Readable, Regrows, OneText
<1>2. f[0] = begun /\ \A i \in 1..N : f[i] = Part(f[i - 1], i, t[i])
  BY <1>1, ReadsPartsIs
<1>3. \A n \in 0..N : /\ SubSeq(t, 1, n) \in Seq(Heard) /\ Len(SubSeq(t, 1, n)) = n
                      /\ \A i \in 1..n : SubSeq(t, 1, n)[i] = t[i]
  BY <1>1, FirstParts
<1>4. SubSeq(t, 1, N) = t
  BY <1>1, SubSeqFull
<1>5. \A i \in 1..m : t[i].kind = s[i].kind
  BY <1>1
<1>6. \A i, j \in TextsOf(s) : i = j
  <2>1. \A i \in TextsOf(s) : i \in TextsOf(t)
    <3> TAKE i \in TextsOf(s)
    <3>1. i \in 1..m /\ s[i].kind = "text"
      BY DEF TextsOf
    <3>2. i \in 1..N
      BY <1>1, <3>1
    <3> QED
      BY <1>5, <3>1, <3>2 DEF TextsOf
  <2> QED
    BY <1>1, <2>1
<1>7. SoFar(s, t, 0) = s
  <2>1. CASE 0 < m
    BY <2>1 DEF SoFar
  <2>2. CASE ~(0 < m)
    <3>1. s = <<>> /\ SubSeq(t, 1, 0) = <<>>
      BY <1>1, <2>2, EmptySeq, SubSeqEmpty
    <3> QED
      BY <2>2, <3>1 DEF SoFar
  <2> QED
    BY <2>1, <2>2
<1>8. 0 \in J
  <2>1. Good(0)
    BY <1>2, <1>7
  <2> QED
    BY <1>1, <2>1
<1>9. ASSUME NEW n \in 1..N, n - 1 \in J PROVE n \in J
  <2> DEFINE a == f[n - 1]
             h == SoFar(s, t, n - 1)
             k == SoFar(s, t, n)
             p == t[n]
             r == Part(a, n, p)
  <2>1. n \in Nat /\ n \in 0..N /\ n - 1 \in 0..N /\ n \in Positions /\ IsPart(size, p) /\ p \in Heard /\ f[n] = r
    BY <1>1, <1>2
  <2>2. PICK x : Arrives(size, v, a, x) /\ Heeds(a.conv, x, h) /\ Repeats(a.conv, h)
    BY <1>9
  <2> DEFINE Goes(u) == Hears(size, v, x, a.conv, n, p, r, u)
  <2>3. ASSUME Goes(k), \A e : Recalls(a.conv, n, p, e) => Repeats(e, k) PROVE Good(n)
    <3>1. PICK y : Arrives(size, v, r, y) /\ Heeds(r.conv, y, k) /\ Recalls(a.conv, n, p, r.conv)
      BY <2>3 DEF Hears
    <3>2. Repeats(r.conv, k)
      BY <2>3, <3>1
    <3> HIDE DEF r
    <3> QED
      BY <2>1, <3>1, <3>2
  <2> HIDE DEF a, r
  <2>4. ASSUME n < m PROVE Good(n)
    <3>1. h = s /\ k = s
      BY <1>1, <2>1, <2>4 DEF SoFar
    <3>2. n \in 1..m /\ p = s[n]
      BY <1>1, <2>1, <2>4
    <3>3. Goes(s)
      <4> HIDE DEF h, k, p, Good
      <4>1. Hears(size, v, x, a.conv, n, s[n], Part(a, n, s[n]), s)
        BY <1>6, <2>1, <2>2, <3>1, <3>2, PartAgain
      <4> QED
        BY <3>2, <4>1 DEF r
    <3>4. \A e : Recalls(a.conv, n, p, e) => Repeats(e, s)
      <4> HIDE DEF h, k, p, Good
      <4> QED
        BY <2>2, <3>1, <3>2, RepeatsAgain
    <3> HIDE DEF h, k, p, Good
    <3> QED
      BY <2>3, <3>1, <3>3, <3>4
  <2>5. ASSUME n = m PROVE Good(n)
    <3>1. h = s /\ k = SubSeq(t, 1, n)
      BY <1>1, <2>1, <2>5 DEF SoFar
    <3>2. /\ k \in Seq(Heard) /\ Len(k) = n /\ n \in 1..m /\ k[n] = p /\ p.kind = s[n].kind
          /\ \A i \in 1..n - 1 : k[i] = s[i]
      <4>1. \A i \in 1..n - 1 : i \in 1..n /\ i \in 1..m /\ i # m /\ t[i] = s[i]
        BY <1>1, <2>1, <2>5
      <4>2. n \in 1..n /\ n \in 1..m
        BY <1>1, <2>1, <2>5
      <4> QED
        BY <1>3, <1>5, <2>1, <3>1, <4>1, <4>2
    <3>3. CASE p = s[n]
      <4> HIDE DEF h, k, p, Good
      <4>1. \A i \in 1..Len(s) : k[i] = s[i]
        <5> TAKE i \in 1..Len(s)
        <5>1. i = n \/ i \in 1..n - 1
          BY <1>1, <2>5
        <5> QED
          BY <3>2, <3>3, <5>1
      <4>2. k = s
        BY <1>1, <2>5, <3>2, <4>1, SeqEqual
      <4>3. Hears(size, v, x, a.conv, n, s[n], Part(a, n, s[n]), s)
        BY <1>6, <2>1, <2>2, <3>1, <3>2, <3>3, PartAgain
      <4>4. Goes(k)
        BY <3>3, <4>2, <4>3 DEF r
      <4>5. \A e : Recalls(a.conv, n, p, e) => Repeats(e, s)
        BY <2>2, <3>1, <3>2, <3>3, RepeatsAgain
      <4> QED
        BY <2>3, <4>2, <4>4, <4>5
    <3>4. CASE p # s[n]
      <4>1. PICK l \in Nat : /\ s[n].kind = "text" /\ p.kind = "text"
                             /\ p.data = Append(s[n].data, l)
        BY <1>1, <2>5, <3>2, <3>4
      <4> HIDE DEF h, k, p, Good
      <4>2. Longer(s, <<l>>, k)
        <5>1. n \in TextsOf(s) /\ TextsOf(s) = {n}
          <6>1. n \in TextsOf(s)
            BY <2>5, <3>2, <4>1 DEF TextsOf
          <6> QED
            BY <1>6, <6>1
        <5>2. <<l>> \in Seq(Nat) /\ s[n].data \in Seq(Nat)
          <6>1. s[n] \in Heard
            BY <1>1, <3>2
          <6>2. s[n].data \in Seq(Nat)
            BY <6>1 DEF Heard, SaidParts
          <6>3. <<l>> \in Seq(Nat)
            BY <4>1
          <6> QED
            BY <6>2, <6>3
        <5>3. Append(s[n].data, l) = s[n].data \o <<l>>
          BY <5>2, AppendIsConcat
        <5> QED
          BY <1>1, <2>5, <3>2, <4>1, <5>1, <5>2, <5>3 DEF Longer
      <4>3. Goes(k)
        <5> DEFINE d == <<l>>
        <5>1. Longer(s, d, k) /\ k[Len(s)].data = p.data
          BY <2>5, <3>2, <4>2
        <5> HIDE DEF d
        <5>2. Arrives(size, v, a, x) /\ Heeds(a.conv, x, s)
          BY <2>2, <3>1
        <5>3. Hears(size, v, x, a.conv, n, p, Part(a, n, p), k)
          BY <2>1, <4>1, <5>1, <5>2, MoreText
        <5> QED
          BY <5>3 DEF r
      <4>4. \A e : Recalls(a.conv, n, p, e) => Repeats(e, k)
        <5>1. \A i \in 1..Len(s) : i # n => k[i] = s[i]
          <6> TAKE i \in 1..Len(s)
          <6>1. i # n => i \in 1..n - 1
            BY <1>1, <2>5
          <6> QED
            BY <3>2, <6>1
        <5>2. /\ Repeats(a.conv, s) /\ Len(k) = Len(s) /\ n \in 1..Len(s)
              /\ k[n].kind = s[n].kind /\ k[n] = p
          BY <2>2, <2>5, <3>1, <3>2
        <5> QED
          BY <5>1, <5>2, RepeatsAgain
      <4> QED
        BY <2>3, <4>3, <4>4
    <3> QED
      BY <3>3, <3>4
  <2>6. ASSUME m < n PROVE Good(n)
    <3>1. h = SubSeq(t, 1, n - 1) /\ k = SubSeq(t, 1, n)
      BY <1>1, <2>1, <2>6 DEF SoFar
    <3>2. /\ h \in Seq(Heard) /\ Len(h) = n - 1 /\ \A i \in 1..n - 1 : h[i] = t[i]
          /\ k \in Seq(Heard) /\ Len(k) = n /\ \A i \in 1..n : k[i] = t[i]
      BY <1>3, <2>1, <3>1
    <3>3. p.kind = "text" => TextsOf(h) = {}
      <4> SUFFICES ASSUME p.kind = "text", NEW i \in TextsOf(h) PROVE FALSE
        OBVIOUS
      <4>1. i \in 1..n - 1 /\ h[i].kind = "text"
        BY <3>2 DEF TextsOf
      <4>2. i \in TextsOf(t) /\ n \in TextsOf(t) /\ i # n
        <5>1. i \in 1..N /\ i # n /\ n \in 1..N /\ t[i].kind = "text"
          BY <1>1, <2>1, <3>2, <4>1
        <5> QED
          BY <5>1 DEF TextsOf
      <4> QED
        BY <1>1, <4>2
    <3> HIDE DEF h, k, p, Good
    <3>4. Len(h) + 1 = n /\ Len(h) \in Nat /\ Len(k) = Len(h) + 1 /\ k[n] = p
          /\ \A i \in 1..Len(h) : k[i] = h[i]
      BY <2>1, <3>2 DEF p
    <3>5. k = Append(h, p)
      <4> DEFINE c == Append(h, p)
      <4>1. /\ c \in Seq(Heard) /\ Len(c) = Len(h) + 1
            /\ c[Len(h) + 1] = p /\ \A i \in 1..Len(h) : c[i] = h[i]
        BY <2>1, <3>2, OneMorePart
      <4> HIDE DEF c
      <4>2. \A i \in 1..Len(k) : k[i] = c[i]
        <5> TAKE i \in 1..Len(k)
        <5>1. i = n \/ i \in 1..Len(h)
          BY <3>4
        <5> QED
          BY <3>4, <4>1, <5>1
      <4>3. k = c
        BY <3>2, <3>4, <4>1, <4>2, SeqEqual
      <4> QED
        BY <4>3 DEF c
    <3>6. Goes(k)
      <4>1. Hears(size, v, x, a.conv, Len(h) + 1, p, Part(a, Len(h) + 1, p), Append(h, p))
        BY <2>1, <2>2, <3>3, <3>4, PartNew
      <4> QED
        BY <3>4, <3>5, <4>1 DEF r
    <3>7. \A e : Recalls(a.conv, n, p, e) => Repeats(e, k)
      <4>1. Len(k) = n /\ k[Len(k)] = p /\ n \in Positions
        BY <2>1, <3>4
      <4> QED
        BY <2>2, <3>4, <4>1, RepeatsMore
    <3> QED
      BY <2>3, <3>6, <3>7
  <2>7. n < m \/ n = m \/ m < n
    BY <1>1, <2>1
  <2>8. Good(n)
    <3> HIDE DEF Good
    <3> QED
      BY <2>4, <2>5, <2>6, <2>7
  <2> QED
    BY <2>1, <2>8
<1> HIDE DEF J
<1>10. N \in J
  <2>1. \A n \in 0..N : n \in J
    BY <1>1, <1>8, <1>9, Climb
  <2> QED
    BY <1>1, <2>1
<1>11. SoFar(s, t, N) = t
  BY <1>1, <1>4 DEF SoFar
<1> QED
  BY <1>10, <1>11 DEF J

-----------------------------------------------------------------------------
(* A chunk of Gemini, and the end of its stream.                           *)

GeminiUpstreams == [mode : {"increment", "snapshot"}, chunks : 0..MaxChunks,
                    called : SUBSET Positions, merged : BOOLEAN, ended : BOOLEAN]

\* What a part may hold after n chunks.
HeldParts(n) == {p \in Heard : Len(p.data) <= IF p.kind = "text" THEN MaxText + n ELSE 1}

\* The upstream u, which said s, leaves the converter to guess.
Hazy(u, s) ==
    \/ u.mode = "increment" /\ u.merged
    \/ u.mode = "snapshot" /\ \E i, j \in TextsOf(s) : i < j
    \/ u.mode = "increment" /\ \E i, j \in TextsOf(s) :
          /\ i < j /\ \A k \in TextsOf(s) : k <= i \/ j <= k
          /\ IsPrefix(s[i].data, s[j].data)

\* w tells what s amounts to, or that is nothing and w is filled.
Recounts(w, s) ==
    \/ Spoken(Aside, w) = Merged(s)
    \/ Merged(s) = <<>> /\ Spoken(Aside, w) = Filled

\* The converter knows enough to go on.
Knows(g, u, s, w) ==
    IF g.finished THEN Recounts(w, s)
    ELSE Heeds(g, w, s) /\ IF u.mode = "snapshot" THEN Repeats(g, s) ELSE Adds(g, u.called)

\* There is a call in the message.
HasTool(w) == \E i \in 1..Len(w.blocks) : w.blocks[i].kind = "tool"

\* The converter g reads the upstream u, which has said s; its client holds w.
FollowsGemini(g, u, s, w) ==
    /\ Tracks(g, w)
    /\ u \in GeminiUpstreams /\ s \in Seq(HeldParts(u.chunks))
    /\ u.ended <=> g.finished
    /\ g.started \/ s = <<>>
    /\ IF g.finished THEN w.stop = "tool_use" => HasTool(w) ELSE Calling(g)
    /\ ~Hazy(u, s) => Knows(g, u, s, w)

\* The upstream u, which said s, goes on to y, and has said t, with these parts.
Sends(u, s, parts, y, t) ==
    /\ y.mode = u.mode
    /\ \/ /\ u.mode = "increment" /\ t = s \o parts
          /\ y.called = u.called \cup Calls(parts)
          /\ ~y.merged => ~u.merged /\ u.called \cap Calls(parts) = {}
       \/ u.mode = "snapshot" /\ t = parts /\ Regrows(s, t)

\* Texts stay where they are, and as they were but for the last of a snapshot.
LEMMA SentTexts ==
    ASSUME NEW s \in Seq(Heard), NEW t \in Seq(Heard), NEW parts \in Seq(Heard), t = s \o parts
    PROVE  /\ Len(s) \in Nat /\ Len(t) \in Nat /\ Len(s) <= Len(t)
           /\ Len(t) = Len(s) + Len(parts) /\ Len(parts) \in Nat
           /\ \A i \in 1..Len(s) : i \in 1..Len(t) /\ t[i] = s[i]
           /\ \A i \in 1..Len(t) : i \in 1..Len(s) \/ (i - Len(s) \in 1..Len(parts) /\ t[i] = parts[i - Len(s)])
<1> DEFINE m == Len(s)
           n == Len(parts)
<1>1. m \in Nat /\ n \in Nat
  BY LenProperties
<1>2. Len(t) = m + n /\ \A i \in 1..m + n : t[i] = IF i <= m THEN s[i] ELSE parts[i - m]
  BY ConcatProperties
<1> HIDE DEF m, n
<1>3. \A i \in 1..m : i \in 1..m + n /\ i <= m
  BY <1>1
<1>4. \A i \in 1..m + n : ~(i <= m) => i - m \in 1..n
  BY <1>1
<1>5. \A i \in 1..m + n : i <= m => i \in 1..m
  BY <1>1
<1>6. m + n \in Nat /\ m <= m + n
  BY <1>1
<1> QED
  BY <1>1, <1>2, <1>3, <1>4, <1>5, <1>6 DEF m, n

\* What is clear was clear before.
LEMMA ClearBefore ==
    ASSUME NEW u, NEW s \in Seq(Heard), NEW parts \in Seq(Heard), NEW y, NEW t \in Seq(Heard),
           Sends(u, s, parts, y, t), ~Hazy(y, t)
    PROVE  ~Hazy(u, s)
<1>1. CASE u.mode = "increment"
  <2>1. /\ y.mode = "increment" /\ t = s \o parts /\ ~y.merged /\ ~u.merged
    BY <1>1 DEF Sends, Hazy
  <2>2. /\ Len(s) \in Nat /\ Len(t) \in Nat /\ Len(s) <= Len(t)
        /\ \A i \in 1..Len(s) : i \in 1..Len(t) /\ t[i] = s[i]
    BY <2>1, SentTexts
  <2> SUFFICES ASSUME NEW i \in TextsOf(s), NEW j \in TextsOf(s), i < j,
                      \A k \in TextsOf(s) : k <= i \/ j <= k, IsPrefix(s[i].data, s[j].data)
               PROVE  FALSE
    BY <1>1, <2>1 DEF Hazy
  <2>3. i \in 1..Len(s) /\ j \in 1..Len(s) /\ i \in TextsOf(t) /\ j \in TextsOf(t)
    BY <2>2 DEF TextsOf
  <2>4. \A k \in TextsOf(t) : k <= i \/ j <= k
    <3> TAKE k \in TextsOf(t)
    <3>1. k \in 1..Len(t) /\ t[k].kind = "text"
      BY DEF TextsOf
    <3>2. CASE k \in 1..Len(s)
      <4>1. k \in TextsOf(s)
        BY <2>2, <3>1, <3>2 DEF TextsOf
      <4> QED
        BY <4>1
    <3>3. CASE k \notin 1..Len(s)
      BY <2>2, <2>3, <3>1, <3>3
    <3> QED
      BY <3>2, <3>3
  <2>5. IsPrefix(t[i].data, t[j].data)
    BY <2>2, <2>3
  <2> QED
    BY <2>1, <2>3, <2>4, <2>5 DEF Hazy
<1>2. CASE u.mode = "snapshot"
  <2>1. y.mode = "snapshot" /\ Regrows(s, t)
    BY <1>2 DEF Sends
  <2>2. \A i \in TextsOf(s) : i \in TextsOf(t)
    <3> TAKE i \in TextsOf(s)
    <3>1. i \in 1..Len(s) /\ s[i].kind = "text"
      BY DEF TextsOf
    <3>2. i \in 1..Len(t) /\ t[i].kind = "text"
      <4>1. Len(s) \in Nat /\ Len(t) \in Nat /\ Len(s) <= Len(t)
        BY <2>1, LenProperties DEF Regrows
      <4>2. i \in 1..Len(t)
        BY <3>1, <4>1
      <4> QED
        BY <2>1, <3>1, <4>2 DEF Regrows
    <3> QED
      BY <3>2 DEF TextsOf
  <2> QED
    BY <1>2, <2>1, <2>2 DEF Hazy
<1> QED
  BY <1>1, <1>2 DEF Sends

\* What is clear in a chunk.
LEMMA ClearChunk ==
    ASSUME NEW u, NEW s \in Seq(Heard), NEW parts \in Seq(Heard), NEW y, NEW t \in Seq(Heard),
           Sends(u, s, parts, y, t), ~Hazy(y, t)
    PROVE  /\ u.mode = "increment" => u.called \cap Calls(parts) = {} /\ Distinct(t)
           /\ u.mode = "snapshot" => OneText(t)
<1>1. ASSUME u.mode = "increment" PROVE u.called \cap Calls(parts) = {} /\ Distinct(t)
  <2>1. /\ y.mode = "increment" /\ t = s \o parts /\ ~y.merged
        /\ u.called \cap Calls(parts) = {}
    BY <1>1 DEF Sends, Hazy
  <2>2. \A i, j \in TextsOf(t) :
           i < j /\ (\A k \in TextsOf(t) : k <= i \/ j <= k) => ~IsPrefix(t[i].data, t[j].data)
    BY <2>1 DEF Hazy
  <2> QED
    BY <2>1, <2>2 DEF Distinct
<1>2. ASSUME u.mode = "snapshot" PROVE OneText(t)
  <2>1. y.mode = "snapshot"
    BY <1>2 DEF Sends
  <2>2. \A i, j \in TextsOf(t) : ~(i < j)
    BY <2>1 DEF Hazy
  <2>3. \A i \in TextsOf(t) : i \in Nat
    BY DEF TextsOf
  <2>4. \A i, j \in TextsOf(t) : i = j
    <3> TAKE i, j \in TextsOf(t)
    <3>1. ~(i < j) /\ ~(j < i)
      BY <2>2
    <3> QED
      BY <2>3, <3>1
  <2> QED
    BY <2>4 DEF OneText
<1> QED
  BY <1>1, <1>2

\* The start of the message changes nothing of this.
LEMMA BegunHeeds ==
    ASSUME NEW size \in Nat, NEW g, NEW w, Tracks(g, w), ~g.finished, Calling(g)
    PROVE  LET b == BegunStep(g)
           IN  /\ Arrives(size, w, b, Begun(w))
               /\ \A h : Heeds(g, w, h) => Heeds(b.conv, Begun(w), h)
               /\ \A h : Repeats(g, h) => Repeats(b.conv, h)
               /\ \A called : Adds(g, called) => Adds(b.conv, called)
<1> DEFINE b == BegunStep(g)
           x == Begun(w)
<1>1. /\ IsStep(b) /\ Emits(size, w, b.events, x) /\ Reads(b.conv, x)
      /\ SameText(g, b.conv) /\ SameTools(g, b.conv)
      /\ x.blocks = w.blocks /\ x \in Views
  BY BegunReads
<1> HIDE DEF b, x
<1>2. w \in Views
  BY DEF Tracks
<1>3. b.conv.toolStates = g.toolStates /\ b.conv.sawFunctionCall = g.sawFunctionCall
  BY <1>1 DEF SameTools
<1>4. Arrives(size, w, b, x)
  BY <1>1, <1>3 DEF Arrives, Calling
<1>5. Spoken(Aside, x) = Spoken(Aside, w)
  <2>1. ToldBlocks(Aside, x) = ToldBlocks(Aside, w)
    BY <1>1 DEF ToldBlocks
  <2> QED
    BY <1>1, <1>2, <2>1, SpokenSame
<1>6. \A j \in 1..Len(x.blocks) : x.blocks[j].kind = "text" =>
          j \in 1..Len(w.blocks) /\ w.blocks[j].kind = "text"
  BY <1>1
<1>7. ASSUME NEW h, Heeds(g, w, h) PROVE Heeds(b.conv, x, h)
  BY <1>1, <1>2, <1>3, <1>5, <1>6, <1>7, StillHeeds
<1>8. \A h : Repeats(g, h) => Repeats(b.conv, h)
  BY <1>3 DEF Repeats
<1>9. \A called : Adds(g, called) => Adds(b.conv, called)
  BY <1>3 DEF Adds
<1> QED
  BY <1>4, <1>7, <1>8, <1>9 DEF b, x

\* The converter and its client, after the parts of a chunk.
Learned(g, y, t, x) ==
    Heeds(g, x, t) /\ IF y.mode = "snapshot" THEN Repeats(g, t) ELSE Adds(g, y.called)

\* The parts of a chunk.
LEMMA ChunkHeard ==
    ASSUME NEW size \in Nat, NEW g, NEW u, NEW s \in Seq(Heard), NEW w, Tracks(g, w), ~g.finished,
           Calling(g), ~Hazy(u, s) => Knows(g, u, s, w),
           NEW parts, Readable(size, parts), NEW y, NEW t \in Seq(Heard), Sends(u, s, parts, y, t),
           NEW f, ReadsParts(f, BegunStep(g), parts)
    PROVE  \E x : /\ Arrives(size, w, f[Len(parts)], x)
                  /\ ~Hazy(y, t) => Learned(f[Len(parts)].conv, y, t, x)
<1> DEFINE b == BegunStep(g)
           z == Begun(w)
           all == f[Len(parts)]
<1>1. /\ Arrives(size, w, b, z)
      /\ \A h : Heeds(g, w, h) => Heeds(b.conv, z, h)
      /\ \A h : Repeats(g, h) => Repeats(b.conv, h)
      /\ \A called : Adds(g, called) => Adds(b.conv, called)
  BY BegunHeeds
<1> HIDE DEF b, z
<1>2. ReadsParts(f, b, parts) /\ parts \in Seq(Heard)
  BY DEF b, Readable
<1>3. CASE Hazy(y, t)
  <2>1. \E x : Arrives(size, w, all, x)
    BY <1>1, <1>2, PartsArrive
  <2> QED
    BY <1>3, <2>1
<1>4. CASE ~Hazy(y, t)
  <2>1. ~Hazy(u, s)
    BY <1>2, <1>4, ClearBefore
  <2>2. Heeds(b.conv, z, s) /\ IF u.mode = "snapshot" THEN Repeats(b.conv, s) ELSE Adds(b.conv, u.called)
    BY <1>1, <2>1 DEF Knows
  <2>3. /\ u.mode = "increment" => u.called \cap Calls(parts) = {} /\ Distinct(t)
        /\ u.mode = "snapshot" => OneText(t)
    BY <1>2, <1>4, ClearChunk
  <2>4. ASSUME u.mode = "increment"
        PROVE  \E x : Arrives(size, w, all, x) /\ Learned(all.conv, y, t, x)
    <3>1. t = s \o parts /\ y.called = u.called \cup Calls(parts) /\ y.mode = "increment"
      BY <2>4 DEF Sends
    <3>2. Adds(b.conv, u.called) /\ Heeds(b.conv, z, s) /\ u.called \cap Calls(parts) = {} /\ Distinct(s \o parts)
      BY <2>2, <2>3, <2>4, <3>1
    <3> DEFINE c == u.called
    <3>3. Adds(b.conv, c) /\ c \cap Calls(parts) = {} /\ Distinct(s \o parts) /\ Heeds(b.conv, z, s)
      BY <3>2
    <3>a. Arrives(size, w, b, z) /\ Readable(size, parts) /\ ReadsParts(f, b, parts)
      BY <1>1, <1>2
    <3> HIDE DEF c, all
    <3>b. \E x : /\ Arrives(size, w, f[Len(parts)], x)
                 /\ Heeds(f[Len(parts)].conv, x, s \o parts)
                 /\ Adds(f[Len(parts)].conv, c \cup Calls(parts))
      BY ONLY <3>3, <3>a, size \in Nat, IncrementHeard
    <3>4. \E x : /\ Arrives(size, w, all, x) /\ Heeds(all.conv, x, s \o parts)
                 /\ Adds(all.conv, c \cup Calls(parts))
      BY <3>b DEF all
    <3> QED
      BY <3>1, <3>4 DEF Learned, c
  <2>5. ASSUME u.mode = "snapshot"
        PROVE  \E x : Arrives(size, w, all, x) /\ Learned(all.conv, y, t, x)
    <3>1. t = parts /\ Regrows(s, t) /\ y.mode = "snapshot"
      BY <2>5 DEF Sends
    <3>2. Repeats(b.conv, s) /\ Heeds(b.conv, z, s) /\ OneText(t)
      BY <2>2, <2>3, <2>5
    <3> HIDE DEF all
    <3>3. \E x : Arrives(size, w, all, x) /\ Heeds(all.conv, x, t) /\ Repeats(all.conv, t)
      BY <1>1, <1>2, <3>1, <3>2, SnapshotHeard DEF all
    <3> QED
      BY <3>1, <3>3 DEF Learned
  <2>6. u.mode = "increment" \/ u.mode = "snapshot"
    BY DEF Sends
  <2> HIDE DEF all
  <2>7. \E x : Arrives(size, w, all, x) /\ Learned(all.conv, y, t, x)
    BY <2>4, <2>5, <2>6
  <2> QED
    BY <2>7 DEF all
<1> QED
  BY <1>3, <1>4

\* A message that is ended tells the same, or was filled.
LEMMA KeptRecounts ==
    ASSUME NEW w \in Views, NEW x \in Views, Kept(w, x), NEW s, Spoken(Aside, w) = Merged(s)
    PROVE  Recounts(x, s)
<1>1. CASE /\ Len(x.blocks) = Len(w.blocks)
           /\ \A i \in 1..Len(w.blocks) : /\ x.blocks[i].kind = w.blocks[i].kind
                                          /\ x.blocks[i].data = w.blocks[i].data
  <2>1. ToldBlocks(Aside, x) = ToldBlocks(Aside, w)
    BY <1>1 DEF ToldBlocks
  <2>2. \A i \in ToldBlocks(Aside, w) : i \in 1..Len(w.blocks)
    BY DEF ToldBlocks
  <2>3. Spoken(Aside, x) = Spoken(Aside, w)
    BY <1>1, <2>1, <2>2, SpokenSame
  <2> QED
    BY <2>3 DEF Recounts
<1>2. CASE /\ Len(w.blocks) = 0 /\ Len(x.blocks) = 1
           /\ x.blocks[1].kind = "text" /\ x.blocks[1].data = <<>>
  <2>1. Opened(w, "text", <<>>, x)
    BY <1>2 DEF Opened
  <2>2. Spoken(Aside, x) = Append(Spoken(Aside, w), [kind |-> "text", data |-> <<>>])
    <3> DEFINE d == <<>>
    <3>1. Opened(w, "text", d, x)
      BY <2>1
    <3> HIDE DEF d
    <3>2. Spoken(Aside, x) = Append(Spoken(Aside, w), [kind |-> "text", data |-> d])
      BY <3>1, SpokenOpened
    <3> QED
      BY <3>2 DEF d
  <2>3. Spoken(Aside, w) = <<>>
    <3> DEFINE a == Spoken(Aside, w)
               T == ToldBlocks(Aside, w)
    <3>1. T = {}
      BY <1>2 DEF ToldBlocks
    <3>2. Tells(w, T, a)
      BY SpokenIs
    <3> HIDE DEF a, T
    <3>3. Len(a) = 0 /\ a \in Seq(Pieces)
      BY <3>1, <3>2, FS_EmptySet DEF Tells
    <3> QED
      BY <3>3, EmptySeq DEF a
  <2>4. Append(<<>>, [kind |-> "text", data |-> <<>>]) = Filled
    BY DEF Filled
  <2> QED
    BY <2>2, <2>3, <2>4 DEF Recounts
<1> QED
  BY <1>1, <1>2 DEF Kept

\* The blocks of a message that is ended are of the kinds they were.
LEMMA KeptTool ==
    ASSUME NEW g, NEW w, Reads(g, w), NEW i \in Positions, g.toolStates[i].open,
           NEW x, Kept(w, x)
    PROVE  HasTool(x)
<1> DEFINE j == g.toolStates[i].index + 1
<1>1. /\ g.toolStates[i].index \in Nat /\ g.toolStates[i].index < Len(w.blocks) /\ Len(w.blocks) \in Nat
  BY OpenTracks
<1>2. w.blocks[j].kind = "tool"
  BY DEF Reads, Tracks
<1>3. j \in 1..Len(w.blocks)
  BY <1>1
<1> HIDE DEF j
<1>4. Len(w.blocks) # 0
  BY <1>1, <1>3
<1>5. Len(x.blocks) = Len(w.blocks) /\ x.blocks[j].kind = "tool"
  BY <1>2, <1>3, <1>4 DEF Kept
<1> QED
  BY <1>3, <1>5 DEF HasTool

\* What an end of the message leaves of what the client was told.
EndsAs(all, e, x, z, stop) ==
    /\ Tracks(e.conv, z) /\ e.conv.finished /\ ~e.err /\ z.stop = stop
    /\ \A t : Spoken(Aside, x) = Merged(t) => Recounts(z, t)
    /\ all.conv.sawFunctionCall => HasTool(z)

\* The end of the message.
LEMMA MessageEnds ==
    ASSUME NEW size \in Nat, NEW v, NEW all, NEW x, Arrives(size, v, all, x), NEW stop \in StopReasons
    PROVE  LET e == EndWith(all, stop)
           IN  \E z : Emits(size, v, e.events, z) /\ EndsAs(all, e, x, z, stop)
<1> DEFINE e == EndWith(all, stop)
<1>1. Emits(size, v, all.events, x) /\ Reads(all.conv, x) /\ Calling(all.conv)
  BY DEF Arrives
<1>2. /\ IsStep(e) /\ e.conv.finished
      /\ \E z : Emits(size, v, e.events, z) /\ Tracks(e.conv, z) /\ Finishes(x, z, stop)
  BY <1>1, EndWithTracks
<1> HIDE DEF e
<1>3. PICK z : Emits(size, v, e.events, z) /\ Tracks(e.conv, z) /\ Finishes(x, z, stop)
  BY <1>2
<1>4. ~e.err
  BY <1>2, StepIs
<1>5. Kept(x, z) /\ z.stop = stop /\ x \in Views /\ z \in Views
  BY <1>1, <1>3 DEF Finishes, Reads, Tracks
<1>6. \A t : Spoken(Aside, x) = Merged(t) => Recounts(z, t)
  BY <1>5, KeptRecounts
<1>7. ASSUME all.conv.sawFunctionCall PROVE HasTool(z)
  <2>1. PICK i \in Positions : all.conv.toolStates[i].open
    BY <1>1, <1>7 DEF Calling
  <2> DEFINE g == all.conv
  <2>2. Reads(g, x) /\ g.toolStates[i].open
    BY <1>1, <2>1
  <2> HIDE DEF g
  <2> QED
    BY <1>5, <2>2, KeptTool
<1> QED
  BY <1>2, <1>3, <1>4, <1>5, <1>6, <1>7 DEF EndsAs, e

\* The parts of an upstream.
LEMMA HeldHeard ==
    ASSUME NEW n \in Nat, NEW s \in Seq(HeldParts(n))
    PROVE  s \in Seq(Heard)
<1>1. Len(s) \in Nat /\ s \in [1..Len(s) -> HeldParts(n)]
  BY LenProperties
<1> DEFINE k == Len(s)
<1> HIDE DEF k
<1>2. s \in [1..k -> HeldParts(n)] /\ k \in Nat
  BY <1>1 DEF k
<1>3. s \in [1..k -> Heard]
  BY <1>2 DEF HeldParts
<1> QED
  BY <1>2, <1>3, SeqDef

\* A chunk, as the converter and its client follow it.
LEMMA ChunkFollows ==
    ASSUME NEW size \in Nat, NEW g, NEW u, NEW s, NEW w, FollowsGemini(g, u, s, w), ~u.ended,
           NEW parts, Readable(size, parts), NEW y \in GeminiUpstreams, NEW t,
           Sends(u, s, parts, y, t), t \in Seq(HeldParts(y.chunks)),
           NEW finish, y.ended <=> finish # "none"
    PROVE  LET r == ProcessResponse(g, [parts |-> parts, finish |-> finish])
           IN  ~r.err /\ \E x : Emits(size, w, r.events, x) /\ FollowsGemini(r.conv, y, t, x)
<1> DEFINE r == ProcessResponse(g, [parts |-> parts, finish |-> finish])
<1>1. /\ Tracks(g, w) /\ ~g.finished /\ Calling(g) /\ (~Hazy(u, s) => Knows(g, u, s, w))
  BY DEF FollowsGemini
<1>2. s \in Seq(Heard) /\ t \in Seq(Heard) /\ parts \in Seq(Heard) /\ Len(parts) \in Nat
  <2>1. u.chunks \in Nat /\ y.chunks \in Nat /\ s \in Seq(HeldParts(u.chunks))
    BY BoundsAssumption DEF FollowsGemini, GeminiUpstreams
  <2> DEFINE m == u.chunks
             n == y.chunks
  <2>2. m \in Nat /\ n \in Nat /\ s \in Seq(HeldParts(m)) /\ t \in Seq(HeldParts(n))
    BY <2>1
  <2> HIDE DEF m, n
  <2>3. s \in Seq(Heard) /\ t \in Seq(Heard)
    BY <2>2, HeldHeard
  <2> QED
    BY <2>3, LenProperties DEF Readable
<1>3. PICK f : /\ ReadsParts(f, BegunStep(g), parts)
               /\ r = IF finish = "none" THEN f[Len(parts)]
                      ELSE EndWith(f[Len(parts)], StopReasonOf(f[Len(parts)].conv, finish))
  BY <1>2, ProcessResponseIs, Zenon
<1> DEFINE all == f[Len(parts)]
<1> HIDE DEF r
<1>4. PICK x : Arrives(size, w, f[Len(parts)], x) /\ (~Hazy(y, t) => Learned(f[Len(parts)].conv, y, t, x))
  BY <1>1, <1>2, <1>3, ChunkHeard
<1>5. Arrives(size, w, all, x) /\ (~Hazy(y, t) => Learned(all.conv, y, t, x))
  BY <1>4
<1>6. r = IF finish = "none" THEN all ELSE EndWith(all, StopReasonOf(all.conv, finish))
  BY <1>3
<1> HIDE DEF all
<1>7. CASE finish = "none"
  <2>1. r = all /\ ~all.err
    <3>1. IsStep(all)
      BY <1>5 DEF Arrives
    <3> QED
      BY <1>6, <1>7, <3>1, StepIs
  <2>2. /\ Emits(size, w, all.events, x) /\ Tracks(all.conv, x) /\ ~all.conv.finished
        /\ all.conv.started /\ Calling(all.conv)
    BY <1>5 DEF Arrives, Reads
  <2>3. ~Hazy(y, t) => Knows(all.conv, y, t, x)
    BY <1>5, <2>2 DEF Learned, Knows
  <2>4. FollowsGemini(all.conv, y, t, x)
    BY <1>7, <2>2, <2>3 DEF FollowsGemini
  <2> QED
    BY <2>1, <2>2, <2>4 DEF r
<1>8. CASE finish # "none"
  <2> DEFINE stop == StopReasonOf(all.conv, finish)
             e == EndWith(all, stop)
  <2>1. stop \in StopReasons /\ (stop = "tool_use" => all.conv.sawFunctionCall)
    BY DEF StopReasonOf, StopReasons
  <2>2. r = e
    BY <1>6, <1>8
  <2> HIDE DEF stop
  <2>3. PICK z : Emits(size, w, e.events, z) /\ EndsAs(all, e, x, z, stop)
    BY <1>5, <2>1, MessageEnds
  <2> HIDE DEF e
  <2>4. /\ Tracks(e.conv, z) /\ e.conv.finished /\ ~e.err /\ z.stop = stop
        /\ all.conv.sawFunctionCall => HasTool(z)
    BY <2>3 DEF EndsAs
  <2>5. e.conv.started
    BY <2>4 DEF Tracks
  <2>6. ~Hazy(y, t) => Knows(e.conv, y, t, z)
    <3> SUFFICES ASSUME ~Hazy(y, t) PROVE Recounts(z, t)
      BY <2>4 DEF Knows
    <3>1. Spoken(Aside, x) = Merged(t)
      BY <1>5 DEF Learned, Heeds
    <3> QED
      BY <2>3, <3>1 DEF EndsAs
  <2>7. FollowsGemini(e.conv, y, t, z)
    BY <1>8, <2>1, <2>4, <2>5, <2>6 DEF FollowsGemini
  <2> QED
    BY <2>2, <2>3, <2>4, <2>7 DEF r
<1> QED
  BY <1>7, <1>8

\* What a client holds when the upstream u, which said s, is done.
Concludes(u, s, x) ==
    /\ x \in Views
    /\ ~Hazy(u, s) => Recounts(x, s)
    /\ x.msg = "stopped" \/ (s = <<>> /\ x = NoMessage)
    /\ x.stop = "tool_use" => HasTool(x)

\* The end of the stream.
LEMMA EndFollows ==
    ASSUME NEW size \in Nat, NEW g, NEW u, NEW s, NEW w, FollowsGemini(g, u, s, w)
    PROVE  LET r == FinalizeGemini(g)
           IN  ~r.err /\ \E x : Emits(size, w, r.events, x) /\ Concludes(u, s, x)
<1> DEFINE r == FinalizeGemini(g)
<1>1. Tracks(g, w)
  BY DEF FollowsGemini
<1>2. /\ ~r.err
      /\ \E x : Emits(size, w, r.events, x) /\ Tracks(r.conv, x) /\ Kept(w, x)
                /\ x.msg = (IF g.started THEN "stopped" ELSE "none")
                /\ (~g.started \/ g.finished => x = w)
                /\ (g.started /\ ~g.finished => x.stop = "end_turn")
  BY <1>1, FinalizeTracks
<1> HIDE DEF r
<1>3. PICK x : /\ Emits(size, w, r.events, x) /\ Tracks(r.conv, x) /\ Kept(w, x)
               /\ x.msg = (IF g.started THEN "stopped" ELSE "none")
               /\ (~g.started \/ g.finished => x = w)
               /\ (g.started /\ ~g.finished => x.stop = "end_turn")
  BY <1>2
<1>4. w \in Views /\ x \in Views /\ (g.finished => g.started)
  BY <1>1, <1>3 DEF Tracks
<1>5. ASSUME ~g.finished, ~Hazy(u, s) PROVE Spoken(Aside, w) = Merged(s)
  BY <1>5 DEF FollowsGemini, Knows, Heeds
<1>6. ~Hazy(u, s) => Recounts(x, s)
  <2>1. CASE g.finished
    BY <1>3, <2>1 DEF FollowsGemini, Knows
  <2>2. CASE ~g.finished
    BY <1>3, <1>4, <1>5, <2>2, KeptRecounts
  <2> QED
    BY <2>1, <2>2
<1>7. x.msg = "stopped" \/ (s = <<>> /\ x = NoMessage)
  <2>1. CASE ~g.started
    <3>1. s = <<>> /\ w.msg = "none" /\ w = NoMessage
      BY <2>1 DEF FollowsGemini, Tracks
    <3> QED
      BY <1>3, <2>1, <3>1
  <2> QED
    BY <1>3, <2>1
<1>8. ASSUME x.stop = "tool_use" PROVE HasTool(x)
  <2>1. CASE ~g.started
    <3>1. x = NoMessage
      BY <1>3, <2>1 DEF Tracks
    <3> QED
      BY <1>8, <3>1 DEF NoMessage
  <2>2. CASE g.finished
    BY <1>3, <1>8, <2>2 DEF FollowsGemini
  <2> QED
    BY <1>3, <1>8, <2>1, <2>2
<1> QED
  BY <1>2, <1>3, <1>4, <1>6, <1>7, <1>8 DEF r, Concludes

\* An upstream is there.
LEMMA UpstreamHere ==
    ASSUME NEW u \in GeminiUpstreams
    PROVE  u # <<>>
<1>1. DOMAIN u = {"mode", "chunks", "called", "merged", "ended"}
  BY DEF GeminiUpstreams
<1>2. DOMAIN <<>> = {}
  OBVIOUS
<1> QED
  BY <1>1, <1>2

\* Of no block nothing is told.
LEMMA NothingTold ==
    ASSUME NEW omit
    PROVE  Spoken(omit, NoMessage) = <<>>
<1> DEFINE a == Spoken(omit, NoMessage)
           T == ToldBlocks(omit, NoMessage)
<1>1. NoMessage \in Views
  <2>1. 0 \in Nat
    OBVIOUS
  <2> QED
    BY <2>1, EmitsMessageStart
<1>2. T = {}
  <2>1. NoMessage.blocks = <<>> /\ Len(<<>>) = 0 /\ 1..0 = {}
    BY DEF NoMessage
  <2> QED
    BY <2>1 DEF ToldBlocks
<1>3. Tells(NoMessage, T, a)
  BY <1>1, SpokenIs
<1> HIDE DEF a, T
<1>4. Len(a) = 0 /\ a \in Seq(Pieces)
  BY <1>2, <1>3, FS_EmptySet DEF Tells
<1> QED
  BY <1>4, EmptySeq DEF a

\* Nothing is what nothing begins with.
LEMMA NothingBeneath == <<>> \in Seq(Pieces) /\ Beneath(<<>>, <<>>)
<1>1. <<>> \in Seq(Pieces)
  BY EmptySeq
<1>2. Len(<<>>) = 0 /\ 1..0 = {}
  OBVIOUS
<1>3. Under(<<>>, <<>>)
  BY <1>2 DEF Under
<1> QED
  BY <1>1, <1>3 DEF Beneath

\* What parts amount to, and a client that holds that, or its filling.
LEMMA RecountsBeneath ==
    ASSUME NEW s \in Seq(Heard), NEW x \in Views
    PROVE  /\ Merged(s) \in Seq(Pieces)
           /\ Recounts(x, s) => Beneath(Spoken(Aside, x), Merged(s))
<1> DEFINE m == Merged(s)
<1>1. m \in Seq(Pieces)
  BY MergedPieces
<1> HIDE DEF m
<1>2. ASSUME Recounts(x, s) PROVE Beneath(Spoken(Aside, x), m)
  <2>1. Spoken(Aside, x) = m \/ (m = <<>> /\ Spoken(Aside, x) = Filled)
    BY <1>2 DEF Recounts, m
  <2>2. Under(m, m)
    BY <1>1, UnderItself
  <2> QED
    BY <2>1, <2>2 DEF Beneath
<1> QED
  BY <1>1, <1>2 DEF m

\* What the converter follows is parts of an upstream.
LEMMA FollowsHeard ==
    ASSUME NEW g, NEW u, NEW s, NEW w, FollowsGemini(g, u, s, w)
    PROVE  u \in GeminiUpstreams /\ s \in Seq(Heard)
<1>1. u \in GeminiUpstreams /\ u.chunks \in Nat /\ s \in Seq(HeldParts(u.chunks))
  BY BoundsAssumption DEF FollowsGemini, GeminiUpstreams
<1> DEFINE n == u.chunks
<1>2. n \in Nat /\ s \in Seq(HeldParts(n))
  BY <1>1
<1> HIDE DEF n
<1>3. s \in Seq(Heard)
  BY <1>2, HeldHeard
<1> QED
  BY <1>1, <1>3

\* A client that follows was told what its upstream's parts amount to.
LEMMA GeminiBeneath ==
    ASSUME NEW g, NEW u, NEW s, NEW w, FollowsGemini(g, u, s, w)
    PROVE  /\ Merged(s) \in Seq(Pieces)
           /\ ~Hazy(u, s) => Beneath(Spoken(Aside, w), Merged(s))
<1>1. s \in Seq(Heard) /\ w \in Views
  BY FollowsHeard DEF FollowsGemini, Tracks
<1>2. ~Hazy(u, s) => Recounts(w, s)
  BY DEF FollowsGemini, Knows, Heeds, Recounts
<1> QED
  BY <1>1, <1>2, RecountsBeneath

\* A call in the message is told.
LEMMA ToolTold ==
    ASSUME NEW x \in Views, HasTool(x)
    PROVE  \E i \in DOMAIN Spoken(Aside, x) : Spoken(Aside, x)[i].kind = "tool"
<1> DEFINE a == Spoken(Aside, x)
           T == ToldBlocks(Aside, x)
<1>1. Tells(x, T, a)
  BY SpokenIs
<1>2. PICK j \in 1..Len(x.blocks) : x.blocks[j].kind = "tool"
  BY DEF HasTool
<1>3. j \in T
  BY <1>2 DEF ToldBlocks, Aside
<1> HIDE DEF a, T
<1>4. \E i \in 1..Len(a) : a[i].kind = "tool"
  <2>1. PICK k \in 1..Cardinality(T) : Ascending(T)[k] = j
    BY <1>1, <1>3 DEF Tells
  <2>2. a[k] = Bare(x.blocks[j]) /\ Len(a) = Cardinality(T)
    BY <1>1, <2>1 DEF Tells
  <2> QED
    BY <1>2, <2>1, <2>2 DEF Bare
<1>5. DOMAIN a = 1..Len(a)
  BY <1>1, LenProperties DEF Tells
<1> QED
  BY <1>4, <1>5 DEF a

\* t is s, its last text perhaps with one more letter.
Continues(s, t) ==
    \/ t = s
    \/ /\ Len(s) >= 1 /\ Len(t) = Len(s)
       /\ \A i \in 1..Len(s) - 1 : t[i] = s[i]
       /\ s[Len(s)].kind = "text" /\ t[Len(s)].kind = "text"
       /\ \E l \in Nat : t[Len(s)].data = Append(s[Len(s)].data, l)

\* A snapshot says again what was said, and perhaps more.
LEMMA RegrowsMore ==
    ASSUME NEW s \in Seq(Heard), NEW old \in Seq(Heard), NEW new \in Seq(Heard),
           Len(old) = Len(s), Continues(s, old)
    PROVE  Regrows(s, old \o new)
<1> DEFINE t == old \o new
<1>1. t \in Seq(Heard)
  BY ConcatProperties
<1>2. /\ Len(old) \in Nat /\ Len(t) \in Nat /\ Len(old) <= Len(t)
      /\ \A i \in 1..Len(old) : i \in 1..Len(t) /\ t[i] = old[i]
  BY <1>1, SentTexts
<1> HIDE DEF t
<1>3. \A i \in 1..Len(s) :
         \/ old[i] = s[i]
         \/ /\ i = Len(s) /\ s[i].kind = "text" /\ old[i].kind = "text"
            /\ \E l \in Nat : old[i].data = Append(s[i].data, l)
  <2>1. CASE old = s
    BY <2>1
  <2>2. CASE old # s
    <3> DEFINE m == Len(s)
    <3>1. /\ \A i \in 1..m - 1 : old[i] = s[i]
          /\ s[m].kind = "text" /\ old[m].kind = "text"
          /\ \E l \in Nat : old[m].data = Append(s[m].data, l)
      BY <2>2 DEF Continues
    <3>2. m \in Nat
      BY LenProperties
    <3> HIDE DEF m
    <3>3. \A i \in 1..m : i = m \/ i \in 1..m - 1
      BY <3>2
    <3> QED
      BY <3>1, <3>3 DEF m
  <2> QED
    BY <2>1, <2>2
<1>4. Regrows(s, t)
  BY <1>1, <1>2, <1>3 DEF Regrows
<1> QED
  BY <1>4 DEF t

\* A new converter follows an upstream that has said nothing.
LEMMA GeminiBegins ==
    ASSUME NEW u \in GeminiUpstreams, u.chunks = 0, u.ended = FALSE
    PROVE  FollowsGemini(NewConverter, u, <<>>, NoMessage)
<1> DEFINE g == NewConverter
           w == NoMessage
<1>1. /\ g.started = FALSE /\ g.finished = FALSE /\ g.sawFunctionCall = FALSE
      /\ g.textBlockOpen = FALSE /\ g.previousText = <<>>
      /\ \A i \in Positions : ~g.toolStates[i].open /\ g.toolStates[i].previousJSON = <<>>
  BY DEF NewConverter, NoTool
<1>2. Tracks(g, w)
  BY NewTracks
<1>3. Len(w.blocks) = 0 /\ 1..0 = {} /\ Len(<<>>) = 0
  BY DEF NoMessage
<1>4. Spoken(Aside, w) = Merged(<<>>)
  BY NothingTold, MergedNothing
<1>5. <<>> \in Seq(Heard) /\ <<>> \in Seq(HeldParts(u.chunks))
  BY EmptySeq
<1> HIDE DEF g, w
<1>6. TextsOf(<<>>) = {}
  BY <1>3 DEF TextsOf
<1>7. Heeds(g, w, <<>>)
  BY <1>1, <1>3, <1>4, <1>5, <1>6 DEF Heeds
<1>8. Repeats(g, <<>>) /\ Adds(g, u.called)
  BY <1>1, <1>3 DEF Repeats, Adds
<1>9. Knows(g, u, <<>>, w)
  BY <1>1, <1>7, <1>8 DEF Knows
<1>10. FollowsGemini(g, u, <<>>, w)
  BY <1>1, <1>2, <1>3, <1>5, <1>9 DEF FollowsGemini, Calling
<1> QED
  BY <1>10 DEF g, w

-----------------------------------------------------------------------------
(* The invariant of a conversation.                                        *)

\* How much an event may add to a block.
Size == MaxText + MaxChunks + MaxDeltas

Omitted == IF provider = "openai" THEN {} ELSE {"thinking"}
Told(w) == Spoken(Omitted, w)

\* What a client that holds w was told is what it should be, so far.
Faithful(w) == Expected \in Seq(Pieces) /\ (~Unclear => Beneath(Told(w), Expected))

\* A client that holds w at the end of an answer was told all of it.
Delivers(w) ==
    /\ \/ said = <<>> /\ w = NoMessage
       \/ w.msg = "stopped" /\ (Unclear \/ Told(w) = Expected \/ Expected = <<>>)
    /\ w.stop = "tool_use" => \E i \in DOMAIN Told(w) : Told(w)[i].kind = "tool"
    /\ provider = "openai" /\ (\E i \in DOMAIN Told(w) : Told(w)[i].kind = "tool") =>
          w.stop = "tool_use"

Follows(w) ==
    IF provider = "openai" THEN FollowsOpenAI(conv, upstream, said, w)
    ELSE FollowsGemini(conv, upstream, said, w)

\* The events on their way lead the client to w, which is what the converter
\* believes it holds.
Lawful(w) ==
    /\ Leads(Size, view, buffer \o queue, w)
    /\ Faithful(w)
    /\ then = "ok" => Delivers(w)
    /\ phase = "streaming" /\ then = "read" =>
          Follows(w) /\ (buffering # "on" => w.msg # "none")

\* Or they are the end of a message that was not begun, which follows the
\* error about a call that was never announced: they never leave the prelude.
Prelude ==
    /\ phase = "streaming" /\ then = "error" /\ buffering = "on"
    /\ view = NoMessage /\ ~MayBeFull(buffer \o queue)
    /\ Faithful(NoMessage)

\* Where Stream and the writer are.
Control ==
    /\ phase \in {"asked", "translated", "streaming", "followed"}
    /\ provider \in {"openai", "gemini"}
    /\ then \in {"read", "ok", "error"} /\ result \in {"none", "ok", "error"}
    /\ buffering \in {"on", "flushing", "off"}
    /\ buffer \in Seq(Events) /\ queue \in Seq(Events) /\ view \in Views
    /\ phase \in {"asked", "translated"} =>
          /\ queue = <<>> /\ buffer = <<>> /\ view = NoMessage /\ said = <<>>
          /\ then = "read" /\ buffering = "on" /\ result = "none"
    /\ phase = "followed" => then = "ok" /\ result = "ok"
    /\ buffering = "off" => buffer = <<>>
    /\ result = "ok" => queue = <<>> /\ buffer = <<>> /\ then = "ok" /\ buffering = "off"
    /\ result = "error" => queue = <<>> /\ then = "error"

StreamInv == Control /\ (Prelude \/ \E w : Lawful(w))

\* The writer's prelude and its queue, as the first event moves.
LEMMA AppendHead ==
    ASSUME NEW E, NEW p \in Seq(E), NEW q \in Seq(E), q # <<>>
    PROVE  /\ Append(p, Head(q)) \in Seq(E) /\ Tail(q) \in Seq(E)
           /\ Append(p, Head(q)) \o Tail(q) = p \o q
           /\ p \o q # <<>>
<1> DEFINE a == Append(p, Head(q))
           t == Tail(q)
           m == Len(p)
           n == Len(q)
<1>1. m \in Nat /\ n \in Nat /\ n >= 1 /\ DOMAIN q = 1..n
  BY EmptySeq, LenProperties
<1>2. /\ Head(q) \in E /\ Head(q) = q[1]
      /\ t \in Seq(E) /\ Len(t) = n - 1 /\ \A i \in 1..n - 1 : t[i] = q[i + 1]
  BY <1>1, HeadTailProperties
<1>3. /\ a \in Seq(E) /\ Len(a) = m + 1
      /\ \A i \in 1..m : a[i] = p[i]
      /\ a[m + 1] = q[1]
  BY <1>2, AppendProperties
<1> HIDE DEF a, t
<1>4. /\ p \o q \in Seq(E) /\ Len(p \o q) = m + n
      /\ \A i \in 1..m + n : (p \o q)[i] = IF i <= m THEN p[i] ELSE q[i - m]
  BY ConcatProperties
<1>5. /\ a \o t \in Seq(E) /\ Len(a \o t) = m + n
      /\ \A i \in 1..m + n : (a \o t)[i] = IF i <= m + 1 THEN a[i] ELSE t[i - (m + 1)]
  <2>1. /\ a \o t \in Seq(E) /\ Len(a \o t) = Len(a) + Len(t)
        /\ \A i \in 1..Len(a) + Len(t) : (a \o t)[i] = IF i <= Len(a) THEN a[i] ELSE t[i - Len(a)]
    BY <1>2, <1>3, ConcatProperties
  <2>2. Len(a) = m + 1 /\ Len(a) + Len(t) = m + n
    BY <1>1, <1>2, <1>3
  <2> QED
    BY <2>1, <2>2
<1> DEFINE x == p \o q
           y == a \o t
<1> HIDE DEF x, y, m, n
<1>6. \A i \in 1..m + n : y[i] = x[i]
  <2> TAKE i \in 1..m + n
  <2>1. CASE i <= m
    <3>1. i \in 1..m /\ i <= m + 1
      BY <1>1, <2>1
    <3> QED
      BY <1>3, <1>4, <1>5, <2>1, <3>1 DEF x, y
  <2>2. CASE i = m + 1
    <3>1. i - m = 1 /\ ~(i <= m)
      BY <1>1, <2>2
    <3> QED
      BY <1>1, <1>3, <1>4, <1>5, <2>2, <3>1 DEF x, y
  <2>3. CASE ~(i <= m + 1)
    <3> DEFINE l == i - (m + 1)
    <3>1. ~(i <= m) /\ l \in 1..n - 1 /\ i - m = l + 1
      BY <1>1, <2>3
    <3> HIDE DEF l
    <3>2. y[i] = t[l]
      BY <1>5, <2>3 DEF y, l
    <3>3. x[i] = q[l + 1]
      BY <1>4, <3>1 DEF x
    <3> QED
      BY <1>2, <3>1, <3>2, <3>3
  <2> QED
    BY <1>1, <2>1, <2>2, <2>3
<1>7. y = x
  BY <1>4, <1>5, <1>6, SeqEqual DEF x, y
<1>8. x # <<>>
  BY <1>1, <1>4, EmptySeq DEF x
<1> QED
  BY <1>2, <1>3, <1>7, <1>8 DEF x, y, a, t

\* The first of two sequences gives the first event.
LEMMA ConcatHead ==
    ASSUME NEW E, NEW p \in Seq(E), NEW q \in Seq(E), p # <<>>
    PROVE  /\ p \o q # <<>> /\ p \o q \in Seq(E) /\ Tail(p) \in Seq(E)
           /\ Head(p \o q) = Head(p) /\ Tail(p \o q) = Tail(p) \o q
<1> DEFINE r == p \o q
           t == Tail(p)
           m == Len(p)
           n == Len(q)
<1>1. m \in Nat /\ n \in Nat /\ m >= 1
  BY EmptySeq, LenProperties
<1>2. /\ Head(p) = p[1]
      /\ t \in Seq(E) /\ Len(t) = m - 1 /\ \A i \in 1..m - 1 : t[i] = p[i + 1]
  BY <1>1, HeadTailProperties
<1>3. /\ r \in Seq(E) /\ Len(r) = m + n
      /\ \A i \in 1..m + n : r[i] = IF i <= m THEN p[i] ELSE q[i - m]
  BY ConcatProperties
<1> HIDE DEF r, t
<1>4. r # <<>>
  BY <1>1, <1>3, EmptySeq
<1>5. /\ Head(r) = r[1]
      /\ Tail(r) \in Seq(E) /\ Len(Tail(r)) = m + n - 1
      /\ \A i \in 1..m + n - 1 : Tail(r)[i] = r[i + 1]
  BY <1>3, <1>4, HeadTailProperties
<1>6. Head(r) = Head(p)
  <2>1. 1 \in 1..m + n /\ 1 <= m
    BY <1>1
  <2> QED
    BY <1>2, <1>3, <1>5, <2>1
<1>7. /\ t \o q \in Seq(E) /\ Len(t \o q) = m + n - 1
      /\ \A i \in 1..m + n - 1 : (t \o q)[i] = IF i <= m - 1 THEN t[i] ELSE q[i - (m - 1)]
  <2>1. /\ t \o q \in Seq(E) /\ Len(t \o q) = Len(t) + n
        /\ \A i \in 1..Len(t) + n : (t \o q)[i] = IF i <= Len(t) THEN t[i] ELSE q[i - Len(t)]
    BY <1>2, ConcatProperties
  <2>2. Len(t) = m - 1 /\ Len(t) + n = m + n - 1
    BY <1>1, <1>2
  <2> QED
    BY <2>1, <2>2
<1> DEFINE y == t \o q
           z == Tail(r)
<1> HIDE DEF y, z, m, n
<1>8. \A i \in 1..m + n - 1 : z[i] = y[i]
  <2> TAKE i \in 1..m + n - 1
  <2> DEFINE l == i + 1
  <2>1. l \in 1..m + n /\ z[i] = r[l]
    BY <1>1, <1>5 DEF z
  <2>2. CASE i <= m - 1
    <3>1. l <= m /\ i \in 1..m - 1
      BY <1>1, <2>2
    <3> QED
      BY <1>2, <1>3, <1>7, <2>1, <2>2, <3>1 DEF y
  <2>3. CASE ~(i <= m - 1)
    <3>1. ~(l <= m) /\ l - m = i - (m - 1)
      BY <1>1, <2>3
    <3> HIDE DEF l
    <3>2. z[i] = q[l - m]
      BY <1>3, <2>1, <3>1
    <3>3. y[i] = q[i - (m - 1)]
      BY <1>7, <2>3 DEF y
    <3> QED
      BY <3>1, <3>2, <3>3
  <2> QED
    BY <2>2, <2>3
<1>9. z = y
  BY <1>5, <1>7, <1>8, SeqEqual DEF y, z
<1> QED
  BY <1>2, <1>3, <1>4, <1>6, <1>9 DEF r, t, y, z

\* What the client should be told depends on the upstream alone.
LEMMA FaithfulSame ==
    ASSUME provider' = provider, said' = said, upstream' = upstream, NEW w
    PROVE  (Faithful(w)' <=> Faithful(w)) /\ (Delivers(w)' <=> Delivers(w))
<1>1. Expected' = Expected /\ Unclear' = Unclear /\ Told(w)' = Told(w)
  BY DEF Expected, Unclear, Told, Omitted
<1> QED
  BY <1>1 DEF Faithful, Delivers

\* A client that holds less was told less.
LEMMA FaithfulLess ==
    ASSUME NEW v \in Views, NEW w \in Views, Grows(v, w), Faithful(w)
    PROVE  Faithful(v)
<1>1. /\ Told(v) \in Seq(Pieces) /\ Told(w) \in Seq(Pieces)
      /\ Under(Told(v), Told(w))
  BY SpokenIs, SpokenGrows DEF Told, Tells
<1>2. Expected \in Seq(Pieces) /\ (~Unclear => Beneath(Told(w), Expected))
  BY DEF Faithful
<1>3. ~Unclear => Beneath(Told(v), Expected)
  BY <1>1, <1>2, BeneathTransitive
<1> QED
  BY <1>2, <1>3 DEF Faithful

\* What the client holds, with nothing on its way.
LEMMA LawfulView ==
    ASSUME Control, NEW w, Lawful(w)
    PROVE  /\ Leads(Size, view, <<>>, view) /\ Faithful(view) /\ w \in Views
           /\ w.msg = "none" => buffer \o queue = <<>> /\ w = view
<1>1. Size \in Nat
  BY BoundsAssumption DEF Size
<1>2. buffer \o queue \in Seq(Events) /\ view \in Views
  BY ConcatProperties DEF Control
<1>3. Leads(Size, view, buffer \o queue, w) /\ Faithful(w)
  BY DEF Lawful
<1> DEFINE q == buffer \o queue
<1> HIDE DEF q
<1>4. w \in Views /\ (w.msg = "none" => q = <<>> /\ w = view) /\ Grows(view, w)
  BY <1>1, <1>2, <1>3, LeadsToView, LeadsGrows DEF q
<1>5. Faithful(view)
  BY <1>2, <1>3, <1>4, FaithfulLess
<1>6. Leads(Size, view, <<>>, view)
  BY <1>2, LeadsEmpty
<1> QED
  BY <1>4, <1>5, <1>6 DEF q

\* Nothing was said, and nothing told.
LEMMA NothingFaithful ==
    ASSUME said = <<>>
    PROVE  Faithful(NoMessage)
<1>1. Told(NoMessage) = <<>>
  BY NothingTold DEF Told
<1>2. Expected = <<>>
  BY MergedNothing DEF Expected
<1> QED
  BY <1>1, <1>2, NothingBeneath DEF Faithful

\* Init.
LEMMA StreamInvInit == Init => StreamInv
<1> SUFFICES ASSUME Init PROVE StreamInv
  OBVIOUS
<1>1. NoMessage \in Views /\ <<>> \in Seq(Events)
  <2>1. 0 \in Nat
    OBVIOUS
  <2> QED
    BY <2>1, EmitsMessageStart, EmptySeq
<1>2. Control
  BY <1>1 DEF Init, Control
<1>3. buffer \o queue = <<>>
  BY <1>1, ConcatEmptySeq DEF Init
<1>4. Faithful(NoMessage)
  BY NothingFaithful DEF Init
<1>5. Lawful(NoMessage)
  <2>1. Leads(Size, NoMessage, <<>>, NoMessage)
    BY <1>1, LeadsEmpty
  <2> QED
    BY <1>3, <1>4, <2>1 DEF Lawful, Init
<1> QED
  BY <1>2, <1>5 DEF StreamInv

\* Stream handles a step of the converter, and the client is led on.
LEMMA HandleKeeps ==
    ASSUME Control, NEW w, Lawful(w), Reading, NEW r, NEW next \in {"read", "ok", "error"},
           Handle(r, next), NEW x, Emits(Size, w, r.events, x),
           Faithful(x)', next = "ok" => Delivers(x)', next = "read" => Follows(x)'
    PROVE  StreamInv'
<1>1. /\ phase = "streaming" /\ then = "read" /\ queue = <<>> /\ buffering # "flushing"
      /\ phase' = phase /\ provider' = provider /\ buffer' = buffer /\ buffering' = buffering
      /\ view' = view /\ result' = result
      /\ queue' = r.events /\ then' = next
  BY DEF Reading, Handle, request_vars, writer_vars
<1>2. r.events \in Seq(Events) /\ Leads(Size, w, r.events, x)
  BY DEF Emits
<1>3. Control'
  BY <1>1, <1>2 DEF Control
<1>4. Leads(Size, view, buffer, w) /\ buffer \in Seq(Events) /\ (buffering # "on" => w.msg # "none")
  <2>1. Leads(Size, view, buffer \o queue, w) /\ (buffering # "on" => w.msg # "none")
    BY <1>1 DEF Lawful
  <2>2. buffer \in Seq(Events)
    BY DEF Control
  <2>3. buffer \o <<>> = buffer
    BY <2>2, ConcatEmptySeq
  <2> QED
    BY <1>1, <2>1, <2>2, <2>3
<1>5. Leads(Size, view, buffer \o r.events, x)
  BY <1>2, <1>4, LeadsConcat
<1>6. x.msg = "none" => x = w
  <2>1. Size \in Nat
    BY BoundsAssumption DEF Size
  <2> QED
    BY <1>2, <2>1, LeadsToView
<1>7. Lawful(x)'
  <2>1. Leads(Size, view', buffer' \o queue', x)
    BY <1>1, <1>5
  <2>2. then' = "ok" => Delivers(x)'
    BY <1>1
  <2>3. then' = "read" => Follows(x)' /\ (buffering' # "on" => x.msg # "none")
    BY <1>1, <1>4, <1>6
  <2> QED
    BY <2>1, <2>2, <2>3 DEF Lawful, Size
<1> QED
  BY <1>3, <1>7 DEF StreamInv

-----------------------------------------------------------------------------
(* The steps of a conversation with OpenAI.                                *)

\* A client of an answer that said s is faithful.
LEMMA OpenAIFaithful ==
    ASSUME provider = "openai", said \in Seq(SaidParts),
           NEW x \in Views, Says(x, said) \/ (said = <<>> /\ Fills(x))
    PROVE  Faithful(x)
<1>1. Expected = BareParts(said) /\ Told(x) = Spoken({}, x)
  BY DEF Expected, BareParts, Told, Omitted
<1> QED
  BY <1>1, SaysBeneath DEF Faithful

\* A client of an answer that ended was told all of it.
LEMMA OpenAIDelivers ==
    ASSUME provider = "openai", said \in Seq(SaidParts), NEW x \in Views, EndsOpenAI(said, x)
    PROVE  Faithful(x) /\ Delivers(x)
<1>1. Expected = BareParts(said) /\ Told(x) = Spoken({}, x)
  BY DEF Expected, BareParts, Told, Omitted
<1>2. /\ Says(x, said) => Told(x) = Expected
      /\ said = <<>> => Expected = <<>>
  BY <1>1, SaysSpoken
<1>3. /\ Told(x) \in Seq(Pieces) /\ Len(Told(x)) = Len(x.blocks)
      /\ \A i \in 1..Len(x.blocks) : Told(x)[i] = Bare(x.blocks[i])
  BY <1>1, SpokenAll
<1>4. DOMAIN Told(x) = 1..Len(x.blocks)
  BY <1>3, LenProperties
<1>5. \A i \in 1..Len(x.blocks) : Told(x)[i].kind = x.blocks[i].kind
  <2> TAKE i \in 1..Len(x.blocks)
  <2>1. Told(x)[i] = Bare(x.blocks[i])
    BY <1>3
  <2>2. Bare(x.blocks[i]).kind = x.blocks[i].kind
    BY DEF Bare
  <2> QED
    BY <2>1, <2>2
<1>6. CASE said = <<>> /\ x = NoMessage
  <2>1. Len(x.blocks) = 0 /\ x.stop = "none" /\ Len(<<>>) = 0 /\ 1..0 = {}
    BY <1>6 DEF NoMessage
  <2>2. Says(x, said)
    BY <1>6, <2>1 DEF Says
  <2>3. Faithful(x)
    BY <2>2, OpenAIFaithful
  <2>4. Delivers(x)
    BY <1>4, <1>6, <2>1 DEF Delivers
  <2> QED
    BY <2>3, <2>4
<1>7. CASE /\ x.msg = "stopped" /\ (Says(x, said) \/ (said = <<>> /\ Fills(x)))
           /\ x.stop = "tool_use" <=> \E i \in 1..Len(x.blocks) : x.blocks[i].kind = "tool"
  <2>1. Faithful(x)
    BY <1>7, OpenAIFaithful
  <2>2. Told(x) = Expected \/ Expected = <<>>
    BY <1>2, <1>7
  <2>3. x.stop = "tool_use" <=> \E i \in DOMAIN Told(x) : Told(x)[i].kind = "tool"
    BY <1>4, <1>5, <1>7
  <2>4. Delivers(x)
    BY <1>7, <2>2, <2>3 DEF Delivers
  <2> QED
    BY <2>1, <2>4
<1> QED
  BY <1>6, <1>7 DEF EndsOpenAI

\* An event of the upstream, about a part that is there.
LEMMA OpenAIGoes ==
    ASSUME Control, NEW w, Lawful(w), Reading, provider = "openai",
           NEW r, Process(r), GoesOn(Size, w, r, upstream', said')
    PROVE  StreamInv'
<1>1. PICK x : Emits(Size, w, r.events, x) /\ FollowsOpenAI(r.conv, upstream', said', x)
  BY DEF GoesOn
<1>2. Handle(r, "read")
  BY DEF GoesOn, Process
<1>3. provider' = provider /\ conv' = r.conv
  BY <1>2 DEF Reading, request_vars, Handle
<1>4. Follows(x)'
  BY <1>1, <1>3 DEF Follows
<1>5. /\ said' \in Seq(SaidParts) /\ x \in Views
      /\ Says(x, said') \/ (said' = <<>> /\ Fills(x))
  BY <1>1 DEF FollowsOpenAI, Matches
<1>6. Faithful(x)'
  <2>1. Expected' = BareParts(said') /\ Told(x)' = Spoken({}, x)
    BY <1>3 DEF Expected, BareParts, Told, Omitted
  <2> QED
    BY <1>5, <2>1, SaysBeneath DEF Faithful
<1> QED
  BY <1>1, <1>2, <1>4, <1>6, HandleKeeps

\* The end of the upstream's stream, or an error of it.
LEMMA OpenAIEnds ==
    ASSUME Control, NEW w, Lawful(w), Reading, provider = "openai",
           NEW next \in {"ok", "error"}, Handle(Finalize(conv), next), UNCHANGED <<upstream, said>>
    PROVE  StreamInv'
<1> DEFINE r == Finalize(conv)
<1>1. FollowsOpenAI(conv, upstream, said, w)
  BY DEF Reading, Lawful, Follows
<1>2. Size \in Nat
  BY BoundsAssumption DEF Size
<1>3. PICK x : Emits(Size, w, r.events, x) /\ x \in Views /\ EndsOpenAI(said, x)
  BY <1>1, <1>2, FinalizeFollows
<1>4. Handle(r, next)
  OBVIOUS
<1> HIDE DEF r
<1>5. said \in Seq(SaidParts)
  BY <1>1 DEF FollowsOpenAI
<1>6. Faithful(x) /\ Delivers(x)
  BY <1>3, <1>5, OpenAIDelivers
<1>7. Faithful(x)' /\ Delivers(x)'
  <2>1. provider' = provider /\ said' = said /\ upstream' = upstream
    BY DEF Reading, request_vars
  <2> QED
    BY <1>6, <2>1, FaithfulSame
<1> QED
  BY <1>3, <1>4, <1>7, HandleKeeps

\* An event that is an error: the message is finalized.
LEMMA OpenAIFails ==
    ASSUME Control, NEW w, Lawful(w), Reading, provider = "openai",
           Process(Failed(conv)), UNCHANGED <<upstream, said>>
    PROVE  StreamInv'
<1>1. Failed(conv).err /\ Failed(conv).conv = conv
  BY DEF Failed
<1>2. Handle(Finalize(conv), "error")
  BY <1>1 DEF Process, Final
<1> QED
  BY <1>2, OpenAIEnds

\* An event about a call that was never announced.
LEMMA OpenAIOrphan ==
    ASSUME Control, NEW w, Lawful(w), Reading, provider = "openai",
           Process(Failed(Started(conv))), UNCHANGED <<upstream, said>>
    PROVE  StreamInv'
<1> DEFINE r == Finalize(Started(conv))
<1>1. FollowsOpenAI(conv, upstream, said, w) /\ (buffering # "on" => w.msg # "none")
  BY DEF Reading, Lawful, Follows
<1>2. conv \in Converters /\ (~conv.messageStarted => w.msg = "none")
  BY <1>1 DEF FollowsOpenAI, Matches
<1>3. Handle(r, "error")
  <2>1. Failed(Started(conv)).err /\ Failed(Started(conv)).conv = Started(conv)
    BY DEF Failed
  <2> QED
    BY <2>1 DEF Process, Final
<1>4. CASE conv.messageStarted
  <2>1. Started(conv) = conv
    BY <1>2, <1>4 DEF Started, Converters
  <2> QED
    BY <1>3, <2>1, OpenAIEnds
<1>5. CASE ~conv.messageStarted
  <2>1. /\ buffering = "on" /\ phase = "streaming" /\ phase' = phase /\ provider' = provider
        /\ queue = <<>> /\ result' = result /\ view' = view /\ buffer' = buffer
        /\ buffering' = buffering /\ said' = said /\ upstream' = upstream /\ then = "read"
    BY <1>1, <1>2, <1>5 DEF Reading, request_vars, writer_vars, Control
  <2>2. buffer = <<>> /\ w = view /\ Faithful(view)
    <3>1. buffer \o queue = <<>> /\ w = view /\ Faithful(view)
      BY <1>2, <1>5, LawfulView
    <3>2. buffer \o <<>> = buffer
      BY ConcatEmptySeq DEF Control
    <3> QED
      BY <2>1, <3>1, <3>2
  <2>3. w = NoMessage
    BY <1>1, <1>2, <1>5 DEF FollowsOpenAI, Matches
  <2>4. ~r.err /\ r.events \in Seq(Events) /\ ~MayBeFull(r.events)
    BY <1>1, <1>5, FinalizeOrphan
  <2>5. queue' = r.events /\ then' = "error"
    BY <1>3 DEF Handle
  <2> HIDE DEF r
  <2>6. buffer' \o queue' = r.events
    BY <2>1, <2>2, <2>4, <2>5, ConcatEmptySeq
  <2>7. Faithful(NoMessage)'
    BY <2>1, <2>2, <2>3, FaithfulSame
  <2>8. Prelude'
    BY <2>1, <2>2, <2>3, <2>4, <2>5, <2>6, <2>7 DEF Prelude
  <2>9. Control'
    BY <2>1, <2>4, <2>5 DEF Control
  <2> QED
    BY <2>8, <2>9 DEF StreamInv
<1> QED
  BY <1>4, <1>5

\* The upstream announces a part.
LEMMA AddKeeps ==
    ASSUME Control, NEW w, Lawful(w), Reading, provider = "openai", ~upstream.ended,
           NEW p \in Parts, Add(p)
    PROVE  StreamInv'
<1>1. PICK k \in Kinds :
         /\ HearOpenAI([type |-> "added", part |-> p, kind |-> k])
         /\ said' = Append(said, [kind |-> k, data |-> <<>>, signature |-> 0])
  BY DEF Add
<1> DEFINE r == Added(conv, p, k)
           e == [type |-> "added", part |-> p, kind |-> k]
<1>2. ProcessEvent(conv, e) = r
  <2>1. e.type = "added" /\ e.part = p /\ e.kind = k
    OBVIOUS
  <2> HIDE DEF e
  <2> QED
    BY <2>1 DEF ProcessEvent
<1>3. Process(r)
  BY <1>1, <1>2 DEF HearOpenAI
<1>4. upstream.part[p] = 0 /\ upstream' = [upstream EXCEPT !.part[p] = Len(said) + 1]
  BY DEF Add
<1>5. FollowsOpenAI(conv, upstream, said, w) /\ Size \in Nat
  BY BoundsAssumption DEF Reading, Lawful, Follows, Size
<1>6. GoesOn(Size, w, r, upstream', said')
  <2>1. GoesOn(Size, w, Added(conv, p, k), [upstream EXCEPT !.part[p] = Len(said) + 1],
               Append(said, [kind |-> k, data |-> <<>>, signature |-> 0]))
    BY <1>4, <1>5, AddFollows
  <2> QED
    BY <1>1, <1>4, <2>1, Zenon
<1> HIDE DEF r
<1> QED
  BY <1>3, <1>6, OpenAIGoes

\* The upstream goes on with a part.
LEMMA ExtendKeeps ==
    ASSUME Control, NEW w, Lawful(w), Reading, provider = "openai", ~upstream.ended,
           NEW p \in Parts, Extend(p)
    PROVE  StreamInv'
<1> DEFINE n == upstream.part[p]
           letter == Len(said[n].data) + 1
           e == [type |-> "delta", part |-> p, kind |-> said[n].kind, data |-> <<letter>>]
           r == ProcessEvent(conv, e)
           t == [said EXCEPT ![n].data = Append(@, letter)]
<1>1. /\ n # 0 /\ p \notin upstream.done /\ letter <= MaxDeltas
      /\ Process(r) /\ said' = t /\ upstream' = upstream
  BY DEF Extend, HearOpenAI
<1>2. FollowsOpenAI(conv, upstream, said, w)
  BY DEF Reading, Lawful, Follows
<1>3. letter \in Nat /\ letter >= 1
  <2>1. BlockOfPart(conv, upstream, said, p) /\ said \in Seq(SaidParts)
    BY <1>2 DEF FollowsOpenAI
  <2>2. Len(said) \in Nat
    BY <2>1, LenProperties
  <2>3. n \in 1..Len(said)
    BY <1>1, <2>1, <2>2 DEF BlockOfPart
  <2>4. said[n] \in SaidParts
    BY <2>1, <2>3, ElementOfSeq
  <2>5. said[n].data \in Seq(Nat)
    BY <2>4 DEF SaidParts
  <2>6. Len(said[n].data) \in Nat
    BY <2>5, LenProperties
  <2> QED
    BY <2>6
<1>4. Size \in Nat /\ letter <= Size /\ 1 <= Size
  BY <1>1, <1>3, BoundsAssumption DEF Size
<1>5. GoesOn(Size, w, r, upstream, t)
  <2> DEFINE k == said[n].kind
             l == letter
             q == ProcessEvent(conv, [type |-> "delta", part |-> p, kind |-> k, data |-> <<l>>])
             y == [said EXCEPT ![upstream.part[p]].data = Append(@, l)]
  <2>1. k = said[upstream.part[p]].kind /\ upstream.part[p] # 0
    BY <1>1
  <2>2. q = r /\ y = t
    OBVIOUS
  <2>3. l \in Nat /\ l <= Size /\ 1 <= Size /\ Size \in Nat
    BY <1>3, <1>4
  <2> HIDE DEF k, l, r, t, letter, n
  <2>4. GoesOn(Size, w, q, upstream, y)
    BY <1>1, <1>2, <2>1, <2>3, ExtendFollows
  <2> QED
    BY <2>2, <2>4, Zenon
<1> HIDE DEF r, t
<1>6. GoesOn(Size, w, r, upstream', said')
  BY <1>1, <1>5
<1> QED
  BY <1>1, <1>6, OpenAIGoes

\* The upstream is done with a part.
LEMMA CompleteKeeps ==
    ASSUME Control, NEW w, Lawful(w), Reading, provider = "openai", ~upstream.ended,
           NEW p \in Parts, Complete(p)
    PROVE  StreamInv'
<1> DEFINE e == [type |-> "done", part |-> p]
           r == Done(conv, p)
<1>1. /\ upstream.part[p] # 0 /\ p \notin upstream.done /\ said' = said
      /\ Process(ProcessEvent(conv, e))
      /\ upstream' = [upstream EXCEPT !.done = @ \cup {p}]
  BY DEF Complete, HearOpenAI
<1>2. ProcessEvent(conv, e) = r
  <2>1. e.type = "done" /\ e.part = p
    OBVIOUS
  <2> HIDE DEF e
  <2> QED
    BY <2>1 DEF ProcessEvent
<1>3. FollowsOpenAI(conv, upstream, said, w) /\ Size \in Nat
  BY BoundsAssumption DEF Reading, Lawful, Follows, Size
<1>4. GoesOn(Size, w, r, [upstream EXCEPT !.done = @ \cup {p}], said)
  BY <1>1, <1>3, CompleteFollows
<1> HIDE DEF r
<1>5. GoesOn(Size, w, r, upstream', said') /\ Process(r)
  BY <1>1, <1>2, <1>4
<1> QED
  BY <1>5, OpenAIGoes

\* A converter that has no block for a part.
LEMMA OrphanStep ==
    ASSUME NEW c, NEW p, c.block[p] = -1, NEW k \in Kinds, NEW d
    PROVE  /\ ProcessEvent(c, [type |-> "delta", part |-> p, kind |-> k, data |-> d])
                    \in {Failed(c), Failed(Started(c)), Silent(c)}
           /\ ProcessEvent(c, [type |-> "done", part |-> p]) = Silent(c)
<1> DEFINE e == [type |-> "delta", part |-> p, kind |-> k, data |-> d]
           f == [type |-> "done", part |-> p]
<1>1. e.type = "delta" /\ e.part = p /\ e.kind = k /\ e.data = d /\ f.type = "done" /\ f.part = p
  OBVIOUS
<1>2. Missing(c, p)
  BY DEF Missing, None
<1> HIDE DEF e, f
<1>3. ProcessEvent(c, f) = Silent(c)
  BY <1>1, <1>2 DEF ProcessEvent, Done
<1>4. CASE k = "text"
  <2>1. ProcessEvent(c, e) = TextDelta(c, p, d)
    BY <1>1, <1>4 DEF ProcessEvent
  <2> QED
    BY <1>2, <1>3, <2>1 DEF TextDelta, e, f
<1>5. CASE k = "tool"
  <2>1. ProcessEvent(c, e) = CallDelta(c, p, d)
    BY <1>1, <1>5 DEF ProcessEvent
  <2> QED
    BY <1>2, <1>3, <2>1 DEF CallDelta, e, f
<1>6. CASE k = "thinking"
  <2>1. ProcessEvent(c, e) = ThinkingDelta(c, p, d)
    BY <1>1, <1>6 DEF ProcessEvent
  <2> QED
    BY <1>2, <1>3, <2>1 DEF ThinkingDelta, e, f
<1> QED
  BY <1>4, <1>5, <1>6 DEF Kinds

\* An event that changes nothing.
LEMMA SilentKeeps ==
    ASSUME Control, NEW w, Lawful(w), Reading, provider = "openai", ~upstream.ended,
           Process(Silent(conv)), UNCHANGED <<upstream, said>>
    PROVE  StreamInv'
<1>1. FollowsOpenAI(conv, upstream, said, w) /\ Size \in Nat
  BY BoundsAssumption DEF Reading, Lawful, Follows, Size
<1>2. GoesOn(Size, w, Silent(conv), [upstream EXCEPT !.ended = FALSE], said)
  BY <1>1, SignalFollows
<1>3. upstream = [upstream EXCEPT !.ended = FALSE]
  <2>1. upstream \in OpenAIUpstreams /\ upstream.ended = FALSE
    BY <1>1 DEF FollowsOpenAI, OpenAIUpstreams
  <2> QED
    BY <2>1 DEF OpenAIUpstreams
<1> DEFINE r == Silent(conv)
<1> HIDE DEF r
<1>4. GoesOn(Size, w, r, upstream', said') /\ Process(r)
  BY <1>2, <1>3 DEF r
<1> QED
  BY <1>4, OpenAIGoes

\* The upstream refers to a part it never announced.
LEMMA OrphanKeeps ==
    ASSUME Control, NEW w, Lawful(w), Reading, provider = "openai", ~upstream.ended,
           NEW p \in Parts, Orphan(p)
    PROVE  StreamInv'
<1>1. upstream.part[p] = 0 /\ UNCHANGED <<upstream, said>>
  BY DEF Orphan
<1>2. FollowsOpenAI(conv, upstream, said, w)
  BY DEF Reading, Lawful, Follows
<1>3. conv.block[p] = -1
  <2>1. conv.block[p] = upstream.part[p] - 1
    BY <1>2 DEF FollowsOpenAI, BlockOfPart
  <2> QED
    BY <1>1, <2>1
<1>4. \/ Process(Failed(conv)) \/ Process(Failed(Started(conv)))
      \/ Process(Silent(conv))
  <2>1. CASE HearOpenAI([type |-> "done", part |-> p])
    <3>1. ProcessEvent(conv, [type |-> "done", part |-> p]) = Silent(conv)
      <4>1. "text" \in Kinds
        BY DEF Kinds
      <4> QED
        BY <1>3, <4>1, OrphanStep
    <3> QED
      BY <2>1, <3>1 DEF HearOpenAI
  <2> DEFINE delta(k) == [type |-> "delta", part |-> p, kind |-> k, data |-> <<1>>]
  <2>2. ASSUME NEW k \in Kinds, HearOpenAI(delta(k))
        PROVE  \/ Process(Failed(conv)) \/ Process(Failed(Started(conv)))
               \/ Process(Silent(conv))
    <3> DEFINE r == ProcessEvent(conv, delta(k))
    <3>1. r \in {Failed(conv), Failed(Started(conv)), Silent(conv)}
      BY <1>3, OrphanStep
    <3>2. Process(r)
      BY <2>2 DEF HearOpenAI
    <3> HIDE DEF r
    <3> QED
      BY <3>1, <3>2
  <2> QED
    BY <2>1, <2>2 DEF Orphan
<1> QED
  BY <1>1, <1>4, OpenAIFails, OpenAIOrphan, SilentKeeps

\* The steps that events without a part make.
LEMMA SignalStep ==
    ASSUME NEW c
    PROVE  /\ ProcessEvent(c, [type |-> "created"]) = Begin(c)
           /\ ProcessEvent(c, [type |-> "completed"]) = Completed(c)
           /\ ProcessEvent(c, [type |-> "malformed"]) = Failed(c)
           /\ ProcessEvent(c, [type |-> "failed"]) = Silent(c)
<1>1. ASSUME NEW type
      PROVE  LET e == [type |-> type]
             IN  /\ type = "created" => ProcessEvent(c, e) = Begin(c)
                 /\ type = "completed" => ProcessEvent(c, e) = Completed(c)
                 /\ type = "malformed" => ProcessEvent(c, e) = Failed(c)
                 /\ type = "failed" => ProcessEvent(c, e) = Silent(c)
  <2> DEFINE e == [type |-> type]
  <2>1. e.type = type
    OBVIOUS
  <2> HIDE DEF e
  <2> QED
    BY <2>1 DEF ProcessEvent, e
<1> QED
  BY <1>1

\* The upstream signals that it began, is complete, or failed.
LEMMA SignalKeeps ==
    ASSUME Control, NEW w, Lawful(w), Reading, provider = "openai", ~upstream.ended,
           NEW type \in {"created", "completed", "malformed", "failed"}, Signal(type)
    PROVE  StreamInv'
<1>1. /\ Process(ProcessEvent(conv, [type |-> type])) /\ said' = said
      /\ upstream' = [upstream EXCEPT !.ended = (type = "completed")]
  BY DEF Signal, HearOpenAI
<1>2. FollowsOpenAI(conv, upstream, said, w) /\ Size \in Nat
  BY BoundsAssumption DEF Reading, Lawful, Follows, Size
<1>3. upstream = [upstream EXCEPT !.ended = FALSE]
  <2>1. upstream \in OpenAIUpstreams /\ upstream.ended = FALSE
    BY <1>2 DEF FollowsOpenAI, OpenAIUpstreams
  <2> QED
    BY <2>1 DEF OpenAIUpstreams
<1>4. /\ GoesOn(Size, w, Begin(conv), [upstream EXCEPT !.ended = FALSE], said)
      /\ GoesOn(Size, w, Completed(conv), [upstream EXCEPT !.ended = TRUE], said)
  BY <1>2, SignalFollows
<1>5. type # "completed" => upstream' = upstream
  <2>1. type # "completed" => upstream' = [upstream EXCEPT !.ended = FALSE]
    BY <1>1
  <2> QED
    BY <1>3, <2>1
<1>6. type = "completed" => upstream' = [upstream EXCEPT !.ended = TRUE]
  BY <1>1
<1>7. CASE type = "created"
  <2> DEFINE r == Begin(conv)
  <2>1. Process(r)
    BY <1>1, <1>7, SignalStep
  <2>2. GoesOn(Size, w, r, upstream', said')
    BY <1>1, <1>3, <1>4, <1>5, <1>7
  <2> HIDE DEF r
  <2> QED
    BY <2>1, <2>2, OpenAIGoes
<1>8. CASE type = "completed"
  <2> DEFINE r == Completed(conv)
  <2>1. Process(r)
    BY <1>1, <1>8, SignalStep
  <2>2. GoesOn(Size, w, r, upstream', said')
    BY <1>1, <1>4, <1>6, <1>8
  <2> HIDE DEF r
  <2> QED
    BY <2>1, <2>2, OpenAIGoes
<1>9. CASE type = "malformed"
  <2>1. Process(Failed(conv))
    BY <1>1, <1>9, SignalStep
  <2> QED
    BY <1>1, <1>5, <1>9, <2>1, OpenAIFails
<1>10. CASE type = "failed"
  <2>1. Process(Silent(conv))
    BY <1>1, <1>10, SignalStep
  <2> QED
    BY <1>1, <1>5, <1>10, <2>1, SilentKeeps
<1> QED
  BY <1>7, <1>8, <1>9, <1>10

\* Whatever OpenAI sends, Stream and its client go on as they should.
LEMMA OpenAIEventKeeps ==
    ASSUME Control, NEW w, Lawful(w), OpenAIEvent
    PROVE  StreamInv'
<1>1. Reading /\ provider = "openai" /\ ~upstream.ended
  BY DEF OpenAIEvent
<1>2. ASSUME NEW p \in Parts, Add(p) \/ Extend(p) \/ Complete(p) \/ Orphan(p)
      PROVE  StreamInv'
  BY <1>1, <1>2, AddKeeps, ExtendKeeps, CompleteKeeps, OrphanKeeps
<1>3. ASSUME NEW type \in {"created", "completed", "malformed", "failed"}, Signal(type)
      PROVE  StreamInv'
  BY <1>1, <1>3, SignalKeeps
<1> QED
  BY <1>2, <1>3 DEF OpenAIEvent

-----------------------------------------------------------------------------
(* The steps of a conversation with Gemini.                                *)

\* What new parts hold.
LEMMA NewPartsIs ==
    ASSUME NEW n \in Nat, NEW q \in NewParts(n)
    PROVE  q \in Seq(HeldParts(1)) /\ Len(q) <= MaxNew
<1> DEFINE part == [kind : {"text"}, data : Texts, signature : {0}]
                   \cup [kind : {"thought", "call"}, data : {<<k>> : k \in n + 1..n + MaxNew},
                         signature : 0..n + MaxNew]
           H == HeldParts(1)
<1>1. PICK k \in 0..MaxNew : q \in [1..k -> part]
  BY DEF NewParts
<1>2. \A p \in part : p \in H
  <2> TAKE p \in part
  <2>1. \A l \in Nat : <<l>> \in Seq(Nat) /\ Len(<<l>>) = 1 /\ <<l>> # <<>>
    OBVIOUS
  <2>2. CASE p \in [kind : {"text"}, data : Texts, signature : {0}]
    <3>1. p.kind = "text" /\ p.signature = 0 /\ p.data \in Texts
      BY <2>2
    <3>2. PICK m \in 1..MaxText : p.data \in [1..m -> Letters]
      BY <3>1, BoundsAssumption
    <3>3. m \in Nat /\ m >= 1 /\ m <= MaxText /\ MaxText \in Nat
      BY BoundsAssumption
    <3>4. p.data \in [1..m -> Nat]
      <4>1. Letters \subseteq Nat
        BY BoundsAssumption
      <4> QED
        BY <3>2, <4>1
    <3>5. p.data \in Seq(Nat) /\ Len(p.data) = m
      BY <3>3, <3>4, SeqDef, LenProperties
    <3>6. p.data # <<>> /\ Len(p.data) <= MaxText + 1
      BY <3>3, <3>5
    <3>7. p \in SaidParts
      BY <2>2, <3>1, <3>5 DEF SaidParts, PartKinds
    <3> QED
      BY <3>1, <3>6, <3>7 DEF HeldParts, Heard, PartKinds
  <2>3. CASE p \in [kind : {"thought", "call"}, data : {<<l>> : l \in n + 1..n + MaxNew},
                    signature : 0..n + MaxNew]
    <3>1. PICK l \in n + 1..n + MaxNew : p.data = <<l>>
      BY <2>3
    <3>2. l \in Nat /\ p.kind \in {"thought", "call"} /\ p.signature \in Nat
      BY <2>3, BoundsAssumption
    <3>3. p.data \in Seq(Nat) /\ Len(p.data) = 1 /\ p.data # <<>>
      BY <2>1, <3>1, <3>2
    <3>4. p \in SaidParts
      BY <2>3, <3>2, <3>3 DEF SaidParts, PartKinds
    <3>5. p.kind \in PartKinds /\ Len(p.data) <= (IF p.kind = "text" THEN MaxText + 1 ELSE 1)
      BY <3>2, <3>3 DEF PartKinds
    <3> QED
      BY <3>3, <3>4, <3>5 DEF HeldParts, Heard
  <2> QED
    BY <2>2, <2>3
<1> HIDE DEF part
<1>3. k \in Nat /\ k <= MaxNew
  BY BoundsAssumption
<1>4. q \in [1..k -> H]
  <2>1. \A i \in 1..k : q[i] \in part
    BY <1>1
  <2> QED
    BY <1>1, <1>2, <2>1
<1> HIDE DEF H
<1>5. q \in Seq(H) /\ Len(q) = k
  BY <1>3, <1>4, SeqDef, LenProperties
<1> QED
  BY <1>3, <1>4, <1>5 DEF H

\* After more chunks a part may hold more.
LEMMA HeldMore ==
    ASSUME NEW m \in Nat, NEW n \in Nat, m <= n, NEW s \in Seq(HeldParts(m))
    PROVE  s \in Seq(HeldParts(n)) /\ s \in Seq(SaidParts)
<1>1. \A p \in HeldParts(m) : p \in HeldParts(n) /\ p \in SaidParts
  <2> TAKE p \in HeldParts(m)
  <2>1. p \in Heard /\ p \in SaidParts /\ Len(p.data) <= IF p.kind = "text" THEN MaxText + m ELSE 1
    BY DEF HeldParts, Heard
  <2>2. p.data \in Seq(Nat)
    BY <2>1 DEF SaidParts
  <2>3. Len(p.data) \in Nat
    BY <2>2, LenProperties
  <2>4. Len(p.data) <= IF p.kind = "text" THEN MaxText + n ELSE 1
    BY <2>1, <2>3, BoundsAssumption
  <2> QED
    BY <2>1, <2>4 DEF HeldParts
<1>2. Len(s) \in Nat /\ s \in [1..Len(s) -> HeldParts(m)]
  BY LenProperties
<1> DEFINE k == Len(s)
<1> HIDE DEF k
<1>3. s \in [1..k -> HeldParts(m)] /\ k \in Nat
  BY <1>2 DEF k
<1>4. s \in [1..k -> HeldParts(n)] /\ s \in [1..k -> SaidParts]
  BY <1>1, <1>3
<1> QED
  BY <1>3, <1>4, SeqDef

\* A snapshot goes on with what was said.
LEMMA ContinuedIs ==
    ASSUME NEW n \in Nat, NEW s \in Seq(HeldParts(n)), NEW t \in Continued(s)
    PROVE  t \in Seq(HeldParts(n + 1)) /\ Len(t) = Len(s) /\ Continues(s, t)
<1> DEFINE m == Len(s)
           H == HeldParts(n + 1)
<1>1. s \in Seq(H) /\ m \in Nat
  <2>1. n <= n + 1 /\ n + 1 \in Nat
    OBVIOUS
  <2> QED
    BY <2>1, HeldMore, LenProperties
<1>2. CASE t = s
  BY <1>1, <1>2 DEF Continues
<1>3. CASE t # s
  <2>1. /\ s # <<>> /\ Last(s).kind = "text"
        /\ \E l \in Letters : t = Front(s) \o <<[Last(s) EXCEPT !.data = Append(@, l)]>>
    BY <1>3 DEF Continued
  <2> DEFINE e == s[m]
  <2>2. m >= 1 /\ Last(s) = e
    BY <1>1, <2>1, EmptySeq DEF Last
  <2>3. e \in HeldParts(n) /\ e.kind = "text"
    BY <1>1, <2>1, <2>2, ElementOfSeq
  <2> HIDE DEF e
  <2>4. PICK l \in Letters : t = Front(s) \o <<[e EXCEPT !.data = Append(@, l)]>>
    BY <2>1, <2>2
  <2> DEFINE d == Append(e.data, l)
             f == [e EXCEPT !.data = d]
  <2>5. l \in Nat /\ e \in SaidParts /\ e.data \in Seq(Nat) /\ Len(e.data) \in Nat /\ Len(e.data) <= MaxText + n
    <3>1. e \in SaidParts /\ Len(e.data) <= MaxText + n
      BY <2>3 DEF HeldParts, Heard
    <3>2. e.data \in Seq(Nat)
      BY <3>1 DEF SaidParts
    <3> QED
      BY <3>1, <3>2, BoundsAssumption, LenProperties
  <2>6. d \in Seq(Nat) /\ Len(d) = Len(e.data) + 1 /\ d # <<>>
    <3>1. d \in Seq(Nat) /\ Len(d) = Len(e.data) + 1
      BY <2>5, AppendProperties
    <3>2. Len(d) # 0
      BY <2>5, <3>1
    <3>3. Len(<<>>) = 0
      OBVIOUS
    <3> HIDE DEF d
    <3> QED
      BY <3>1, <3>2, <3>3
  <2>7. t = Front(s) \o <<f>>
    BY <2>4
  <2> HIDE DEF d
  <2>8. f \in SaidParts /\ f.kind = "text" /\ f.data = d
    BY <2>3, <2>5, <2>6 DEF SaidParts
  <2> HIDE DEF f
  <2>9. f \in H
    <3>1. Len(f.data) <= MaxText + (n + 1)
      BY <2>5, <2>6, <2>8, BoundsAssumption
    <3>2. f.kind \in PartKinds /\ Len(f.data) <= (IF f.kind = "text" THEN MaxText + (n + 1) ELSE 1)
      BY <2>8, <3>1 DEF PartKinds
    <3> QED
      BY <2>6, <2>8, <3>2 DEF HeldParts, Heard
  <2> DEFINE g == Front(s)
  <2>10. g \in Seq(H) /\ Len(g) = m - 1 /\ \A i \in 1..m - 1 : g[i] = s[i]
    <3>1. g = SubSeq(s, 1, m - 1)
      BY DEF Front
    <3> HIDE DEF g
    <3>2. \A i \in 1..m - 1 : i \in 1..m
      BY <1>1
    <3>3. 1 \in 1..m + 1 /\ m - 1 \in 1 - 1..m
      BY <1>1, <2>2
    <3>4. /\ SubSeq(s, 1, m - 1) \in Seq(H)
          /\ Len(SubSeq(s, 1, m - 1)) = IF 1 <= m - 1 THEN m - 1 - 1 + 1 ELSE 0
          /\ \A i \in 1..m - 1 - 1 + 1 : SubSeq(s, 1, m - 1)[i] = s[1 + i - 1]
      BY <1>1, <3>3, SubSeqProperties
    <3>5. m - 1 - 1 + 1 = m - 1 /\ \A i \in 1..m - 1 : 1 + i - 1 = i
      BY <1>1
    <3> QED
      BY <1>1, <2>2, <3>1, <3>4, <3>5
  <2> HIDE DEF g, H
  <2>11. <<f>> \in Seq(H) /\ Len(<<f>>) = 1 /\ <<f>>[1] = f
    BY <2>9
  <2>12. /\ t \in Seq(H) /\ Len(t) = m - 1 + 1
         /\ \A i \in 1..m - 1 + 1 : t[i] = IF i <= m - 1 THEN g[i] ELSE <<f>>[i - (m - 1)]
    BY <2>7, <2>10, <2>11, ConcatProperties DEF g
  <2> HIDE DEF m
  <2>13. Len(t) = m /\ t[m] = f /\ \A i \in 1..m - 1 : t[i] = s[i]
    <3>1. m - 1 + 1 = m /\ m \in 1..m /\ ~(m <= m - 1) /\ m - (m - 1) = 1
      BY <1>1, <2>2
    <3>2. \A i \in 1..m - 1 : i \in 1..m /\ i <= m - 1
      BY <1>1
    <3> QED
      BY <2>10, <2>11, <2>12, <3>1, <3>2
  <2> QED
    BY <2>2, <2>3, <2>5, <2>8, <2>12, <2>13 DEF Continues, m, H, e, d
<1> QED
  BY <1>2, <1>3

\* A part that may be held is one a chunk may have.
LEMMA HeldIsPart ==
    ASSUME NEW n \in 1..MaxChunks, NEW s \in Seq(HeldParts(n))
    PROVE  Len(s) \in Nat /\ \A i \in 1..Len(s) : IsPart(Size, s[i])
<1>1. /\ MaxText \in Nat /\ MaxChunks \in Nat /\ MaxDeltas \in Nat
      /\ n \in Nat /\ 1 <= n /\ 1 <= Size /\ MaxText + n <= Size
  BY BoundsAssumption DEF Size
<1>2. \A p \in HeldParts(n) : IsPart(Size, p)
  <2> TAKE p \in HeldParts(n)
  <2>1. p \in SaidParts /\ p.kind \in PartKinds /\ Len(p.data) <= IF p.kind = "text" THEN MaxText + n ELSE 1
    BY DEF HeldParts, Heard
  <2>2. p.data \in Seq(Nat) /\ p.signature \in Nat
    BY <2>1 DEF SaidParts
  <2>3. Len(p.data) \in Nat /\ Size \in Nat
    BY <1>1, <2>2, LenProperties DEF Size
  <2>4. Len(p.data) <= Size
    BY <1>1, <2>1, <2>3
  <2> QED
    BY <2>1, <2>2, <2>4 DEF IsPart
<1> QED
  BY <1>2, ElementOfSeq, LenProperties

\* The upstream y after one more chunk, with the calls S.
SentBy(u, ended, merged, S, y) ==
    /\ y.chunks = u.chunks + 1 /\ y.ended = ended /\ y.merged = merged
    /\ y.called = u.called \cup S /\ y.mode = u.mode

\* What the upstream has sent.
LEMMA HeardGemini ==
    ASSUME NEW u \in GeminiUpstreams, u.chunks < MaxChunks,
           NEW f \in BOOLEAN, NEW m \in BOOLEAN, NEW S \in SUBSET Positions
    PROVE  LET y == [u EXCEPT !.chunks = @ + 1, !.ended = f, !.merged = m, !.called = @ \cup S]
           IN  y \in GeminiUpstreams /\ SentBy(u, f, m, S, y)
<1> DEFINE y == [u EXCEPT !.chunks = @ + 1, !.ended = f, !.merged = m, !.called = @ \cup S]
           C == 0..MaxChunks
           T == SUBSET Positions
<1>1. u.chunks + 1 \in C /\ u.called \cup S \in T
  BY BoundsAssumption DEF GeminiUpstreams
<1>2. u \in [mode : {"increment", "snapshot"}, chunks : C, called : T,
             merged : BOOLEAN, ended : BOOLEAN]
  BY DEF GeminiUpstreams
<1> HIDE DEF C, T
<1>3. /\ y \in [mode : {"increment", "snapshot"}, chunks : C, called : T,
                merged : BOOLEAN, ended : BOOLEAN]
      /\ y.chunks = u.chunks + 1 /\ y.ended = f /\ y.merged = m
      /\ y.called = u.called \cup S /\ y.mode = u.mode
  BY <1>1, <1>2
<1> QED
  BY <1>3 DEF GeminiUpstreams, SentBy, C, T

\* The positions of the calls in a chunk.
LEMMA CallsIs ==
    ASSUME NEW S, NEW parts \in Seq(S), Len(parts) <= Cardinality(Positions)
    PROVE  /\ Calls(parts) \in SUBSET Positions
           /\ \A i \in 1..Len(parts) : i \in Positions
<1>1. /\ IsFiniteSet(Positions) /\ Positions = 1..Cardinality(Positions)
  BY BoundsAssumption
<1>2. Cardinality(Positions) \in Nat
  BY <1>1, FS_CardinalityType
<1> DEFINE n == Cardinality(Positions)
<1>3. Len(parts) \in Nat /\ DOMAIN parts = 1..Len(parts) /\ Len(parts) <= n /\ Positions = 1..n /\ n \in Nat
  BY <1>1, <1>2, LenProperties
<1> HIDE DEF n
<1>4. \A i \in 1..Len(parts) : i \in Positions
  BY <1>3
<1> QED
  BY <1>3, <1>4 DEF Calls

\* A chunk of the upstream.
LEMMA GeminiGoes ==
    ASSUME Control, NEW w, Lawful(w), Reading, provider = "gemini", ~upstream.ended,
           upstream.chunks < MaxChunks, NEW parts, NEW finish, HearGemini(parts, finish),
           parts \in Seq(HeldParts(upstream.chunks + 1)), said' \in Seq(HeldParts(upstream.chunks + 1)),
           \/ upstream.mode = "increment" /\ said' = said \o parts
           \/ upstream.mode = "snapshot" /\ said' = parts /\ Regrows(said, said')
    PROVE  StreamInv'
<1> DEFINE u == upstream
           H == HeldParts(u.chunks + 1)
           r == ProcessResponse(conv, [parts |-> parts, finish |-> finish])
<1>1. FollowsGemini(conv, u, said, w) /\ Size \in Nat
  BY BoundsAssumption DEF Reading, Lawful, Follows, Size
<1>2. Tracks(conv, w) /\ ~conv.finished /\ u \in GeminiUpstreams
  BY <1>1 DEF FollowsGemini
<1>3. u.chunks \in Nat /\ u.chunks + 1 \in 1..MaxChunks
  BY <1>2, BoundsAssumption DEF GeminiUpstreams
<1>4. /\ Readable(Size, parts) /\ Calls(parts) \in SUBSET Positions
  <2>1. Len(parts) <= Cardinality(Positions)
    BY DEF HearGemini
  <2> DEFINE n == u.chunks + 1
  <2>2. n \in 1..MaxChunks /\ parts \in Seq(HeldParts(n))
    BY <1>3
  <2> HIDE DEF n
  <2>3. parts \in Seq(Heard)
    BY <2>2, HeldHeard
  <2> QED
    BY <2>1, <2>2, <2>3, HeldIsPart, CallsIs DEF Readable
<1>5. PICK m \in BOOLEAN : m = (u.merged \/ u.called \cap Calls(parts) # {})
  OBVIOUS
<1>6. PICK f \in BOOLEAN : f = (finish # "none")
  OBVIOUS
<1>7. upstream' = [u EXCEPT !.chunks = @ + 1, !.ended = f, !.merged = m, !.called = @ \cup Calls(parts)]
  BY <1>5, <1>6 DEF HearGemini
<1>8. /\ upstream' \in GeminiUpstreams /\ upstream'.chunks = u.chunks + 1
       /\ SentBy(u, f, m, Calls(parts), upstream')
  <2> DEFINE S == Calls(parts)
  <2>1. S \in SUBSET Positions
    BY <1>4
  <2>2. upstream' = [u EXCEPT !.chunks = @ + 1, !.ended = f, !.merged = m, !.called = @ \cup S]
    BY <1>7
  <2> HIDE DEF S, u
  <2>3. u.chunks < MaxChunks
    BY DEF u
  <2> DEFINE y == [u EXCEPT !.chunks = @ + 1, !.ended = f, !.merged = m, !.called = @ \cup S]
  <2>4. y \in GeminiUpstreams /\ SentBy(u, f, m, S, y)
    BY <1>2, <2>1, <2>3, HeardGemini
  <2>5. y = upstream'
    BY <2>2
  <2> HIDE DEF y
  <2> QED
    BY <2>4, <2>5 DEF SentBy, S
<1>9. Sends(u, said, parts, upstream', said') /\ (upstream'.ended <=> finish # "none")
  BY <1>5, <1>6, <1>8 DEF Sends, SentBy
<1>10. said' \in Seq(HeldParts(upstream'.chunks))
  BY <1>8
<1>11. ~r.err /\ \E x : Emits(Size, w, r.events, x) /\ FollowsGemini(r.conv, upstream', said', x)
  <2> DEFINE y == upstream'
             t == said'
  <2>1. /\ y \in GeminiUpstreams /\ Sends(u, said, parts, y, t) /\ t \in Seq(HeldParts(y.chunks))
        /\ y.ended <=> finish # "none"
        /\ FollowsGemini(conv, u, said, w) /\ ~u.ended /\ Readable(Size, parts)
    BY <1>1, <1>4, <1>9, <1>8, <1>10
  <2> HIDE DEF y, t, u, r
  <2>2. LET q == ProcessResponse(conv, [parts |-> parts, finish |-> finish])
        IN  ~q.err /\ \E x : Emits(Size, w, q.events, x) /\ FollowsGemini(q.conv, y, t, x)
    BY <1>1, <2>1, ChunkFollows
  <2> QED
    BY <2>2 DEF r, y, t
<1>12. Handle(r, "read")
  <2>1. Process(r)
    BY DEF HearGemini
  <2> HIDE DEF r
  <2> QED
    BY <1>11, <2>1 DEF Process
<1> HIDE DEF r
<1>13. PICK x : Emits(Size, w, r.events, x) /\ FollowsGemini(r.conv, upstream', said', x)
  BY <1>11
<1>14. provider' = provider /\ conv' = r.conv
  BY <1>12 DEF Reading, request_vars, Handle
<1>15. Follows(x)'
  BY <1>13, <1>14 DEF Follows
<1>16. Faithful(x)'
  <2>1. Expected' = Merged(said') /\ Told(x)' = Spoken(Aside, x)
    BY <1>14 DEF Expected, Merged, Told, Omitted, Aside
  <2>2. Unclear' <=> Hazy(upstream', said')
    BY <1>8, <1>14, <1>10, UpstreamHere, LenProperties DEF Unclear, Hazy, TextsOf
  <2> DEFINE y == upstream'
             t == said'
  <2>3. FollowsGemini(r.conv, y, t, x)
    BY <1>13
  <2> HIDE DEF y, t
  <2>4. Merged(t) \in Seq(Pieces) /\ (~Hazy(y, t) => Beneath(Spoken(Aside, x), Merged(t)))
    BY <2>3, GeminiBeneath
  <2> QED
    BY <2>1, <2>2, <2>4 DEF Faithful, y, t
<1> QED
  BY <1>12, <1>13, <1>15, <1>16, HandleKeeps

\* The end of the upstream's stream, or an error of it.
LEMMA GeminiEnds ==
    ASSUME Control, NEW w, Lawful(w), Reading, provider = "gemini",
           NEW next \in {"ok", "error"}, Handle(FinalizeGemini(conv), next), UNCHANGED <<upstream, said>>
    PROVE  StreamInv'
<1> DEFINE r == FinalizeGemini(conv)
<1>1. FollowsGemini(conv, upstream, said, w) /\ Size \in Nat
  BY BoundsAssumption DEF Reading, Lawful, Follows, Size
<1>2. PICK x : Emits(Size, w, r.events, x) /\ Concludes(upstream, said, x)
  BY <1>1, EndFollows
<1>3. Handle(r, next) /\ provider' = provider /\ said' = said /\ upstream' = upstream
  BY DEF Reading, request_vars
<1> HIDE DEF r
<1>4. upstream \in GeminiUpstreams /\ said \in Seq(Heard)
  BY <1>1, FollowsHeard
<1>5. Faithful(x) /\ Delivers(x)
  <2>1. Expected = Merged(said) /\ Told(x) = Spoken(Aside, x)
    BY DEF Expected, Told, Omitted, Aside
  <2>2. Unclear <=> Hazy(upstream, said)
    BY <1>4, UpstreamHere, LenProperties DEF Unclear, Hazy, TextsOf
  <2>3. /\ x \in Views /\ (~Hazy(upstream, said) => Recounts(x, said))
        /\ x.msg = "stopped" \/ (said = <<>> /\ x = NoMessage)
        /\ x.stop = "tool_use" => HasTool(x)
    BY <1>2 DEF Concludes
  <2>4. Merged(said) \in Seq(Pieces) /\ (~Unclear => Beneath(Told(x), Expected))
    BY <1>4, <2>1, <2>2, <2>3, RecountsBeneath
  <2>5. ~Unclear => Told(x) = Expected \/ Expected = <<>>
    BY <2>1, <2>2, <2>3 DEF Recounts
  <2>6. x.stop = "tool_use" => \E i \in DOMAIN Told(x) : Told(x)[i].kind = "tool"
    BY <2>1, <2>3, ToolTold
  <2> QED
    BY <2>1, <2>3, <2>4, <2>5, <2>6 DEF Faithful, Delivers
<1>6. Faithful(x)' /\ Delivers(x)'
  BY <1>3, <1>5, FaithfulSame
<1> QED
  BY <1>2, <1>3, <1>6, HandleKeeps

\* A chunk that says what is new.
LEMMA IncrementKeeps ==
    ASSUME Control, NEW w, Lawful(w), Reading, provider = "gemini", ~upstream.ended,
           upstream.chunks < MaxChunks, NEW finish, Increment(finish)
    PROVE  StreamInv'
<1> DEFINE n == upstream.chunks
           H == HeldParts(n + 1)
<1>1. FollowsGemini(conv, upstream, said, w)
  BY DEF Reading, Lawful, Follows
<1>2. n \in Nat /\ 1 <= n + 1 /\ n <= n + 1 /\ n + 1 \in Nat /\ said \in Seq(HeldParts(n))
  <2>1. n \in 0..MaxChunks
    BY <1>1 DEF FollowsGemini, GeminiUpstreams
  <2>2. said \in Seq(HeldParts(n))
    BY <1>1 DEF FollowsGemini
  <2> HIDE DEF n
  <2> QED
    BY <2>1, <2>2, BoundsAssumption
<1>3. PICK parts \in NewParts(Len(said)) :
         HearGemini(parts, finish) /\ said' = said \o parts
  BY DEF Increment
<1> HIDE DEF n
<1>4. parts \in Seq(H)
  <2>1. Len(said) \in Nat
    BY <1>2, LenProperties
  <2>2. parts \in Seq(HeldParts(1))
    BY <1>3, <2>1, NewPartsIs
  <2>3. 1 \in Nat
    OBVIOUS
  <2> QED
    BY <1>2, <2>2, <2>3, HeldMore
<1>5. said \in Seq(H)
  BY <1>2, HeldMore
<1>6. said' \in Seq(H)
  BY <1>3, <1>4, <1>5, ConcatProperties
<1>7. upstream.mode = "increment"
  BY DEF Increment
<1> QED
  BY <1>3, <1>4, <1>6, <1>7, GeminiGoes DEF n

\* A chunk that repeats what was said.
LEMMA SnapshotKeeps ==
    ASSUME Control, NEW w, Lawful(w), Reading, provider = "gemini", ~upstream.ended,
           upstream.chunks < MaxChunks, NEW finish, Snapshot(finish)
    PROVE  StreamInv'
<1> DEFINE n == upstream.chunks
           H == HeldParts(n + 1)
<1>1. FollowsGemini(conv, upstream, said, w)
  BY DEF Reading, Lawful, Follows
<1>2. n \in Nat /\ 1 <= n + 1 /\ n <= n + 1 /\ n + 1 \in Nat /\ said \in Seq(HeldParts(n))
  <2>1. n \in 0..MaxChunks
    BY <1>1 DEF FollowsGemini, GeminiUpstreams
  <2>2. said \in Seq(HeldParts(n))
    BY <1>1 DEF FollowsGemini
  <2> HIDE DEF n
  <2> QED
    BY <2>1, <2>2, BoundsAssumption
<1>3. PICK old \in Continued(said), new \in NewParts(Len(said)) :
         HearGemini(old \o new, finish) /\ said' = old \o new
  BY DEF Snapshot
<1> HIDE DEF n
<1>4. new \in Seq(H)
  <2>1. Len(said) \in Nat
    BY <1>2, LenProperties
  <2>2. new \in Seq(HeldParts(1))
    BY <2>1, NewPartsIs
  <2>3. 1 \in Nat
    OBVIOUS
  <2> QED
    BY <1>2, <2>2, <2>3, HeldMore
<1>5. old \in Seq(H)
  BY <1>2, ContinuedIs
<1> DEFINE all == old \o new
<1>6. all \in Seq(H)
  BY <1>4, <1>5, ConcatProperties
<1> HIDE DEF all
<1>7. HearGemini(all, finish) /\ said' \in Seq(H) /\ said' = all
  BY <1>3, <1>6 DEF all
<1>8. upstream.mode = "snapshot"
  BY DEF Snapshot
<1>9. Regrows(said, all)
  <2>1. said \in Seq(Heard) /\ old \in Seq(Heard) /\ new \in Seq(Heard)
    BY <1>2, <1>4, <1>5, HeldHeard
  <2>2. Len(old) = Len(said) /\ Continues(said, old)
    BY <1>2, <1>3, ContinuedIs
  <2> QED
    BY <2>1, <2>2, RegrowsMore DEF all
<1> QED
  BY <1>6, <1>7, <1>8, <1>9, GeminiGoes DEF n

\* Whatever Gemini sends, Stream and its client go on as they should.
LEMMA GeminiChunkKeeps ==
    ASSUME Control, NEW w, Lawful(w), GeminiChunk
    PROVE  StreamInv'
<1>1. Reading /\ provider = "gemini" /\ ~upstream.ended /\ upstream.chunks < MaxChunks
  BY DEF GeminiChunk
<1>2. ASSUME NEW finish, Increment(finish) \/ Snapshot(finish)
      PROVE  StreamInv'
  BY <1>1, <1>2, IncrementKeeps, SnapshotKeeps
<1>3. ASSUME Garbage
      PROVE  StreamInv'
  <2> DEFINE r == [conv |-> conv, events |-> <<>>, err |-> TRUE]
  <2>1. Process(r) /\ UNCHANGED <<upstream, said>>
    BY <1>3 DEF Garbage
  <2>2. r.err = TRUE /\ r.conv = conv
    OBVIOUS
  <2> HIDE DEF r
  <2>3. Handle(FinalizeGemini(conv), "error")
    BY <1>1, <2>1, <2>2 DEF Process, Final
  <2> QED
    BY <1>1, <2>1, <2>3, GeminiEnds
<1> QED
  BY <1>2, <1>3 DEF GeminiChunk

\* The upstream's stream ends.
LEMMA EndOfStreamKeeps ==
    ASSUME Control, NEW w, Lawful(w), EndOfStream
    PROVE  StreamInv'
<1>1. Reading /\ UNCHANGED <<upstream, said>>
  BY DEF EndOfStream
<1>2. PICK next \in {"ok", "error"} : Handle(Final(conv), next)
  BY DEF EndOfStream
<1>3. CASE provider = "openai"
  <2>1. Handle(Finalize(conv), next)
    BY <1>2, <1>3 DEF Final
  <2> QED
    BY <1>1, <1>3, <2>1, OpenAIEnds
<1>4. CASE provider = "gemini"
  <2>1. Handle(FinalizeGemini(conv), next)
    BY <1>2, <1>4 DEF Final
  <2> QED
    BY <1>1, <1>4, <2>1, GeminiEnds
<1> QED
  BY <1>3, <1>4 DEF Control

-----------------------------------------------------------------------------
(* The other steps of a conversation.                                      *)

\* The first request is translated.
LEMMA TranslateKeeps ==
    ASSUME StreamInv, Translate
    PROVE  StreamInv'
<1>1. Control
  BY DEF StreamInv
<1>2. /\ phase = "asked" /\ phase' = "translated" /\ provider' = provider /\ upstream' = upstream
      /\ said' = said /\ conv' = conv /\ queue' = queue /\ then' = then /\ buffer' = buffer
      /\ buffering' = buffering /\ view' = view /\ result' = result
  BY DEF Translate, writer_vars
<1>3. Control'
  BY <1>1, <1>2 DEF Control
<1>4. PICK w : Lawful(w)
  BY <1>2 DEF StreamInv, Prelude
<1>5. Lawful(w)'
  <2>1. Faithful(w)' <=> Faithful(w)
    BY <1>2, FaithfulSame
  <2>2. Leads(Size, view', buffer' \o queue', w) /\ Faithful(w) /\ then' # "ok"
    BY <1>1, <1>2, <1>4 DEF Lawful, Control
  <2> QED
    BY <1>2, <2>1, <2>2 DEF Lawful, Size
<1> QED
  BY <1>3, <1>5 DEF StreamInv

\* Nothing is on its way to the client yet.
LEMMA NothingSaid ==
    ASSUME Control, phase = "translated", NEW w, Lawful(w)
    PROVE  /\ w = NoMessage /\ Leads(Size, view, buffer \o queue, NoMessage)
           /\ NoMessage \in Views
<1>1. buffer = <<>> /\ queue = <<>> /\ view = NoMessage
  BY DEF Control
<1>2. <<>> \o <<>> = <<>>
  <2>1. <<>> \in Seq(Events)
    BY EmptySeq
  <2> QED
    BY <2>1, ConcatEmptySeq
<1>3. Leads(Size, view, <<>>, w)
  BY <1>1, <1>2 DEF Lawful
<1>4. w = view /\ view \in Views
  BY <1>3, LeadsNowhere
<1> QED
  BY <1>1, <1>2, <1>3, <1>4

\* The upstream refuses.
LEMMA RefuseKeeps ==
    ASSUME StreamInv, Refuse
    PROVE  StreamInv'
<1>1. Control
  BY DEF StreamInv
<1>2. /\ phase = "translated" /\ phase' = "streaming" /\ provider' = provider /\ upstream' = upstream
      /\ said' = said /\ queue' = queue /\ then' = "error" /\ buffer' = buffer
      /\ buffering' = buffering /\ view' = view /\ result' = result
  BY DEF Refuse, writer_vars
<1>3. Control'
  BY <1>1, <1>2 DEF Control
<1>4. PICK w : Lawful(w)
  BY <1>2 DEF StreamInv, Prelude
<1>5. Lawful(w)'
  <2>1. Faithful(w)' <=> Faithful(w)
    BY <1>2, FaithfulSame
  <2>2. Leads(Size, view', buffer' \o queue', w) /\ Faithful(w)
    BY <1>2, <1>4 DEF Lawful
  <2> QED
    BY <1>2, <2>1, <2>2 DEF Lawful, Size
<1> QED
  BY <1>3, <1>5 DEF StreamInv

\* The upstream accepts.
LEMMA AcceptKeeps ==
    ASSUME StreamInv, Accept
    PROVE  StreamInv'
<1>1. Control
  BY DEF StreamInv
<1>2. /\ phase = "translated" /\ phase' = "streaming" /\ provider' = provider
      /\ said' = said /\ queue' = queue /\ then' = then /\ buffer' = buffer
      /\ buffering' = buffering /\ view' = view /\ result' = result
  BY DEF Accept, writer_vars
<1>3. Control'
  BY <1>1, <1>2 DEF Control
<1>4. PICK w : Lawful(w)
  BY <1>2 DEF StreamInv, Prelude
<1>5. /\ Leads(Size, view', buffer' \o queue', NoMessage) /\ NoMessage \in Views
      /\ said' = <<>> /\ then' = "read" /\ buffering' = "on"
  BY <1>1, <1>2, <1>4, NothingSaid DEF Control
<1>6. Faithful(NoMessage)'
  <2>1. Told(NoMessage)' = <<>>
    BY NothingTold DEF Told
  <2>2. Expected' = <<>>
    BY <1>5, MergedNothing DEF Expected
  <2> QED
    BY <2>1, <2>2, NothingBeneath DEF Faithful
<1>7. Follows(NoMessage)'
  <2>1. CASE StartOpenAI
    <3>1. FollowsOpenAI(conv', upstream', said', NoMessage)
      BY <1>5, <2>1, NewFollows DEF StartOpenAI
    <3> QED
      BY <1>2, <2>1, <3>1 DEF StartOpenAI, Follows
  <2>2. CASE StartGemini
    <3>1. /\ upstream' \in GeminiUpstreams /\ upstream'.chunks = 0 /\ upstream'.ended = FALSE
          /\ upstream'.called = {}
      <4>1. {} \in SUBSET Positions
        OBVIOUS
      <4>2. 0 \in 0..MaxChunks
        BY BoundsAssumption
      <4>3. FALSE \in BOOLEAN
        OBVIOUS
      <4> QED
        BY <2>2, <4>1, <4>2, <4>3 DEF StartGemini, GeminiUpstreams
    <3>2. FollowsGemini(conv', upstream', said', NoMessage)
      BY <1>5, <2>2, <3>1, GeminiBegins DEF StartGemini
    <3> QED
      BY <1>2, <2>2, <3>2 DEF StartGemini, Follows
  <2> QED
    BY <2>1, <2>2 DEF Accept
<1>8. Lawful(NoMessage)'
  BY <1>5, <1>6, <1>7 DEF Lawful, Size
<1> QED
  BY <1>3, <1>8 DEF StreamInv

\* A step that only moves events on their way keeps where they lead.
LEMMA LawfulOn ==
    ASSUME NEW w, Lawful(w), UNCHANGED <<phase, provider, said, upstream, conv, then>>,
           Leads(Size, view', buffer' \o queue', w),
           phase = "streaming" /\ then = "read" /\ buffering' # "on" => w.msg # "none"
    PROVE  Lawful(w)'
<1>1. (Faithful(w)' <=> Faithful(w)) /\ (Delivers(w)' <=> Delivers(w))
  BY FaithfulSame
<1>2. /\ phase' = phase /\ provider' = provider /\ said' = said /\ upstream' = upstream
      /\ conv' = conv /\ then' = then
  OBVIOUS
<1>3. Follows(w)' <=> Follows(w)
  BY <1>2 DEF Follows
<1>4. Leads(Size, view, buffer \o queue, w)' /\ Faithful(w)'
  BY <1>1 DEF Lawful, Size
<1>5. (then = "ok")' => Delivers(w)'
  BY <1>1, <1>2 DEF Lawful
<1>6. (phase = "streaming" /\ then = "read")' => Follows(w)' /\ (buffering' # "on" => w.msg # "none")
  BY <1>2, <1>3 DEF Lawful
<1> QED
  BY <1>4, <1>5, <1>6 DEF Lawful

\* Stream writes an event: to the client, or to the prelude's buffer.
LEMMA WriteKeeps ==
    ASSUME Control, NEW w, Lawful(w), Write
    PROVE  StreamInv'
<1>1. /\ queue # <<>> /\ buffering # "flushing" /\ queue' = Tail(queue)
      /\ UNCHANGED <<phase, provider, said, upstream, conv, then, result>>
  BY DEF Write, request_vars
<1>2. /\ queue \in Seq(Events) /\ buffer \in Seq(Events) /\ view \in Views /\ Size \in Nat
      /\ Leads(Size, view, buffer \o queue, w)
  BY BoundsAssumption DEF Control, Lawful, Size
<1>3. phase \in {"streaming", "followed"} /\ result = "none"
  BY <1>1 DEF Control
<1>4. phase = "streaming"
  BY <1>3 DEF Control
<1>5. buffer \o queue # <<>> /\ w.msg # "none"
  BY <1>1, <1>2, AppendHead, LawfulView
<1>6. CASE buffering = "off"
  <2>1. /\ buffer = <<>> /\ view' = Apply(view, Head(queue)) /\ buffer' = buffer /\ buffering' = buffering
    BY <1>6 DEF Write, Control
  <2>2. buffer \o queue = queue /\ Tail(queue) \in Seq(Events) /\ <<>> \o Tail(queue) = Tail(queue)
    BY <1>1, <1>2, <2>1, ConcatEmptySeq, AppendHead
  <2>3. Leads(Size, view', Tail(queue), w)
    BY <1>1, <1>2, <2>1, <2>2, LeadsHead
  <2>4. view' \in Views
    BY <1>2, <2>2, <2>3, LeadsToView
  <2>5. Control'
    BY <1>1, <1>3, <1>4, <2>1, <2>2, <2>4 DEF Control
  <2>6. Leads(Size, view', buffer' \o queue', w)
    BY <1>1, <2>1, <2>2, <2>3
  <2>7. Lawful(w)'
    BY <1>1, <1>5, <2>6, LawfulOn
  <2> QED
    BY <2>5, <2>7 DEF StreamInv
<1>7. CASE buffering = "on"
  <2>1. /\ buffer' = Append(buffer, Head(queue)) /\ view' = view /\ buffering' \in {"on", "flushing"}
    BY <1>7 DEF Write
  <2>2. buffer' \in Seq(Events) /\ queue' \in Seq(Events) /\ buffer' \o queue' = buffer \o queue
    <3>1. queue \in Seq(Events) /\ buffer \in Seq(Events) /\ queue # <<>>
      BY <1>1, <1>2
    <3>2. /\ Append(buffer, Head(queue)) \in Seq(Events) /\ Tail(queue) \in Seq(Events)
          /\ Append(buffer, Head(queue)) \o Tail(queue) = buffer \o queue
      BY ONLY <3>1, AppendHead
    <3> QED
      BY <1>1, <2>1, <3>2
  <2>3. Control'
    BY <1>1, <1>2, <1>3, <1>4, <2>1, <2>2 DEF Control
  <2>4. Lawful(w)'
    BY <1>1, <1>2, <1>5, <2>1, <2>2, LawfulOn
  <2> QED
    BY <2>3, <2>4 DEF StreamInv
<1> QED
  BY <1>1, <1>6, <1>7 DEF Control

\* Of an answer that failed before it began, nothing reaches the client.
LEMMA PreludeWriteKeeps ==
    ASSUME Control, Prelude, Write
    PROVE  StreamInv'
<1>1. /\ queue # <<>> /\ queue' = Tail(queue) /\ buffer' = Append(buffer, Head(queue))
      /\ UNCHANGED <<phase, provider, said, upstream, conv, then, result, view>>
      /\ buffering = "on" /\ view = NoMessage /\ phase = "streaming" /\ then = "error"
  BY DEF Write, request_vars, Prelude
<1>2. queue \in Seq(Events) /\ buffer \in Seq(Events) /\ view \in Views
  BY DEF Control
<1>3. buffer' \in Seq(Events) /\ queue' \in Seq(Events) /\ buffer' \o queue' = buffer \o queue
  BY <1>1, <1>2, AppendHead
<1>4. ~MayBeFull(buffer' \o queue')
  BY <1>3 DEF Prelude
<1>5. ~MayBeFull(buffer')
  BY <1>3, <1>4, FullConcat
<1>6. buffering' = "on"
  BY <1>1, <1>5 DEF Write
<1>7. Control'
  BY <1>1, <1>3, <1>6 DEF Control
<1>8. Faithful(NoMessage)'
  BY <1>1, FaithfulSame DEF Prelude
<1>9. Prelude'
  <2>1. NoMessage' = NoMessage /\ MayBeFull(buffer \o queue)' = MayBeFull(buffer' \o queue')
    BY DEF NoMessage, MayBeFull, Unbounded
  <2> QED
    BY <1>1, <1>4, <1>6, <1>8, <2>1 DEF Prelude
<1> QED
  BY <1>7, <1>9 DEF StreamInv

\* The prelude's buffer goes to the client, event by event.
LEMMA FlushKeeps ==
    ASSUME Control, NEW w, Lawful(w), Flush
    PROVE  StreamInv'
<1>1. /\ buffering = "flushing" /\ queue' = queue
      /\ UNCHANGED <<phase, provider, said, upstream, conv, then, result>>
  BY DEF Flush, request_vars
<1>2. /\ queue \in Seq(Events) /\ buffer \in Seq(Events) /\ view \in Views /\ Size \in Nat
      /\ Leads(Size, view, buffer \o queue, w)
  BY BoundsAssumption DEF Control, Lawful, Size
<1>3. phase \in {"streaming", "followed"} /\ result # "ok"
  BY <1>1 DEF Control
<1>4. phase = "streaming"
  BY <1>3 DEF Control
<1>5. phase = "streaming" /\ then = "read" => w.msg # "none"
  BY <1>1 DEF Lawful
<1>6. CASE buffer = <<>>
  <2>1. buffering' = "off" /\ buffer' = buffer /\ view' = view
    BY <1>6 DEF Flush
  <2>2. Control'
    BY <1>1, <1>2, <1>3, <1>4, <1>6, <2>1 DEF Control
  <2>3. Lawful(w)'
    BY <1>1, <1>2, <1>5, <2>1, LawfulOn
  <2> QED
    BY <2>2, <2>3 DEF StreamInv
<1>7. CASE buffer # <<>>
  <2>1. buffering' = buffering /\ buffer' = Tail(buffer) /\ view' = Apply(view, Head(buffer))
    BY <1>7 DEF Flush
  <2>2. /\ buffer \o queue # <<>> /\ buffer \o queue \in Seq(Events) /\ Tail(buffer) \in Seq(Events)
        /\ Head(buffer \o queue) = Head(buffer) /\ Tail(buffer \o queue) = Tail(buffer) \o queue
    BY <1>2, <1>7, ConcatHead
  <2>3. Leads(Size, view', Tail(buffer) \o queue, w)
    <3> DEFINE q == buffer \o queue
    <3>1. q \in Seq(Events) /\ q # <<>> /\ Leads(Size, view, q, w)
      BY <1>2, <2>2
    <3> HIDE DEF q
    <3>2. Leads(Size, Apply(view, Head(q)), Tail(q), w)
      BY <1>2, <3>1, LeadsHead
    <3> QED
      BY <2>1, <2>2, <3>2 DEF q
  <2>4. view' \in Views
    <3>1. Tail(buffer) \o queue \in Seq(Events)
      BY <1>2, <2>2, ConcatProperties
    <3> QED
      BY <1>2, <2>3, <3>1, LeadsToView
  <2>5. Control'
    BY <1>1, <1>2, <1>3, <1>4, <2>1, <2>2, <2>4 DEF Control
  <2>6. Lawful(w)'
    BY <1>1, <1>2, <1>5, <2>1, <2>3, LawfulOn
  <2> QED
    BY <2>5, <2>6 DEF StreamInv
<1> QED
  BY <1>6, <1>7

\* What is lost of an answer that fails leaves the client with the beginning of
\* what it was going to see.
LEMMA LawfulLost ==
    ASSUME Control, NEW w, Lawful(w), UNCHANGED <<provider, said, upstream, view>>,
           buffer' = <<>>, queue' = <<>>, then' = "error"
    PROVE  Lawful(view)'
<1>1. Leads(Size, view, <<>>, view) /\ Faithful(view)
  BY LawfulView
<1>2. Faithful(view)'
  <2>1. \A v : Faithful(v)' <=> Faithful(v)
    BY FaithfulSame
  <2>2. view' = view
    OBVIOUS
  <2> DEFINE Good(v) == Faithful(v)
  <2> QED
    BY <1>1, <2>1, <2>2 DEF Faithful, Told
<1>3. <<>> \o <<>> = <<>>
  OBVIOUS
<1>4. Leads(Size, view, buffer \o queue, view)'
  BY <1>1, <1>3 DEF Size
<1> QED
  BY <1>2, <1>4 DEF Lawful

\* The client is gone.
LEMMA WriteFailsKeeps ==
    ASSUME Control, NEW w, Lawful(w), WriteFails
    PROVE  StreamInv'
<1>1. /\ queue' = <<>> /\ then' = "error" /\ buffer' = <<>> /\ buffering' = "off"
      /\ UNCHANGED <<phase, provider, said, upstream, conv, result, view>>
      /\ buffering \in {"off", "flushing"} /\ (buffering = "off" => queue # <<>>)
  BY DEF WriteFails, request_vars
<1>2. phase \in {"streaming", "followed"} /\ result # "ok"
  BY <1>1 DEF Control
<1>3. <<>> \in Seq(Events)
  BY EmptySeq
<1>4. Control'
  BY <1>1, <1>2, <1>3 DEF Control
<1>5. Lawful(view)'
  BY <1>1, LawfulLost
<1> QED
  BY <1>4, <1>5 DEF StreamInv

\* Stream returns.
LEMMA ReturnKeeps ==
    ASSUME Control, NEW w, Lawful(w), Return
    PROVE  StreamInv'
<1>1. /\ phase = "streaming" /\ result = "none" /\ then # "read" /\ queue = <<>>
      /\ buffering # "flushing" /\ queue' = queue /\ then' = then
      /\ UNCHANGED <<phase, provider, said, upstream, conv, view>>
  BY DEF Return, request_vars
<1>2. /\ queue \in Seq(Events) /\ buffer \in Seq(Events) /\ view \in Views
      /\ <<>> \in Seq(Events)
      /\ Leads(Size, view, buffer \o queue, w)
  BY EmptySeq DEF Control, Lawful
<1>3. CASE then = "error"
  <2>1. result' = "error" /\ buffer' = <<>> /\ buffering' = buffering
    BY <1>3 DEF Return
  <2>2. Control'
    BY <1>1, <1>2, <1>3, <2>1 DEF Control
  <2>3. Lawful(view)'
    BY <1>1, <1>3, <2>1, LawfulLost
  <2> QED
    BY <2>2, <2>3 DEF StreamInv
<1>4. CASE then = "ok" /\ buffering = "on"
  <2>1. buffering' = "flushing" /\ result' = result /\ buffer' = buffer
    BY <1>4 DEF Return
  <2>2. Control'
    BY <1>1, <1>2, <1>4, <2>1 DEF Control
  <2>3. Lawful(w)'
    BY <1>1, <1>2, <1>4, <2>1, LawfulOn
  <2> QED
    BY <2>2, <2>3 DEF StreamInv
<1>5. CASE then = "ok" /\ buffering = "off"
  <2>1. buffering' = buffering /\ result' = "ok" /\ buffer' = buffer
    BY <1>5 DEF Return
  <2>2. Control'
    BY <1>1, <1>2, <1>5, <2>1 DEF Control
  <2>3. Lawful(w)'
    BY <1>1, <1>2, <1>5, <2>1, LawfulOn
  <2> QED
    BY <2>2, <2>3 DEF StreamInv
<1> QED
  BY <1>1, <1>3, <1>4, <1>5 DEF Control

\* Stream returns the error of an answer that failed before it began.
LEMMA PreludeReturnKeeps ==
    ASSUME Control, Prelude, Return
    PROVE  StreamInv'
<1>1. /\ phase = "streaming" /\ then = "error" /\ queue = <<>> /\ queue' = queue
      /\ then' = then /\ buffering' = buffering /\ buffer' = <<>> /\ result' = "error"
      /\ UNCHANGED <<phase, provider, said, upstream, conv, view>>
      /\ view = NoMessage
  BY DEF Return, request_vars, Prelude
<1>2. <<>> \in Seq(Events)
  BY EmptySeq
<1>3. Control'
  BY <1>1, <1>2 DEF Control
<1>4. Faithful(NoMessage)'
  BY <1>1, FaithfulSame DEF Prelude
<1>5. Leads(Size, view', buffer' \o queue', NoMessage)
  <2>1. <<>> \o <<>> = <<>>
    OBVIOUS
  <2> QED
    BY <1>1, <2>1, LeadsEmpty DEF Control
<1>6. Lawful(NoMessage)'
  <2>1. Leads(Size, view, buffer \o queue, NoMessage)'
    BY <1>5 DEF Size, NoMessage
  <2>2. Faithful(NoMessage)' /\ then' = "error"
    BY <1>1, <1>4
  <2> QED
    BY <2>1, <2>2 DEF Lawful
<1> QED
  BY <1>3, <1>6 DEF StreamInv

\* The next request leaves the answer as it is.
LEMMA FollowKeeps ==
    ASSUME StreamInv, Follow
    PROVE  StreamInv'
<1>1. /\ result = "ok" /\ phase' = "followed"
      /\ UNCHANGED <<provider, upstream, said, conv, queue, then, buffer, buffering, view, result>>
  BY DEF Follow, writer_vars
<1>2. Control
  BY DEF StreamInv
<1>3. then = "ok"
  BY <1>1, <1>2 DEF Control
<1>4. PICK w : Lawful(w)
  BY <1>3 DEF StreamInv, Prelude
<1>5. Control'
  BY <1>1, <1>2, <1>3 DEF Control
<1>6. Lawful(w)'
  <2>1. (Faithful(w)' <=> Faithful(w)) /\ (Delivers(w)' <=> Delivers(w))
    BY <1>1, FaithfulSame
  <2>2. Leads(Size, view, buffer \o queue, w)' /\ Faithful(w) /\ Delivers(w)
    BY <1>1, <1>3, <1>4 DEF Lawful, Size
  <2> QED
    BY <1>1, <1>3, <2>1, <2>2 DEF Lawful
<1> QED
  BY <1>5, <1>6 DEF StreamInv

\* Every step keeps what the client sees lawful.
LEMMA StreamInvNext ==
    StreamInv /\ [Next]_vars => StreamInv'
<1> SUFFICES ASSUME StreamInv, [Next]_vars
             PROVE  StreamInv'
  OBVIOUS
<1>1. Control
  BY DEF StreamInv
<1>2. CASE Translate
  BY <1>2, TranslateKeeps
<1>3. CASE Refuse
  BY <1>3, RefuseKeeps
<1>4. CASE Accept
  BY <1>4, AcceptKeeps
<1>5. CASE Follow
  BY <1>5, FollowKeeps
<1>6. CASE Next /\ \E w : Lawful(w)
  <2> PICK w : Lawful(w)
    BY <1>6
  <2>1. CASE OpenAIEvent
    BY <1>1, <2>1, OpenAIEventKeeps
  <2>2. CASE GeminiChunk
    BY <1>1, <2>2, GeminiChunkKeeps
  <2>3. CASE EndOfStream
    BY <1>1, <2>3, EndOfStreamKeeps
  <2>4. CASE Write
    BY <1>1, <2>4, WriteKeeps
  <2>5. CASE Flush
    BY <1>1, <2>5, FlushKeeps
  <2>6. CASE WriteFails
    BY <1>1, <2>6, WriteFailsKeeps
  <2>7. CASE Return
    BY <1>1, <2>7, ReturnKeeps
  <2> QED
    BY <1>2, <1>3, <1>4, <1>5, <1>6, <2>1, <2>2, <2>3, <2>4, <2>5, <2>6, <2>7 DEF Next
<1>7. CASE Next /\ Prelude
  <2>1. CASE OpenAIEvent \/ GeminiChunk \/ EndOfStream
    BY <1>7, <2>1 DEF OpenAIEvent, GeminiChunk, EndOfStream, Reading, Prelude
  <2>2. CASE Write
    BY <1>1, <1>7, <2>2, PreludeWriteKeeps
  <2>3. CASE Return
    BY <1>1, <1>7, <2>3, PreludeReturnKeeps
  <2>4. CASE Flush \/ WriteFails
    BY <1>7, <2>4 DEF Flush, WriteFails, Prelude
  <2> QED
    BY <1>2, <1>3, <1>4, <1>5, <1>7, <2>1, <2>2, <2>3, <2>4 DEF Next
<1>8. CASE UNCHANGED vars
  <2>1. /\ phase' = phase /\ provider' = provider /\ said' = said /\ upstream' = upstream
        /\ conv' = conv /\ queue' = queue /\ then' = then /\ buffer' = buffer
        /\ buffering' = buffering /\ result' = result /\ view' = view
    BY <1>8 DEF vars
  <2>2. Control'
    BY <1>1, <2>1 DEF Control
  <2>3. CASE Prelude
    <3>1. Faithful(NoMessage)'
      BY <2>1, <2>3, FaithfulSame DEF Prelude
    <3>2. NoMessage' = NoMessage /\ MayBeFull(buffer \o queue)' = MayBeFull(buffer' \o queue')
      BY DEF NoMessage, MayBeFull, Unbounded
    <3>3. Prelude'
      BY <2>1, <2>3, <3>1, <3>2 DEF Prelude
    <3> QED
      BY <2>2, <3>3 DEF StreamInv
  <2>4. ASSUME NEW w, Lawful(w) PROVE StreamInv'
    <3>1. Leads(Size, view', buffer' \o queue', w)
      BY <2>1, <2>4 DEF Lawful
    <3>2. phase = "streaming" /\ then = "read" /\ buffering' # "on" => w.msg # "none"
      BY <2>1, <2>4 DEF Lawful
    <3>3. Lawful(w)'
      BY <2>1, <2>4, <3>1, <3>2, LawfulOn
    <3> QED
      BY <2>2, <3>3 DEF StreamInv
  <2> QED
    BY <2>3, <2>4 DEF StreamInv
<1> QED
  BY <1>6, <1>7, <1>8 DEF StreamInv

\* Whatever the upstream does and wherever the answer breaks off, the events on
\* their way take the client to a message that is a beginning of what was said.
THEOREM AnswerLawful == Spec => []StreamInv
<1>1. Init => StreamInv
  BY StreamInvInit
<1>2. StreamInv /\ [Next]_vars => StreamInv'
  BY StreamInvNext
<1> QED
  BY <1>1, <1>2, PTL DEF Spec

\* The writer and the client are in states they can be in: no event the
\* converters emit breaks the client.
THEOREM TypeCorrect == Spec => []TypeOK
<1>1. StreamInv => TypeOK
  <2> SUFFICES ASSUME Control
               PROVE  TypeOK
    BY DEF StreamInv
  <2>1. \A i \in DOMAIN view.blocks : view.blocks[i].kind \in Kinds
    BY BlocksOfView DEF Control, ViewBlocks
  <2>2. view.msg \in {"none", "started", "ending", "stopped"} /\ view.stop \in StopReasons \cup {"none"}
    BY DEF Control, Views
  <2> QED
    BY <2>1, <2>2 DEF Control, TypeOK
<1> QED
  BY <1>1, AnswerLawful, PTL

-----------------------------------------------------------------------------
(* Every event is a step of the stream a client relies on.                 *)

\* A block, and the blocks, as MessageStream has them.
Outline(b) == [kind |-> b.kind, open |-> b.open, signed |-> b.signature > 0, size |-> Len(b.data)]
Outlines(v) == [i \in DOMAIN v.blocks |-> Outline(v.blocks[i])]

\* The fields of an outline.
LEMMA OutlineIs ==
    ASSUME NEW b \in ViewBlocks
    PROVE  /\ Outline(b) \in [kind : Kinds, open : BOOLEAN, signed : BOOLEAN, size : Nat]
           /\ Outline(b).kind = b.kind /\ Outline(b).open = b.open
           /\ Outline(b).signed <=> b.signature > 0
           /\ Outline(b).size = Len(b.data)
<1>1. PICK f \in BOOLEAN : f = (b.signature > 0)
  <2>1. CASE b.signature > 0
    <3>1. (b.signature > 0) = TRUE
      BY <2>1
    <3> QED
      BY <3>1, Zenon
  <2>2. CASE ~(b.signature > 0)
    <3>1. (b.signature > 0) = FALSE
      BY <2>2
    <3> QED
      BY <3>1, Zenon
  <2> QED
    BY <2>1, <2>2
<1>2. Outline(b) = [kind |-> b.kind, open |-> b.open, signed |-> f, size |-> Len(b.data)]
  BY <1>1 DEF Outline
<1>3. Len(b.data) \in Nat /\ b.kind \in Kinds /\ b.open \in BOOLEAN
  BY LenProperties DEF ViewBlocks
<1>4. f <=> b.signature > 0
  BY <1>1
<1> QED
  BY <1>2, <1>3, <1>4

\* The outlines of a view's blocks.
LEMMA OutlinesAre ==
    ASSUME NEW v \in Views
    PROVE  /\ DOMAIN Outlines(v) = 1..Len(v.blocks) /\ Len(v.blocks) \in Nat
           /\ \A i \in 1..Len(v.blocks) : Outlines(v)[i] = Outline(v.blocks[i])
           /\ Outlines(v) \in Seq([kind : Kinds, open : BOOLEAN, signed : BOOLEAN, size : Nat])
           /\ Len(Outlines(v)) = Len(v.blocks)
<1> DEFINE T == [kind : Kinds, open : BOOLEAN, signed : BOOLEAN, size : Nat]
<1>1. /\ Len(v.blocks) \in Nat /\ DOMAIN v.blocks = 1..Len(v.blocks)
      /\ \A i \in 1..Len(v.blocks) : v.blocks[i] \in ViewBlocks
  BY BlocksOfView
<1>2. \A i \in 1..Len(v.blocks) : Outline(v.blocks[i]) \in T
  BY <1>1, OutlineIs
<1>3. Outlines(v) = [i \in 1..Len(v.blocks) |-> Outline(v.blocks[i])]
  BY <1>1 DEF Outlines
<1> HIDE DEF T
<1>4. Outlines(v) \in [1..Len(v.blocks) -> T]
  BY <1>2, <1>3
<1>5. Outlines(v) \in Seq(T) /\ Len(Outlines(v)) = Len(v.blocks)
  BY <1>1, <1>4, SeqDef, LenProperties
<1> QED
  BY <1>1, <1>3, <1>5 DEF T

\* One block changes; the outlines of the others do not.
LEMMA OutlinesChanged ==
    ASSUME NEW v \in Views, NEW x \in Views, NEW i \in OpenIn(v), Len(x.blocks) = Len(v.blocks),
           \A j \in 1..Len(v.blocks) : j # i + 1 => x.blocks[j] = v.blocks[j],
           NEW o, Outline(x.blocks[i + 1]) = o
    PROVE  /\ Outlines(x) = [Outlines(v) EXCEPT ![i + 1] = o]
           /\ i + 1 \in DOMAIN Outlines(v)
           /\ Outlines(v)[i + 1] = Outline(v.blocks[i + 1])
<1>1. i + 1 \in 1..Len(v.blocks)
  BY BlocksOfView
<1>2. /\ DOMAIN Outlines(v) = 1..Len(v.blocks) /\ DOMAIN Outlines(x) = 1..Len(v.blocks)
      /\ \A j \in 1..Len(v.blocks) : Outlines(v)[j] = Outline(v.blocks[j])
      /\ \A j \in 1..Len(v.blocks) : Outlines(x)[j] = Outline(x.blocks[j])
  BY OutlinesAre
<1>3. \A j \in 1..Len(v.blocks) : Outlines(x)[j] = IF j = i + 1 THEN o ELSE Outlines(v)[j]
  BY <1>1, <1>2
<1>4. Outlines(x) = [j \in 1..Len(v.blocks) |-> Outlines(x)[j]]
  BY <1>2 DEF Outlines
<1>5. [Outlines(v) EXCEPT ![i + 1] = o] = [j \in 1..Len(v.blocks) |-> IF j = i + 1 THEN o ELSE Outlines(v)[j]]
  BY <1>2
<1> QED
  BY <1>1, <1>2, <1>3, <1>4, <1>5

\* What MessageStream allows from one client to another.
Allowed(size, v, x) ==
    \/ v.msg = "none" /\ x.msg = "started" /\ Outlines(x) = Outlines(v)
    \/ /\ v.msg = "started" /\ x.msg = v.msg
       /\ \E k \in Kinds :
             Outlines(x) = Append(Outlines(v), [kind |-> k, open |-> TRUE, signed |-> FALSE, size |-> 0])
    \/ /\ v.msg = "started" /\ x.msg = v.msg
       /\ \E i \in DOMAIN Outlines(v) :
             /\ Outlines(v)[i].open
             /\ \/ \E n \in 0..size : Outlines(x) = [Outlines(v) EXCEPT ![i].size = @ + n]
                \/ /\ Outlines(v)[i].kind = "thinking"
                   /\ Outlines(x) = [Outlines(v) EXCEPT ![i].signed = TRUE]
                \/ Outlines(x) = [Outlines(v) EXCEPT ![i].open = FALSE]
    \/ /\ v.msg = "started" /\ x.msg = "ending" /\ Outlines(x) = Outlines(v)
       /\ Outlines(v) # <<>> /\ \A i \in DOMAIN Outlines(v) : ~Outlines(v)[i].open
    \/ v.msg = "ending" /\ x.msg = "stopped" /\ Outlines(x) = Outlines(v)

\* A legal event is a step MessageStream allows.
LEMMA LegalAllowed ==
    ASSUME NEW size \in Nat, NEW v \in Views, NEW e, Legal(size, v, e)
    PROVE  Allowed(size, v, Apply(v, e))
<1>1. CASE v = NoMessage /\ e = MessageStart
  <2>1. Apply(v, e) = Fresh
    BY <1>1, ApplyMessageStart
  <2>2. Fresh.msg = "started" /\ Fresh.blocks = v.blocks /\ v.msg = "none"
    BY <1>1 DEF Fresh, NoMessage
  <2> QED
    BY <2>1, <2>2 DEF Allowed, Outlines
<1>2. ASSUME v.msg = "started", NEW k \in Kinds, e = BlockStart(Len(v.blocks), k)
      PROVE  Allowed(size, v, Apply(v, e))
  <2> DEFINE x == Apply(v, e)
             o == [kind |-> k, open |-> TRUE, signed |-> FALSE, size |-> 0]
  <2>1. x = WithBlock(v, k)
    BY <1>2, ApplyBlockStart
  <2> HIDE DEF x
  <2>2. /\ x \in Views /\ x.msg = v.msg /\ Len(x.blocks) = Len(v.blocks) + 1
        /\ x.blocks[Len(v.blocks) + 1] = NewBlock(k)
        /\ \A j \in 1..Len(v.blocks) : x.blocks[j] = v.blocks[j]
    BY <2>1, WithBlockIs
  <2>3. Outline(NewBlock(k)) = o
    <3>1. Len(<<>>) = 0 /\ (0 > 0) = FALSE
      OBVIOUS
    <3> QED
      BY <3>1 DEF Outline, NewBlock
  <2>4. /\ Len(v.blocks) \in Nat /\ Outlines(v) \in Seq([kind : Kinds, open : BOOLEAN, signed : BOOLEAN, size : Nat])
        /\ Len(Outlines(v)) = Len(v.blocks) /\ DOMAIN Outlines(v) = 1..Len(v.blocks)
        /\ \A j \in 1..Len(v.blocks) : Outlines(v)[j] = Outline(v.blocks[j])
        /\ DOMAIN Outlines(x) = 1..Len(x.blocks)
        /\ \A j \in 1..Len(x.blocks) : Outlines(x)[j] = Outline(x.blocks[j])
    BY <2>2, OutlinesAre
  <2>5. o \in [kind : Kinds, open : BOOLEAN, signed : BOOLEAN, size : Nat]
    OBVIOUS
  <2> HIDE DEF o
  <2>6. /\ Len(Append(Outlines(v), o)) = Len(v.blocks) + 1
        /\ DOMAIN Append(Outlines(v), o) = 1..Len(v.blocks) + 1
        /\ \A j \in 1..Len(v.blocks) : Append(Outlines(v), o)[j] = Outlines(v)[j]
        /\ Append(Outlines(v), o)[Len(v.blocks) + 1] = o
    BY <2>4, <2>5, AppendProperties
  <2>7. \A j \in 1..Len(v.blocks) + 1 : Outlines(x)[j] = Append(Outlines(v), o)[j]
    BY <2>2, <2>3, <2>4, <2>6
  <2>8. Outlines(x) = Append(Outlines(v), o)
    <3>1. Outlines(x) = [j \in 1..Len(v.blocks) + 1 |-> Outlines(x)[j]]
      BY <2>2, <2>4 DEF Outlines
    <3>2. Append(Outlines(v), o) \in Seq([kind : Kinds, open : BOOLEAN, signed : BOOLEAN, size : Nat])
      BY <2>4, <2>5, AppendProperties
    <3>3. Append(Outlines(v), o) = [j \in 1..Len(v.blocks) + 1 |-> Append(Outlines(v), o)[j]]
      <4> DEFINE q == Append(Outlines(v), o)
      <4>1. DOMAIN q = 1..Len(v.blocks) + 1 /\ q \in Seq([kind : Kinds, open : BOOLEAN, signed : BOOLEAN, size : Nat])
        BY <2>6, <3>2
      <4> HIDE DEF q
      <4>2. q = [j \in DOMAIN q |-> q[j]]
        BY <4>1
      <4> QED
        BY <4>1, <4>2 DEF q
    <3> QED
      BY <2>7, <3>1, <3>3
  <2> QED
    BY <1>2, <2>2, <2>8 DEF Allowed, x, o
<1>3. ASSUME v.msg = "started", NEW i \in OpenIn(v), NEW d \in Seq(Nat), Len(d) <= size,
             e = BlockDelta(i, v.blocks[i + 1].kind, d)
      PROVE  Allowed(size, v, Apply(v, e))
  <2> DEFINE x == Apply(v, e)
             b == v.blocks[i + 1]
             c == x.blocks[i + 1]
  <2>1. x = WithData(v, i, d)
    BY <1>3, ApplyBlockDelta
  <2> HIDE DEF x
  <2>2. /\ x \in Views /\ x.msg = v.msg /\ Len(x.blocks) = Len(v.blocks)
        /\ c.kind = b.kind /\ c.open = b.open /\ c.data = b.data \o d /\ c.signature = b.signature
        /\ \A j \in 1..Len(v.blocks) : j # i + 1 => x.blocks[j] = v.blocks[j]
    BY <2>1, WithDataIs
  <2>3. b \in ViewBlocks /\ c \in ViewBlocks /\ b.open
    BY <2>2, BlocksOfView DEF OpenIn
  <2>4. Len(c.data) = Len(b.data) + Len(d) /\ Len(d) \in 0..size
    <3>1. b.data \in Seq(Nat) /\ c.data = b.data \o d
      BY <2>2, <2>3 DEF ViewBlocks
    <3>2. d \in Seq(Nat) /\ Len(d) <= size
      BY <1>3
    <3> HIDE DEF b, c
    <3>3. Len(c.data) = Len(b.data) + Len(d)
      BY <3>1, <3>2, ConcatProperties
    <3>4. Len(d) \in Nat
      BY <3>2, LenProperties
    <3> QED
      BY <3>2, <3>3, <3>4
  <2>5. Outline(c) = [Outline(b) EXCEPT !.size = @ + Len(d)]
    <3> HIDE DEF b, c
    <3>1. /\ Outline(b) \in [kind : Kinds, open : BOOLEAN, signed : BOOLEAN, size : Nat]
          /\ Outline(c) \in [kind : Kinds, open : BOOLEAN, signed : BOOLEAN, size : Nat]
          /\ Outline(c).kind = Outline(b).kind /\ Outline(c).open = Outline(b).open
          /\ Outline(c).signed = Outline(b).signed /\ Outline(c).size = Outline(b).size + Len(d)
      BY <2>2, <2>3, <2>4, OutlineIs
    <3> DEFINE p == Outline(b)
               q == Outline(c)
               n == Len(d)
    <3>2. n \in Nat
      BY <2>4
    <3> HIDE DEF p, q, n
    <3>3. q = [p EXCEPT !.size = @ + n]
      BY <3>1, <3>2 DEF p, q, n
    <3> QED
      BY <3>3 DEF p, q, n
  <2>6. /\ Outlines(x) = [Outlines(v) EXCEPT ![i + 1] = Outline(c)]
        /\ i + 1 \in DOMAIN Outlines(v) /\ Outlines(v)[i + 1] = Outline(b)
    BY <2>2, OutlinesChanged
  <2>7. Outlines(x) = [Outlines(v) EXCEPT ![i + 1].size = @ + Len(d)] /\ Outlines(v)[i + 1].open
    <3>1. Outline(b).open
      BY <2>3, OutlineIs
    <3>2. Outlines(x) = [Outlines(v) EXCEPT ![i + 1] = [Outlines(v)[i + 1] EXCEPT !.size = @ + Len(d)]]
      BY <2>5, <2>6, Zenon
    <3> DEFINE o == Outlines(v)
               n == Len(d)
    <3> HIDE DEF o, n
    <3>3. Outlines(x) = [o EXCEPT ![i + 1].size = @ + n]
      BY <3>2 DEF o, n
    <3>4. Outlines(v)[i + 1].open
      BY <2>6, <3>1
    <3> QED
      BY <3>3, <3>4 DEF o, n
  <2>8. \E n \in 0..size : Outlines(x) = [Outlines(v) EXCEPT ![i + 1].size = @ + n]
    <3> DEFINE m == Len(d)
    <3>1. m \in 0..size /\ Outlines(x) = [Outlines(v) EXCEPT ![i + 1].size = @ + m]
      BY <2>4, <2>7
    <3> HIDE DEF m
    <3> QED
      BY <3>1, Zenon
  <2>9. \E k \in DOMAIN Outlines(v) :
           /\ Outlines(v)[k].open
           /\ \E n \in 0..size : Outlines(x) = [Outlines(v) EXCEPT ![k].size = @ + n]
    BY <2>6, <2>7, <2>8, Zenon
  <2> QED
    BY <1>3, <2>2, <2>9 DEF Allowed, x
<1>4. ASSUME v.msg = "started", NEW i \in OpenIn(v), NEW s \in Nat \ {0},
             v.blocks[i + 1].kind = "thinking", e = SignatureDelta(i, s)
      PROVE  Allowed(size, v, Apply(v, e))
  <2> DEFINE x == Apply(v, e)
             b == v.blocks[i + 1]
             c == x.blocks[i + 1]
  <2>1. x = WithSignature(v, i, s)
    BY <1>4, ApplySignatureDelta
  <2> HIDE DEF x
  <2>2. /\ x \in Views /\ x.msg = v.msg /\ Len(x.blocks) = Len(v.blocks)
        /\ c.kind = b.kind /\ c.open = b.open /\ c.data = b.data /\ c.signature = s
        /\ \A j \in 1..Len(v.blocks) : j # i + 1 => x.blocks[j] = v.blocks[j]
    BY <2>1, WithSignatureIs
  <2>3. b \in ViewBlocks /\ c \in ViewBlocks /\ b.open
    BY <2>2, BlocksOfView DEF OpenIn
  <2>5. Outline(c) = [Outline(b) EXCEPT !.signed = TRUE]
    <3> HIDE DEF b, c
    <3>1. /\ Outline(b) \in [kind : Kinds, open : BOOLEAN, signed : BOOLEAN, size : Nat]
          /\ Outline(c) \in [kind : Kinds, open : BOOLEAN, signed : BOOLEAN, size : Nat]
          /\ Outline(c).kind = Outline(b).kind /\ Outline(c).open = Outline(b).open
          /\ Outline(c).signed = TRUE /\ Outline(c).size = Outline(b).size
      <4>1. Outline(c).signed <=> c.signature > 0
        BY <2>3, OutlineIs
      <4>2. c.signature > 0
        BY <2>2
      <4>3. Outline(c).signed \in BOOLEAN /\ Outline(c).signed
        BY <2>3, <4>1, <4>2, OutlineIs
      <4>4. Outline(c).signed = TRUE
        BY <4>3
      <4>5. /\ Outline(b) \in [kind : Kinds, open : BOOLEAN, signed : BOOLEAN, size : Nat]
            /\ Outline(c) \in [kind : Kinds, open : BOOLEAN, signed : BOOLEAN, size : Nat]
            /\ Outline(c).kind = Outline(b).kind /\ Outline(c).open = Outline(b).open
            /\ Outline(c).size = Outline(b).size
        <5>1. c.kind = b.kind /\ c.open = b.open /\ c.data = b.data
          BY <2>2
        <5>2. /\ Outline(b) \in [kind : Kinds, open : BOOLEAN, signed : BOOLEAN, size : Nat]
              /\ Outline(b).kind = b.kind /\ Outline(b).open = b.open /\ Outline(b).size = Len(b.data)
          BY <2>3, OutlineIs
        <5>3. /\ Outline(c) \in [kind : Kinds, open : BOOLEAN, signed : BOOLEAN, size : Nat]
              /\ Outline(c).kind = c.kind /\ Outline(c).open = c.open /\ Outline(c).size = Len(c.data)
          BY <2>3, OutlineIs
        <5> QED
          BY <5>1, <5>2, <5>3
      <4> QED
        BY <4>4, <4>5
    <3> QED
      BY <3>1
  <2>6. /\ Outlines(x) = [Outlines(v) EXCEPT ![i + 1] = Outline(c)]
        /\ i + 1 \in DOMAIN Outlines(v) /\ Outlines(v)[i + 1] = Outline(b)
    BY <2>2, OutlinesChanged
  <2>7. /\ Outlines(x) = [Outlines(v) EXCEPT ![i + 1].signed = TRUE]
        /\ Outlines(v)[i + 1].open /\ Outlines(v)[i + 1].kind = "thinking"
    <3>1. Outline(b).open /\ Outline(b).kind = "thinking"
      BY <1>4, <2>3, OutlineIs
    <3> QED
      BY <2>5, <2>6, <3>1
  <2> QED
    BY <1>4, <2>2, <2>6, <2>7 DEF Allowed, x
<1>5. ASSUME v.msg = "started", NEW i \in OpenIn(v), e = BlockStop(i)
      PROVE  Allowed(size, v, Apply(v, e))
  <2> DEFINE x == Apply(v, e)
             b == v.blocks[i + 1]
             c == x.blocks[i + 1]
  <2>1. x = WithStopped(v, i)
    BY <1>5, ApplyBlockStop
  <2> HIDE DEF x
  <2>2. /\ x \in Views /\ x.msg = v.msg /\ Len(x.blocks) = Len(v.blocks)
        /\ c.kind = b.kind /\ c.open = FALSE /\ c.data = b.data /\ c.signature = b.signature
        /\ \A j \in 1..Len(v.blocks) : j # i + 1 => x.blocks[j] = v.blocks[j]
    BY <2>1, WithStoppedIs
  <2>3. b \in ViewBlocks /\ c \in ViewBlocks /\ b.open
    BY <2>2, BlocksOfView DEF OpenIn
  <2>5. Outline(c) = [Outline(b) EXCEPT !.open = FALSE]
    <3> HIDE DEF b, c
    <3>1. /\ Outline(b) \in [kind : Kinds, open : BOOLEAN, signed : BOOLEAN, size : Nat]
          /\ Outline(c) \in [kind : Kinds, open : BOOLEAN, signed : BOOLEAN, size : Nat]
          /\ Outline(c).kind = Outline(b).kind /\ Outline(c).open = FALSE
          /\ Outline(c).signed = Outline(b).signed /\ Outline(c).size = Outline(b).size
      BY <2>2, <2>3, OutlineIs
    <3> QED
      BY <3>1
  <2>6. /\ Outlines(x) = [Outlines(v) EXCEPT ![i + 1] = Outline(c)]
        /\ i + 1 \in DOMAIN Outlines(v) /\ Outlines(v)[i + 1] = Outline(b)
    BY <2>2, OutlinesChanged
  <2>7. /\ Outlines(x) = [Outlines(v) EXCEPT ![i + 1].open = FALSE] /\ Outlines(v)[i + 1].open
    <3>1. Outline(b).open
      BY <2>3, OutlineIs
    <3> QED
      BY <2>5, <2>6, <3>1
  <2> QED
    BY <1>5, <2>2, <2>6, <2>7 DEF Allowed, x
<1>6. ASSUME v.msg = "started", v.blocks # <<>>, OpenIn(v) = {}, NEW stop \in StopReasons,
             e = MessageDelta(stop)
      PROVE  Allowed(size, v, Apply(v, e))
  <2>1. Apply(v, e) = Closing(v, stop)
    BY <1>6, ApplyMessageDelta
  <2>2. Closing(v, stop).msg = "ending" /\ Closing(v, stop).blocks = v.blocks
    BY DEF Closing, Views
  <2>3. Len(v.blocks) # 0 /\ Outlines(v) # <<>>
    <3>1. v.blocks \in Seq(ViewBlocks) /\ Len(v.blocks) \in Nat /\ DOMAIN Outlines(v) = 1..Len(v.blocks)
      BY BlocksOfView, OutlinesAre
    <3>2. Len(v.blocks) # 0
      BY <1>6, <3>1, EmptySeq
    <3>3. 1 \in DOMAIN Outlines(v)
      BY <3>1, <3>2
    <3> QED
      BY <3>2, <3>3
  <2>4. \A i \in DOMAIN Outlines(v) : ~Outlines(v)[i].open
    <3> SUFFICES ASSUME NEW i \in DOMAIN Outlines(v)
                 PROVE  ~Outlines(v)[i].open
      OBVIOUS
    <3>1. i \in 1..Len(v.blocks) /\ Len(v.blocks) \in Nat /\ Outlines(v)[i] = Outline(v.blocks[i])
      BY OutlinesAre
    <3>2. v.blocks[i] \in ViewBlocks
      BY <3>1, BlocksOfView
    <3>3. i - 1 \in 0..Len(v.blocks) - 1 /\ (i - 1) + 1 = i
      BY <3>1
    <3>4. ~v.blocks[i].open
      BY <1>6, <3>3 DEF OpenIn
    <3> QED
      BY <3>1, <3>2, <3>4, OutlineIs
  <2> QED
    BY <1>6, <2>1, <2>2, <2>3, <2>4 DEF Allowed, Outlines
<1>7. CASE v.msg = "ending" /\ e = MessageStop
  <2>1. Apply(v, e) = Closed(v)
    BY <1>7, ApplyMessageStop
  <2>2. Closed(v).msg = "stopped" /\ Closed(v).blocks = v.blocks
    BY DEF Closed, Views
  <2> QED
    BY <1>7, <2>1, <2>2 DEF Allowed, Outlines
<1> QED
  BY <1>1, <1>2, <1>3, <1>4, <1>5, <1>6, <1>7 DEF Legal

\* A step that gives the client one event it may take is a step of MessageStream.
LEMMA AllowedIsStep ==
    ASSUME Allowed(Size, view, view')
    PROVE  Message!Next
<1>1. /\ Outlines(view) = [i \in DOMAIN view.blocks |->
                             [kind |-> view.blocks[i].kind, open |-> view.blocks[i].open,
                              signed |-> view.blocks[i].signature > 0,
                              size |-> Len(view.blocks[i].data)]]
      /\ Outlines(view') = [i \in DOMAIN view'.blocks |->
                             [kind |-> view'.blocks[i].kind, open |-> view'.blocks[i].open,
                              signed |-> view'.blocks[i].signature > 0,
                              size |-> Len(view'.blocks[i].data)]]
  BY DEF Outlines, Outline
<1>2. Size = MaxText + MaxChunks + MaxDeltas
  BY DEF Size
<1> HIDE DEF Outlines, Outline, Size
<1>3. CASE view.msg = "none" /\ view'.msg = "started" /\ Outlines(view') = Outlines(view)
  BY <1>1, <1>3 DEF Message!Next, Message!Start
<1>4. ASSUME view.msg = "started" /\ view'.msg = view.msg, NEW k \in Kinds,
             Outlines(view') = Append(Outlines(view), [kind |-> k, open |-> TRUE, signed |-> FALSE, size |-> 0])
      PROVE  Message!Next
  BY <1>1, <1>4 DEF Message!Next, Message!StartBlock, Kinds
<1>5. ASSUME view.msg = "started" /\ view'.msg = view.msg, NEW i \in DOMAIN Outlines(view),
             Outlines(view)[i].open,
             NEW n \in 0..Size, Outlines(view') = [Outlines(view) EXCEPT ![i].size = @ + n]
      PROVE  Message!Next
  <2>1. n \in 0..MaxText + MaxChunks + MaxDeltas
    BY <1>2, <1>5
  <2> QED
    BY <1>1, <1>5, <2>1 DEF Message!Next, Message!Extend
<1>6. ASSUME view.msg = "started" /\ view'.msg = view.msg, NEW i \in DOMAIN Outlines(view),
             Outlines(view)[i].open, Outlines(view)[i].kind = "thinking",
             Outlines(view') = [Outlines(view) EXCEPT ![i].signed = TRUE]
      PROVE  Message!Next
  BY <1>1, <1>6 DEF Message!Next, Message!Extend
<1>7. ASSUME view.msg = "started" /\ view'.msg = view.msg, NEW i \in DOMAIN Outlines(view),
             Outlines(view)[i].open, Outlines(view') = [Outlines(view) EXCEPT ![i].open = FALSE]
      PROVE  Message!Next
  BY <1>1, <1>7 DEF Message!Next, Message!StopBlock
<1>8. CASE /\ view.msg = "started" /\ view'.msg = "ending" /\ Outlines(view') = Outlines(view)
           /\ Outlines(view) # <<>> /\ \A i \in DOMAIN Outlines(view) : ~Outlines(view)[i].open
  BY <1>1, <1>8 DEF Message!Next, Message!EndMessage
<1>9. CASE view.msg = "ending" /\ view'.msg = "stopped" /\ Outlines(view') = Outlines(view)
  BY <1>1, <1>9 DEF Message!Next, Message!Stop
<1> QED
  BY <1>3, <1>4, <1>5, <1>6, <1>7, <1>8, <1>9 DEF Allowed

\* The client's view changes by the event at the head of what is on its way, or
\* not at all.
LEMMA ViewSteps ==
    ASSUME StreamInv, [Next]_vars
    PROVE  Allowed(Size, view, view') \/ view' = view
<1>1. Control
  BY DEF StreamInv
<1>2. Size \in Nat /\ view \in Views /\ buffer \in Seq(Events) /\ queue \in Seq(Events)
  BY <1>1, BoundsAssumption DEF Control, Size
<1>3. CASE Write /\ buffering = "off"
  <2>1. view' = Apply(view, Head(queue)) /\ queue # <<>> /\ buffer = <<>>
    BY <1>1, <1>3 DEF Write, Control
  <2>2. PICK w : Leads(Size, view, buffer \o queue, w)
    BY <1>3 DEF StreamInv, Prelude, Lawful
  <2>3. Leads(Size, view, queue, w)
    BY <1>2, <2>1, <2>2, ConcatEmptySeq
  <2>4. Legal(Size, view, Head(queue))
    BY <1>2, <2>1, <2>3, LeadsHead
  <2> QED
    BY <1>2, <2>1, <2>4, LegalAllowed
<1>4. CASE Flush /\ buffer # <<>>
  <2>1. view' = Apply(view, Head(buffer)) /\ buffering = "flushing"
    BY <1>4 DEF Flush
  <2>2. PICK w : Leads(Size, view, buffer \o queue, w)
    BY <2>1 DEF StreamInv, Prelude, Lawful
  <2> DEFINE q == buffer \o queue
  <2>3. q \in Seq(Events) /\ q # <<>> /\ Head(q) = Head(buffer) /\ Leads(Size, view, q, w)
    BY <1>2, <1>4, <2>2, ConcatHead
  <2> HIDE DEF q
  <2>4. Legal(Size, view, Head(q))
    BY <1>2, <2>3, LeadsHead
  <2> QED
    BY <1>2, <2>1, <2>3, <2>4, LegalAllowed
<1>5. CASE ~(Write /\ buffering = "off") /\ ~(Flush /\ buffer # <<>>)
  <2>1. CASE Translate \/ Refuse \/ Accept
    BY <2>1 DEF Translate, Refuse, Accept, writer_vars
  <2>2. CASE OpenAIEvent \/ GeminiChunk \/ EndOfStream
    BY <2>2 DEF OpenAIEvent, GeminiChunk, EndOfStream, Reading, writer_vars
  <2>3. CASE Write
    BY <1>5, <2>3 DEF Write
  <2>4. CASE Flush
    BY <1>5, <2>4 DEF Flush
  <2>5. CASE WriteFails \/ Return \/ Follow
    BY <2>5 DEF WriteFails, Return, Follow, writer_vars
  <2>6. CASE UNCHANGED vars
    BY <2>6 DEF vars
  <2> QED
    BY <2>1, <2>2, <2>3, <2>4, <2>5, <2>6 DEF Next
<1> QED
  BY <1>3, <1>4, <1>5

\* Whatever the upstream does, however the prelude is flushed and wherever the
\* answer breaks off, the client sees a well-formed stream.
THEOREM Refinement == Spec => ImplementsMessageStream
<1>1. Init => Message!Init
  <2> SUFFICES ASSUME Init
               PROVE  Message!Init
    OBVIOUS
  <2>1. view.msg = "none" /\ view.blocks = <<>>
    BY DEF Init, NoMessage
  <2>2. \A f : DOMAIN f = {} => f = <<>>
    OBVIOUS
  <2> QED
    BY <2>1 DEF Message!Init
<1>2. StreamInv /\ [Next]_vars => [Message!Next]_(Message!vars)
  <2> SUFFICES ASSUME StreamInv, [Next]_vars
               PROVE  [Message!Next]_(Message!vars)
    OBVIOUS
  <2>1. CASE Allowed(Size, view, view')
    BY <2>1, AllowedIsStep
  <2>2. CASE view' = view
    BY <2>2 DEF Message!vars
  <2> QED
    BY <2>1, <2>2, ViewSteps
<1> QED
  BY <1>1, <1>2, AnswerLawful, PTL DEF Spec, ImplementsMessageStream, Message!Spec

-----------------------------------------------------------------------------
(* What the two providers make of one request.                             *)

\* The settings of a first request.
LEMMA SettingsAre ==
    ASSUME NEW r \in Settings
    PROVE  /\ r.thinking \in ThinkingForms /\ r.effort \in Efforts /\ r.model \in Models
           /\ r.filter \in Filters /\ r.choice \in ToolChoices /\ r.chosen = "Read"
<1>1. ASSUME NEW t \in ThinkingForms, NEW e \in Efforts, NEW b, NEW a, NEW m \in Models,
             NEW f \in Filters, NEW c \in ToolChoices, NEW ts, r = Asks(t, e, b, a, m, f, c, ts)
      PROVE  /\ r.thinking \in ThinkingForms /\ r.effort \in Efforts /\ r.model \in Models
             /\ r.filter \in Filters /\ r.choice \in ToolChoices /\ r.chosen = "Read"
  BY <1>1 DEF Asks
<1>2. /\ "unset" \in Filters /\ "absent" \in ToolChoices /\ "absent" \in ThinkingForms
      /\ "none" \in Efforts /\ "plain" \in Models
  BY DEF Filters, ToolChoices, ThinkingForms, Efforts, Models
<1> DEFINE S == {Asks(t, e, b, a, m, "unset", "absent", ToolNames) :
                    t \in ThinkingForms, e \in Efforts, b \in {0, 2048},
                    a \in Efforts \X Efforts \X {0, 512}, m \in Models}
           T == {Asks("absent", "none", 0, <<"none", "none", 0>>, "plain", f, c, ts) :
                    f \in Filters, c \in ToolChoices, ts \in SUBSET ToolNames}
<1>3. r \in S \/ r \in T
  <2>1. Settings = S \cup T
    BY DEF Settings
  <2> HIDE DEF S, T
  <2> QED
    BY <2>1
<1>4. CASE r \in S
  <2>1. PICK t \in ThinkingForms, e \in Efforts, b \in {0, 2048},
           a \in Efforts \X Efforts \X {0, 512}, m \in Models :
                r = Asks(t, e, b, a, m, "unset", "absent", ToolNames)
    BY <1>4
  <2> QED
    BY <1>1, <1>2, <2>1
<1>5. CASE r \in T
  <2>1. PICK f \in Filters, c \in ToolChoices, ts \in SUBSET ToolNames :
                r = Asks("absent", "none", 0, <<"none", "none", 0>>, "plain", f, c, ts)
    BY <1>5
  <2> QED
    BY <1>1, <1>2, <2>1
<1> HIDE DEF S, T
<1> QED
  BY <1>3, <1>4, <1>5

\* Both providers think, or neither does.
LEMMA BothThink ==
    ASSUME NEW r, r.thinking \in ThinkingForms, r.model # "plain",
           ~(r.thinking \in {"disabled", "false"} /\ r.effort # "none")
    PROVE  OpenAIReasoning(r).on = GeminiThinking(r).on
<1>1. OpenAIReasoning(r).on = AskedEffort(r).on
  <2>1. NoReasoning.on = FALSE /\ \A e : Reasoning(e).on = TRUE
    BY DEF NoReasoning, Reasoning
  <2>2. AskedEffort(r) = NoReasoning \/ \E e : AskedEffort(r) = Reasoning(e)
    BY DEF AskedEffort, Explicit, ThinkingForms
  <2>3. CASE AskedEffort(r) = NoReasoning
    <3>1. ~AskedEffort(r).on
      BY <2>1, <2>3
    <3>2. OpenAIReasoning(r) = NoReasoning
      BY <3>1 DEF OpenAIReasoning
    <3> QED
      BY <2>3, <3>2
  <2>4. ASSUME NEW e, AskedEffort(r) = Reasoning(e) PROVE OpenAIReasoning(r).on = AskedEffort(r).on
    <3>1. AskedEffort(r).on
      BY <2>1, <2>4
    <3>2. CASE Explicit(r)
      <4>1. OpenAIReasoning(r) = AskedEffort(r)
        BY <3>1, <3>2 DEF OpenAIReasoning
      <4> QED
        BY <4>1
    <3>3. CASE ~Explicit(r)
      <4>1. \E f : OpenAIReasoning(r) = Reasoning(f)
        BY <3>1, <3>3 DEF OpenAIReasoning
      <4> QED
        BY <2>1, <2>4, <4>1
    <3> QED
      BY <3>2, <3>3
  <2> QED
    BY <2>2, <2>3, <2>4
<1>2. CASE r.thinking = "absent"
  <2>1. AskedEffort(r).on = FALSE
    <3>1. AskedEffort(r) = NoReasoning
      BY <1>2 DEF AskedEffort, Explicit
    <3> QED
      BY <3>1 DEF NoReasoning
  <2>2. (ThinkingEnabled(r) /\ r.model # "plain") = FALSE
    BY <1>2 DEF ThinkingEnabled
  <2>3. GeminiThinking(r).on = FALSE
    BY <2>2, Zenon DEF GeminiThinking
  <2> QED
    BY <1>1, <2>1, <2>3
<1>3. CASE r.thinking \in {"disabled", "false"}
  <2>1. AskedEffort(r).on = FALSE
    BY <1>3 DEF AskedEffort, Explicit, NoReasoning
  <2>2. (ThinkingEnabled(r) /\ r.model # "plain") = FALSE
    BY <1>3 DEF ThinkingEnabled
  <2>3. GeminiThinking(r).on = FALSE
    BY <2>2, Zenon DEF GeminiThinking
  <2> QED
    BY <1>1, <2>1, <2>3
<1>4. CASE r.thinking \in {"malformed", "enabled", "adaptive", "true", "other"}
  <2>1. AskedEffort(r).on = TRUE
    BY <1>4 DEF AskedEffort, Explicit, Reasoning
  <2>2. (ThinkingEnabled(r) /\ r.model # "plain") = TRUE
    BY <1>4 DEF ThinkingEnabled
  <2>3. GeminiThinking(r).on = TRUE
    BY <2>2, Zenon DEF GeminiThinking
  <2> QED
    BY <1>1, <2>1, <2>3
<1> QED
  BY <1>2, <1>3, <1>4 DEF ThinkingForms

\* Both providers declare the same tools.
LEMMA SameDeclared ==
    ASSUME NEW r, r.filter \in Filters \ {"unknown"}
    PROVE  OpenAITools(r) = GeminiTools(r)
BY DEF OpenAITools, GeminiTools, Filters

\* Both providers force the same choice.
LEMMA SameChoices ==
    ASSUME NEW r, r.choice \in ToolChoices
    PROVE  SameChoice(OpenAIToolChoice(r), GeminiToolChoice(r))
<1>1. CASE r.choice = "auto"
  BY <1>1 DEF SameChoice, OpenAIToolChoice, GeminiToolChoice
<1>2. CASE r.choice = "none"
  BY <1>2 DEF SameChoice, OpenAIToolChoice, GeminiToolChoice
<1>3. CASE r.choice \in {"any", "unnamed"}
  BY <1>3 DEF SameChoice, OpenAIToolChoice, GeminiToolChoice
<1>4. CASE r.choice = "tool"
  BY <1>4 DEF SameChoice, OpenAIToolChoice, GeminiToolChoice
<1>5. CASE r.choice \in {"absent", "unknown"}
  BY <1>5 DEF SameChoice, OpenAIToolChoice, GeminiToolChoice
<1> QED
  BY <1>1, <1>2, <1>3, <1>4, <1>5 DEF ToolChoices

\* What was translated is the request as it was asked.
Asked ==
    /\ phase \in {"asked", "translated"} => request \in Settings
    /\ phase = "translated" =>
          sent = [openai |-> OpenAISettings(request), gemini |-> GeminiSettings(request)]

\* A failover from one provider to the other does not change what the client
\* asked (translateReasoning, buildThinkingConfig, the tool filters and the
\* tool_choice of internal/provider/openai/translate.go and gemini/translate.go).
THEOREM Agreement == Spec => []ProvidersAgree
<1>1. Init => Asked
  BY DEF Init, Asked
<1>2. Asked /\ [Next]_vars => Asked'
  <2> SUFFICES ASSUME Asked, [Next]_vars
               PROVE  Asked'
    OBVIOUS
  <2>1. CASE Translate
    BY <2>1 DEF Translate, Asked
  <2>2. CASE Refuse \/ Accept
    BY <2>2 DEF Refuse, Accept, Asked
  <2>3. CASE Follow
    BY <2>3 DEF Follow, Asked
  <2>4. CASE UNCHANGED <<phase, request_vars>>
    BY <2>4 DEF request_vars, Asked
  <2>5. CASE OpenAIEvent \/ GeminiChunk \/ EndOfStream
    BY <2>4, <2>5 DEF OpenAIEvent, GeminiChunk, EndOfStream, Reading
  <2>6. CASE Write \/ Flush \/ WriteFails \/ Return
    BY <2>4, <2>6 DEF Write, Flush, WriteFails, Return
  <2>7. CASE UNCHANGED vars
    BY <2>4, <2>7 DEF vars, request_vars
  <2> QED
    BY <2>1, <2>2, <2>3, <2>5, <2>6, <2>7 DEF Next
<1>3. Asked => ProvidersAgree
  <2> SUFFICES ASSUME Asked, phase = "translated"
               PROVE  LET o == sent.openai
                          g == sent.gemini
                      IN  /\ \/ o.reasoning.on = g.thinking.on
                             \/ request.model = "plain"
                             \/ request.thinking \in {"disabled", "false"} /\ request.effort # "none"
                          /\ request.filter # "unknown" => o.tools = g.tools
                          /\ SameChoice(o.choice, g.choice)
    BY DEF ProvidersAgree
  <2>1. request \in Settings /\ sent.openai = OpenAISettings(request) /\ sent.gemini = GeminiSettings(request)
    BY DEF Asked
  <2>2. /\ request.thinking \in ThinkingForms /\ request.filter \in Filters /\ request.choice \in ToolChoices
    BY <2>1, SettingsAre
  <2>3. /\ sent.openai.reasoning = OpenAIReasoning(request) /\ sent.openai.tools = OpenAITools(request)
        /\ sent.openai.choice = OpenAIToolChoice(request)
        /\ sent.gemini.thinking = GeminiThinking(request) /\ sent.gemini.tools = GeminiTools(request)
        /\ sent.gemini.choice = GeminiToolChoice(request)
    BY <2>1 DEF OpenAISettings, GeminiSettings
  <2> QED
    BY <2>2, <2>3, BothThink, SameDeclared, SameChoices
<1> QED
  BY <1>1, <1>2, <1>3, PTL DEF Spec

-----------------------------------------------------------------------------
(* What the client was told, at every moment and at the end.               *)

\* What the runs compare is what the client was told.
LEMMA ShownIs ==
    ASSUME Control
    PROVE  Shown = Told(view) /\ Told(view) \in Seq(Pieces)
<1> DEFINE T == ToldBlocks(Omitted, view)
           order == Ascending(T)
<1>1. view \in Views
  BY DEF Control
<1>2. view.blocks \in Seq(ViewBlocks)
  BY <1>1, BlocksOfView DEF Views
<1>3. DOMAIN view.blocks = 1..Len(view.blocks)
  BY <1>2, LenProperties
<1>4. Tells(view, T, Told(view))
  BY <1>1, SpokenIs DEF Told
<1>5. \A k \in Kinds : k \notin Omitted <=> provider = "openai" \/ k # "thinking"
  BY DEF Omitted, Kinds
<1>6. \A i \in 1..Len(view.blocks) : view.blocks[i].kind \in Kinds
  BY <1>1, BlocksOfView DEF ViewBlocks
<1>7. {i \in DOMAIN view.blocks : Compared(view.blocks[i])} = T
  BY <1>3, <1>5, <1>6 DEF Compared, ToldBlocks
<1>8. DOMAIN order = 1..Len(order)
  <2>1. order \in Seq(T)
    BY <1>4 DEF Tells
  <2> QED
    BY <2>1, LenProperties
<1>9. Shown = [k \in DOMAIN order |-> Bare(view.blocks[order[k]])]
  BY <1>7 DEF Shown
<1>10. Told(view) = [k \in 1..Len(order) |-> Bare(view.blocks[order[k]])]
  BY DEF Told, Spoken
<1>11. Told(view) \in Seq(Pieces)
  BY <1>4 DEF Tells
<1> QED
  BY <1>8, <1>9, <1>10, <1>11

\* The client has been told what the upstream's answer begins with, or its filling.
LEMMA FaithfulAlways ==
    ASSUME StreamInv
    PROVE  BlocksFaithful
<1>1. Control
  BY DEF StreamInv
<1>2. Faithful(view)
  <2>1. CASE Prelude
    BY <2>1 DEF Prelude
  <2>2. CASE \E w : Lawful(w)
    BY <1>1, <2>2, LawfulView
  <2> QED
    BY <2>1, <2>2 DEF StreamInv
<1>3. Shown = Told(view) /\ DOMAIN Shown = 1..Len(Shown)
  BY <1>1, ShownIs, LenProperties
<1>4. ~Unclear => Beneath(Shown, Expected)
  BY <1>2, <1>3 DEF Faithful
<1> HIDE DEF StreamInv
<1> QED
  BY <1>3, <1>4 DEF BlocksFaithful, Beneath, Under

\* An answer that is reported as a success has all reached the client.
LEMMA DeliversAlways ==
    ASSUME StreamInv
    PROVE  SuccessDelivers
<1> SUFFICES ASSUME result = "ok" PROVE SuccessDelivers
  BY DEF SuccessDelivers
<1>1. Control /\ queue = <<>> /\ buffer = <<>> /\ then = "ok" /\ buffering = "off"
  BY DEF StreamInv, Control
<1>2. PICK w : Lawful(w)
  BY <1>1 DEF StreamInv, Prelude
<1>3. Delivers(w) /\ Leads(Size, view, buffer \o queue, w)
  BY <1>1, <1>2 DEF Lawful
<1>4. buffer \o queue = <<>>
  BY <1>1, EmptySeq, ConcatEmptySeq
<1>5. w = view
  BY <1>1, <1>3, <1>4, LeadsNowhere DEF Control
<1>6. Shown = Told(view)
  BY <1>1, ShownIs
<1> QED
  BY <1>3, <1>5, <1>6 DEF SuccessDelivers, Delivers

\* BlocksFaithful: of either provider, the client never sees anything the upstream
\* did not say, nor twice, nor in another order (delta handling of
\* openai/stream.go:205-425; snapshots and increments of gemini/stream.go:453-468).
THEOREM Faithfulness == Spec => []BlocksFaithful
<1>1. StreamInv => BlocksFaithful
  BY FaithfulAlways
<1> QED
  BY <1>1, AnswerLawful, PTL

\* SuccessDelivers: a Stream that reports success delivered everything that was
\* said, in a message that ended (handler.go:259), and "tool_use" tells the client
\* of a call that is there.
THEOREM Delivery == Spec => []SuccessDelivers
<1>1. StreamInv => SuccessDelivers
  BY DeliversAlways
<1> QED
  BY <1>1, AnswerLawful, PTL

=============================================================================
