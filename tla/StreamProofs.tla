----------------------------- MODULE StreamProofs -----------------------------
(***************************************************************************)
(* What the client of a provider's stream sees, event by event, and what   *)
(* the converters of openai/stream.go and gemini/stream.go emit, for any   *)
(* upstream: every event they emit is legal where it arrives, and leaves   *)
(* the client with the blocks the converter believes it has.  Induction on *)
(* a number is by its least counterexample.                                *)
(***************************************************************************)
EXTENDS OpenAIStream, GeminiStream, SequenceTheorems, FiniteSetTheorems,
        WellFoundedInduction, TLAPS

-----------------------------------------------------------------------------
(* Numbers.                                                                *)

\* A set of naturals has a least element.
LEMMA Least ==
    ASSUME NEW S \in SUBSET Nat, S # {}
    PROVE  \E n \in S : \A m \in S : n <= m
<1> DEFINE Less == {p \in Nat \X Nat : p[1] < p[2]}
<1>1. IsWellFoundedOn(Less, Nat)
  BY NatLessThanWellFounded, Zenon DEF OpToRel
<1>2. \E n \in S : \A m \in S : <<m, n>> \notin Less
  BY <1>1, WFMin
<1>3. \A m, n \in Nat : <<m, n>> \in Less <=> m < n
  OBVIOUS
<1> HIDE DEF Less
<1>4. PICK n \in S : \A m \in S : <<m, n>> \notin Less
  BY <1>2
<1>5. \A m \in S : n <= m
  <2> TAKE m \in S
  <2>1. m \in Nat /\ n \in Nat
    OBVIOUS
  <2>2. ~(m < n)
    BY <1>3, <1>4, <2>1, Zenon
  <2> QED
    BY <2>1, <2>2
<1> QED
  BY <1>5

\* As n goes up, the positions of a set up to n become one more, or none.
LEMMA OneMorePosition ==
    ASSUME NEW S \in SUBSET Nat, IsFiniteSet(S), NEW n \in Nat
    PROVE  LET upTo(m) == {j \in S : j <= m}
           IN  /\ Cardinality(upTo(n)) \in Nat
               /\ n + 1 \in S => Cardinality(upTo(n + 1)) = Cardinality(upTo(n)) + 1
               /\ n + 1 \notin S => Cardinality(upTo(n + 1)) = Cardinality(upTo(n))
<1> DEFINE upTo(m) == {j \in S : j <= m}
<1>1. IsFiniteSet(upTo(n))
  BY FS_Subset
<1>2. Cardinality(upTo(n)) \in Nat
  BY <1>1, FS_CardinalityType
<1>p. \A j \in S : j \in Nat /\ (j <= n + 1 <=> j <= n \/ j = n + 1)
  OBVIOUS
<1>3. n + 1 \in S => upTo(n + 1) = upTo(n) \cup {n + 1} /\ n + 1 \notin upTo(n)
  <2>1. n + 1 \notin upTo(n) /\ n + 1 <= n + 1
    OBVIOUS
  <2> QED
    BY <1>p, <2>1, Zenon
<1>4. n + 1 \notin S => upTo(n + 1) = upTo(n)
  BY <1>p, Zenon
<1> HIDE DEF upTo
<1>5. n + 1 \in S => Cardinality(upTo(n + 1)) = Cardinality(upTo(n)) + 1
  BY <1>1, <1>3, FS_AddElement
<1> QED
  BY <1>2, <1>4, <1>5 DEF upTo

\* A finite set of positions has an n-th one.
LEMMA NthPosition ==
    ASSUME NEW N \in Nat, NEW S \in SUBSET (0..N), NEW n \in 1..Cardinality(S)
    PROVE  \E i \in S : Cardinality({j \in S : j <= i}) = n
<1> DEFINE upTo(m) == {j \in S : j <= m}
           C(m) == Cardinality(upTo(m))
           reached == {m \in Nat : C(m) >= n}
<1>1. IsFiniteSet(S) /\ S \in SUBSET Nat
  <2>1. IsFiniteSet(0..N) /\ 0..N \subseteq Nat
    BY FS_Interval
  <2> QED
    BY <2>1, FS_Subset
<1>2. upTo(N) = S /\ n \in Nat /\ n >= 1 /\ n <= Cardinality(S)
  <2>1. \A j \in S : j <= N
    OBVIOUS
  <2>2. Cardinality(S) \in Nat
    BY <1>1, FS_CardinalityType
  <2>3. upTo(N) = S
    BY <2>1, Zenon
  <2> QED
    BY <2>2, <2>3
<1>3. \A m \in Nat : /\ C(m) \in Nat
                     /\ m + 1 \in S => C(m + 1) = C(m) + 1
                     /\ m + 1 \notin S => C(m + 1) = C(m)
  BY <1>1, OneMorePosition
<1>4. C(0) = IF 0 \in S THEN 1 ELSE 0
  <2>1. \A j \in S : j <= 0 <=> j = 0
    BY <1>1
  <2>2. upTo(0) = IF 0 \in S THEN {0} ELSE {}
    BY <2>1, Zenon
  <2> QED
    BY <2>2, FS_EmptySet, FS_Singleton
<1>5. N \in reached
  BY <1>2
<1> HIDE DEF upTo, C
<1>6. PICK m \in reached : \A k \in reached : m <= k
  BY <1>5, Least
<1>7. CASE m = 0
  <2>1. 0 \in S /\ C(0) = n
    BY <1>2, <1>4, <1>6, <1>7
  <2> QED
    BY <2>1 DEF C, upTo
<1>8. CASE m # 0
  <2>1. m - 1 \in Nat /\ C(m - 1) < n
    BY <1>2, <1>3, <1>6, <1>8
  <2>2. (m - 1) + 1 = m /\ C(m) >= n
    BY <1>6
  <2>3. C(m - 1) \in Nat /\ (m \in S => C(m) = C(m - 1) + 1) /\ (m \notin S => C(m) = C(m - 1))
    BY <1>3, <2>1, <2>2
  <2>4. m \in S /\ C(m) = n
    BY <1>2, <2>1, <2>2, <2>3
  <2> QED
    BY <2>4 DEF C, upTo
<1> QED
  BY <1>7, <1>8

\* Of two positions of a set, more come up to the later one.
LEMMA PositionsGrow ==
    ASSUME NEW S \in SUBSET Nat, IsFiniteSet(S), NEW i \in S, NEW k \in S, i < k
    PROVE  Cardinality({j \in S : j <= i}) < Cardinality({j \in S : j <= k})
<1> DEFINE upTo(m) == {j \in S : j <= m}
<1>1. IsFiniteSet(upTo(i)) /\ IsFiniteSet(upTo(k))
  BY FS_Subset
<1>2. i \in Nat /\ k \in Nat /\ \A j \in S : j \in Nat
  OBVIOUS
<1>3. upTo(i) \cup {k} \subseteq upTo(k) /\ k \notin upTo(i)
  <2>1. \A j \in S : (j <= i => j <= k) /\ k <= k /\ ~(k <= i)
    BY <1>2
  <2> QED
    BY <2>1, Zenon
<1> HIDE DEF upTo
<1>4. Cardinality(upTo(i) \cup {k}) = Cardinality(upTo(i)) + 1
  BY <1>1, <1>3, FS_AddElement
<1>5. Cardinality(upTo(i) \cup {k}) <= Cardinality(upTo(k))
  BY <1>1, <1>3, FS_Subset
<1>6. Cardinality(upTo(i)) \in Nat /\ Cardinality(upTo(k)) \in Nat
  BY <1>1, FS_CardinalityType
<1> QED
  BY <1>4, <1>5, <1>6 DEF upTo

\* Ascending lists every element of a finite set of naturals once, the smaller
\* ones first (the order in which both converters stop their open blocks).
LEMMA AscendingLists ==
    ASSUME NEW N \in Nat, NEW S \in SUBSET (0..N)
    PROVE  /\ Ascending(S) \in Seq(S) /\ Len(Ascending(S)) = Cardinality(S)
           /\ \A i \in S : \E k \in 1..Len(Ascending(S)) : Ascending(S)[k] = i
           /\ \A k, l \in 1..Len(Ascending(S)) : k < l => Ascending(S)[k] < Ascending(S)[l]
<1> DEFINE n == Cardinality(S)
           C(i) == Cardinality({j \in S : j <= i})
           nth(k) == CHOOSE i \in S : C(i) = k
<1>1. n \in Nat /\ IsFiniteSet(S) /\ S \in SUBSET Nat
  <2>1. IsFiniteSet(0..N) /\ 0..N \subseteq Nat
    BY FS_Interval
  <2> QED
    BY <2>1, FS_Subset, FS_CardinalityType
<1>2. \A k \in 1..n : nth(k) \in S /\ C(nth(k)) = k
  <2> TAKE k \in 1..n
  <2>1. \E i \in S : C(i) = k
    BY NthPosition
  <2> QED
    BY <2>1, Zenon
<1>3. \A i, k \in S : i < k => C(i) < C(k)
  BY <1>1, PositionsGrow
<1>4. \A i \in S : C(i) \in 1..n
  <2> TAKE i \in S
  <2> DEFINE upTo == {j \in S : j <= i}
  <2>1. upTo \subseteq S /\ IsFiniteSet(upTo) /\ i \in upTo
    BY <1>1, FS_Subset
  <2>2. Cardinality(upTo) \in Nat /\ Cardinality(upTo) <= Cardinality(S) /\ Cardinality(upTo) # 0
    BY <1>1, <2>1, FS_Subset, FS_CardinalityType, FS_EmptySet
  <2> QED
    BY <1>1, <2>2
<1>5. Ascending(S) = [k \in 1..n |-> nth(k)]
  BY DEF Ascending
<1> HIDE DEF C, nth, n
<1>6. \A i \in S : nth(C(i)) = i
  <2> TAKE i \in S
  <2>1. nth(C(i)) \in S /\ C(nth(C(i))) = C(i) /\ i \in Nat /\ nth(C(i)) \in Nat
    BY <1>1, <1>2, <1>4
  <2>2. ~(i < nth(C(i))) /\ ~(nth(C(i)) < i)
    BY <1>1, <1>3, <1>4, <2>1
  <2> QED
    BY <2>1, <2>2
<1>7. Ascending(S) \in Seq(S) /\ Len(Ascending(S)) = n
  <2>1. Ascending(S) \in [1..n -> S]
    BY <1>2, <1>5
  <2> QED
    BY <1>1, <2>1, SeqDef, LenProperties
<1>8. \A i \in S : \E k \in 1..n : Ascending(S)[k] = i
  BY <1>4, <1>5, <1>6
<1>9. \A k, l \in 1..n : k < l => Ascending(S)[k] < Ascending(S)[l]
  <2> TAKE k, l \in 1..n
  <2> HAVE k < l
  <2>1. /\ nth(k) \in S /\ nth(l) \in S /\ C(nth(k)) = k /\ C(nth(l)) = l
        /\ Ascending(S)[k] = nth(k) /\ Ascending(S)[l] = nth(l)
    BY <1>2, <1>5
  <2>2. nth(k) \in Nat /\ nth(l) \in Nat /\ k \in Nat /\ l \in Nat
    <3>1. nth(k) \in Nat /\ nth(l) \in Nat
      BY <1>1, <2>1
    <3>2. k \in Nat /\ l \in Nat
      BY <1>1
    <3> QED
      BY <3>1, <3>2
  <2>3. nth(l) < nth(k) => l < k
    BY <1>3, <2>1
  <2>4. nth(k) = nth(l) => k = l
    BY <2>1
  <2> QED
    BY <2>1, <2>2, <2>3, <2>4
<1> QED
  BY <1>7, <1>8, <1>9 DEF n

-----------------------------------------------------------------------------
(* The client: what it holds, and what one legal event does to it.         *)

ViewBlocks == [kind : Kinds, open : BOOLEAN, data : Seq(Nat), signature : Nat]
Views == [msg : {"none", "started", "ending", "stopped"}, blocks : Seq(ViewBlocks),
          stop : StopReasons \cup {"none"}]

\* The indexes of the open blocks.
OpenIn(v) == {i \in 0..Len(v.blocks) - 1 : v.blocks[i + 1].open}

Fresh == [NoMessage EXCEPT !.msg = "started"]
NewBlock(k) == [kind |-> k, open |-> TRUE, data |-> <<>>, signature |-> 0]
WithBlock(v, k) == [v EXCEPT !.blocks = Append(v.blocks, NewBlock(k))]
Changed(v, i, b) == [v EXCEPT !.blocks = [v.blocks EXCEPT ![i + 1] = b]]
WithData(v, i, d) == Changed(v, i, [v.blocks[i + 1] EXCEPT !.data = @ \o d])
WithSignature(v, i, s) == Changed(v, i, [v.blocks[i + 1] EXCEPT !.signature = s])
WithStopped(v, i) == Changed(v, i, [v.blocks[i + 1] EXCEPT !.open = FALSE])
Closing(v, stop) == [v EXCEPT !.msg = "ending", !.stop = stop]
Closed(v) == [v EXCEPT !.msg = "stopped"]

\* The events a client can take where it is, none of which adds more than size.
Legal(size, v, e) ==
    \/ v = NoMessage /\ e = MessageStart
    \/ v.msg = "started" /\ \E k \in Kinds : e = BlockStart(Len(v.blocks), k)
    \/ /\ v.msg = "started"
       /\ \E i \in OpenIn(v), d \in Seq(Nat) :
             Len(d) <= size /\ e = BlockDelta(i, v.blocks[i + 1].kind, d)
    \/ /\ v.msg = "started"
       /\ \E i \in OpenIn(v), s \in Nat \ {0} :
             v.blocks[i + 1].kind = "thinking" /\ e = SignatureDelta(i, s)
    \/ v.msg = "started" /\ \E i \in OpenIn(v) : e = BlockStop(i)
    \/ /\ v.msg = "started" /\ v.blocks # <<>> /\ OpenIn(v) = {}
       /\ \E stop \in StopReasons : e = MessageDelta(stop)
    \/ v.msg = "ending" /\ e = MessageStop

\* A block of a view is there, and one that is open has an index.
LEMMA BlocksOfView ==
    ASSUME NEW v \in Views
    PROVE  /\ v.blocks \in Seq(ViewBlocks) /\ Len(v.blocks) \in Nat
           /\ DOMAIN v.blocks = 1..Len(v.blocks)
           /\ \A i \in 1..Len(v.blocks) : v.blocks[i] \in ViewBlocks
           /\ \A i \in OpenIn(v) : i \in Nat /\ i < Len(v.blocks) /\ v.blocks[i + 1] \in ViewBlocks
<1>1. v.blocks \in Seq(ViewBlocks)
  BY DEF Views
<1>2. Len(v.blocks) \in Nat /\ DOMAIN v.blocks = 1..Len(v.blocks)
  BY <1>1, LenProperties
<1>3. \A i \in 1..Len(v.blocks) : v.blocks[i] \in ViewBlocks
  BY <1>1, ElementOfSeq
<1>4. \A i \in OpenIn(v) : i \in Nat /\ i < Len(v.blocks) /\ i + 1 \in 1..Len(v.blocks)
  BY <1>2 DEF OpenIn
<1> QED
  BY <1>1, <1>2, <1>3, <1>4

\* A view with one block changed.
LEMMA ChangedIs ==
    ASSUME NEW v \in Views, NEW i \in Nat, i < Len(v.blocks), NEW b \in ViewBlocks
    PROVE  LET w == Changed(v, i, b)
           IN  /\ w \in Views /\ w.msg = v.msg /\ w.stop = v.stop
               /\ Len(w.blocks) = Len(v.blocks)
               /\ w.blocks[i + 1] = b
               /\ \A j \in 1..Len(v.blocks) : j # i + 1 => w.blocks[j] = v.blocks[j]
<1> DEFINE n == [v.blocks EXCEPT ![i + 1] = b]
           w == Changed(v, i, b)
<1>1. v.blocks \in Seq(ViewBlocks) /\ i + 1 \in 1..Len(v.blocks)
  BY BlocksOfView
<1>2. /\ n \in Seq(ViewBlocks) /\ Len(n) = Len(v.blocks)
      /\ \A j \in 1..Len(v.blocks) : n[j] = IF j = i + 1 THEN b ELSE v.blocks[j]
  BY <1>1, ExceptSeq
<1>3. w = [v EXCEPT !.blocks = n]
  BY DEF Changed
<1> HIDE DEF n
<1>4. w \in Views /\ w.msg = v.msg /\ w.stop = v.stop /\ w.blocks = n
  BY <1>2, <1>3 DEF Views
<1> QED
  BY <1>1, <1>2, <1>4

\* A view with one block more.
LEMMA WithBlockIs ==
    ASSUME NEW v \in Views, NEW k \in Kinds
    PROVE  LET w == WithBlock(v, k)
           IN  /\ w \in Views /\ w.msg = v.msg /\ w.stop = v.stop
               /\ Len(w.blocks) = Len(v.blocks) + 1
               /\ w.blocks[Len(v.blocks) + 1] = NewBlock(k)
               /\ \A j \in 1..Len(v.blocks) : w.blocks[j] = v.blocks[j]
<1> DEFINE n == Append(v.blocks, NewBlock(k))
           w == WithBlock(v, k)
<1>1. NewBlock(k) \in ViewBlocks
  <2>1. <<>> \in Seq(Nat)
    BY EmptySeq
  <2> QED
    BY <2>1 DEF NewBlock, ViewBlocks
<1>2. v.blocks \in Seq(ViewBlocks)
  BY BlocksOfView
<1>3. /\ n \in Seq(ViewBlocks) /\ Len(n) = Len(v.blocks) + 1
      /\ \A j \in 1..Len(v.blocks) : n[j] = v.blocks[j]
      /\ n[Len(v.blocks) + 1] = NewBlock(k)
  BY <1>1, <1>2, AppendProperties
<1>4. w = [v EXCEPT !.blocks = n]
  BY DEF WithBlock
<1> HIDE DEF n
<1>5. w \in Views /\ w.msg = v.msg /\ w.stop = v.stop /\ w.blocks = n
  BY <1>3, <1>4 DEF Views
<1> QED
  BY <1>3, <1>5

\* A view whose block i has more data; the others are as they were.
LEMMA WithDataIs ==
    ASSUME NEW v \in Views, NEW i \in OpenIn(v), NEW d \in Seq(Nat)
    PROVE  LET w == WithData(v, i, d)
               b == v.blocks[i + 1]
           IN  /\ w \in Views /\ w.msg = v.msg /\ w.stop = v.stop
               /\ Len(w.blocks) = Len(v.blocks)
               /\ w.blocks[i + 1].kind = b.kind /\ w.blocks[i + 1].open = b.open
               /\ w.blocks[i + 1].data = b.data \o d /\ w.blocks[i + 1].signature = b.signature
               /\ \A j \in 1..Len(v.blocks) : j # i + 1 => w.blocks[j] = v.blocks[j]
<1> DEFINE b == v.blocks[i + 1]
           c == [b EXCEPT !.data = @ \o d]
           w == WithData(v, i, d)
<1>1. i \in Nat /\ i < Len(v.blocks) /\ b \in ViewBlocks
  BY BlocksOfView
<1>2. w = Changed(v, i, c)
  BY DEF WithData
<1> HIDE DEF b, w
<1>3. b.data \o d \in Seq(Nat)
  <2>1. b.data \in Seq(Nat)
    BY <1>1 DEF ViewBlocks
  <2> QED
    BY <2>1, ConcatProperties
<1>4. c \in ViewBlocks /\ c.kind = b.kind /\ c.open = b.open /\ c.data = b.data \o d /\ c.signature = b.signature
  BY <1>1, <1>3 DEF ViewBlocks
<1> HIDE DEF c
<1>5. /\ w \in Views /\ w.msg = v.msg /\ w.stop = v.stop
      /\ Len(w.blocks) = Len(v.blocks) /\ w.blocks[i + 1] = c
      /\ \A j \in 1..Len(v.blocks) : j # i + 1 => w.blocks[j] = v.blocks[j]
  BY <1>1, <1>2, <1>4, ChangedIs
<1> QED
  BY <1>4, <1>5 DEF b, w

\* A view whose block i has a signature.
LEMMA WithSignatureIs ==
    ASSUME NEW v \in Views, NEW i \in OpenIn(v), NEW s \in Nat
    PROVE  LET w == WithSignature(v, i, s)
               b == v.blocks[i + 1]
           IN  /\ w \in Views /\ w.msg = v.msg /\ w.stop = v.stop
               /\ Len(w.blocks) = Len(v.blocks)
               /\ w.blocks[i + 1].kind = b.kind /\ w.blocks[i + 1].open = b.open
               /\ w.blocks[i + 1].data = b.data /\ w.blocks[i + 1].signature = s
               /\ \A j \in 1..Len(v.blocks) : j # i + 1 => w.blocks[j] = v.blocks[j]
<1> DEFINE b == v.blocks[i + 1]
           c == [b EXCEPT !.signature = s]
           w == WithSignature(v, i, s)
<1>1. i \in Nat /\ i < Len(v.blocks) /\ b \in ViewBlocks
  BY BlocksOfView
<1>2. w = Changed(v, i, c)
  BY DEF WithSignature
<1> HIDE DEF b, w
<1>3. c \in ViewBlocks /\ c.kind = b.kind /\ c.open = b.open /\ c.data = b.data /\ c.signature = s
  BY <1>1 DEF ViewBlocks
<1> HIDE DEF c
<1>4. /\ w \in Views /\ w.msg = v.msg /\ w.stop = v.stop
      /\ Len(w.blocks) = Len(v.blocks) /\ w.blocks[i + 1] = c
      /\ \A j \in 1..Len(v.blocks) : j # i + 1 => w.blocks[j] = v.blocks[j]
  BY <1>1, <1>2, <1>3, ChangedIs
<1> QED
  BY <1>3, <1>4 DEF b, w

\* A view whose block i is stopped.
LEMMA WithStoppedIs ==
    ASSUME NEW v \in Views, NEW i \in OpenIn(v)
    PROVE  LET w == WithStopped(v, i)
               b == v.blocks[i + 1]
           IN  /\ w \in Views /\ w.msg = v.msg /\ w.stop = v.stop
               /\ Len(w.blocks) = Len(v.blocks)
               /\ w.blocks[i + 1].kind = b.kind /\ w.blocks[i + 1].open = FALSE
               /\ w.blocks[i + 1].data = b.data /\ w.blocks[i + 1].signature = b.signature
               /\ \A j \in 1..Len(v.blocks) : j # i + 1 => w.blocks[j] = v.blocks[j]
<1> DEFINE b == v.blocks[i + 1]
           c == [b EXCEPT !.open = FALSE]
           w == WithStopped(v, i)
<1>1. i \in Nat /\ i < Len(v.blocks) /\ b \in ViewBlocks
  BY BlocksOfView
<1>2. w = Changed(v, i, c)
  BY DEF WithStopped
<1> HIDE DEF b, w
<1>3. /\ c \in ViewBlocks /\ c.kind = b.kind /\ c.open = FALSE /\ c.data = b.data
      /\ c.signature = b.signature
  BY <1>1 DEF ViewBlocks
<1> HIDE DEF c
<1>4. /\ w \in Views /\ w.msg = v.msg /\ w.stop = v.stop
      /\ Len(w.blocks) = Len(v.blocks) /\ w.blocks[i + 1] = c
      /\ \A j \in 1..Len(v.blocks) : j # i + 1 => w.blocks[j] = v.blocks[j]
  BY <1>1, <1>2, <1>3, ChangedIs
<1> QED
  BY <1>3, <1>4 DEF b, w

\* What each event does to a client that may take it.
LEMMA ApplyMessageStart == \A v : Apply(v, MessageStart) = Fresh
BY DEF Apply, MessageStart, Fresh

\* The start of the block that is next opens it (Apply).
LEMMA ApplyBlockStart ==
    ASSUME NEW v, NEW k
    PROVE  Apply(v, BlockStart(Len(v.blocks), k)) = WithBlock(v, k)
BY DEF Apply, BlockStart, WithBlock, NewBlock

\* A delta of an open block, of its kind, is added to it.
LEMMA ApplyBlockDelta ==
    ASSUME NEW v \in Views, NEW i \in OpenIn(v), NEW d
    PROVE  Apply(v, BlockDelta(i, v.blocks[i + 1].kind, d)) = WithData(v, i, d)
<1>1. HasBlock(v, i)
  BY BlocksOfView DEF HasBlock, OpenIn
<1> QED
  BY <1>1 DEF Apply, BlockDelta, WithData, Changed

\* A signature of an open thinking block is set.
LEMMA ApplySignatureDelta ==
    ASSUME NEW v \in Views, NEW i \in OpenIn(v), v.blocks[i + 1].kind = "thinking", NEW s
    PROVE  Apply(v, SignatureDelta(i, s)) = WithSignature(v, i, s)
<1>1. HasBlock(v, i)
  BY BlocksOfView DEF HasBlock, OpenIn
<1> QED
  BY <1>1 DEF Apply, SignatureDelta, WithSignature, Changed

\* The stop of an open block closes it.
LEMMA ApplyBlockStop ==
    ASSUME NEW v \in Views, NEW i \in OpenIn(v)
    PROVE  Apply(v, BlockStop(i)) = WithStopped(v, i)
<1>1. HasBlock(v, i)
  BY BlocksOfView DEF HasBlock, OpenIn
<1> QED
  BY <1>1 DEF Apply, BlockStop, WithStopped, Changed

\* The message delta sets the stop reason.
LEMMA ApplyMessageDelta == \A v, stop : Apply(v, MessageDelta(stop)) = Closing(v, stop)
BY DEF Apply, MessageDelta, Closing

\* The message stop ends the message.
LEMMA ApplyMessageStop == \A v : Apply(v, MessageStop) = Closed(v)
BY DEF Apply, MessageStop, Closed

\* A legal event leaves a client with a message and blocks.
LEMMA LegalApplies ==
    ASSUME NEW size \in Nat, NEW v \in Views, NEW e, Legal(size, v, e)
    PROVE  Apply(v, e) \in Views /\ Apply(v, e).msg # "none"
<1>1. CASE v = NoMessage /\ e = MessageStart
  <2>1. Fresh \in Views /\ Fresh.msg = "started"
    <3>1. <<>> \in Seq(ViewBlocks)
      BY EmptySeq
    <3> QED
      BY <3>1 DEF Fresh, NoMessage, Views
  <2> QED
    BY <1>1, <2>1, ApplyMessageStart
<1>2. ASSUME v.msg = "started", NEW k \in Kinds, e = BlockStart(Len(v.blocks), k)
      PROVE  Apply(v, e) \in Views /\ Apply(v, e).msg # "none"
  BY <1>2, ApplyBlockStart, WithBlockIs
<1>3. ASSUME v.msg = "started", NEW i \in OpenIn(v), NEW d \in Seq(Nat),
             e = BlockDelta(i, v.blocks[i + 1].kind, d)
      PROVE  Apply(v, e) \in Views /\ Apply(v, e).msg # "none"
  BY <1>3, ApplyBlockDelta, WithDataIs
<1>4. ASSUME v.msg = "started", NEW i \in OpenIn(v), NEW s \in Nat \ {0},
             v.blocks[i + 1].kind = "thinking", e = SignatureDelta(i, s)
      PROVE  Apply(v, e) \in Views /\ Apply(v, e).msg # "none"
  BY <1>4, ApplySignatureDelta, WithSignatureIs
<1>5. ASSUME v.msg = "started", NEW i \in OpenIn(v), e = BlockStop(i)
      PROVE  Apply(v, e) \in Views /\ Apply(v, e).msg # "none"
  BY <1>5, ApplyBlockStop, WithStoppedIs
<1>6. ASSUME v.msg = "started", NEW stop \in StopReasons, e = MessageDelta(stop)
      PROVE  Apply(v, e) \in Views /\ Apply(v, e).msg # "none"
  <2>1. Closing(v, stop) \in Views /\ Closing(v, stop).msg = "ending"
    BY DEF Closing, Views
  <2> QED
    BY <1>6, <2>1, ApplyMessageDelta
<1>7. CASE v.msg = "ending" /\ e = MessageStop
  <2>1. Closed(v) \in Views /\ Closed(v).msg = "stopped"
    BY DEF Closed, Views
  <2> QED
    BY <1>7, <2>1, ApplyMessageStop
<1> QED
  BY <1>1, <1>2, <1>3, <1>4, <1>5, <1>6, <1>7 DEF Legal

-----------------------------------------------------------------------------
(* Several events.                                                         *)

\* The events q, all legal where they come, take the client from v to w; r is
\* what it holds in between.
Run(size, v, q, w, r) ==
    /\ r \in [0..Len(q) -> Views]
    /\ r[0] = v /\ r[Len(q)] = w
    /\ \A k \in 1..Len(q) : Legal(size, r[k - 1], q[k]) /\ r[k] = Apply(r[k - 1], q[k])

Leads(size, v, q, w) == \E r : Run(size, v, q, w, r)

\* Both ends of a run are views, and a client that was led anywhere has begun.
LEMMA LeadsToView ==
    ASSUME NEW size \in Nat, NEW E, NEW q \in Seq(E), NEW v, NEW w, Leads(size, v, q, w)
    PROVE  v \in Views /\ w \in Views /\ (w.msg = "none" => q = <<>> /\ w = v)
<1>1. PICK r : Run(size, v, q, w, r)
  BY DEF Leads
<1>2. Len(q) \in Nat /\ (Len(q) = 0 => q = <<>>)
  BY LenProperties, EmptySeq
<1>3. 0 \in 0..Len(q) /\ Len(q) \in 0..Len(q) /\ v \in Views /\ w \in Views
  BY <1>1, <1>2 DEF Run
<1>4. ASSUME Len(q) # 0 PROVE w.msg # "none"
  <2>1. Len(q) \in 1..Len(q) /\ Len(q) - 1 \in 0..Len(q)
    BY <1>2, <1>4
  <2>2. r[Len(q) - 1] \in Views /\ Legal(size, r[Len(q) - 1], q[Len(q)]) /\ w = Apply(r[Len(q) - 1], q[Len(q)])
    BY <1>1, <2>1 DEF Run
  <2> QED
    BY <2>2, LegalApplies
<1>5. Len(q) = 0 => w = v
  BY <1>1 DEF Run
<1> QED
  BY <1>2, <1>3, <1>4, <1>5

\* No event leads nowhere.
LEMMA LeadsEmpty ==
    ASSUME NEW size, NEW v \in Views
    PROVE  Leads(size, v, <<>>, v)
<1> DEFINE r == [k \in 0..0 |-> v]
<1>1. Len(<<>>) = 0 /\ r \in [0..0 -> Views] /\ r[0] = v
  OBVIOUS
<1>2. Run(size, v, <<>>, v, r)
  BY <1>1 DEF Run
<1> QED
  BY <1>2 DEF Leads

\* No events lead nowhere.
LEMMA LeadsNowhere ==
    ASSUME NEW size, NEW v, NEW w, Leads(size, v, <<>>, w)
    PROVE  w = v /\ v \in Views
<1>1. PICK r : Run(size, v, <<>>, w, r)
  BY DEF Leads
<1>2. Len(<<>>) = 0 /\ 0 \in 0..0
  OBVIOUS
<1> QED
  BY <1>1, <1>2 DEF Run

\* One legal event.
LEMMA LeadsOne ==
    ASSUME NEW size \in Nat, NEW v \in Views, NEW e, Legal(size, v, e)
    PROVE  Leads(size, v, <<e>>, Apply(v, e))
<1> DEFINE w == Apply(v, e)
           r == [k \in 0..1 |-> IF k = 0 THEN v ELSE w]
<1>1. w \in Views
  BY LegalApplies
<1> HIDE DEF w
<1>2. r \in [0..1 -> Views] /\ r[0] = v /\ r[1] = w
  BY <1>1
<1> HIDE DEF r
<1>3. Len(<<e>>) = 1 /\ <<e>>[1] = e
  OBVIOUS
<1>4. \A k \in 1..1 : k = 1 /\ k - 1 = 0
  OBVIOUS
<1>5. Run(size, v, <<e>>, w, r)
  BY <1>2, <1>3, <1>4 DEF Run, w
<1> QED
  BY <1>5 DEF Leads, w

\* One run after the other.
LEMMA LeadsConcat ==
    ASSUME NEW size, NEW E, NEW p \in Seq(E), NEW q \in Seq(E),
           NEW u, NEW v, NEW w, Leads(size, u, p, v), Leads(size, v, q, w)
    PROVE  Leads(size, u, p \o q, w)
<1>1. PICK f : Run(size, u, p, v, f)
  BY DEF Leads
<1>2. PICK g : Run(size, v, q, w, g)
  BY DEF Leads
<1> DEFINE m == Len(p)
           n == Len(q)
           s == p \o q
           r == [k \in 0..m + n |-> IF k <= m THEN f[k] ELSE g[k - m]]
<1>3. m \in Nat /\ n \in Nat
  BY LenProperties
<1>4. /\ Len(s) = m + n
      /\ \A k \in 1..m + n : s[k] = IF k <= m THEN p[k] ELSE q[k - m]
  BY ConcatProperties
<1>5. /\ f \in [0..m -> Views] /\ f[0] = u /\ f[m] = v
      /\ \A k \in 1..m : Legal(size, f[k - 1], p[k]) /\ f[k] = Apply(f[k - 1], p[k])
  BY <1>1 DEF Run
<1>6. /\ g \in [0..n -> Views] /\ g[0] = v /\ g[n] = w
      /\ \A k \in 1..n : Legal(size, g[k - 1], q[k]) /\ g[k] = Apply(g[k - 1], q[k])
  BY <1>2 DEF Run
<1> HIDE DEF m, n, s
<1>7. \A k \in 0..n : m + k \in 0..m + n /\ r[m + k] = g[k]
  <2> TAKE k \in 0..n
  <2>1. m + k \in 0..m + n /\ (m + k) - m = k /\ (m + k <= m <=> k = 0) /\ m + 0 = m
    BY <1>3
  <2>2. CASE k = 0
    <3>1. r[m] = f[m]
      BY <2>1, <2>2
    <3> QED
      BY <1>5, <1>6, <2>1, <2>2, <3>1
  <2>3. CASE k # 0
    BY <2>1, <2>3
  <2> QED
    BY <2>2, <2>3
<1>8. \A k \in 0..m : k \in 0..m + n /\ r[k] = f[k]
  BY <1>3
<1>9. r \in [0..m + n -> Views]
  BY <1>3, <1>5, <1>6
<1>10. r[0] = u /\ r[m + n] = w
  BY <1>3, <1>5, <1>6, <1>7, <1>8
<1>11. ASSUME NEW k \in 1..m + n
       PROVE  Legal(size, r[k - 1], s[k]) /\ r[k] = Apply(r[k - 1], s[k])
  <2>1. CASE k <= m
    <3>1. k \in 1..m /\ k \in 0..m /\ k - 1 \in 0..m /\ s[k] = p[k]
      BY <1>3, <1>4, <2>1
    <3>2. r[k] = f[k] /\ r[k - 1] = f[k - 1]
      BY <1>8, <3>1
    <3> QED
      BY <1>5, <3>1, <3>2
  <2>2. CASE ~(k <= m)
    <3> DEFINE j == k - m
    <3>1. j \in 1..n /\ j \in 0..n /\ j - 1 \in 0..n /\ k = m + j /\ k - 1 = m + (j - 1) /\ s[k] = q[j]
      BY <1>3, <1>4, <2>2
    <3> HIDE DEF j, r
    <3>2. r[k] = g[j] /\ r[k - 1] = g[j - 1]
      BY <1>7, <3>1
    <3> QED
      BY <1>6, <3>1, <3>2
  <2> QED
    BY <2>1, <2>2
<1> HIDE DEF r
<1>12. Run(size, u, s, w, r)
  BY <1>4, <1>9, <1>10, <1>11 DEF Run
<1> QED
  BY <1>12 DEF Leads, s

\* What comes first, and what is left of a run after it.
LEMMA LeadsHead ==
    ASSUME NEW size \in Nat, NEW E, NEW q \in Seq(E), q # <<>>,
           NEW v, NEW w, Leads(size, v, q, w)
    PROVE  Legal(size, v, Head(q)) /\ Leads(size, Apply(v, Head(q)), Tail(q), w)
<1>1. PICK f : Run(size, v, q, w, f)
  BY DEF Leads
<1> DEFINE n == Len(q)
           t == Tail(q)
           r == [k \in 0..n - 1 |-> f[k + 1]]
<1>2. n \in Nat /\ n # 0 /\ Head(q) = q[1]
  BY LenProperties, EmptySeq
<1>3. Len(t) = n - 1 /\ \A k \in 1..n - 1 : t[k] = q[k + 1]
  BY HeadTailProperties
<1>4. /\ f \in [0..n -> Views] /\ f[0] = v /\ f[n] = w
      /\ \A k \in 1..n : Legal(size, f[k - 1], q[k]) /\ f[k] = Apply(f[k - 1], q[k])
  BY <1>1 DEF Run
<1> HIDE DEF n, t
<1>5. Legal(size, v, Head(q)) /\ f[1] = Apply(v, Head(q))
  <2>1. 1 \in 1..n /\ 1 - 1 = 0
    BY <1>2
  <2> QED
    BY <1>2, <1>4, <2>1
<1>6. r \in [0..n - 1 -> Views] /\ r[0] = Apply(v, Head(q)) /\ r[n - 1] = w
  BY <1>2, <1>4, <1>5
<1>7. ASSUME NEW k \in 1..n - 1
      PROVE  Legal(size, r[k - 1], t[k]) /\ r[k] = Apply(r[k - 1], t[k])
  <2>1. k + 1 \in 1..n /\ (k + 1) - 1 = k /\ r[k - 1] = f[k] /\ r[k] = f[k + 1] /\ t[k] = q[k + 1]
    BY <1>2, <1>3
  <2> QED
    BY <1>4, <2>1
<1> HIDE DEF r
<1>8. Run(size, Apply(v, Head(q)), t, w, r)
  BY <1>3, <1>6, <1>7 DEF Run
<1> QED
  BY <1>5, <1>8 DEF Leads, t

\* One sequence of letters is what the other begins with.
LEMMA PrefixIs ==
    ASSUME NEW s \in Seq(Nat), NEW t \in Seq(Nat)
    PROVE  IsPrefix(s, t) <=> Len(s) <= Len(t) /\ \A i \in 1..Len(s) : s[i] = t[i]
<1>1. Len(s) \in Nat /\ Len(t) \in Nat
  BY LenProperties
<1>2. SubSeq(s, 1, Len(s)) = s
  BY SubSeqFull
<1>3. ASSUME Len(s) <= Len(t)
      PROVE  SubSeq(t, 1, Len(s)) = s <=> \A i \in 1..Len(s) : s[i] = t[i]
  <2> DEFINE n == Len(s)
             u == SubSeq(t, 1, n)
  <2>1. \A i \in 1..n : t[i] \in Nat
    BY <1>1, <1>3, ElementOfSeq
  <2>2. u \in Seq(Nat) /\ Len(u) = n /\ \A i \in 1..n : u[i] = t[i]
    <3>1. \A i \in 1..n - 1 + 1 : u[i] = t[1 + i - 1]
      BY <1>1, <2>1, SubSeqProperties
    <3>2. u \in Seq(Nat) /\ Len(u) = IF 1 <= n THEN n - 1 + 1 ELSE 0
      BY <1>1, <2>1, SubSeqProperties
    <3> HIDE DEF u
    <3>3. n \in Nat
      BY <1>1
    <3> HIDE DEF n
    <3>4. \A i \in 1..n : 1 + i - 1 = i /\ i \in 1..n - 1 + 1
      BY <3>3
    <3> QED
      BY <3>1, <3>2, <3>3, <3>4
  <2> HIDE DEF u
  <2>3. (\A i \in 1..n : s[i] = t[i]) => u = s
    <3> HAVE \A i \in 1..n : s[i] = t[i]
    <3>1. \A i \in 1..Len(u) : u[i] = s[i]
      BY <2>2
    <3> QED
      BY <2>2, <3>1, SeqEqual
  <2> QED
    BY <2>2, <2>3 DEF u
<1> QED
  BY <1>2, <1>3 DEF IsPrefix

\* w holds all that v holds, and perhaps more.
Grows(v, w) ==
    /\ Len(v.blocks) <= Len(w.blocks)
    /\ \A i \in 1..Len(v.blocks) : /\ v.blocks[i].kind = w.blocks[i].kind
                                   /\ IsPrefix(v.blocks[i].data, w.blocks[i].data)

\* A sequence is a prefix of itself.
LEMMA PrefixOfItself ==
    ASSUME NEW s \in Seq(Nat)
    PROVE  IsPrefix(s, s)
BY LenProperties, PrefixIs

\* A sequence is a prefix of what it is continued to.
LEMMA PrefixOfMore ==
    ASSUME NEW s \in Seq(Nat), NEW d \in Seq(Nat)
    PROVE  IsPrefix(s, s \o d) /\ s \o d \in Seq(Nat)
<1>1. /\ s \o d \in Seq(Nat) /\ Len(s \o d) = Len(s) + Len(d)
      /\ \A i \in 1..Len(s) + Len(d) : (s \o d)[i] = IF i <= Len(s) THEN s[i] ELSE d[i - Len(s)]
  BY ConcatProperties
<1>2. Len(s) \in Nat /\ Len(d) \in Nat
  BY LenProperties
<1>3. Len(s) <= Len(s \o d) /\ \A i \in 1..Len(s) : s[i] = (s \o d)[i]
  BY <1>1, <1>2
<1> QED
  BY <1>1, <1>3, PrefixIs

\* Being a prefix is transitive.
LEMMA PrefixTransitive ==
    ASSUME NEW s \in Seq(Nat), NEW t \in Seq(Nat), NEW u \in Seq(Nat), IsPrefix(s, t), IsPrefix(t, u)
    PROVE  IsPrefix(s, u)
<1>1. Len(s) \in Nat /\ Len(t) \in Nat /\ Len(u) \in Nat
  BY LenProperties
<1>2. Len(s) <= Len(t) /\ \A i \in 1..Len(s) : s[i] = t[i]
  BY PrefixIs
<1>3. Len(t) <= Len(u) /\ \A i \in 1..Len(t) : t[i] = u[i]
  BY PrefixIs
<1>4. Len(s) <= Len(u) /\ \A i \in 1..Len(s) : s[i] = u[i]
  BY <1>1, <1>2, <1>3
<1> QED
  BY <1>4, PrefixIs

\* The data of a block of a view are letters.
LEMMA DataOfView ==
    ASSUME NEW v \in Views, NEW i \in 1..Len(v.blocks)
    PROVE  /\ v.blocks[i].data \in Seq(Nat) /\ v.blocks[i].kind \in Kinds
           /\ v.blocks[i].open \in BOOLEAN /\ v.blocks[i].signature \in Nat
BY BlocksOfView DEF ViewBlocks

\* A message is what it has grown from.
LEMMA GrowsItself ==
    ASSUME NEW v \in Views
    PROVE  Grows(v, v)
<1>1. \A i \in 1..Len(v.blocks) : IsPrefix(v.blocks[i].data, v.blocks[i].data)
  BY DataOfView, PrefixOfItself
<1>2. Len(v.blocks) <= Len(v.blocks)
  BY BlocksOfView
<1> QED
  BY <1>1, <1>2 DEF Grows

\* Growing is transitive.
LEMMA GrowsTransitive ==
    ASSUME NEW u \in Views, NEW v \in Views, NEW w \in Views, Grows(u, v), Grows(v, w)
    PROVE  Grows(u, w)
<1>1. Len(u.blocks) \in Nat /\ Len(v.blocks) \in Nat /\ Len(w.blocks) \in Nat
  BY BlocksOfView
<1>2. Len(u.blocks) <= Len(v.blocks) /\ Len(v.blocks) <= Len(w.blocks)
  BY DEF Grows
<1>3. ASSUME NEW i \in 1..Len(u.blocks)
      PROVE  u.blocks[i].kind = w.blocks[i].kind /\ IsPrefix(u.blocks[i].data, w.blocks[i].data)
  <2>1. i \in 1..Len(v.blocks) /\ i \in 1..Len(w.blocks)
    BY <1>1, <1>2
  <2>2. u.blocks[i].data \in Seq(Nat) /\ v.blocks[i].data \in Seq(Nat) /\ w.blocks[i].data \in Seq(Nat)
    BY <2>1, DataOfView
  <2>3. /\ u.blocks[i].kind = v.blocks[i].kind /\ v.blocks[i].kind = w.blocks[i].kind
        /\ IsPrefix(u.blocks[i].data, v.blocks[i].data) /\ IsPrefix(v.blocks[i].data, w.blocks[i].data)
    BY <2>1 DEF Grows
  <2> QED
    BY <2>2, <2>3, PrefixTransitive
<1> QED
  BY <1>1, <1>2, <1>3 DEF Grows

\* A view with the same blocks but for what is in block i + 1, which grew.
LEMMA ChangeGrows ==
    ASSUME NEW v \in Views, NEW w \in Views, NEW i \in Nat,
           Len(w.blocks) = Len(v.blocks),
           \A j \in 1..Len(v.blocks) : j # i + 1 => w.blocks[j] = v.blocks[j],
           w.blocks[i + 1].kind = v.blocks[i + 1].kind,
           IsPrefix(v.blocks[i + 1].data, w.blocks[i + 1].data)
    PROVE  Grows(v, w)
<1>1. \A j \in 1..Len(v.blocks) : IsPrefix(v.blocks[j].data, v.blocks[j].data)
  BY DataOfView, PrefixOfItself
<1>2. ASSUME NEW j \in 1..Len(v.blocks)
      PROVE  v.blocks[j].kind = w.blocks[j].kind /\ IsPrefix(v.blocks[j].data, w.blocks[j].data)
  <2>1. CASE j = i + 1
    BY <2>1
  <2>2. CASE j # i + 1
    BY <1>1, <2>2
  <2> QED
    BY <2>1, <2>2
<1> QED
  BY <1>2, BlocksOfView DEF Grows

\* Nothing a client holds is taken back by a legal event.
LEMMA LegalGrows ==
    ASSUME NEW size \in Nat, NEW v \in Views, NEW e, Legal(size, v, e)
    PROVE  Grows(v, Apply(v, e))
<1>1. CASE v = NoMessage /\ e = MessageStart
  <2>1. v.blocks = <<>> /\ Fresh.blocks = <<>>
    BY <1>1 DEF Fresh, NoMessage
  <2>2. Grows(v, Fresh)
    <3>1. Len(<<>>) = 0 /\ 1..0 = {}
      OBVIOUS
    <3> QED
      BY <2>1, <3>1 DEF Grows
  <2> QED
    BY <1>1, <2>2, ApplyMessageStart
<1>2. ASSUME NEW k \in Kinds, e = BlockStart(Len(v.blocks), k)
      PROVE  Grows(v, Apply(v, e))
  <2> DEFINE w == WithBlock(v, k)
  <2>1. /\ Len(w.blocks) = Len(v.blocks) + 1
        /\ \A j \in 1..Len(v.blocks) : w.blocks[j] = v.blocks[j]
    BY WithBlockIs
  <2>2. \A j \in 1..Len(v.blocks) : IsPrefix(v.blocks[j].data, v.blocks[j].data)
    BY DataOfView, PrefixOfItself
  <2> HIDE DEF w
  <2>3. Grows(v, w)
    BY <2>1, <2>2, BlocksOfView DEF Grows
  <2> QED
    BY <1>2, <2>3, ApplyBlockStart DEF w
<1>3. ASSUME NEW i \in OpenIn(v), NEW d \in Seq(Nat), e = BlockDelta(i, v.blocks[i + 1].kind, d)
      PROVE  Grows(v, Apply(v, e))
  <2> DEFINE w == WithData(v, i, d)
  <2>1. /\ w \in Views /\ Len(w.blocks) = Len(v.blocks) /\ i \in Nat
        /\ \A j \in 1..Len(v.blocks) : j # i + 1 => w.blocks[j] = v.blocks[j]
        /\ w.blocks[i + 1].kind = v.blocks[i + 1].kind
        /\ w.blocks[i + 1].data = v.blocks[i + 1].data \o d
    BY WithDataIs, BlocksOfView
  <2>2. IsPrefix(v.blocks[i + 1].data, v.blocks[i + 1].data \o d)
    <3>1. v.blocks[i + 1].data \in Seq(Nat)
      BY BlocksOfView DEF ViewBlocks
    <3> QED
      BY <3>1, PrefixOfMore
  <2> HIDE DEF w
  <2>3. Grows(v, w)
    BY <2>1, <2>2, ChangeGrows
  <2> QED
    BY <1>3, <2>3, ApplyBlockDelta DEF w
<1>4. ASSUME NEW i \in OpenIn(v), NEW s \in Nat \ {0},
             v.blocks[i + 1].kind = "thinking", e = SignatureDelta(i, s)
      PROVE  Grows(v, Apply(v, e))
  <2> DEFINE w == WithSignature(v, i, s)
  <2>1. /\ w \in Views /\ Len(w.blocks) = Len(v.blocks) /\ i \in Nat
        /\ \A j \in 1..Len(v.blocks) : j # i + 1 => w.blocks[j] = v.blocks[j]
        /\ w.blocks[i + 1].kind = v.blocks[i + 1].kind
        /\ w.blocks[i + 1].data = v.blocks[i + 1].data
    BY WithSignatureIs, BlocksOfView
  <2>2. IsPrefix(v.blocks[i + 1].data, v.blocks[i + 1].data)
    BY BlocksOfView, PrefixOfItself DEF ViewBlocks
  <2> HIDE DEF w
  <2>3. Grows(v, w)
    BY <2>1, <2>2, ChangeGrows
  <2> QED
    BY <1>4, <2>3, ApplySignatureDelta DEF w
<1>5. ASSUME NEW i \in OpenIn(v), e = BlockStop(i)
      PROVE  Grows(v, Apply(v, e))
  <2> DEFINE w == WithStopped(v, i)
  <2>1. /\ w \in Views /\ Len(w.blocks) = Len(v.blocks) /\ i \in Nat
        /\ \A j \in 1..Len(v.blocks) : j # i + 1 => w.blocks[j] = v.blocks[j]
        /\ w.blocks[i + 1].kind = v.blocks[i + 1].kind
        /\ w.blocks[i + 1].data = v.blocks[i + 1].data
    BY WithStoppedIs, BlocksOfView
  <2>2. IsPrefix(v.blocks[i + 1].data, v.blocks[i + 1].data)
    BY BlocksOfView, PrefixOfItself DEF ViewBlocks
  <2> HIDE DEF w
  <2>3. Grows(v, w)
    BY <2>1, <2>2, ChangeGrows
  <2> QED
    BY <1>5, <2>3, ApplyBlockStop DEF w
<1>6. ASSUME NEW stop \in StopReasons, e = MessageDelta(stop)
      PROVE  Grows(v, Apply(v, e))
  <2>1. Closing(v, stop).blocks = v.blocks
    BY DEF Closing, Views
  <2>2. Grows(v, Closing(v, stop))
    BY <2>1, GrowsItself DEF Grows
  <2> QED
    BY <1>6, <2>2, ApplyMessageDelta
<1>7. CASE e = MessageStop
  <2>1. Closed(v).blocks = v.blocks
    BY DEF Closed, Views
  <2>2. Grows(v, Closed(v))
    BY <2>1, GrowsItself DEF Grows
  <2> QED
    BY <1>7, <2>2, ApplyMessageStop
<1> QED
  BY <1>1, <1>2, <1>3, <1>4, <1>5, <1>6, <1>7 DEF Legal

\* Nor by a run.
LEMMA LeadsGrows ==
    ASSUME NEW size \in Nat, NEW E, NEW q \in Seq(E), NEW v, NEW w, Leads(size, v, q, w)
    PROVE  Grows(v, w)
<1>1. PICK r : Run(size, v, q, w, r)
  BY DEF Leads
<1> DEFINE n == Len(q)
           wrong == {k \in Nat : k <= n /\ ~Grows(v, r[k])}
<1>2. n \in Nat
  BY LenProperties
<1>3. /\ r \in [0..n -> Views] /\ r[0] = v /\ r[n] = w
      /\ \A k \in 1..n : Legal(size, r[k - 1], q[k]) /\ r[k] = Apply(r[k - 1], q[k])
  BY <1>1 DEF Run
<1> HIDE DEF n
<1>4. wrong = {}
  <2> SUFFICES ASSUME wrong # {} PROVE FALSE
    OBVIOUS
  <2>1. PICK k \in wrong : \A j \in wrong : k <= j
    BY Least
  <2>2. k \in Nat /\ k <= n /\ ~Grows(v, r[k])
    OBVIOUS
  <2>3. v \in Views /\ k # 0
    <3>1. 0 \in 0..n
      BY <1>2
    <3> QED
      BY <1>3, <2>2, <3>1, GrowsItself
  <2>4. k - 1 \in Nat /\ k - 1 <= n /\ ~(k <= k - 1) /\ k \in 1..n /\ k - 1 \in 0..n /\ k \in 0..n
    BY <1>2, <2>2, <2>3
  <2>5. Grows(v, r[k - 1])
    BY <2>1, <2>4
  <2>6. r[k - 1] \in Views /\ r[k] \in Views /\ Grows(r[k - 1], r[k])
    <3>1. r[k - 1] \in Views /\ r[k] \in Views /\ Legal(size, r[k - 1], q[k]) /\ r[k] = Apply(r[k - 1], q[k])
      BY <1>3, <2>4
    <3> QED
      BY <3>1, LegalGrows
  <2> QED
    BY <2>2, <2>3, <2>5, <2>6, GrowsTransitive
<1> QED
  BY <1>2, <1>3, <1>4

-----------------------------------------------------------------------------
(* Stopping blocks one after the other.                                    *)

StoppedBlock(b, stops) == [b EXCEPT !.open = b.open /\ ~stops]
StoppedAt(v, I) ==
    [v EXCEPT !.blocks = [j \in 1..Len(v.blocks) |-> StoppedBlock(v.blocks[j], j - 1 \in I)]]

\* Stopping a block changes only whether it is open.
LEMMA StoppedBlockIs ==
    ASSUME NEW b \in ViewBlocks, NEW stops
    PROVE  LET c == StoppedBlock(b, stops)
           IN  /\ c \in ViewBlocks /\ c.kind = b.kind /\ c.data = b.data
               /\ c.signature = b.signature
               /\ c.open <=> b.open /\ ~stops
BY DEF ViewBlocks, StoppedBlock

\* A view whose blocks I are stopped.
LEMMA StoppedAtIs ==
    ASSUME NEW v \in Views, NEW I
    PROVE  LET w == StoppedAt(v, I)
           IN  /\ w \in Views /\ w.msg = v.msg /\ w.stop = v.stop
               /\ Len(w.blocks) = Len(v.blocks)
               /\ \A j \in 1..Len(v.blocks) :
                     /\ w.blocks[j].kind = v.blocks[j].kind /\ w.blocks[j].data = v.blocks[j].data
                     /\ w.blocks[j].signature = v.blocks[j].signature
                     /\ w.blocks[j].open <=> v.blocks[j].open /\ j - 1 \notin I
<1> DEFINE N == Len(v.blocks)
           n == [j \in 1..N |-> StoppedBlock(v.blocks[j], j - 1 \in I)]
           w == StoppedAt(v, I)
<1>1. N \in Nat /\ \A j \in 1..N : v.blocks[j] \in ViewBlocks
  BY BlocksOfView
<1>2. ASSUME NEW j \in 1..N
      PROVE  LET c == StoppedBlock(v.blocks[j], j - 1 \in I)
                 b == v.blocks[j]
             IN  /\ c \in ViewBlocks /\ c.kind = b.kind /\ c.data = b.data
                 /\ c.signature = b.signature
                 /\ c.open <=> b.open /\ ~(j - 1 \in I)
  <2>1. v.blocks[j] \in ViewBlocks
    BY <1>1
  <2> QED
    BY <2>1, StoppedBlockIs
<1>3. ASSUME NEW j \in 1..N
      PROVE  /\ n[j] \in ViewBlocks /\ n[j].kind = v.blocks[j].kind /\ n[j].data = v.blocks[j].data
             /\ n[j].signature = v.blocks[j].signature
             /\ n[j].open <=> v.blocks[j].open /\ j - 1 \notin I
  <2>1. n[j] = StoppedBlock(v.blocks[j], j - 1 \in I)
    OBVIOUS
  <2> DEFINE c == StoppedBlock(v.blocks[j], j - 1 \in I)
  <2>2. /\ c \in ViewBlocks /\ c.kind = v.blocks[j].kind /\ c.data = v.blocks[j].data
        /\ c.signature = v.blocks[j].signature
        /\ c.open <=> v.blocks[j].open /\ j - 1 \notin I
    BY <1>2
  <2>3. n[j] = c
    BY <2>1
  <2> HIDE DEF n, c
  <2> QED
    BY <2>2, <2>3
<1>4. n \in Seq(ViewBlocks) /\ Len(n) = N
  <2>1. \A j \in 1..N : StoppedBlock(v.blocks[j], j - 1 \in I) \in ViewBlocks
    BY <1>2
  <2>2. n \in [1..N -> ViewBlocks]
    BY <2>1
  <2> QED
    BY <1>1, <2>2, SeqDef, LenProperties
<1>5. w = [v EXCEPT !.blocks = n]
  BY DEF StoppedAt
<1> HIDE DEF n
<1>6. w \in Views /\ w.msg = v.msg /\ w.stop = v.stop /\ w.blocks = n
  BY <1>4, <1>5 DEF Views
<1> HIDE DEF w
<1> QED
  BY <1>3, <1>4, <1>6 DEF w

\* Views that hold the same are the same.
LEMMA SameView ==
    ASSUME NEW v \in Views, NEW w \in Views, v.msg = w.msg, v.stop = w.stop,
           Len(v.blocks) = Len(w.blocks),
           \A j \in 1..Len(v.blocks) :
               /\ v.blocks[j].kind = w.blocks[j].kind /\ v.blocks[j].data = w.blocks[j].data
               /\ v.blocks[j].signature = w.blocks[j].signature
               /\ v.blocks[j].open = w.blocks[j].open
    PROVE  v = w
<1>1. \A b, c \in ViewBlocks : /\ b.kind = c.kind /\ b.data = c.data
                               /\ b.signature = c.signature /\ b.open = c.open
                               => b = c
  BY DEF ViewBlocks
<1>2. \A j \in 1..Len(v.blocks) : v.blocks[j] \in ViewBlocks /\ w.blocks[j] \in ViewBlocks
  BY BlocksOfView
<1>3. \A j \in 1..Len(v.blocks) : v.blocks[j] = w.blocks[j]
  BY <1>1, <1>2
<1>4. v.blocks = w.blocks
  BY <1>3, BlocksOfView, SeqEqual
<1> QED
  BY <1>4 DEF Views

\* Distinct open blocks may be stopped in any order.
LEMMA LeadsStops ==
    ASSUME NEW size \in Nat, NEW v \in Views, v.msg = "started",
           NEW indexes \in Seq(Nat),
           \A k \in 1..Len(indexes) : indexes[k] \in OpenIn(v),
           \A k, l \in 1..Len(indexes) : k # l => indexes[k] # indexes[l]
    PROVE  Leads(size, v, Stops(indexes), StoppedAt(v, {indexes[k] : k \in 1..Len(indexes)}))
<1> DEFINE n == Len(indexes)
           upTo(k) == {indexes[l] : l \in 1..k}
           r == [k \in 0..n |-> StoppedAt(v, upTo(k))]
           q == Stops(indexes)
<1>1. n \in Nat /\ Len(v.blocks) \in Nat
  BY LenProperties, BlocksOfView
<1>2. Len(q) = n /\ \A k \in 1..n : q[k] = BlockStop(indexes[k])
  <2>1. DOMAIN indexes = 1..n
    BY LenProperties
  <2> DEFINE f == [i \in 1..n |-> BlockStop(indexes[i])]
  <2>2. q = f
    BY <2>1 DEF Stops
  <2>3. DOMAIN f = 1..n /\ \A k \in 1..n : f[k] = BlockStop(indexes[k])
    OBVIOUS
  <2>4. f \in Seq({BlockStop(indexes[i]) : i \in 1..n})
    <3>1. f \in [1..n -> {BlockStop(indexes[i]) : i \in 1..n}]
      OBVIOUS
    <3> QED
      BY <1>1, <3>1, SeqDef
  <2> HIDE DEF f, q
  <2>5. Len(f) = n
    BY <1>1, <2>3, <2>4, LenProperties
  <2> QED
    BY <2>2, <2>3, <2>5
<1>3. \A k \in 0..n : r[k] = StoppedAt(v, upTo(k))
  OBVIOUS
<1>4. \A I : StoppedAt(v, I) \in Views
  BY StoppedAtIs
<1>5. r \in [0..n -> Views]
  BY <1>4
<1>6. r[0] = v
  <2>1. 0 \in 0..n /\ upTo(0) = {}
    BY <1>1
  <2>2. StoppedAt(v, {}) = v
    <3> DEFINE w == StoppedAt(v, {})
    <3>1. /\ w \in Views /\ w.msg = v.msg /\ w.stop = v.stop /\ Len(w.blocks) = Len(v.blocks)
          /\ \A j \in 1..Len(v.blocks) :
                /\ w.blocks[j].kind = v.blocks[j].kind /\ w.blocks[j].data = v.blocks[j].data
                /\ w.blocks[j].signature = v.blocks[j].signature
                /\ w.blocks[j].open <=> v.blocks[j].open /\ j - 1 \notin {}
      BY StoppedAtIs
    <3> HIDE DEF w
    <3>2. \A j \in 1..Len(v.blocks) : w.blocks[j].open = v.blocks[j].open
      BY <3>1, DataOfView
    <3> QED
      BY <3>1, <3>2, SameView DEF w
  <2> QED
    BY <1>3, <2>1, <2>2
<1> HIDE DEF r, q, n
<1>7. ASSUME NEW k \in 1..n
      PROVE  Legal(size, r[k - 1], q[k]) /\ r[k] = Apply(r[k - 1], q[k])
  <2> DEFINE i == indexes[k]
             u == StoppedAt(v, upTo(k - 1))
             w == StoppedAt(v, upTo(k))
             x == WithStopped(u, i)
  <2>1. r[k - 1] = u /\ r[k] = w /\ q[k] = BlockStop(i)
    <3>1. k - 1 \in 0..n /\ k \in 0..n
      BY <1>1
    <3> HIDE DEF upTo
    <3> QED
      BY <1>2, <1>3, <3>1, Zenon
  <2>2. i \in OpenIn(v) /\ i \in Nat /\ i < Len(v.blocks) /\ v.blocks[i + 1].open
    BY BlocksOfView DEF OpenIn, n
  <2>3. i \notin upTo(k - 1)
    <3> SUFFICES ASSUME NEW l \in 1..k - 1, indexes[l] = i PROVE FALSE
      OBVIOUS
    <3>1. l \in 1..n /\ l # k
      BY <1>1
    <3> QED
      BY <3>1 DEF n
  <2>4. /\ u \in Views /\ u.msg = v.msg /\ u.stop = v.stop /\ Len(u.blocks) = Len(v.blocks)
        /\ \A j \in 1..Len(v.blocks) :
              /\ u.blocks[j].kind = v.blocks[j].kind /\ u.blocks[j].data = v.blocks[j].data
              /\ u.blocks[j].signature = v.blocks[j].signature
              /\ u.blocks[j].open <=> v.blocks[j].open /\ j - 1 \notin upTo(k - 1)
    BY StoppedAtIs
  <2>5. /\ w \in Views /\ w.msg = v.msg /\ w.stop = v.stop /\ Len(w.blocks) = Len(v.blocks)
        /\ \A j \in 1..Len(v.blocks) :
              /\ w.blocks[j].kind = v.blocks[j].kind /\ w.blocks[j].data = v.blocks[j].data
              /\ w.blocks[j].signature = v.blocks[j].signature
              /\ w.blocks[j].open <=> v.blocks[j].open /\ j - 1 \notin upTo(k)
    BY StoppedAtIs
  <2>6. \A j \in Nat : j \in upTo(k) <=> j \in upTo(k - 1) \/ j = i
    <3>1. 1..k = (1..k - 1) \cup {k}
      OBVIOUS
    <3> QED
      BY <3>1
  <2>7. i \in OpenIn(u)
    <3>1. i + 1 \in 1..Len(v.blocks) /\ (i + 1) - 1 = i /\ i \in 0..Len(v.blocks) - 1
      BY <1>1, <2>2
    <3> HIDE DEF u, i, upTo
    <3>2. u.blocks[i + 1].open
      BY <2>2, <2>3, <2>4, <3>1
    <3> QED
      BY <2>4, <3>1, <3>2 DEF OpenIn
  <2> HIDE DEF u, w, i, upTo
  <2>8. /\ x \in Views /\ x.msg = u.msg /\ x.stop = u.stop /\ Len(x.blocks) = Len(u.blocks)
        /\ x.blocks[i + 1].kind = u.blocks[i + 1].kind /\ x.blocks[i + 1].open = FALSE
        /\ x.blocks[i + 1].data = u.blocks[i + 1].data
        /\ x.blocks[i + 1].signature = u.blocks[i + 1].signature
        /\ \A j \in 1..Len(u.blocks) : j # i + 1 => x.blocks[j] = u.blocks[j]
    <3>1. u \in Views
      BY <2>4
    <3> QED
      BY <2>7, <3>1, WithStoppedIs
  <2> HIDE DEF x
  <2>9. ASSUME NEW j \in 1..Len(x.blocks)
        PROVE  /\ x.blocks[j].kind = w.blocks[j].kind /\ x.blocks[j].data = w.blocks[j].data
               /\ x.blocks[j].signature = w.blocks[j].signature
               /\ x.blocks[j].open = w.blocks[j].open
    <3>1. j \in 1..Len(v.blocks) /\ j \in 1..Len(u.blocks) /\ j \in 1..Len(w.blocks) /\ j - 1 \in Nat
      BY <1>1, <2>4, <2>5, <2>8
    <3>2. x.blocks[j].open \in BOOLEAN /\ w.blocks[j].open \in BOOLEAN
      BY <2>5, <2>8, <3>1, DataOfView
    <3>3. CASE j = i + 1
      <4>1. j - 1 \in upTo(k)
        BY <2>2, <2>6, <3>3
      <4>2. ~w.blocks[j].open
        BY <2>5, <3>1, <4>1
      <4> QED
        BY <2>4, <2>5, <2>8, <3>1, <3>2, <3>3, <4>2
    <3>4. CASE j # i + 1
      <4>1. j - 1 \in upTo(k) <=> j - 1 \in upTo(k - 1)
        BY <2>2, <2>6, <3>1, <3>4
      <4>2. x.blocks[j] = u.blocks[j]
        BY <2>8, <3>1, <3>4
      <4> QED
        BY <2>4, <2>5, <3>1, <3>2, <4>1, <4>2
    <3> QED
      BY <3>3, <3>4
  <2>10. x = w
    BY <2>4, <2>5, <2>8, <2>9, SameView
  <2>11. Apply(u, BlockStop(i)) = x
    BY <2>4, <2>7, ApplyBlockStop DEF x
  <2>12. Legal(size, u, BlockStop(i))
    BY <2>4, <2>7 DEF Legal
  <2> QED
    BY <2>1, <2>10, <2>11, <2>12
<1>8. n \in 0..n
  BY <1>1
<1>9. Run(size, v, q, StoppedAt(v, upTo(n)), r)
  BY <1>2, <1>3, <1>5, <1>6, <1>7, <1>8 DEF Run
<1> QED
  BY <1>9 DEF Leads, q, n

-----------------------------------------------------------------------------
(* What converters emit.                                                   *)

Events ==
    {MessageStart, MessageStop}
    \cup {BlockStart(i, k) : i \in Nat, k \in Kinds}
    \cup {BlockDelta(i, k, d) : i \in Nat, k \in Kinds, d \in Seq(Nat)}
    \cup {SignatureDelta(i, s) : i \in Nat, s \in Nat}
    \cup {BlockStop(i) : i \in Nat}
    \cup {MessageDelta(stop) : stop \in StopReasons}

\* The events q may be emitted to a client that holds v, and take it to w.
Emits(size, v, q, w) == q \in Seq(Events) /\ Leads(size, v, q, w)

\* No events leave the client where it is.
LEMMA EmitsNothing ==
    ASSUME NEW size, NEW v \in Views
    PROVE  Emits(size, v, <<>>, v)
BY LeadsEmpty, EmptySeq DEF Emits

\* A legal event takes the client one step.
LEMMA EmitsOne ==
    ASSUME NEW size \in Nat, NEW v \in Views, NEW e \in Events, Legal(size, v, e)
    PROVE  Emits(size, v, <<e>>, Apply(v, e))
<1>1. <<e>> \in Seq(Events)
  OBVIOUS
<1> QED
  BY <1>1, LeadsOne DEF Emits

\* Events that follow others go on where these led.
LEMMA EmitsThen ==
    ASSUME NEW size, NEW p, NEW q, NEW u, NEW v, NEW w, Emits(size, u, p, v), Emits(size, v, q, w)
    PROVE  Emits(size, u, p \o q, w)
<1>1. p \in Seq(Events) /\ q \in Seq(Events) /\ Leads(size, u, p, v) /\ Leads(size, v, q, w)
  BY DEF Emits
<1>2. p \o q \in Seq(Events)
  BY <1>1, ConcatProperties
<1>3. Leads(size, u, p \o q, w)
  BY <1>1, LeadsConcat
<1> QED
  BY <1>2, <1>3 DEF Emits

\* One event after another are the pair of them.
LEMMA PairIs ==
    ASSUME NEW a, NEW b
    PROVE  <<a>> \o <<b>> = <<a, b>>
<1> DEFINE S == {a, b}
           s == <<a>> \o <<b>>
           t == <<a, b>>
<1>1. <<a>> \in Seq(S) /\ <<b>> \in Seq(S) /\ t \in Seq(S)
  OBVIOUS
<1>2. Len(<<a>>) = 1 /\ Len(<<b>>) = 1 /\ Len(t) = 2 /\ t[1] = a /\ t[2] = b
  OBVIOUS
<1> HIDE DEF t, S
<1>3. /\ s \in Seq(S) /\ Len(s) = 2
      /\ \A i \in 1..2 : s[i] = IF i <= 1 THEN <<a>>[i] ELSE <<b>>[i - 1]
  BY <1>1, <1>2, ConcatProperties
<1> HIDE DEF s
<1>4. \A i \in 1..2 : s[i] = t[i]
  BY <1>2, <1>3
<1>5. s = t
  BY <1>1, <1>2, <1>3, <1>4, SeqEqual
<1> QED
  BY <1>5 DEF s, t

\* Three events, with nothing in between.
LEMMA TripleIs ==
    ASSUME NEW a, NEW b, NEW c
    PROVE  <<a>> \o <<>> \o <<b>> \o <<c>> = <<a, b, c>>
<1> DEFINE S == {a, b, c}
           s == <<a, b>> \o <<c>>
           t == <<a, b, c>>
<1>1. <<a>> \in Seq(S) /\ <<a, b>> \in Seq(S) /\ <<c>> \in Seq(S) /\ t \in Seq(S)
  OBVIOUS
<1>2. /\ Len(<<a, b>>) = 2 /\ Len(<<c>>) = 1 /\ Len(t) = 3 /\ t[1] = a /\ t[2] = b /\ t[3] = c
      /\ <<a, b>>[1] = a /\ <<a, b>>[2] = b /\ <<c>>[1] = c
  OBVIOUS
<1>3. <<a>> \o <<>> = <<a>>
  BY <1>1, ConcatEmptySeq
<1> HIDE DEF t, S
<1>4. /\ s \in Seq(S) /\ Len(s) = 3
      /\ \A i \in 1..3 : s[i] = IF i <= 2 THEN <<a, b>>[i] ELSE <<c>>[i - 2]
  BY <1>1, <1>2, ConcatProperties
<1> HIDE DEF s
<1>5. \A i \in 1..3 : s[i] = t[i]
  <2>1. \A i \in 1..3 : i = 1 \/ i = 2 \/ i = 3
    OBVIOUS
  <2> QED
    BY <1>2, <1>4, <2>1
<1>6. s = t
  BY <1>1, <1>2, <1>4, <1>5, SeqEqual
<1> QED
  BY <1>3, <1>6, PairIs DEF s, t

\* The start of a message.
LEMMA EmitsMessageStart ==
    ASSUME NEW size \in Nat
    PROVE  Emits(size, NoMessage, <<MessageStart>>, Fresh) /\ Fresh \in Views /\ NoMessage \in Views
<1>1. NoMessage \in Views /\ Fresh \in Views
  <2>1. <<>> \in Seq(ViewBlocks)
    BY EmptySeq
  <2> QED
    BY <2>1 DEF NoMessage, Fresh, Views
<1>2. Legal(size, NoMessage, MessageStart) /\ MessageStart \in Events
  BY DEF Legal, Events
<1>3. Emits(size, NoMessage, <<MessageStart>>, Apply(NoMessage, MessageStart))
  BY <1>1, <1>2, EmitsOne
<1> QED
  BY <1>1, <1>3, ApplyMessageStart

\* The start of a block.
LEMMA EmitsBlockStart ==
    ASSUME NEW size \in Nat, NEW v \in Views, v.msg = "started", NEW k \in Kinds
    PROVE  Emits(size, v, <<BlockStart(Len(v.blocks), k)>>, WithBlock(v, k))
<1> DEFINE e == BlockStart(Len(v.blocks), k)
<1>1. Legal(size, v, e)
  BY DEF Legal
<1>2. e \in Events
  BY BlocksOfView DEF Events
<1>3. Apply(v, e) = WithBlock(v, k)
  BY ApplyBlockStart
<1> HIDE DEF e
<1>4. Emits(size, v, <<e>>, Apply(v, e))
  BY <1>1, <1>2, EmitsOne
<1> QED
  BY <1>3, <1>4 DEF e

\* More data of an open block.
LEMMA EmitsBlockDelta ==
    ASSUME NEW size \in Nat, NEW v \in Views, v.msg = "started", NEW i \in OpenIn(v),
           NEW k, k = v.blocks[i + 1].kind, NEW d \in Seq(Nat), Len(d) <= size
    PROVE  Emits(size, v, <<BlockDelta(i, k, d)>>, WithData(v, i, d))
<1> DEFINE e == BlockDelta(i, k, d)
<1>1. Legal(size, v, e)
  BY DEF Legal
<1>2. e \in Events
  <2>1. i \in Nat /\ k \in Kinds
    BY BlocksOfView DEF ViewBlocks
  <2> QED
    BY <2>1 DEF Events
<1>3. Apply(v, e) = WithData(v, i, d)
  BY ApplyBlockDelta
<1> HIDE DEF e
<1>4. Emits(size, v, <<e>>, Apply(v, e))
  BY <1>1, <1>2, EmitsOne
<1> QED
  BY <1>3, <1>4 DEF e

\* The signature of an open thinking block.
LEMMA EmitsSignatureDelta ==
    ASSUME NEW size \in Nat, NEW v \in Views, v.msg = "started", NEW i \in OpenIn(v),
           v.blocks[i + 1].kind = "thinking", NEW s \in Nat \ {0}
    PROVE  Emits(size, v, <<SignatureDelta(i, s)>>, WithSignature(v, i, s))
<1> DEFINE e == SignatureDelta(i, s)
<1>1. Legal(size, v, e)
  BY DEF Legal
<1>2. e \in Events
  BY BlocksOfView DEF Events
<1>3. Apply(v, e) = WithSignature(v, i, s)
  BY ApplySignatureDelta
<1> HIDE DEF e
<1>4. Emits(size, v, <<e>>, Apply(v, e))
  BY <1>1, <1>2, EmitsOne
<1> QED
  BY <1>3, <1>4 DEF e

\* The stop of an open block.
LEMMA EmitsBlockStop ==
    ASSUME NEW size \in Nat, NEW v \in Views, v.msg = "started", NEW i \in OpenIn(v)
    PROVE  Emits(size, v, <<BlockStop(i)>>, WithStopped(v, i))
<1> DEFINE e == BlockStop(i)
<1>1. Legal(size, v, e)
  BY DEF Legal
<1>2. e \in Events
  BY BlocksOfView DEF Events
<1>3. Apply(v, e) = WithStopped(v, i)
  BY ApplyBlockStop
<1> HIDE DEF e
<1>4. Emits(size, v, <<e>>, Apply(v, e))
  BY <1>1, <1>2, EmitsOne
<1> QED
  BY <1>3, <1>4 DEF e

\* A view all of whose blocks are stopped.
AllStopped(v) == StoppedAt(v, OpenIn(v))

\* When all blocks are stopped none is open, and nothing else changed.
LEMMA AllStoppedIs ==
    ASSUME NEW v \in Views
    PROVE  LET w == AllStopped(v)
           IN  /\ w \in Views /\ w.msg = v.msg /\ w.stop = v.stop
               /\ Len(w.blocks) = Len(v.blocks) /\ OpenIn(w) = {}
               /\ \A j \in 1..Len(v.blocks) :
                     /\ w.blocks[j].kind = v.blocks[j].kind /\ w.blocks[j].data = v.blocks[j].data
                     /\ w.blocks[j].signature = v.blocks[j].signature
                     /\ ~w.blocks[j].open
<1> DEFINE w == AllStopped(v)
<1>1. /\ w \in Views /\ w.msg = v.msg /\ w.stop = v.stop
      /\ Len(w.blocks) = Len(v.blocks)
      /\ \A j \in 1..Len(v.blocks) :
            /\ w.blocks[j].kind = v.blocks[j].kind /\ w.blocks[j].data = v.blocks[j].data
            /\ w.blocks[j].signature = v.blocks[j].signature
            /\ w.blocks[j].open <=> v.blocks[j].open /\ j - 1 \notin OpenIn(v)
  BY StoppedAtIs DEF AllStopped
<1> HIDE DEF w
<1>2. \A j \in 1..Len(v.blocks) : ~w.blocks[j].open
  <2> TAKE j \in 1..Len(v.blocks)
  <2>1. v.blocks[j].open => j - 1 \in OpenIn(v)
    BY BlocksOfView DEF OpenIn
  <2> QED
    BY <1>1, <2>1
<1>3. OpenIn(w) = {}
  BY <1>1, <1>2, BlocksOfView DEF OpenIn
<1> QED
  BY <1>1, <1>2, <1>3 DEF w

\* The stops of all open blocks, each once.
LEMMA EmitsStops ==
    ASSUME NEW size \in Nat, NEW v \in Views, v.msg = "started",
           NEW indexes \in Seq(Nat),
           OpenIn(v) = {indexes[k] : k \in 1..Len(indexes)},
           \A k, l \in 1..Len(indexes) : k # l => indexes[k] # indexes[l]
    PROVE  Emits(size, v, Stops(indexes), AllStopped(v))
<1>1. \A k \in 1..Len(indexes) : indexes[k] \in OpenIn(v)
  OBVIOUS
<1>2. Leads(size, v, Stops(indexes), StoppedAt(v, {indexes[k] : k \in 1..Len(indexes)}))
  BY <1>1, LeadsStops
<1>3. Stops(indexes) \in Seq(Events)
  <2>1. DOMAIN indexes = 1..Len(indexes) /\ Len(indexes) \in Nat
    BY LenProperties
  <2>2. \A i \in 1..Len(indexes) : BlockStop(indexes[i]) \in Events
    BY ElementOfSeq DEF Events
  <2>3. Stops(indexes) \in [1..Len(indexes) -> Events]
    BY <2>1, <2>2 DEF Stops
  <2> QED
    BY <2>1, <2>3, SeqDef
<1> QED
  BY <1>2, <1>3 DEF Emits, AllStopped

\* An empty text block.
WithFiller(v) == WithStopped(WithBlock(v, "text"), Len(v.blocks))

\* The filling is an empty text block, started and stopped (ensureContentBlock).
LEMMA EmitsFiller ==
    ASSUME NEW size \in Nat, NEW v \in Views, v.msg = "started"
    PROVE  LET w == WithFiller(v)
               n == Len(v.blocks)
           IN  /\ Emits(size, v, <<BlockStart(n, "text"), BlockStop(n)>>, w)
               /\ w \in Views /\ w.msg = v.msg /\ w.stop = v.stop /\ Len(w.blocks) = n + 1
               /\ \A j \in 1..n : w.blocks[j] = v.blocks[j]
               /\ w.blocks[n + 1].kind = "text" /\ w.blocks[n + 1].data = <<>>
               /\ w.blocks[n + 1].signature = 0 /\ ~w.blocks[n + 1].open
<1> DEFINE n == Len(v.blocks)
           u == WithBlock(v, "text")
           w == WithStopped(u, n)
<1>1. "text" \in Kinds /\ n \in Nat
  BY BlocksOfView DEF Kinds
<1>2. /\ u \in Views /\ u.msg = v.msg /\ u.stop = v.stop /\ Len(u.blocks) = n + 1
      /\ u.blocks[n + 1] = NewBlock("text")
      /\ \A j \in 1..n : u.blocks[j] = v.blocks[j]
  BY <1>1, WithBlockIs
<1>3. Emits(size, v, <<BlockStart(n, "text")>>, u)
  BY <1>1, EmitsBlockStart
<1> HIDE DEF u
<1>4. n \in OpenIn(u)
  <2>1. n \in 0..Len(u.blocks) - 1 /\ u.blocks[n + 1].open
    BY <1>1, <1>2 DEF NewBlock
  <2> QED
    BY <2>1 DEF OpenIn
<1> HIDE DEF n
<1>5. Emits(size, u, <<BlockStop(n)>>, w)
  BY <1>2, <1>4, EmitsBlockStop
<1>6. /\ w \in Views /\ w.msg = u.msg /\ w.stop = u.stop /\ Len(w.blocks) = Len(u.blocks)
      /\ w.blocks[n + 1].kind = u.blocks[n + 1].kind /\ w.blocks[n + 1].open = FALSE
      /\ w.blocks[n + 1].data = u.blocks[n + 1].data
      /\ w.blocks[n + 1].signature = u.blocks[n + 1].signature
      /\ \A j \in 1..Len(u.blocks) : j # n + 1 => w.blocks[j] = u.blocks[j]
  BY <1>2, <1>4, WithStoppedIs
<1>7. w = WithFiller(v)
  BY DEF u, n, WithFiller
<1> HIDE DEF w
<1>8. Emits(size, v, <<BlockStart(n, "text")>> \o <<BlockStop(n)>>, w)
  BY <1>3, <1>5, EmitsThen
<1>9. <<BlockStart(n, "text")>> \o <<BlockStop(n)>> = <<BlockStart(n, "text"), BlockStop(n)>>
  BY PairIs
<1>10. \A j \in 1..n : w.blocks[j] = v.blocks[j]
  BY <1>1, <1>2, <1>6
<1>11. /\ w.blocks[n + 1].kind = "text" /\ w.blocks[n + 1].data = <<>>
       /\ w.blocks[n + 1].signature = 0 /\ ~w.blocks[n + 1].open
  BY <1>2, <1>6 DEF NewBlock
<1> QED
  BY <1>2, <1>6, <1>7, <1>8, <1>9, <1>10, <1>11 DEF n

\* The end of a message none of whose blocks is open.
Ended(v, stop) == Closed(Closing(v, stop))

\* The ending closes a message that has blocks, none of them open.
LEMMA EmitsEnding ==
    ASSUME NEW size \in Nat, NEW v \in Views, v.msg = "started", v.blocks # <<>>,
           OpenIn(v) = {}, NEW stop \in StopReasons
    PROVE  LET w == Ended(v, stop)
           IN  /\ Emits(size, v, Ending(stop), w)
               /\ w \in Views /\ w.msg = "stopped" /\ w.stop = stop /\ w.blocks = v.blocks
<1> DEFINE u == Closing(v, stop)
           w == Closed(u)
<1>1. u \in Views /\ u.msg = "ending" /\ u.stop = stop /\ u.blocks = v.blocks
  BY DEF Closing, Views
<1>2. Emits(size, v, <<MessageDelta(stop)>>, u)
  <2>1. Legal(size, v, MessageDelta(stop)) /\ MessageDelta(stop) \in Events
    BY DEF Legal, Events
  <2>2. Emits(size, v, <<MessageDelta(stop)>>, Apply(v, MessageDelta(stop)))
    BY <2>1, EmitsOne
  <2> QED
    BY <2>2, ApplyMessageDelta
<1> HIDE DEF u
<1>3. w \in Views /\ w.msg = "stopped" /\ w.stop = stop /\ w.blocks = v.blocks
  BY <1>1 DEF Closed, Views
<1>4. Emits(size, u, <<MessageStop>>, w)
  <2>1. Legal(size, u, MessageStop) /\ MessageStop \in Events
    BY <1>1 DEF Legal, Events
  <2>2. Emits(size, u, <<MessageStop>>, Apply(u, MessageStop))
    BY <1>1, <2>1, EmitsOne
  <2> QED
    BY <2>2, ApplyMessageStop
<1> HIDE DEF w
<1>5. Emits(size, v, <<MessageDelta(stop)>> \o <<MessageStop>>, w)
  BY <1>2, <1>4, EmitsThen
<1>6. <<MessageDelta(stop)>> \o <<MessageStop>> = Ending(stop)
  BY PairIs DEF Ending
<1> QED
  BY <1>3, <1>5, <1>6 DEF w, u, Ended

\* The open blocks of a client with one more block that is open.
LEMMA OpenedBlock ==
    ASSUME NEW w \in Views, NEW x, Len(x.blocks) = Len(w.blocks) + 1,
           x.blocks[Len(w.blocks) + 1].open,
           \A j \in 1..Len(w.blocks) : x.blocks[j] = w.blocks[j]
    PROVE  /\ OpenIn(x) = OpenIn(w) \cup {Len(w.blocks)}
           /\ \A i \in OpenIn(w) : x.blocks[i + 1] = w.blocks[i + 1]
<1> DEFINE n == Len(w.blocks)
<1>1. n \in Nat
  BY BlocksOfView
<1>2. /\ Len(x.blocks) = n + 1 /\ x.blocks[n + 1].open
      /\ \A j \in 1..n : x.blocks[j] = w.blocks[j]
  OBVIOUS
<1>3. OpenIn(w) = {i \in 0..n - 1 : w.blocks[i + 1].open}
  BY DEF OpenIn
<1> HIDE DEF n
<1>4. \A i \in 0..n - 1 : i + 1 \in 1..n
  BY <1>1
<1>5. \A i \in 0..n - 1 : x.blocks[i + 1] = w.blocks[i + 1]
  BY <1>2, <1>4
<1>6. 0..(n + 1) - 1 = (0..n - 1) \cup {n}
  BY <1>1
<1>7. OpenIn(x) = {i \in (0..n - 1) \cup {n} : x.blocks[i + 1].open}
  BY <1>2, <1>6 DEF OpenIn
<1>8. OpenIn(x) = OpenIn(w) \cup {n}
  BY <1>2, <1>3, <1>5, <1>7, Zenon
<1>9. \A i \in OpenIn(w) : i \in 0..n - 1
  BY <1>3
<1> QED
  BY <1>5, <1>8, <1>9 DEF n

-----------------------------------------------------------------------------
(* The converter of openai/stream.go.                                      *)

Converters ==
    [messageStarted : BOOLEAN, stopReasonSent : BOOLEAN, sawFunctionCall : BOOLEAN,
     contentBlockCompleted : BOOLEAN, nextBlockIndex : Nat, open : SUBSET Nat,
     block : [Parts -> Int]]

\* The converter c knows what a client that was sent all its events holds: w.
Matches(c, w) ==
    /\ c \in Converters /\ w \in Views
    /\ w.msg = IF ~c.messageStarted THEN "none"
               ELSE IF c.stopReasonSent THEN "stopped" ELSE "started"
    /\ w.msg = "none" => w = NoMessage
    /\ c.stopReasonSent => c.messageStarted /\ c.open = {} /\ w.stop = StopReason(c)
    /\ c.nextBlockIndex = Len(w.blocks)
    /\ c.open = OpenIn(w)
    /\ c.contentBlockCompleted <=> \E i \in 1..Len(w.blocks) : ~w.blocks[i].open
    /\ c.sawFunctionCall <=> \E i \in 1..Len(w.blocks) : w.blocks[i].kind = "tool"

\* w holds the same data as v, or v had no block and w has one empty text.
Kept(v, w) ==
    \/ /\ Len(w.blocks) = Len(v.blocks)
       /\ \A i \in 1..Len(v.blocks) : /\ w.blocks[i].kind = v.blocks[i].kind
                                      /\ w.blocks[i].data = v.blocks[i].data
    \/ /\ Len(v.blocks) = 0 /\ Len(w.blocks) = 1
       /\ w.blocks[1].kind = "text" /\ w.blocks[1].data = <<>>

\* A new converter matches a client that holds nothing.
LEMMA NewMatches == Matches(NewStreamConverter, NoMessage)
<1>1. NoMessage \in Views /\ NoMessage.msg = "none" /\ NoMessage.blocks = <<>>
  BY EmitsMessageStart DEF NoMessage
<1>2. NewStreamConverter \in Converters
  BY DEF NewStreamConverter, Converters, None
<1>3. Len(<<>>) = 0 /\ 1..0 = {} /\ 0..0 - 1 = {}
  OBVIOUS
<1>4. OpenIn(NoMessage) = {}
  BY <1>1, <1>3 DEF OpenIn
<1> QED
  BY <1>1, <1>2, <1>3, <1>4 DEF Matches, NewStreamConverter

\* ensureMessageStart.
Begun(w) == IF w.msg = "none" THEN Fresh ELSE w

\* After the missing start, client and converter agree (ensureMessageStart).
LEMMA BeginMatches ==
    ASSUME NEW size \in Nat, NEW c, NEW w, Matches(c, w), ~c.stopReasonSent
    PROVE  /\ Emits(size, w, MissingStart(c), Begun(w))
           /\ Matches(Started(c), Begun(w)) /\ ~Started(c).stopReasonSent
           /\ Begun(w) \in Views /\ Begun(w).msg = "started" /\ Begun(w).blocks = w.blocks
<1>1. c \in Converters /\ w \in Views
  BY DEF Matches
<1>2. CASE c.messageStarted
  <2>1. w.msg = "started" /\ Begun(w) = w /\ MissingStart(c) = <<>>
    BY <1>2 DEF Matches, Begun, MissingStart
  <2>2. Started(c) = c
    BY <1>1, <1>2 DEF Started, Converters
  <2>3. Emits(size, w, <<>>, w)
    BY <1>1, EmitsNothing
  <2> QED
    BY <1>1, <2>1, <2>2, <2>3
<1>3. CASE ~c.messageStarted
  <2>1. w = NoMessage /\ w.msg = "none" /\ Begun(w) = Fresh /\ MissingStart(c) = <<MessageStart>>
    BY <1>3 DEF Matches, Begun, MissingStart
  <2>2. Emits(size, w, <<MessageStart>>, Fresh) /\ Fresh \in Views
    BY <2>1, EmitsMessageStart
  <2>3. /\ Fresh.msg = "started" /\ Fresh.blocks = w.blocks /\ Len(Fresh.blocks) = Len(w.blocks)
        /\ OpenIn(Fresh) = OpenIn(w)
    BY <2>1 DEF Fresh, NoMessage, OpenIn
  <2>4. /\ Started(c) \in Converters /\ Started(c).messageStarted
        /\ Started(c).stopReasonSent = c.stopReasonSent /\ Started(c).open = c.open
        /\ Started(c).nextBlockIndex = c.nextBlockIndex
        /\ Started(c).contentBlockCompleted = c.contentBlockCompleted
        /\ Started(c).sawFunctionCall = c.sawFunctionCall
    BY <1>1 DEF Started, Converters
  <2>5. Matches(Started(c), Fresh)
    BY <2>2, <2>3, <2>4 DEF Matches
  <2> QED
    BY <2>1, <2>2, <2>3, <2>4, <2>5
<1> QED
  BY <1>2, <1>3

\* Changes of these fields keep the converter one.
LEMMA ConverterChanged ==
    ASSUME NEW c \in Converters, NEW n \in Nat, NEW o \in SUBSET Nat,
           NEW b \in [Parts -> Int], NEW f \in BOOLEAN
    PROVE  [c EXCEPT !.nextBlockIndex = n, !.open = o, !.block = b, !.sawFunctionCall = f] \in Converters
BY DEF Converters

\* What the converter knows when it added a part.
LEMMA AddedConverter ==
    ASSUME NEW c \in Converters, NEW p \in Parts, NEW n \in Nat, c.nextBlockIndex = n, NEW kind
    PROVE  LET g == Added(c, p, kind).conv
           IN  /\ g \in Converters /\ g.messageStarted /\ g.stopReasonSent = c.stopReasonSent
               /\ g.nextBlockIndex = n + 1 /\ g.open = c.open \cup {n}
               /\ g.block = [c.block EXCEPT ![p] = n]
               /\ g.contentBlockCompleted = c.contentBlockCompleted
               /\ g.sawFunctionCall <=> c.sawFunctionCall \/ kind = "tool"
<1> DEFINE g == Added(c, p, kind).conv
           t == Started(c)
<1>1. /\ t \in Converters /\ t.messageStarted /\ t.stopReasonSent = c.stopReasonSent
      /\ t.nextBlockIndex = n /\ t.open = c.open /\ t.block = c.block
      /\ t.contentBlockCompleted = c.contentBlockCompleted
      /\ t.sawFunctionCall = c.sawFunctionCall
  BY DEF Started, Converters
<1>2. g = [t EXCEPT !.nextBlockIndex = @ + 1, !.open = @ \cup {n}, !.block[p] = n,
                    !.sawFunctionCall = @ \/ kind = "tool"]
  BY <1>1 DEF Added, Out
<1> HIDE DEF t, g
<1>3. /\ g.messageStarted = t.messageStarted /\ g.stopReasonSent = t.stopReasonSent
      /\ g.nextBlockIndex = n + 1 /\ g.open = t.open \cup {n}
  BY <1>1, <1>2 DEF Converters
<1>4. g.block = [t.block EXCEPT ![p] = n] /\ g.contentBlockCompleted = t.contentBlockCompleted
  BY <1>1, <1>2 DEF Converters
<1>5. g.sawFunctionCall <=> t.sawFunctionCall \/ kind = "tool"
  BY <1>1, <1>2 DEF Converters
<1>6. g \in Converters
  <2> DEFINE o == t.open \cup {n}
             b == [t.block EXCEPT ![p] = n]
  <2>1. o \in SUBSET Nat /\ b \in [Parts -> Int] /\ n + 1 \in Nat
    BY <1>1 DEF Converters
  <2>2. PICK f \in BOOLEAN : f = (t.sawFunctionCall \/ kind = "tool")
    OBVIOUS
  <2>3. g = [t EXCEPT !.nextBlockIndex = n + 1, !.open = o, !.block = b, !.sawFunctionCall = f]
    BY <1>1, <1>2, <2>2, Zenon
  <2> HIDE DEF o, b
  <2>4. t \in Converters
    BY <1>1
  <2>5. [t EXCEPT !.nextBlockIndex = n + 1, !.open = o, !.block = b, !.sawFunctionCall = f] \in Converters
    BY <2>1, <2>4, ConverterChanged, Zenon
  <2> QED
    BY <2>3, <2>5, Zenon
<1> QED
  BY <1>1, <1>3, <1>4, <1>5, <1>6 DEF g

\* Only the block of the part p is another one, i.
BlockAt(c, p, i, g) == g.block = [c.block EXCEPT ![p] = i]

\* An added part opens the next block.
LEMMA AddedMatches ==
    ASSUME NEW size \in Nat, NEW c, NEW w, Matches(c, w), ~c.stopReasonSent,
           NEW p \in Parts, NEW kind \in Kinds
    PROVE  LET s == Added(c, p, kind)
               x == WithBlock(Begun(w), kind)
           IN  /\ Emits(size, w, s.events, x) /\ Matches(s.conv, x) /\ ~s.conv.stopReasonSent
               /\ ~s.err
               /\ BlockAt(c, p, Len(w.blocks), s.conv)
<1> DEFINE s == Added(c, p, kind)
           b == Begun(w)
           x == WithBlock(b, kind)
           n == Len(w.blocks)
           g == s.conv
<1>1. /\ Emits(size, w, MissingStart(c), b) /\ Matches(Started(c), b)
      /\ b \in Views /\ b.msg = "started" /\ Len(b.blocks) = n
  BY BeginMatches
<1>2. c \in Converters /\ c.nextBlockIndex = n /\ n \in Nat
  BY BlocksOfView DEF Matches
<1> HIDE DEF b, n
<1>3. Emits(size, b, <<BlockStart(n, kind)>>, x)
  BY <1>1, EmitsBlockStart
<1>4. Emits(size, w, MissingStart(c) \o <<BlockStart(n, kind)>>, x)
  BY <1>1, <1>3, EmitsThen
<1>5. s.events = MissingStart(c) \o <<BlockStart(n, kind)>> /\ ~s.err
  BY <1>2 DEF Added, Out
<1>6. /\ x \in Views /\ x.msg = "started" /\ x.stop = b.stop /\ Len(x.blocks) = n + 1
      /\ x.blocks[n + 1] = NewBlock(kind)
      /\ \A j \in 1..n : x.blocks[j] = b.blocks[j]
  BY <1>1, WithBlockIs
<1>7. /\ g \in Converters /\ g.messageStarted /\ g.stopReasonSent = c.stopReasonSent
      /\ g.nextBlockIndex = n + 1 /\ g.open = c.open \cup {n}
      /\ g.contentBlockCompleted = c.contentBlockCompleted
      /\ g.sawFunctionCall <=> c.sawFunctionCall \/ kind = "tool"
      /\ g.block = [c.block EXCEPT ![p] = n]
  BY <1>2, AddedConverter
<1>8. /\ c.open = OpenIn(b)
      /\ c.contentBlockCompleted <=> \E i \in 1..n : ~b.blocks[i].open
      /\ c.sawFunctionCall <=> \E i \in 1..n : b.blocks[i].kind = "tool"
  <2>1. /\ Started(c).open = c.open /\ Started(c).contentBlockCompleted = c.contentBlockCompleted
        /\ Started(c).sawFunctionCall = c.sawFunctionCall
    BY <1>2 DEF Started, Converters
  <2> QED
    BY <1>1, <2>1 DEF Matches
<1> HIDE DEF g, x
<1>9. NewBlock(kind).open = TRUE /\ NewBlock(kind).kind = kind
  BY DEF NewBlock
<1>10. OpenIn(x) = OpenIn(b) \cup {n}
  <2>1. \A i \in 0..n - 1 : x.blocks[i + 1] = b.blocks[i + 1]
    <3>1. \A i \in 0..n - 1 : i + 1 \in 1..n
      BY <1>2
    <3> QED
      BY <1>6, <3>1
  <2>2. x.blocks[n + 1].open
    BY <1>6, <1>9
  <2>3. 0..(n + 1) - 1 = (0..n - 1) \cup {n}
    BY <1>2
  <2>4. OpenIn(x) = {i \in (0..n - 1) \cup {n} : x.blocks[i + 1].open}
    BY <1>6, <2>3 DEF OpenIn
  <2>5. OpenIn(b) = {i \in 0..n - 1 : b.blocks[i + 1].open}
    BY <1>1 DEF OpenIn
  <2> QED
    BY <2>1, <2>2, <2>4, <2>5, Zenon
<1>11. \A i \in 1..n + 1 : i = n + 1 \/ i \in 1..n
  BY <1>2
<1>12. \A i \in 1..n : i \in 1..n + 1
  BY <1>2
<1>13. n + 1 \in 1..n + 1
  BY <1>2
<1>14. g.contentBlockCompleted <=> \E i \in 1..Len(x.blocks) : ~x.blocks[i].open
  BY <1>6, <1>7, <1>8, <1>9, <1>11, <1>12
<1>15. g.sawFunctionCall <=> \E i \in 1..Len(x.blocks) : x.blocks[i].kind = "tool"
  <2>1. \A i \in 1..n : x.blocks[i].kind = b.blocks[i].kind
    BY <1>6
  <2>2. x.blocks[n + 1].kind = kind
    BY <1>6, <1>9
  <2> QED
    BY <1>6, <1>7, <1>8, <1>11, <1>12, <1>13, <2>1, <2>2, Zenon
<1>16. Matches(g, x)
  BY <1>6, <1>7, <1>8, <1>10, <1>14, <1>15 DEF Matches
<1> QED
  BY <1>4, <1>5, <1>7, <1>16 DEF g, x, b, n, BlockAt

\* The step s leaves the converter as it is, and is no error.
Leaves(c, s) == s.conv = c /\ ~s.err

\* A delta of an open part adds to its block.
LEMMA DeltaMatches ==
    ASSUME NEW size \in Nat, NEW c, NEW w, Matches(c, w), ~c.stopReasonSent,
           NEW p \in Parts, c.block[p] \in c.open, NEW kind \in Kinds,
           w.blocks[c.block[p] + 1].kind = kind,
           NEW d \in Seq(Nat), Len(d) <= size
    PROVE  LET s == ProcessEvent(c, [type |-> "delta", part |-> p, kind |-> kind, data |-> d])
               x == WithData(w, c.block[p], d)
           IN  Emits(size, w, s.events, x) /\ Matches(c, x) /\ Leaves(c, s)
<1> DEFINE i == c.block[p]
           e == [type |-> "delta", part |-> p, kind |-> kind, data |-> d]
           s == ProcessEvent(c, e)
           x == WithData(w, i, d)
<1>1. /\ c \in Converters /\ w \in Views /\ i \in OpenIn(w) /\ i \in Nat /\ i < Len(w.blocks)
      /\ c.nextBlockIndex = Len(w.blocks) /\ c.open = OpenIn(w) /\ Len(w.blocks) \in Nat
  BY BlocksOfView DEF Matches
<1>2. c.messageStarted /\ w.msg = "started"
  <2>1. w # NoMessage
    <3>1. Len(NoMessage.blocks) = 0
      BY DEF NoMessage
    <3> QED
      BY <1>1, <3>1
  <2> QED
    BY <1>1, <2>1 DEF Matches, Converters
<1>3. Started(c) = c /\ MissingStart(c) = <<>>
  BY <1>1, <1>2 DEF Started, Converters, MissingStart
<1>4. ~Missing(c, p)
  BY <1>1 DEF Missing, None
<1>5. s.conv = c /\ s.events = <<BlockDelta(i, kind, d)>> /\ ~s.err
  <2>1. e.type = "delta" /\ e.kind = kind /\ e.part = p /\ e.data = d
    OBVIOUS
  <2>2. Out(c, <<BlockDelta(i, kind, d)>>).conv = c /\ Out(c, <<BlockDelta(i, kind, d)>>).err = FALSE
        /\ Out(c, <<BlockDelta(i, kind, d)>>).events = <<BlockDelta(i, kind, d)>>
    BY DEF Out
  <2>3. CASE kind = "text"
    <3>1. s = TextDelta(c, p, d)
      BY <2>3 DEF ProcessEvent
    <3>2. s = Out(c, <<BlockDelta(i, kind, d)>>)
      BY <1>4, <2>3, <3>1 DEF TextDelta
    <3> QED
      BY <2>2, <3>2
  <2>4. CASE kind = "tool"
    <3>1. s = CallDelta(c, p, d)
      BY <2>4 DEF ProcessEvent
    <3>2. <<>> \o <<BlockDelta(i, kind, d)>> = <<BlockDelta(i, kind, d)>>
      <4>1. <<BlockDelta(i, kind, d)>> \in Seq({BlockDelta(i, kind, d)})
        OBVIOUS
      <4> QED
        BY <4>1, ConcatEmptySeq
    <3>3. s = Out(c, <<BlockDelta(i, kind, d)>>)
      BY <1>3, <1>4, <2>4, <3>1, <3>2 DEF CallDelta
    <3> QED
      BY <2>2, <3>3
  <2>5. CASE kind = "thinking"
    <3>1. s = ThinkingDelta(c, p, d)
      BY <2>5 DEF ProcessEvent
    <3>2. s = Out(c, <<BlockDelta(i, kind, d)>>)
      BY <1>4, <2>5, <3>1 DEF ThinkingDelta
    <3> QED
      BY <2>2, <3>2
  <2> QED
    BY <2>3, <2>4, <2>5 DEF Kinds
<1> HIDE DEF s
<1>6. Emits(size, w, <<BlockDelta(i, kind, d)>>, x)
  BY <1>1, <1>2, EmitsBlockDelta
<1>7. /\ x \in Views /\ x.msg = w.msg /\ x.stop = w.stop
      /\ Len(x.blocks) = Len(w.blocks)
      /\ x.blocks[i + 1].kind = w.blocks[i + 1].kind /\ x.blocks[i + 1].open = w.blocks[i + 1].open
      /\ \A j \in 1..Len(w.blocks) : j # i + 1 => x.blocks[j] = w.blocks[j]
  BY <1>1, WithDataIs
<1> HIDE DEF x, i
<1>8. \A j \in 1..Len(w.blocks) : x.blocks[j].open = w.blocks[j].open /\ x.blocks[j].kind = w.blocks[j].kind
  BY <1>7
<1>9. OpenIn(x) = OpenIn(w)
  <2>1. \A j \in 0..Len(w.blocks) - 1 : j + 1 \in 1..Len(w.blocks)
    BY <1>1
  <2> QED
    BY <1>7, <1>8, <2>1 DEF OpenIn
<1>10. Matches(c, x)
  BY <1>1, <1>2, <1>7, <1>8, <1>9 DEF Matches
<1> QED
  BY <1>5, <1>6, <1>10 DEF s, x, i, Leaves

\* The done event of an open part stops its block.
LEMMA DoneMatches ==
    ASSUME NEW size \in Nat, NEW c, NEW w, Matches(c, w), ~c.stopReasonSent,
           NEW p \in Parts, c.block[p] \in c.open
    PROVE  LET s == Done(c, p)
               x == WithStopped(w, c.block[p])
           IN  /\ Emits(size, w, s.events, x) /\ Matches(s.conv, x) /\ ~s.err
               /\ ~s.conv.stopReasonSent /\ s.conv.block = c.block
               /\ s.conv.open = c.open \ {c.block[p]}
<1> DEFINE i == c.block[p]
           s == Done(c, p)
           g == s.conv
           x == WithStopped(w, i)
<1>1. /\ c \in Converters /\ w \in Views /\ i \in OpenIn(w) /\ i \in Nat /\ i < Len(w.blocks)
      /\ c.nextBlockIndex = Len(w.blocks) /\ c.open = OpenIn(w) /\ Len(w.blocks) \in Nat
  BY BlocksOfView DEF Matches
<1>2. c.messageStarted /\ w.msg = "started"
  <2>1. w # NoMessage
    <3>1. Len(NoMessage.blocks) = 0
      BY DEF NoMessage
    <3> QED
      BY <1>1, <3>1
  <2> QED
    BY <1>1, <2>1 DEF Matches, Converters
<1>3. ~Missing(c, p)
  BY <1>1 DEF Missing, None
<1>4. /\ s.events = <<BlockStop(i)>> /\ ~s.err
      /\ g = [c EXCEPT !.open = @ \ {i}, !.contentBlockCompleted = TRUE]
  BY <1>3 DEF Done, CloseBlock, Out
<1> HIDE DEF s, g
<1>5. /\ g \in Converters /\ g.messageStarted = c.messageStarted
      /\ g.stopReasonSent = c.stopReasonSent /\ g.nextBlockIndex = c.nextBlockIndex
      /\ g.open = c.open \ {i} /\ g.block = c.block /\ g.contentBlockCompleted
      /\ g.sawFunctionCall = c.sawFunctionCall
  BY <1>1, <1>4 DEF Converters
<1>6. Emits(size, w, <<BlockStop(i)>>, x)
  BY <1>1, <1>2, EmitsBlockStop
<1>7. /\ x \in Views /\ x.msg = w.msg /\ x.stop = w.stop
      /\ Len(x.blocks) = Len(w.blocks)
      /\ x.blocks[i + 1].kind = w.blocks[i + 1].kind /\ x.blocks[i + 1].open = FALSE
      /\ \A j \in 1..Len(w.blocks) : j # i + 1 => x.blocks[j] = w.blocks[j]
  BY <1>1, WithStoppedIs
<1> HIDE DEF x, i
<1>8. \A j \in 1..Len(w.blocks) : x.blocks[j].kind = w.blocks[j].kind
  BY <1>7
<1>9. OpenIn(x) = OpenIn(w) \ {i}
  <2>1. \A j \in 0..Len(w.blocks) - 1 : j + 1 \in 1..Len(w.blocks) /\ (j # i => j + 1 # i + 1)
    BY <1>1
  <2>2. \A j \in 0..Len(w.blocks) - 1 : j # i => x.blocks[j + 1] = w.blocks[j + 1]
    BY <1>7, <2>1
  <2> QED
    BY <1>7, <2>2 DEF OpenIn
<1>10. i + 1 \in 1..Len(x.blocks) /\ ~x.blocks[i + 1].open
  BY <1>1, <1>7
<1>11. g.sawFunctionCall <=> \E j \in 1..Len(x.blocks) : x.blocks[j].kind = "tool"
  <2>1. c.sawFunctionCall <=> \E j \in 1..Len(w.blocks) : w.blocks[j].kind = "tool"
    BY DEF Matches
  <2> QED
    BY <1>5, <1>7, <1>8, <2>1
<1>12. Matches(g, x)
  BY <1>1, <1>2, <1>5, <1>7, <1>9, <1>10, <1>11 DEF Matches
<1> QED
  BY <1>4, <1>5, <1>6, <1>12 DEF g, s, x, i

\* Highest index first: every element of a set once.
LEMMA DescendingLists ==
    ASSUME NEW N \in Nat, NEW S \in SUBSET (0..N)
    PROVE  LET r == Reverse(Ascending(S))
           IN  /\ r \in Seq(Nat) /\ S = {r[k] : k \in 1..Len(r)}
               /\ \A k, l \in 1..Len(r) : k # l => r[k] # r[l]
<1> DEFINE a == Ascending(S)
           n == Len(a)
           r == Reverse(a)
<1>1. /\ a \in Seq(S) /\ n \in Nat
      /\ \A i \in S : \E k \in 1..n : a[k] = i
      /\ \A k, l \in 1..n : k < l => a[k] < a[l]
  BY AscendingLists, LenProperties
<1>2. \A k \in 1..n : a[k] \in S /\ a[k] \in Nat
  <2>1. \A k \in 1..n : a[k] \in S
    BY <1>1, ElementOfSeq
  <2>2. \A i \in S : i \in Nat
    OBVIOUS
  <2> HIDE DEF a, n
  <2> QED
    BY <2>1, <2>2
<1>3. r = [i \in 1..n |-> a[n - i + 1]]
  BY DEF Reverse
<1> HIDE DEF a, n, r
<1>4. \A i \in 1..n : n - i + 1 \in 1..n /\ i = n - (n - i + 1) + 1
  BY <1>1
<1>5. r \in Seq(Nat) /\ Len(r) = n
  <2>1. r \in [1..n -> Nat]
    BY <1>2, <1>3, <1>4
  <2> QED
    BY <1>1, <2>1, SeqDef, LenProperties
<1>6. \A i \in 1..n : r[i] = a[n - i + 1]
  BY <1>3
<1>7. S = {r[k] : k \in 1..n}
  <2>1. \A k \in 1..n : r[k] \in S
    BY <1>2, <1>4, <1>6
  <2>2. \A i \in S : \E k \in 1..n : r[k] = i
    <3> TAKE i \in S
    <3>1. PICK k \in 1..n : a[k] = i
      BY <1>1
    <3>2. n - k + 1 \in 1..n /\ r[n - k + 1] = a[k]
      BY <1>1, <1>4, <1>6
    <3> QED
      BY <3>1, <3>2
  <2> QED
    BY <2>1, <2>2, Zenon
<1>8. \A k, l \in 1..n : k # l => r[k] # r[l]
  <2> TAKE k, l \in 1..n
  <2> HAVE k # l
  <2> DEFINE i == n - k + 1
             j == n - l + 1
  <2>1. i \in 1..n /\ j \in 1..n /\ (i < j \/ j < i)
    BY <1>1
  <2> HIDE DEF i, j
  <2>2. a[i] \in Nat /\ a[j] \in Nat /\ (i < j => a[i] < a[j]) /\ (j < i => a[j] < a[i])
    BY <1>1, <1>2, <2>1
  <2>3. a[i] # a[j]
    BY <2>1, <2>2
  <2> QED
    BY <1>6, <2>3 DEF i, j
<1> QED
  BY <1>5, <1>7, <1>8 DEF r, a

\* What the converter knows when it closed what was open.
LEMMA ClosedConverter ==
    ASSUME NEW c \in Converters
    PROVE  LET g == CloseOpenBlocks(c).conv
           IN  /\ g \in Converters /\ g.messageStarted = c.messageStarted
               /\ g.stopReasonSent = c.stopReasonSent /\ g.nextBlockIndex = c.nextBlockIndex
               /\ g.open = {} /\ g.block = c.block /\ g.sawFunctionCall = c.sawFunctionCall
               /\ g.contentBlockCompleted <=> c.contentBlockCompleted \/ c.open # {}
<1>1. PICK f \in BOOLEAN : f = (c.contentBlockCompleted \/ c.open # {})
  OBVIOUS
<1> DEFINE g == [c EXCEPT !.open = {}, !.contentBlockCompleted = f]
<1>2. CloseOpenBlocks(c).conv = [c EXCEPT !.open = {}, !.contentBlockCompleted = @ \/ c.open # {}]
  BY DEF CloseOpenBlocks, Out
<1>3. CloseOpenBlocks(c).conv = g
  BY <1>1, <1>2, Zenon
<1>4. /\ g \in Converters /\ g.messageStarted = c.messageStarted
      /\ g.stopReasonSent = c.stopReasonSent /\ g.nextBlockIndex = c.nextBlockIndex
      /\ g.open = {} /\ g.block = c.block /\ g.sawFunctionCall = c.sawFunctionCall
      /\ g.contentBlockCompleted = f
  BY DEF Converters
<1> HIDE DEF g
<1> QED
  BY <1>1, <1>3, <1>4

\* closeOpenBlocks stops every block that is open.
LEMMA CloseMatches ==
    ASSUME NEW size \in Nat, NEW c, NEW w, Matches(c, w), c.messageStarted, ~c.stopReasonSent
    PROVE  LET s == CloseOpenBlocks(c)
               x == AllStopped(w)
           IN  /\ Emits(size, w, s.events, x) /\ Matches(s.conv, x) /\ ~s.err
               /\ ~s.conv.stopReasonSent /\ s.conv.messageStarted
               /\ s.conv.open = {} /\ s.conv.block = c.block
               /\ s.conv.sawFunctionCall = c.sawFunctionCall
               /\ Kept(w, x)
<1> DEFINE s == CloseOpenBlocks(c)
           g == s.conv
           x == AllStopped(w)
           n == Len(w.blocks)
           r == Reverse(Ascending(c.open))
<1>1. /\ c \in Converters /\ w \in Views /\ w.msg = "started" /\ n \in Nat
      /\ c.nextBlockIndex = n /\ c.open = OpenIn(w)
      /\ c.contentBlockCompleted <=> \E i \in 1..n : ~w.blocks[i].open
      /\ c.sawFunctionCall <=> \E i \in 1..n : w.blocks[i].kind = "tool"
  BY BlocksOfView DEF Matches
<1>2. c.open \in SUBSET (0..n)
  BY <1>1 DEF OpenIn
<1>3. s.events = Stops(r) /\ ~s.err
  BY DEF CloseOpenBlocks, Out
<1>4. /\ g \in Converters /\ g.messageStarted = c.messageStarted
      /\ g.stopReasonSent = c.stopReasonSent /\ g.nextBlockIndex = c.nextBlockIndex
      /\ g.open = {} /\ g.block = c.block /\ g.sawFunctionCall = c.sawFunctionCall
      /\ g.contentBlockCompleted <=> c.contentBlockCompleted \/ c.open # {}
  BY <1>1, ClosedConverter
<1>5. /\ r \in Seq(Nat) /\ c.open = {r[k] : k \in 1..Len(r)}
      /\ \A k, l \in 1..Len(r) : k # l => r[k] # r[l]
  BY <1>1, <1>2, DescendingLists
<1> HIDE DEF r, g, s
<1>6. Emits(size, w, Stops(r), x)
  BY <1>1, <1>5, EmitsStops
<1>7. /\ x \in Views /\ x.msg = w.msg /\ x.stop = w.stop
      /\ Len(x.blocks) = n /\ OpenIn(x) = {}
      /\ \A j \in 1..n :
            /\ x.blocks[j].kind = w.blocks[j].kind /\ x.blocks[j].data = w.blocks[j].data
            /\ ~x.blocks[j].open
  BY <1>1, AllStoppedIs
<1> HIDE DEF x
<1>8. g.contentBlockCompleted <=> \E i \in 1..Len(x.blocks) : ~x.blocks[i].open
  <2>1. c.open # {} => n # 0
    BY <1>1 DEF OpenIn
  <2>2. n # 0 => c.contentBlockCompleted \/ c.open # {}
    <3> HAVE n # 0
    <3>1. 1 \in 1..n /\ 0 \in 0..n - 1 /\ 0 + 1 = 1
      BY <1>1
    <3>2. w.blocks[1].open => 0 \in OpenIn(w)
      BY <3>1 DEF OpenIn
    <3> QED
      BY <1>1, <3>1, <3>2
  <2>3. n # 0 <=> \E i \in 1..n : ~x.blocks[i].open
    <3>1. n # 0 => 1 \in 1..n
      BY <1>1
    <3>2. n = 0 => 1..n = {}
      BY <1>1
    <3> QED
      BY <1>7, <3>1, <3>2
  <2>4. c.contentBlockCompleted => n # 0
    <3>1. n = 0 => 1..n = {}
      BY <1>1
    <3> QED
      BY <1>1, <3>1
  <2> QED
    BY <1>4, <1>7, <2>1, <2>2, <2>3, <2>4
<1>9. g.sawFunctionCall <=> \E i \in 1..Len(x.blocks) : x.blocks[i].kind = "tool"
  BY <1>1, <1>4, <1>7
<1>10. Matches(g, x)
  BY <1>1, <1>4, <1>7, <1>8, <1>9 DEF Matches
<1>11. Kept(w, x)
  BY <1>7 DEF Kept
<1> QED
  BY <1>3, <1>4, <1>6, <1>10, <1>11 DEF g, s, x

\* What the converter knows after ensureContentBlock.
LEMMA FilledConverter ==
    ASSUME NEW c \in Converters, NEW n \in Nat
    PROVE  LET g == [c EXCEPT !.nextBlockIndex = n, !.contentBlockCompleted = TRUE]
           IN  /\ g \in Converters /\ g.messageStarted = c.messageStarted
               /\ g.stopReasonSent = c.stopReasonSent /\ g.nextBlockIndex = n
               /\ g.open = c.open /\ g.block = c.block /\ g.sawFunctionCall = c.sawFunctionCall
               /\ g.contentBlockCompleted = TRUE
BY DEF Converters

\* ensureContentBlock, once nothing is open.
LEMMA FillMatches ==
    ASSUME NEW size \in Nat, NEW c, NEW w, Matches(c, w), c.messageStarted, ~c.stopReasonSent,
           c.open = {}
    PROVE  LET s == EnsureContentBlock(c)
           IN  \E x : /\ Emits(size, w, s.events, x) /\ Matches(s.conv, x)
                      /\ s.conv.messageStarted /\ ~s.conv.stopReasonSent /\ s.conv.open = {}
                      /\ s.conv.block = c.block /\ s.conv.sawFunctionCall = c.sawFunctionCall
                      /\ x.blocks # <<>> /\ Kept(w, x)
<1> DEFINE s == EnsureContentBlock(c)
           g == s.conv
           n == Len(w.blocks)
           x == WithFiller(w)
<1>1. /\ c \in Converters /\ w \in Views /\ w.msg = "started" /\ n \in Nat
      /\ c.nextBlockIndex = n /\ OpenIn(w) = {}
      /\ c.contentBlockCompleted <=> \E i \in 1..n : ~w.blocks[i].open
      /\ c.sawFunctionCall <=> \E i \in 1..n : w.blocks[i].kind = "tool"
  BY BlocksOfView DEF Matches
<1>2. CASE c.contentBlockCompleted
  <2>1. s = Silent(c) /\ Silent(c).conv = c /\ Silent(c).events = <<>>
    BY <1>2 DEF EnsureContentBlock, Silent, Out
  <2>2. Emits(size, w, <<>>, w)
    BY <1>1, EmitsNothing
  <2>3. w.blocks # <<>>
    <3>1. Len(<<>>) = 0 /\ 1..0 = {}
      OBVIOUS
    <3> QED
      BY <1>1, <1>2, <3>1
  <2>4. Kept(w, w)
    BY DEF Kept
  <2>5. /\ Emits(size, w, s.events, w) /\ Matches(s.conv, w) /\ s.conv = c
    BY <2>1, <2>2
  <2> HIDE DEF s
  <2> QED
    BY <2>3, <2>4, <2>5 DEF s
<1>3. CASE ~c.contentBlockCompleted
  <2>1. n = 0
    <3> SUFFICES ASSUME n # 0 PROVE FALSE
      OBVIOUS
    <3>1. 1 \in 1..n /\ 0 \in 0..n - 1 /\ 0 + 1 = 1
      BY <1>1
    <3>2. w.blocks[1].open => 0 \in OpenIn(w)
      BY <3>1 DEF OpenIn
    <3> QED
      BY <1>1, <1>3, <3>1, <3>2
  <2>2. /\ g = [c EXCEPT !.nextBlockIndex = n + 1, !.contentBlockCompleted = TRUE]
        /\ s.events = <<BlockStart(n, "text"), BlockStop(n)>>
    BY <1>1, <1>3 DEF EnsureContentBlock, Out
  <2> HIDE DEF g, s, n
  <2>3. /\ g \in Converters /\ g.messageStarted = c.messageStarted
        /\ g.stopReasonSent = c.stopReasonSent /\ g.nextBlockIndex = n + 1
        /\ g.open = {} /\ g.block = c.block /\ g.sawFunctionCall = c.sawFunctionCall
        /\ g.contentBlockCompleted = TRUE
    <3>1. c \in Converters /\ n + 1 \in Nat
      BY <1>1
    <3>2. /\ g \in Converters /\ g.messageStarted = c.messageStarted
          /\ g.stopReasonSent = c.stopReasonSent /\ g.nextBlockIndex = n + 1
          /\ g.open = c.open /\ g.block = c.block /\ g.sawFunctionCall = c.sawFunctionCall
          /\ g.contentBlockCompleted = TRUE
      BY <2>2, <3>1, FilledConverter, Zenon
    <3> QED
      BY <3>2
  <2>4. /\ Emits(size, w, <<BlockStart(n, "text"), BlockStop(n)>>, x)
        /\ x \in Views /\ x.msg = w.msg /\ x.stop = w.stop /\ Len(x.blocks) = n + 1
        /\ x.blocks[n + 1].kind = "text" /\ x.blocks[n + 1].data = <<>> /\ ~x.blocks[n + 1].open
    BY <1>1, EmitsFiller DEF n
  <2> HIDE DEF x
  <2>5. Len(x.blocks) = 1 /\ x.blocks[1].kind = "text" /\ x.blocks[1].data = <<>> /\ ~x.blocks[1].open
    BY <2>1, <2>4
  <2>6. 1..1 = {1} /\ 0..1 - 1 = {0} /\ 0 + 1 = 1 /\ 1..0 = {}
    OBVIOUS
  <2>7. OpenIn(x) = {}
    BY <2>5, <2>6 DEF OpenIn
  <2>8. /\ \E i \in 1..Len(x.blocks) : ~x.blocks[i].open
        /\ ~\E i \in 1..Len(x.blocks) : x.blocks[i].kind = "tool"
    BY <2>5, <2>6
  <2>9. ~c.sawFunctionCall
    BY <1>1, <2>1, <2>6
  <2>10. Matches(g, x)
    BY <1>1, <2>1, <2>3, <2>4, <2>7, <2>8, <2>9 DEF Matches
  <2>11. x.blocks # <<>>
    <3>1. Len(<<>>) = 0
      OBVIOUS
    <3> QED
      BY <2>5, <3>1
  <2>12. Kept(w, x)
    BY <2>1, <2>5 DEF Kept, n
  <2> QED
    BY <2>2, <2>3, <2>4, <2>10, <2>11, <2>12 DEF g, s
<1> QED
  BY <1>2, <1>3

\* Data that is kept is kept by what keeps it.
LEMMA KeptTransitive ==
    ASSUME NEW u \in Views, NEW v \in Views, NEW w \in Views, Kept(u, v), Kept(v, w)
    PROVE  Kept(u, w)
<1>1. Len(u.blocks) \in Nat /\ Len(v.blocks) \in Nat /\ Len(w.blocks) \in Nat
  BY BlocksOfView
<1>2. 1 \in 1..1
  OBVIOUS
<1> QED
  BY <1>1, <1>2 DEF Kept

\* finalize: the message ends, unless it did, and all data stays.
LEMMA EndMatches ==
    ASSUME NEW size \in Nat, NEW c, NEW w, Matches(c, w), c.messageStarted
    PROVE  LET s == End(c)
           IN  \E x : /\ Emits(size, w, s.events, x) /\ Matches(s.conv, x) /\ ~s.err
                      /\ s.conv.stopReasonSent /\ s.conv.block = c.block /\ Kept(w, x)
<1> DEFINE closed == CloseOpenBlocks(c)
           filled == EnsureContentBlock(closed.conv)
           s == End(c)
           u == AllStopped(w)
<1>1. c \in Converters /\ w \in Views
  BY DEF Matches
<1>2. CASE c.stopReasonSent
  <2>1. c.open = {} /\ w.msg = "stopped"
    BY <1>2 DEF Matches
  <2>2. CloseOpenBlocks(c).conv = c
    <3>1. PICK f \in BOOLEAN : f = (c.contentBlockCompleted \/ c.open # {})
      OBVIOUS
    <3>2. f = c.contentBlockCompleted
      BY <1>1, <2>1, <3>1 DEF Converters
    <3>3. CloseOpenBlocks(c).conv = [c EXCEPT !.open = {}, !.contentBlockCompleted = @ \/ c.open # {}]
      BY DEF CloseOpenBlocks, Out
    <3>4. CloseOpenBlocks(c).conv = [c EXCEPT !.open = {}, !.contentBlockCompleted = f]
      BY <3>1, <3>3, Zenon
    <3> QED
      <4>1. [c EXCEPT !.open = c.open, !.contentBlockCompleted = c.contentBlockCompleted] = c
        BY <1>1 DEF Converters
      <4>2. [c EXCEPT !.open = {}, !.contentBlockCompleted = f]
            = [c EXCEPT !.open = c.open, !.contentBlockCompleted = c.contentBlockCompleted]
        BY <2>1, <3>2, Zenon
      <4> QED
        BY <3>4, <4>1, <4>2
  <2>3. closed.events = <<>> /\ ~closed.err
    <3>1. closed.events = Stops(Reverse(Ascending(c.open))) /\ ~closed.err
      BY DEF CloseOpenBlocks, Out
    <3> DEFINE r == Reverse(Ascending(c.open))
    <3>2. r \in Seq(Nat) /\ c.open = {r[k] : k \in 1..Len(r)}
      <4>1. {} \in SUBSET (0..0) /\ 0 \in Nat
        OBVIOUS
      <4> QED
        BY <2>1, <4>1, DescendingLists
    <3> HIDE DEF r
    <3>3. r = <<>>
      <4>1. Len(r) \in Nat /\ (Len(r) = 0 => r = <<>>)
        BY <3>2, LenProperties, EmptySeq
      <4>2. Len(r) # 0 => 1 \in 1..Len(r)
        BY <4>1
      <4> QED
        BY <2>1, <3>2, <4>1, <4>2
    <3>4. Stops(<<>>) = <<>>
      BY DEF Stops
    <3> QED
      BY <3>1, <3>3, <3>4 DEF r
  <2>4. s = closed
    BY <1>2 DEF End
  <2>5. Emits(size, w, <<>>, w)
    BY <1>1, EmitsNothing
  <2>6. Kept(w, w)
    BY DEF Kept
  <2> HIDE DEF s, closed
  <2>7. s.events = <<>> /\ s.conv = c /\ ~s.err
    BY <2>2, <2>3, <2>4 DEF closed
  <2> QED
    BY <1>2, <2>5, <2>6, <2>7 DEF s
<1>3. CASE ~c.stopReasonSent
  <2>1. /\ Emits(size, w, closed.events, u) /\ Matches(closed.conv, u)
        /\ ~closed.conv.stopReasonSent /\ closed.conv.messageStarted
        /\ closed.conv.open = {} /\ closed.conv.block = c.block
        /\ closed.conv.sawFunctionCall = c.sawFunctionCall
        /\ Kept(w, u)
    BY <1>3, CloseMatches
  <2> DEFINE d == closed.conv
  <2>2. s = Out([filled.conv EXCEPT !.stopReasonSent = TRUE],
                closed.events \o filled.events \o Ending(StopReason(c)))
    BY <1>3 DEF End
  <2> HIDE DEF closed, u, d
  <2>3. PICK x : /\ Emits(size, u, filled.events, x) /\ Matches(filled.conv, x)
                 /\ filled.conv.messageStarted /\ ~filled.conv.stopReasonSent /\ filled.conv.open = {}
                 /\ filled.conv.block = d.block /\ filled.conv.sawFunctionCall = d.sawFunctionCall
                 /\ x.blocks # <<>> /\ Kept(u, x)
    <3>1. Matches(d, u) /\ d.messageStarted /\ ~d.stopReasonSent /\ d.open = {}
      BY <2>1 DEF d
    <3>2. filled = EnsureContentBlock(d)
      BY DEF d
    <3> HIDE DEF filled
    <3> QED
      BY <3>1, <3>2, FillMatches
  <2> DEFINE f == filled.conv
             stop == StopReason(c)
             g == [f EXCEPT !.stopReasonSent = TRUE]
             y == Ended(x, stop)
  <2>4. s.conv = g /\ s.events = closed.events \o filled.events \o Ending(stop) /\ ~s.err
    <3>1. \A a, e : Out(a, e).conv = a /\ Out(a, e).events = e /\ ~Out(a, e).err
      BY DEF Out
    <3> HIDE DEF s, filled
    <3> QED
      BY <2>2, <3>1
  <2> HIDE DEF filled, s
  <2>5. /\ f \in Converters /\ x \in Views /\ x.msg = "started" /\ OpenIn(x) = {}
        /\ f.messageStarted /\ f.open = {} /\ u \in Views
    BY <2>1, <2>3 DEF Matches
  <2>6. stop \in StopReasons
    BY DEF StopReason, StopReasons
  <2> HIDE DEF f, stop
  <2>7. /\ Emits(size, x, Ending(stop), y)
        /\ y \in Views /\ y.msg = "stopped" /\ y.stop = stop /\ y.blocks = x.blocks
    BY <2>3, <2>5, <2>6, EmitsEnding
  <2> HIDE DEF y
  <2>8. /\ g \in Converters /\ g.messageStarted = f.messageStarted /\ g.stopReasonSent = TRUE
        /\ g.nextBlockIndex = f.nextBlockIndex /\ g.open = f.open /\ g.block = f.block
        /\ g.sawFunctionCall = f.sawFunctionCall
        /\ g.contentBlockCompleted = f.contentBlockCompleted
    BY <2>5 DEF Converters
  <2> HIDE DEF g
  <2>9. Matches(g, y)
    <3>1. OpenIn(y) = {}
      BY <2>5, <2>7 DEF OpenIn
    <3>2. stop = StopReason(g)
      BY <2>1, <2>3, <2>8 DEF StopReason, stop, d, f
    <3> QED
      BY <2>3, <2>5, <2>7, <2>8, <3>1, <3>2 DEF Matches, f
  <2>10. Emits(size, w, closed.events \o filled.events \o Ending(stop), y)
    <3>1. Emits(size, w, closed.events \o filled.events, x)
      BY <2>1, <2>3, EmitsThen
    <3> QED
      BY <2>7, <3>1, EmitsThen
  <2>11. Kept(w, y)
    <3>1. Kept(w, x)
      BY <1>1, <2>1, <2>3, <2>5, KeptTransitive
    <3> QED
      BY <2>7, <3>1 DEF Kept
  <2>12. g.block = c.block
    BY <2>1, <2>3, <2>8 DEF d, f
  <2> QED
    BY <2>4, <2>8, <2>9, <2>10, <2>11, <2>12 DEF s
<1> QED
  BY <1>2, <1>3

\* Finalize: the message, if there is one, ends.
LEMMA FinalizeMatches ==
    ASSUME NEW size \in Nat, NEW c, NEW w, Matches(c, w)
    PROVE  LET s == Finalize(c)
           IN  \E x : /\ Emits(size, w, s.events, x) /\ Matches(s.conv, x) /\ ~s.err
                      /\ Kept(w, x)
                      /\ c.messageStarted => s.conv.stopReasonSent
                      /\ ~c.messageStarted => s.conv = c /\ x = w
<1>1. c \in Converters /\ w \in Views
  BY DEF Matches
<1>2. CASE c.messageStarted
  <2>1. Finalize(c) = End(c)
    BY <1>2 DEF Finalize
  <2>2. PICK x : /\ Emits(size, w, End(c).events, x) /\ Matches(End(c).conv, x) /\ ~End(c).err
                 /\ End(c).conv.stopReasonSent /\ Kept(w, x)
    BY <1>2, EndMatches
  <2> QED
    BY <1>2, <2>1, <2>2
<1>3. CASE ~c.messageStarted
  <2>1. Finalize(c).conv = c /\ Finalize(c).events = <<>> /\ ~Finalize(c).err
    BY <1>3 DEF Finalize, Silent, Out
  <2>2. Emits(size, w, <<>>, w)
    BY <1>1, EmitsNothing
  <2>3. Kept(w, w)
    BY DEF Kept
  <2> QED
    BY <1>3, <2>1, <2>2, <2>3
<1> QED
  BY <1>2, <1>3

\* An end is its converter and its events, and no error.
LEMMA EndIsOut ==
    ASSUME NEW c
    PROVE  End(c) = Out(End(c).conv, End(c).events)
<1>1. \A g, e : Out(g, e) = Out(Out(g, e).conv, Out(g, e).events)
  BY DEF Out
<1>2. CASE c.stopReasonSent
  <2>1. End(c) = CloseOpenBlocks(c)
    BY <1>2 DEF End
  <2>2. \E g, e : CloseOpenBlocks(c) = Out(g, e)
    BY Zenon DEF CloseOpenBlocks
  <2>3. PICK g, e : End(c) = Out(g, e)
    BY <2>1, <2>2
  <2> QED
    BY <1>1, <2>3
<1>3. CASE ~c.stopReasonSent
  <2>1. \E g, e : End(c) = Out(g, e)
    BY <1>3, Zenon DEF End
  <2> QED
    BY <1>1, <2>1, Zenon
<1> QED
  BY <1>2, <1>3

\* response.completed: a message, begun if it was not, ends.
LEMMA CompletedMatches ==
    ASSUME NEW size \in Nat, NEW c, NEW w, Matches(c, w), ~c.stopReasonSent
    PROVE  LET s == Completed(c)
           IN  \E x : /\ Emits(size, w, s.events, x) /\ Matches(s.conv, x) /\ ~s.err
                      /\ s.conv.stopReasonSent /\ s.conv.block = c.block /\ Kept(w, x)
<1> DEFINE b == Begun(w)
           t == Started(c)
           e == End(t)
           s == Completed(c)
<1>1. /\ Emits(size, w, MissingStart(c), b) /\ Matches(t, b) /\ b.blocks = w.blocks
      /\ t.messageStarted /\ t.block = c.block /\ w \in Views /\ b \in Views
  <2>1. c \in Converters /\ w \in Views
    BY DEF Matches
  <2>2. t.messageStarted /\ t.block = c.block
    BY <2>1 DEF Started, Converters
  <2> QED
    BY <2>1, <2>2, BeginMatches
<1> HIDE DEF b, t
<1>2. PICK x : /\ Emits(size, b, e.events, x) /\ Matches(e.conv, x) /\ ~e.err
               /\ e.conv.stopReasonSent /\ e.conv.block = t.block /\ Kept(b, x)
  BY <1>1, EndMatches
<1>3. s.events = MissingStart(c) \o e.events /\ s.conv = e.conv /\ ~s.err
  <2>1. s = [e EXCEPT !.events = MissingStart(c) \o @]
    BY DEF Completed, t
  <2>2. e = Out(e.conv, e.events)
    BY EndIsOut
  <2> HIDE DEF e, s
  <2> DEFINE g == e.conv
             q == e.events
  <2>3. e = [conv |-> g, events |-> q, err |-> FALSE]
    BY <2>2 DEF Out
  <2> HIDE DEF g, q
  <2>4. s.events = MissingStart(c) \o q /\ s.conv = g /\ ~s.err
    BY <2>1, <2>3
  <2> QED
    BY <2>4 DEF g, q
<1> HIDE DEF e, s
<1>4. Emits(size, w, MissingStart(c) \o e.events, x)
  BY <1>1, <1>2, EmitsThen
<1>5. Kept(w, x)
  BY <1>1, <1>2 DEF Kept
<1> QED
  BY <1>1, <1>2, <1>3, <1>4, <1>5 DEF s

-----------------------------------------------------------------------------
(* The converter of gemini/stream.go.                                      *)

ToolStates == [index : Int, open : BOOLEAN, previousJSON : Seq(Nat)]
GeminiConverters ==
    [started : BOOLEAN, finished : BOOLEAN, contentBlockCompleted : BOOLEAN,
     nextIndex : Nat, textIndex : Int, previousText : Seq(Nat), textBlockOpen : BOOLEAN,
     toolStates : [Positions -> ToolStates], sawFunctionCall : BOOLEAN]

\* The blocks the converter believes are open.
OpenTools(g) == {g.toolStates[i].index : i \in {j \in Positions : g.toolStates[j].open}}
OpenTexts(g) == IF g.textBlockOpen THEN {g.textIndex} ELSE {}

\* The converter g knows what a client that was sent all its events holds: w.
Tracks(g, w) ==
    /\ g \in GeminiConverters /\ w \in Views
    /\ w.msg = IF ~g.started THEN "none" ELSE IF g.finished THEN "stopped" ELSE "started"
    /\ w.msg = "none" => w = NoMessage
    /\ g.finished => g.started /\ OpenIn(w) = {}
    /\ g.nextIndex = Len(w.blocks)
    /\ OpenIn(w) = OpenTexts(g) \cup OpenTools(g)
    /\ g.contentBlockCompleted <=> \E i \in 1..Len(w.blocks) : ~w.blocks[i].open
    /\ g.textBlockOpen => w.blocks[g.textIndex + 1].kind = "text"
    /\ \A i \in Positions :
          /\ g.toolStates[i].open => w.blocks[g.toolStates[i].index + 1].kind = "tool"
          /\ ~g.finished => (g.toolStates[i].open <=> g.toolStates[i].index # NoBlock)
    /\ \A i, j \in Positions :
          g.toolStates[i].open /\ g.toolStates[j].open
          /\ g.toolStates[i].index = g.toolStates[j].index => i = j

\* In the middle of a message.
Reads(g, w) == Tracks(g, w) /\ g.started /\ ~g.finished

\* A new converter matches a client that holds nothing.
LEMMA NewTracks == Tracks(NewConverter, NoMessage)
<1>1. NoMessage \in Views /\ NoMessage.msg = "none" /\ NoMessage.blocks = <<>>
  BY EmitsMessageStart DEF NoMessage
<1>2. NoTool \in ToolStates /\ NoTool.open = FALSE /\ NoTool.index = NoBlock
  <2>1. <<>> \in Seq(Nat)
    BY EmptySeq
  <2> QED
    BY <2>1 DEF NoTool, ToolStates, NoBlock
<1>3. NewConverter \in GeminiConverters
  <2>1. <<>> \in Seq(Nat) /\ NoBlock \in Int
    BY EmptySeq DEF NoBlock
  <2>2. [i \in Positions |-> NoTool] \in [Positions -> ToolStates]
    BY <1>2
  <2> QED
    BY <2>1, <2>2 DEF NewConverter, GeminiConverters
<1>4. Len(<<>>) = 0 /\ 1..0 = {} /\ 0..0 - 1 = {}
  OBVIOUS
<1>5. OpenIn(NoMessage) = {}
  BY <1>1, <1>4 DEF OpenIn
<1>6. /\ NewConverter.started = FALSE /\ NewConverter.finished = FALSE
      /\ NewConverter.contentBlockCompleted = FALSE /\ NewConverter.nextIndex = 0
      /\ NewConverter.textBlockOpen = FALSE
      /\ \A i \in Positions : NewConverter.toolStates[i] = NoTool
  BY DEF NewConverter
<1>7. OpenTools(NewConverter) = {} /\ OpenTexts(NewConverter) = {}
  BY <1>2, <1>6 DEF OpenTools, OpenTexts
<1> QED
  BY <1>1, <1>2, <1>3, <1>4, <1>5, <1>6, <1>7 DEF Tracks

\* What Tracks says of a converter depends on these of its fields.
LEMMA SameTracks ==
    ASSUME NEW g, NEW w, Tracks(g, w), NEW h \in GeminiConverters,
           h.started = g.started, h.finished = g.finished, h.nextIndex = g.nextIndex,
           h.contentBlockCompleted = g.contentBlockCompleted,
           h.textBlockOpen = g.textBlockOpen, h.textIndex = g.textIndex,
           \A i \in Positions : /\ h.toolStates[i].open = g.toolStates[i].open
                                /\ h.toolStates[i].index = g.toolStates[i].index
    PROVE  Tracks(h, w)
<1>1. OpenTools(h) = OpenTools(g) /\ OpenTexts(h) = OpenTexts(g)
  BY DEF OpenTools, OpenTexts
<1> QED
  BY <1>1 DEF Tracks

\* More data in an open block.
LEMMA DataTracks ==
    ASSUME NEW g, NEW w, Tracks(g, w), NEW i \in OpenIn(w), NEW d \in Seq(Nat)
    PROVE  Tracks(g, WithData(w, i, d))
<1> DEFINE x == WithData(w, i, d)
           n == Len(w.blocks)
<1>1. w \in Views /\ i \in Nat /\ i < n /\ n \in Nat /\ g \in GeminiConverters
  BY BlocksOfView DEF Tracks
<1>2. /\ x \in Views /\ x.msg = w.msg /\ x.stop = w.stop /\ Len(x.blocks) = n
      /\ x.blocks[i + 1].kind = w.blocks[i + 1].kind /\ x.blocks[i + 1].open = w.blocks[i + 1].open
      /\ \A j \in 1..n : j # i + 1 => x.blocks[j] = w.blocks[j]
  BY <1>1, WithDataIs
<1> HIDE DEF x, n
<1>3. \A j \in 1..n : x.blocks[j].kind = w.blocks[j].kind /\ x.blocks[j].open = w.blocks[j].open
  BY <1>2
<1>4. \A j \in 0..n - 1 : x.blocks[j + 1].kind = w.blocks[j + 1].kind
  <2>1. \A j \in 0..n - 1 : j + 1 \in 1..n
    BY <1>1
  <2> QED
    BY <1>3, <2>1
<1>5. OpenIn(x) = OpenIn(w)
  <2>1. \A j \in 0..n - 1 : j + 1 \in 1..n
    BY <1>1
  <2> QED
    BY <1>2, <1>3, <2>1 DEF OpenIn, n
<1>6. w.msg = "started"
  <2>1. ~g.finished /\ w # NoMessage
    <3>1. Len(NoMessage.blocks) = 0
      BY DEF NoMessage
    <3> QED
      BY <1>1, <3>1 DEF Tracks, n
  <2> QED
    BY <1>1, <2>1 DEF Tracks, GeminiConverters
<1>7. g.textBlockOpen => g.textIndex \in OpenIn(w)
  BY DEF Tracks, OpenTexts
<1>8. \A j \in Positions : g.toolStates[j].open => g.toolStates[j].index \in OpenIn(w)
  BY DEF Tracks, OpenTools
<1>9. OpenIn(w) \subseteq 0..n - 1
  BY DEF OpenIn, n
<1>10. g.contentBlockCompleted <=> \E j \in 1..Len(x.blocks) : ~x.blocks[j].open
  <2>1. g.contentBlockCompleted <=> \E j \in 1..n : ~w.blocks[j].open
    BY DEF Tracks, n
  <2> QED
    BY <1>2, <1>3, <2>1
<1>11. g.textBlockOpen => x.blocks[g.textIndex + 1].kind = "text"
  BY <1>4, <1>7, <1>9 DEF Tracks
<1>12. \A j \in Positions : g.toolStates[j].open => x.blocks[g.toolStates[j].index + 1].kind = "tool"
  BY <1>4, <1>8, <1>9 DEF Tracks
<1> HIDE DEF OpenIn
<1>13. Tracks(g, x)
  BY <1>1, <1>2, <1>5, <1>6, <1>10, <1>11, <1>12 DEF Tracks, n
<1> QED
  BY <1>13 DEF x

\* Where the open blocks of a converter in the middle of a message are.
LEMMA OpenTracks ==
    ASSUME NEW g, NEW w, Reads(g, w)
    PROVE  /\ g \in GeminiConverters /\ w \in Views /\ w.msg = "started"
           /\ Len(w.blocks) \in Nat /\ g.nextIndex = Len(w.blocks)
           /\ g.textBlockOpen => g.textIndex \in OpenIn(w) /\ g.textIndex < Len(w.blocks)
                                 /\ g.textIndex \in Nat
           /\ \A i \in Positions :
                 /\ g.toolStates[i].open => /\ g.toolStates[i].index \in OpenIn(w)
                                            /\ g.toolStates[i].index \in Nat
                                            /\ g.toolStates[i].index < Len(w.blocks)
                 /\ ~g.toolStates[i].open => g.toolStates[i].index = NoBlock
                 /\ g.toolStates[i] \in ToolStates
<1>1. g \in GeminiConverters /\ w \in Views /\ w.msg = "started"
  BY DEF Reads, Tracks
<1>2. \A i \in OpenIn(w) : i \in Nat /\ i < Len(w.blocks)
  BY <1>1, BlocksOfView
<1>3. g.textBlockOpen => g.textIndex \in OpenIn(w)
  BY DEF Reads, Tracks, OpenTexts
<1>4. \A i \in Positions : g.toolStates[i].open => g.toolStates[i].index \in OpenIn(w)
  BY DEF Reads, Tracks, OpenTools
<1>5. \A i \in Positions : /\ ~g.toolStates[i].open => g.toolStates[i].index = NoBlock
                           /\ g.toolStates[i] \in ToolStates
  BY <1>1 DEF Reads, Tracks, GeminiConverters
<1>6. Len(w.blocks) \in Nat /\ g.nextIndex = Len(w.blocks)
  BY <1>1, BlocksOfView DEF Reads, Tracks
<1> QED
  BY <1>1, <1>2, <1>3, <1>4, <1>5, <1>6

\* x is w with one more block, of kind k, which is stopped.
ClosedBlock(w, k, x) ==
    /\ x \in Views /\ x.msg = w.msg /\ x.stop = w.stop
    /\ Len(x.blocks) = Len(w.blocks) + 1
    /\ \A j \in 1..Len(w.blocks) : x.blocks[j] = w.blocks[j]
    /\ x.blocks[Len(w.blocks) + 1].kind = k /\ ~x.blocks[Len(w.blocks) + 1].open

\* The open blocks of a client with one more block that is stopped.
LEMMA ClosedBlockOpen ==
    ASSUME NEW w \in Views, NEW k, NEW x, ClosedBlock(w, k, x)
    PROVE  OpenIn(x) = OpenIn(w) /\ \E j \in 1..Len(x.blocks) : ~x.blocks[j].open
<1> DEFINE n == Len(w.blocks)
<1>1. n \in Nat
  BY BlocksOfView
<1>2. /\ Len(x.blocks) = n + 1 /\ ~x.blocks[n + 1].open
      /\ \A j \in 1..n : x.blocks[j] = w.blocks[j]
  BY DEF ClosedBlock
<1> HIDE DEF n
<1>3. \A i \in 0..n - 1 : i + 1 \in 1..n
  BY <1>1
<1>4. \A i \in 0..n - 1 : x.blocks[i + 1] = w.blocks[i + 1]
  BY <1>2, <1>3
<1>5. 0..(n + 1) - 1 = (0..n - 1) \cup {n} /\ n + 1 \in 1..n + 1
  BY <1>1
<1>6. OpenIn(x) = {i \in (0..n - 1) \cup {n} : x.blocks[i + 1].open}
  BY <1>2, <1>5 DEF OpenIn
<1>7. OpenIn(w) = {i \in 0..n - 1 : w.blocks[i + 1].open}
  BY DEF OpenIn, n
<1>8. OpenIn(x) = OpenIn(w)
  BY <1>2, <1>4, <1>6, <1>7, Zenon
<1> QED
  BY <1>2, <1>5, <1>8

\* What the converter knows after a thinking block.
LEMMA BlockMoreConverter ==
    ASSUME NEW g \in GeminiConverters
    PROVE  LET h == [g EXCEPT !.nextIndex = @ + 1, !.contentBlockCompleted = TRUE]
           IN  /\ h \in GeminiConverters /\ h.started = g.started /\ h.finished = g.finished
               /\ h.nextIndex = g.nextIndex + 1 /\ h.contentBlockCompleted = TRUE
               /\ h.textBlockOpen = g.textBlockOpen /\ h.textIndex = g.textIndex
               /\ h.toolStates = g.toolStates /\ h.previousText = g.previousText
               /\ h.sawFunctionCall = g.sawFunctionCall
<1>1. g.nextIndex + 1 \in Nat /\ g.nextIndex \in Int
  BY DEF GeminiConverters
<1>2. PICK n \in Nat : n = g.nextIndex + 1
  BY <1>1
<1>3. PICK m \in Int : m = g.nextIndex
  BY <1>1
<1> DEFINE h == [g EXCEPT !.nextIndex = n, !.contentBlockCompleted = TRUE]
<1>4. h \in GeminiConverters /\ h.started = g.started /\ h.finished = g.finished /\ h.nextIndex = n
  BY DEF GeminiConverters
<1>5. /\ h.contentBlockCompleted = TRUE
      /\ h.textBlockOpen = g.textBlockOpen /\ h.textIndex = g.textIndex
      /\ h.toolStates = g.toolStates /\ h.previousText = g.previousText
      /\ h.sawFunctionCall = g.sawFunctionCall
  BY DEF GeminiConverters
<1>6. [g EXCEPT !.nextIndex = @ + 1, !.contentBlockCompleted = TRUE] = h
  BY <1>2, <1>3, Zenon
<1> HIDE DEF h
<1> QED
  BY <1>2, <1>3, <1>4, <1>5, <1>6, Zenon

\* What the converter knows after it opened the text block.
LEMMA TextBlockConverter ==
    ASSUME NEW g \in GeminiConverters
    PROVE  LET h == [g EXCEPT !.nextIndex = @ + 1, !.textIndex = g.nextIndex, !.textBlockOpen = TRUE]
           IN  /\ h \in GeminiConverters /\ h.started = g.started /\ h.finished = g.finished
               /\ h.nextIndex = g.nextIndex + 1
               /\ h.contentBlockCompleted = g.contentBlockCompleted
               /\ h.textBlockOpen = TRUE /\ h.textIndex = g.nextIndex
               /\ h.toolStates = g.toolStates /\ h.previousText = g.previousText
               /\ h.sawFunctionCall = g.sawFunctionCall
<1>1. g.nextIndex + 1 \in Nat /\ g.nextIndex \in Int
  BY DEF GeminiConverters
<1>2. PICK n \in Nat : n = g.nextIndex + 1
  BY <1>1
<1>3. PICK m \in Int : m = g.nextIndex
  BY <1>1
<1> DEFINE h == [g EXCEPT !.nextIndex = n, !.textIndex = m, !.textBlockOpen = TRUE]
<1>4. h \in GeminiConverters /\ h.started = g.started /\ h.finished = g.finished /\ h.nextIndex = n
  BY DEF GeminiConverters
<1>5. /\ h.contentBlockCompleted = g.contentBlockCompleted
      /\ h.textBlockOpen = TRUE /\ h.textIndex = m
      /\ h.toolStates = g.toolStates /\ h.previousText = g.previousText
      /\ h.sawFunctionCall = g.sawFunctionCall
  BY DEF GeminiConverters
<1>6. [g EXCEPT !.nextIndex = @ + 1, !.textIndex = g.nextIndex, !.textBlockOpen = TRUE] = h
  BY <1>2, <1>3, Zenon
<1> HIDE DEF h
<1> QED
  BY <1>2, <1>3, <1>4, <1>5, <1>6, Zenon

\* A block that is started, filled and stopped at once.
LEMMA ClosedBlockTracks ==
    ASSUME NEW g, NEW w, Reads(g, w), NEW k, NEW x, ClosedBlock(w, k, x)
    PROVE  Reads([g EXCEPT !.nextIndex = @ + 1, !.contentBlockCompleted = TRUE], x)
<1> DEFINE h == [g EXCEPT !.nextIndex = @ + 1, !.contentBlockCompleted = TRUE]
           n == Len(w.blocks)
<1>1. /\ g \in GeminiConverters /\ w \in Views /\ w.msg = "started" /\ n \in Nat /\ g.nextIndex = n
      /\ g.textBlockOpen => g.textIndex \in OpenIn(w)
      /\ \A i \in Positions : g.toolStates[i].open => g.toolStates[i].index \in OpenIn(w)
  BY OpenTracks
<1>2. /\ h \in GeminiConverters /\ h.started = g.started /\ h.finished = g.finished
      /\ h.nextIndex = n + 1 /\ h.contentBlockCompleted = TRUE
      /\ h.textBlockOpen = g.textBlockOpen /\ h.textIndex = g.textIndex
      /\ h.toolStates = g.toolStates
  <2>1. /\ h \in GeminiConverters /\ h.started = g.started /\ h.finished = g.finished
        /\ h.nextIndex = g.nextIndex + 1 /\ h.contentBlockCompleted = TRUE
        /\ h.textBlockOpen = g.textBlockOpen /\ h.textIndex = g.textIndex
        /\ h.toolStates = g.toolStates
    BY <1>1, BlockMoreConverter, Zenon
  <2> QED
    BY <1>1, <2>1, Zenon
<1> HIDE DEF h, n
<1>3. OpenIn(x) = OpenIn(w) /\ \E j \in 1..Len(x.blocks) : ~x.blocks[j].open
  BY <1>1, ClosedBlockOpen
<1>4. /\ x \in Views /\ x.msg = "started" /\ Len(x.blocks) = n + 1
      /\ \A j \in 1..n : x.blocks[j] = w.blocks[j]
  BY <1>1 DEF ClosedBlock, n
<1>5. \A i \in OpenIn(w) : x.blocks[i + 1] = w.blocks[i + 1]
  <2>1. \A i \in OpenIn(w) : i + 1 \in 1..n
    BY <1>1 DEF OpenIn, n
  <2> QED
    BY <1>4, <2>1
<1>6. OpenTools(h) = OpenTools(g) /\ OpenTexts(h) = OpenTexts(g)
  BY <1>2 DEF OpenTools, OpenTexts
<1>7. h.textBlockOpen => x.blocks[h.textIndex + 1].kind = "text"
  BY <1>1, <1>2, <1>5 DEF Reads, Tracks
<1>8. \A i \in Positions : h.toolStates[i].open => x.blocks[h.toolStates[i].index + 1].kind = "tool"
  BY <1>1, <1>2, <1>5 DEF Reads, Tracks
<1>9. h.started /\ ~h.finished
  BY <1>2 DEF Reads
<1>10. \A i \in Positions : h.toolStates[i].open <=> h.toolStates[i].index # NoBlock
  BY <1>2 DEF Reads, Tracks
<1>11. \A i, j \in Positions :
          h.toolStates[i].open /\ h.toolStates[j].open
          /\ h.toolStates[i].index = h.toolStates[j].index => i = j
  BY <1>2 DEF Reads, Tracks
<1>12. OpenIn(x) = OpenTexts(h) \cup OpenTools(h)
  BY <1>3, <1>6 DEF Reads, Tracks
<1>13. Tracks(h, x)
  BY <1>2, <1>3, <1>4, <1>7, <1>8, <1>9, <1>10, <1>11, <1>12 DEF Tracks
<1> QED
  BY <1>9, <1>13 DEF Reads, h

\* The text block is opened.
LEMMA TextBlockTracks ==
    ASSUME NEW g, NEW w, Reads(g, w), ~g.textBlockOpen
    PROVE  Reads([g EXCEPT !.nextIndex = @ + 1, !.textIndex = g.nextIndex, !.textBlockOpen = TRUE],
                 WithBlock(w, "text"))
<1> DEFINE h == [g EXCEPT !.nextIndex = @ + 1, !.textIndex = g.nextIndex, !.textBlockOpen = TRUE]
           n == Len(w.blocks)
           x == WithBlock(w, "text")
<1>1. /\ g \in GeminiConverters /\ w \in Views /\ w.msg = "started" /\ n \in Nat /\ g.nextIndex = n
      /\ \A i \in Positions : g.toolStates[i].open => g.toolStates[i].index \in OpenIn(w)
  BY OpenTracks
<1>2. /\ h \in GeminiConverters /\ h.started = g.started /\ h.finished = g.finished
      /\ h.nextIndex = n + 1 /\ h.contentBlockCompleted = g.contentBlockCompleted
      /\ h.textBlockOpen = TRUE /\ h.textIndex = n
      /\ h.toolStates = g.toolStates
  <2>1. /\ h \in GeminiConverters /\ h.started = g.started /\ h.finished = g.finished
        /\ h.nextIndex = g.nextIndex + 1 /\ h.contentBlockCompleted = g.contentBlockCompleted
        /\ h.textBlockOpen = TRUE /\ h.textIndex = g.nextIndex
        /\ h.toolStates = g.toolStates
    BY <1>1, TextBlockConverter, Zenon
  <2> QED
    BY <1>1, <2>1, Zenon
<1> HIDE DEF h
<1>3. /\ x \in Views /\ x.msg = w.msg /\ Len(x.blocks) = n + 1
      /\ x.blocks[n + 1] = NewBlock("text")
      /\ \A j \in 1..n : x.blocks[j] = w.blocks[j]
  BY <1>1, WithBlockIs DEF Kinds
<1>4. NewBlock("text").open = TRUE /\ NewBlock("text").kind = "text"
  BY DEF NewBlock
<1> HIDE DEF x, n
<1>5. OpenIn(x) = OpenIn(w) \cup {n} /\ \A i \in OpenIn(w) : x.blocks[i + 1] = w.blocks[i + 1]
  BY <1>1, <1>3, <1>4, OpenedBlock DEF n
<1>6. OpenTools(h) = OpenTools(g) /\ OpenTexts(h) = {n} /\ OpenTexts(g) = {}
  BY <1>2 DEF OpenTools, OpenTexts
<1>7. OpenIn(x) = OpenTexts(h) \cup OpenTools(h)
  BY <1>5, <1>6 DEF Reads, Tracks
<1>8. h.textBlockOpen => x.blocks[h.textIndex + 1].kind = "text"
  BY <1>2, <1>3, <1>4
<1>9. \A i \in Positions : h.toolStates[i].open => x.blocks[h.toolStates[i].index + 1].kind = "tool"
  BY <1>1, <1>2, <1>5 DEF Reads, Tracks
<1>10. h.started /\ ~h.finished
  BY <1>2 DEF Reads
<1>11. \A i \in Positions : h.toolStates[i].open <=> h.toolStates[i].index # NoBlock
  BY <1>2 DEF Reads, Tracks
<1>12. \A i, j \in Positions :
          h.toolStates[i].open /\ h.toolStates[j].open
          /\ h.toolStates[i].index = h.toolStates[j].index => i = j
  BY <1>2 DEF Reads, Tracks
<1>13. h.contentBlockCompleted <=> \E j \in 1..Len(x.blocks) : ~x.blocks[j].open
  <2>1. g.contentBlockCompleted <=> \E j \in 1..n : ~w.blocks[j].open
    BY DEF Reads, Tracks, n
  <2>2. \A j \in 1..n + 1 : j \in 1..n \/ j = n + 1
    BY <1>1
  <2>3. \A j \in 1..n : j \in 1..n + 1
    BY <1>1
  <2> QED
    BY <1>2, <1>3, <1>4, <2>1, <2>2, <2>3
<1>14. Tracks(h, x)
  BY <1>1, <1>2, <1>3, <1>7, <1>8, <1>9, <1>10, <1>11, <1>12, <1>13 DEF Tracks
<1> QED
  BY <1>10, <1>14 DEF Reads, h, x

\* The tool state at a position, opened.
LEMMA ToolStateOpened ==
    ASSUME NEW f \in [Positions -> ToolStates], NEW i \in Positions, NEW n \in Int
    PROVE  LET t == [f EXCEPT ![i] = [f[i] EXCEPT !.index = n, !.open = TRUE]]
           IN  /\ t \in [Positions -> ToolStates]
               /\ t[i].index = n /\ t[i].open = TRUE /\ t[i].previousJSON = f[i].previousJSON
               /\ \A j \in Positions : j # i => t[j] = f[j]
<1> DEFINE b == [f[i] EXCEPT !.index = n, !.open = TRUE]
<1>1. f[i] \in ToolStates
  OBVIOUS
<1>2. b \in ToolStates /\ b.index = n /\ b.open = TRUE /\ b.previousJSON = f[i].previousJSON
  BY <1>1 DEF ToolStates
<1> HIDE DEF b
<1> QED
  BY <1>2 DEF b

\* What the converter knows after it opened a tool block.
LEMMA ToolBlockConverter ==
    ASSUME NEW g \in GeminiConverters, NEW i \in Positions, NEW n \in Nat
    PROVE  LET h == [g EXCEPT !.nextIndex = n + 1, !.toolStates[i].index = n,
                              !.toolStates[i].open = TRUE]
           IN  /\ h \in GeminiConverters /\ h.started = g.started /\ h.finished = g.finished
               /\ h.nextIndex = n + 1
               /\ h.contentBlockCompleted = g.contentBlockCompleted
               /\ h.textBlockOpen = g.textBlockOpen /\ h.textIndex = g.textIndex
               /\ h.previousText = g.previousText
               /\ h.sawFunctionCall = g.sawFunctionCall
               /\ h.toolStates[i].index = n /\ h.toolStates[i].open = TRUE
               /\ h.toolStates[i].previousJSON = g.toolStates[i].previousJSON
               /\ \A j \in Positions : j # i => h.toolStates[j] = g.toolStates[j]
<1> DEFINE f == g.toolStates
           t == [f EXCEPT ![i] = [f[i] EXCEPT !.index = n, !.open = TRUE]]
           h == [g EXCEPT !.nextIndex = n + 1, !.toolStates[i].index = n,
                          !.toolStates[i].open = TRUE]
           k == [g EXCEPT !.nextIndex = n + 1, !.toolStates = t]
<1>1. f \in [Positions -> ToolStates] /\ n \in Int
  BY DEF GeminiConverters
<1>2. h = k
  <2>1. f[i] \in ToolStates
    BY <1>1
  <2> QED
    BY <1>1, <2>1 DEF GeminiConverters, ToolStates
<1> HIDE DEF f, h
<1>3. /\ t \in [Positions -> ToolStates]
      /\ t[i].index = n /\ t[i].open = TRUE /\ t[i].previousJSON = f[i].previousJSON
      /\ \A j \in Positions : j # i => t[j] = f[j]
  BY <1>1, ToolStateOpened
<1> HIDE DEF t
<1>4. PICK m \in Nat : m = n + 1
  OBVIOUS
<1> DEFINE l == [g EXCEPT !.nextIndex = m, !.toolStates = t]
<1>5. /\ l \in GeminiConverters /\ l.started = g.started /\ l.finished = g.finished
      /\ l.nextIndex = m /\ l.contentBlockCompleted = g.contentBlockCompleted
  BY <1>3 DEF GeminiConverters
<1>6. /\ l.textBlockOpen = g.textBlockOpen /\ l.textIndex = g.textIndex
      /\ l.previousText = g.previousText /\ l.sawFunctionCall = g.sawFunctionCall
      /\ l.toolStates = t
  BY <1>3 DEF GeminiConverters
<1>7. k = l
  BY <1>4, Zenon
<1> HIDE DEF l, k
<1>8. h = l
  BY <1>2, <1>7
<1>9. l.toolStates[i].index = n /\ l.toolStates[i].open = TRUE
      /\ l.toolStates[i].previousJSON = g.toolStates[i].previousJSON
      /\ \A j \in Positions : j # i => l.toolStates[j] = g.toolStates[j]
  BY <1>3, <1>6, Zenon DEF f
<1> QED
  BY <1>4, <1>5, <1>6, <1>8, <1>9, Zenon DEF h

\* The block of a call is opened.
LEMMA ToolBlockTracks ==
    ASSUME NEW g, NEW w, Reads(g, w), NEW i \in Positions, ~g.toolStates[i].open
    PROVE  Reads([g EXCEPT !.nextIndex = Len(w.blocks) + 1, !.toolStates[i].index = Len(w.blocks),
                           !.toolStates[i].open = TRUE],
                 WithBlock(w, "tool"))
<1> DEFINE n == Len(w.blocks)
           h == [g EXCEPT !.nextIndex = n + 1, !.toolStates[i].index = n,
                          !.toolStates[i].open = TRUE]
           x == WithBlock(w, "tool")
<1>1. /\ g \in GeminiConverters /\ w \in Views /\ w.msg = "started" /\ n \in Nat /\ g.nextIndex = n
      /\ g.textBlockOpen => g.textIndex \in OpenIn(w)
      /\ \A j \in Positions : g.toolStates[j].open => g.toolStates[j].index \in OpenIn(w)
  BY OpenTracks
<1>2. /\ h \in GeminiConverters /\ h.started = g.started /\ h.finished = g.finished
      /\ h.nextIndex = n + 1 /\ h.contentBlockCompleted = g.contentBlockCompleted
      /\ h.textBlockOpen = g.textBlockOpen /\ h.textIndex = g.textIndex
      /\ h.toolStates[i].index = n /\ h.toolStates[i].open = TRUE
      /\ \A j \in Positions : j # i => h.toolStates[j] = g.toolStates[j]
  <2> HIDE DEF n
  <2>1. g \in GeminiConverters /\ n \in Nat
    BY <1>1
  <2>2. /\ h \in GeminiConverters /\ h.started = g.started /\ h.finished = g.finished
        /\ h.nextIndex = n + 1
        /\ h.contentBlockCompleted = g.contentBlockCompleted
        /\ h.textBlockOpen = g.textBlockOpen /\ h.textIndex = g.textIndex
        /\ h.previousText = g.previousText
        /\ h.sawFunctionCall = g.sawFunctionCall
        /\ h.toolStates[i].index = n /\ h.toolStates[i].open = TRUE
        /\ h.toolStates[i].previousJSON = g.toolStates[i].previousJSON
        /\ \A j \in Positions : j # i => h.toolStates[j] = g.toolStates[j]
    BY <2>1, ToolBlockConverter, ZenonT(60)
  <2> HIDE DEF h
  <2> QED
    BY ONLY <2>2
<1> HIDE DEF h
<1>3. /\ x \in Views /\ x.msg = w.msg /\ Len(x.blocks) = n + 1
      /\ x.blocks[n + 1] = NewBlock("tool")
      /\ \A j \in 1..n : x.blocks[j] = w.blocks[j]
  BY <1>1, WithBlockIs DEF Kinds
<1>4. NewBlock("tool").open = TRUE /\ NewBlock("tool").kind = "tool"
  BY DEF NewBlock
<1> HIDE DEF x, n
<1>5. OpenIn(x) = OpenIn(w) \cup {n} /\ \A j \in OpenIn(w) : x.blocks[j + 1] = w.blocks[j + 1]
  BY <1>1, <1>3, <1>4, OpenedBlock DEF n
<1>6. n \notin OpenIn(w)
  <2>1. \A j \in OpenIn(w) : j \in Nat /\ j < n
    BY <1>1, BlocksOfView DEF n
  <2> QED
    BY <1>1, <2>1
<1>7. OpenTools(h) = OpenTools(g) \cup {n} /\ OpenTexts(h) = OpenTexts(g)
  <2>1. \A j \in Positions : h.toolStates[j].open <=> g.toolStates[j].open \/ j = i
    BY <1>2
  <2>2. \A j \in Positions : j # i => h.toolStates[j].index = g.toolStates[j].index
    BY <1>2
  <2>3. OpenTools(h) = OpenTools(g) \cup {n}
    <3>1. ASSUME NEW m \in OpenTools(h)
          PROVE  m \in OpenTools(g) \cup {n}
      <4>1. PICK j \in Positions : h.toolStates[j].open /\ m = h.toolStates[j].index
        BY DEF OpenTools
      <4>2. CASE j = i
        BY <1>2, <4>1, <4>2
      <4>3. CASE j # i
        BY <2>1, <2>2, <4>1, <4>3 DEF OpenTools
      <4> QED
        BY <4>2, <4>3
    <3>2. ASSUME NEW m \in OpenTools(g)
          PROVE  m \in OpenTools(h)
      <4>1. PICK j \in Positions : g.toolStates[j].open /\ m = g.toolStates[j].index
        BY DEF OpenTools
      <4>2. j # i
        BY <4>1
      <4> QED
        BY <2>1, <2>2, <4>1, <4>2 DEF OpenTools
    <3>3. n \in OpenTools(h)
      BY <1>2 DEF OpenTools
    <3> QED
      BY <3>1, <3>2, <3>3, Zenon
  <2> QED
    BY <1>2, <2>3 DEF OpenTexts
<1>8. OpenIn(x) = OpenTexts(h) \cup OpenTools(h)
  BY <1>5, <1>7 DEF Reads, Tracks
<1>9. h.textBlockOpen => x.blocks[h.textIndex + 1].kind = "text"
  BY <1>1, <1>2, <1>5 DEF Reads, Tracks
<1>10. \A j \in Positions : h.toolStates[j].open => x.blocks[h.toolStates[j].index + 1].kind = "tool"
  <2> TAKE j \in Positions
  <2>1. CASE j = i
    BY <1>2, <1>3, <1>4, <2>1
  <2>2. CASE j # i
    BY <1>1, <1>2, <1>5, <2>2 DEF Reads, Tracks
  <2> QED
    BY <2>1, <2>2
<1>11. h.started /\ ~h.finished
  BY <1>2 DEF Reads
<1>12. \A j \in Positions : h.toolStates[j].open <=> h.toolStates[j].index # NoBlock
  <2> TAKE j \in Positions
  <2>1. CASE j = i
    BY <1>1, <1>2, <2>1 DEF NoBlock
  <2>2. CASE j # i
    BY <1>2, <2>2 DEF Reads, Tracks
  <2> QED
    BY <2>1, <2>2
<1>13. \A j, k \in Positions :
          h.toolStates[j].open /\ h.toolStates[k].open
          /\ h.toolStates[j].index = h.toolStates[k].index => j = k
  <2> TAKE j, k \in Positions
  <2>1. \A l \in Positions : l # i /\ h.toolStates[l].open => h.toolStates[l].index # n
    BY <1>1, <1>2, <1>6
  <2>2. CASE j = i \/ k = i
    BY <1>2, <2>1, <2>2
  <2>3. CASE j # i /\ k # i
    BY <1>2, <2>3 DEF Reads, Tracks
  <2> QED
    BY <2>2, <2>3
<1>14. h.contentBlockCompleted <=> \E j \in 1..Len(x.blocks) : ~x.blocks[j].open
  <2>1. g.contentBlockCompleted <=> \E j \in 1..n : ~w.blocks[j].open
    BY DEF Reads, Tracks, n
  <2>2. \A j \in 1..n + 1 : j \in 1..n \/ j = n + 1
    BY <1>1
  <2>3. \A j \in 1..n : j \in 1..n + 1
    BY <1>1
  <2> QED
    BY <1>2, <1>3, <1>4, <2>1, <2>2, <2>3
<1>15. Tracks(h, x)
  BY <1>1, <1>2, <1>3, <1>8, <1>9, <1>10, <1>11, <1>12, <1>13, <1>14 DEF Tracks
<1> QED
  BY <1>11, <1>15 DEF Reads, h, x, n

\* u is w with one more block, of kind k, which is open.
OpenBlock(w, k, u) ==
    /\ u \in Views /\ u.msg = w.msg /\ u.stop = w.stop
    /\ Len(u.blocks) = Len(w.blocks) + 1
    /\ \A j \in 1..Len(w.blocks) : u.blocks[j] = w.blocks[j]
    /\ u.blocks[Len(w.blocks) + 1].kind = k /\ u.blocks[Len(w.blocks) + 1].open

\* The events of a thinking block, whatever is in it.
LEMMA EmitsThinking ==
    ASSUME NEW size \in Nat, NEW w \in Views, w.msg = "started",
           NEW D, NEW S, NEW d \in Seq(Nat), Len(d) <= size, NEW s \in Nat,
           D = <<>> \/ D = <<BlockDelta(Len(w.blocks), "thinking", d)>>,
           S = <<>> \/ (s # 0 /\ S = <<SignatureDelta(Len(w.blocks), s)>>)
    PROVE  \E x : /\ Emits(size, w, <<BlockStart(Len(w.blocks), "thinking")>> \o D \o S
                                    \o <<BlockStop(Len(w.blocks))>>, x)
                  /\ ClosedBlock(w, "thinking", x)
<1> DEFINE n == Len(w.blocks)
           more(u) == OpenBlock(w, "thinking", u)
           u1 == WithBlock(w, "thinking")
           start == <<BlockStart(n, "thinking")>>
           stop == <<BlockStop(n)>>
<1>1. n \in Nat /\ "thinking" \in Kinds
  BY BlocksOfView DEF Kinds
<1>2. Emits(size, w, start, u1) /\ more(u1)
  <2>1. /\ u1 \in Views /\ u1.msg = w.msg /\ u1.stop = w.stop /\ Len(u1.blocks) = n + 1
        /\ u1.blocks[n + 1] = NewBlock("thinking")
        /\ \A j \in 1..n : u1.blocks[j] = w.blocks[j]
    BY <1>1, WithBlockIs
  <2>2. NewBlock("thinking").open = TRUE /\ NewBlock("thinking").kind = "thinking"
    BY DEF NewBlock
  <2>3. Emits(size, w, start, u1)
    BY <1>1, EmitsBlockStart
  <2> HIDE DEF u1
  <2> QED
    BY <2>1, <2>2, <2>3 DEF OpenBlock
<1> HIDE DEF u1, start, stop
<1>3. \A u : more(u) => /\ n \in OpenIn(u) /\ u \in Views /\ u.msg = "started"
                        /\ u.blocks[n + 1].kind = "thinking"
  <2> TAKE u
  <2> HAVE more(u)
  <2>1. /\ u \in Views /\ u.msg = "started" /\ Len(u.blocks) = n + 1
        /\ u.blocks[n + 1].kind = "thinking" /\ u.blocks[n + 1].open
    BY DEF OpenBlock
  <2>2. n \in 0..(n + 1) - 1
    BY <1>1
  <2> QED
    BY <2>1, <2>2 DEF OpenIn
<1>4. ASSUME NEW u, more(u)
      PROVE  \E x : Emits(size, u, D, x) /\ more(x)
  <2>1. CASE D = <<>>
    BY <1>3, <1>4, <2>1, EmitsNothing
  <2>2. CASE D = <<BlockDelta(n, "thinking", d)>>
    <3> DEFINE x == WithData(u, n, d)
    <3>1. u \in Views /\ n \in OpenIn(u) /\ u.msg = "started" /\ u.blocks[n + 1].kind = "thinking"
      BY <1>3, <1>4
    <3>2. Emits(size, u, D, x)
      BY <2>2, <3>1, EmitsBlockDelta
    <3>3. /\ x \in Views /\ x.msg = u.msg /\ x.stop = u.stop /\ Len(x.blocks) = Len(u.blocks)
          /\ x.blocks[n + 1].kind = u.blocks[n + 1].kind /\ x.blocks[n + 1].open = u.blocks[n + 1].open
          /\ \A j \in 1..Len(u.blocks) : j # n + 1 => x.blocks[j] = u.blocks[j]
      BY <3>1, WithDataIs
    <3> HIDE DEF x
    <3>4. more(x)
      <4>1. \A j \in 1..n : j \in 1..n + 1 /\ j # n + 1
        BY <1>1
      <4> QED
        BY <1>4, <3>3, <4>1 DEF OpenBlock
    <3> QED
      BY <3>2, <3>4
  <2> QED
    BY <2>1, <2>2
<1>5. ASSUME NEW u, more(u)
      PROVE  \E x : Emits(size, u, S, x) /\ more(x)
  <2>1. CASE S = <<>>
    BY <1>3, <1>5, <2>1, EmitsNothing
  <2>2. CASE s # 0 /\ S = <<SignatureDelta(n, s)>>
    <3> DEFINE x == WithSignature(u, n, s)
    <3>1. u \in Views /\ n \in OpenIn(u) /\ u.msg = "started" /\ u.blocks[n + 1].kind = "thinking"
      BY <1>3, <1>5
    <3>2. Emits(size, u, S, x)
      BY <2>2, <3>1, EmitsSignatureDelta
    <3>3. /\ x \in Views /\ x.msg = u.msg /\ x.stop = u.stop /\ Len(x.blocks) = Len(u.blocks)
          /\ x.blocks[n + 1].kind = u.blocks[n + 1].kind /\ x.blocks[n + 1].open = u.blocks[n + 1].open
          /\ \A j \in 1..Len(u.blocks) : j # n + 1 => x.blocks[j] = u.blocks[j]
      <4>1. u \in Views /\ n \in OpenIn(u) /\ s \in Nat
        BY <3>1
      <4> QED
        BY <4>1, WithSignatureIs, ZenonT(40)
    <3> HIDE DEF x
    <3>4. more(x)
      <4>1. \A j \in 1..n : j \in 1..n + 1 /\ j # n + 1
        BY <1>1
      <4> QED
        BY <1>5, <3>3, <4>1 DEF OpenBlock
    <3> QED
      BY <3>2, <3>4
  <2> QED
    BY <2>1, <2>2
<1>6. PICK u2 : Emits(size, u1, D, u2) /\ more(u2)
  BY <1>2, <1>4
<1>7. PICK u3 : Emits(size, u2, S, u3) /\ more(u3)
  BY <1>5, <1>6
<1> DEFINE x == WithStopped(u3, n)
<1>8. Emits(size, u3, stop, x) /\ ClosedBlock(w, "thinking", x)
  <2>1. u3 \in Views /\ n \in OpenIn(u3) /\ u3.msg = "started"
    BY <1>3, <1>7
  <2>2. Emits(size, u3, stop, x)
    BY <2>1, EmitsBlockStop DEF stop
  <2>3. /\ x \in Views /\ x.msg = u3.msg /\ x.stop = u3.stop /\ Len(x.blocks) = Len(u3.blocks)
        /\ x.blocks[n + 1].kind = u3.blocks[n + 1].kind /\ x.blocks[n + 1].open = FALSE
        /\ \A j \in 1..Len(u3.blocks) : j # n + 1 => x.blocks[j] = u3.blocks[j]
    BY <2>1, WithStoppedIs
  <2> HIDE DEF x
  <2>4. \A j \in 1..n : j \in 1..n + 1 /\ j # n + 1
    BY <1>1
  <2> QED
    BY <1>7, <2>2, <2>3, <2>4 DEF OpenBlock, ClosedBlock
<1> HIDE DEF x, more
<1>9. Emits(size, w, start \o D, u2)
  BY <1>2, <1>6, EmitsThen
<1>10. Emits(size, w, start \o D \o S, u3)
  BY <1>7, <1>9, EmitsThen
<1>11. Emits(size, w, start \o D \o S \o stop, x)
  BY <1>8, <1>10, EmitsThen
<1> QED
  BY <1>8, <1>11 DEF start, stop

\* computeStreamDelta: never more than what came in; and if that begins with
\* what there was, what is missing.
LEMMA StreamDeltaIs ==
    ASSUME NEW new \in Seq(Nat), NEW old \in Seq(Nat)
    PROVE  LET d == StreamDelta(new, old)
           IN  /\ d \in Seq(Nat) /\ Len(d) <= Len(new)
               /\ IsPrefix(old, new) => old \o d = new
               /\ ~IsPrefix(old, new) => d = new
<1> DEFINE d == StreamDelta(new, old)
           m == Len(old)
           n == Len(new)
           u == SubSeq(new, m + 1, n)
<1>1. m \in Nat /\ n \in Nat /\ \A i \in 1..n : new[i] \in Nat
  BY LenProperties, ElementOfSeq
<1>2. CASE ~IsPrefix(old, new)
  <2>1. d = new
    BY <1>2 DEF StreamDelta
  <2> QED
    BY <1>1, <1>2, <2>1
<1>3. CASE IsPrefix(old, new)
  <2>1. d = u
    BY <1>3 DEF StreamDelta
  <2>2. m <= n /\ \A i \in 1..m : old[i] = new[i]
    BY <1>3, PrefixIs
  <2>3. /\ u \in Seq(Nat) /\ Len(u) = n - m
        /\ \A i \in 1..n - m : u[i] = new[m + i]
    <3>1. \A i \in m + 1..n : new[i] \in Nat
      BY <1>1
    <3>2. m + 1 \in Int /\ n \in Int
      BY <1>1
    <3> DEFINE k == m + 1
    <3>3. /\ u \in Seq(Nat) /\ Len(u) = IF k <= n THEN n - k + 1 ELSE 0
          /\ \A i \in 1..n - k + 1 : u[i] = new[k + i - 1]
      <4> HIDE DEF k, n, m
      <4> QED
        BY <3>1, <3>2, SubSeqProperties DEF k, n
    <3> HIDE DEF u, n, m
    <3>4. n - k + 1 = n - m /\ \A i \in 1..n - m : k + i - 1 = m + i
      BY <1>1
    <3>5. (k <= n) \/ n - m = 0
      BY <1>1, <2>2
    <3> HIDE DEF k
    <3>6. Len(u) = n - m
      BY <3>3, <3>4, <3>5, <1>1, <2>2
    <3> QED
      BY <3>3, <3>4, <3>6
  <2> HIDE DEF u, d
  <2> DEFINE s == old \o u
  <2>4. /\ s \in Seq(Nat) /\ Len(s) = m + (n - m)
        /\ \A i \in 1..m + (n - m) : s[i] = IF i <= m THEN old[i] ELSE u[i - m]
    BY <2>3, ConcatProperties
  <2> HIDE DEF s, n, m
  <2>5. m + (n - m) = n
    BY <1>1
  <2>6. \A i \in 1..n : s[i] = new[i]
    <3> TAKE i \in 1..n
    <3>1. CASE i <= m
      <4>1. i \in 1..m
        BY <1>1, <3>1
      <4> QED
        BY <2>2, <2>4, <2>5, <3>1, <4>1
    <3>2. CASE ~(i <= m)
      <4>1. i - m \in 1..n - m /\ m + (i - m) = i
        BY <1>1, <3>2
      <4> QED
        BY <2>3, <2>4, <2>5, <3>2, <4>1
    <3> QED
      BY <3>1, <3>2
  <2>7. s = new
    BY <2>4, <2>5, <2>6, SeqEqual DEF n
  <2> QED
    BY <1>1, <1>3, <2>1, <2>2, <2>3, <2>7 DEF s, d, n
<1> QED
  BY <1>2, <1>3

\* A part of a chunk.
PartKinds == {"thought", "text", "call"}
IsPart(size, p) ==
    /\ p.kind \in PartKinds
    /\ p.data \in Seq(Nat) /\ Len(p.data) <= size
    /\ p.signature \in Nat

\* What a step that is not about texts, or calls, leaves alone.
SameText(g, h) == /\ h.textBlockOpen = g.textBlockOpen /\ h.textIndex = g.textIndex
                  /\ h.previousText = g.previousText
SameTools(g, h) == h.toolStates = g.toolStates /\ h.sawFunctionCall = g.sawFunctionCall

IsStep(s) == s = Step(s.conv, s.events)

\* The fields of a step.
LEMMA StepOf ==
    ASSUME NEW g, NEW q
    PROVE  /\ Step(g, q).conv = g /\ Step(g, q).events = q /\ ~Step(g, q).err
           /\ IsStep(Step(g, q))
<1> DEFINE t == Step(g, q)
<1>1. t.conv = g /\ t.events = q /\ ~t.err
  BY DEF Step
<1> HIDE DEF t
<1>2. Step(t.conv, t.events) = Step(g, q)
  BY <1>1
<1>3. IsStep(t)
  BY <1>2 DEF IsStep, t
<1> QED
  BY <1>1, <1>3 DEF t

\* The fields of a step, and of one that follows another.
LEMMA StepIs ==
    ASSUME NEW s, NEW g, NEW q
    PROVE  /\ Step(g, q).conv = g /\ Step(g, q).events = q /\ ~Step(g, q).err
           /\ Then(s, g, q).conv = g /\ Then(s, g, q).events = s.events \o q
           /\ IsStep(Step(g, q)) /\ IsStep(Then(s, g, q))
           /\ IsStep(s) => ~s.err
<1>1. \A h, e : Step(h, e).conv = h /\ Step(h, e).events = e /\ ~Step(h, e).err
  BY StepOf
<1>2. \A h, e : IsStep(Step(h, e))
  BY StepOf
<1>4. IsStep(s) => ~s.err
  <2> HAVE IsStep(s)
  <2>1. s = Step(s.conv, s.events)
    BY DEF IsStep
  <2>2. \A h, e : s = Step(h, e) => ~s.err
    BY <1>1
  <2> QED
    BY <2>1, <2>2
<1>5. /\ Then(s, g, q).conv = g /\ Then(s, g, q).events = s.events \o q
      /\ IsStep(Then(s, g, q))
  <2> DEFINE e == s.events \o q
             t == Then(s, g, q)
  <2>1. t = Step(g, e)
    BY DEF Then
  <2> HIDE DEF e, t
  <2>2. Step(g, e).conv = g /\ Step(g, e).events = e /\ IsStep(Step(g, e))
    BY <1>1, <1>2
  <2>3. t.conv = g /\ t.events = e /\ IsStep(t)
    BY <2>1, <2>2
  <2> QED
    BY <2>3 DEF e, t
<1> QED
  BY <1>1, <1>2, <1>4, <1>5

\* A block of its own for a thought, or for the signature of a call.
LEMMA ThinkingReads ==
    ASSUME NEW size \in Nat, NEW v, NEW s, NEW w, Emits(size, v, s.events, w), Reads(s.conv, w),
           NEW D, NEW S, NEW d \in Seq(Nat), Len(d) <= size, NEW n \in Nat,
           D = <<>> \/ D = <<BlockDelta(s.conv.nextIndex, "thinking", d)>>,
           S = <<>> \/ (n # 0 /\ S = <<SignatureDelta(s.conv.nextIndex, n)>>)
    PROVE  LET r == Then(s, [s.conv EXCEPT !.nextIndex = @ + 1, !.contentBlockCompleted = TRUE],
                         <<BlockStart(s.conv.nextIndex, "thinking")>> \o D \o S
                         \o <<BlockStop(s.conv.nextIndex)>>)
           IN  /\ IsStep(r) /\ SameText(s.conv, r.conv) /\ SameTools(s.conv, r.conv)
               /\ \E x : /\ Emits(size, v, r.events, x) /\ Reads(r.conv, x)
                         /\ ClosedBlock(w, "thinking", x)
<1> DEFINE g == s.conv
           q == <<BlockStart(g.nextIndex, "thinking")>> \o D \o S \o <<BlockStop(g.nextIndex)>>
           h == [g EXCEPT !.nextIndex = @ + 1, !.contentBlockCompleted = TRUE]
           r == Then(s, h, q)
<1>1. g \in GeminiConverters /\ w \in Views /\ w.msg = "started" /\ g.nextIndex = Len(w.blocks)
  BY OpenTracks
<1>2. PICK x : Emits(size, w, q, x) /\ ClosedBlock(w, "thinking", x)
  BY <1>1, EmitsThinking
<1>3. SameText(g, h) /\ SameTools(g, h)
  <2> HIDE DEF g
  <2>1. /\ h \in GeminiConverters /\ h.started = g.started /\ h.finished = g.finished
        /\ h.nextIndex = g.nextIndex + 1 /\ h.contentBlockCompleted = TRUE
        /\ h.textBlockOpen = g.textBlockOpen /\ h.textIndex = g.textIndex
        /\ h.toolStates = g.toolStates /\ h.previousText = g.previousText
        /\ h.sawFunctionCall = g.sawFunctionCall
    BY <1>1, BlockMoreConverter, Zenon
  <2> HIDE DEF h
  <2> QED
    BY <2>1 DEF SameText, SameTools
<1>4. Reads(h, x)
  BY <1>2, ClosedBlockTracks
<1> HIDE DEF h, q
<1>5. r.conv = h /\ r.events = s.events \o q /\ IsStep(r)
  BY StepIs
<1> HIDE DEF r
<1>6. Emits(size, v, s.events \o q, x)
  BY <1>2, EmitsThen
<1> QED
  BY <1>2, <1>3, <1>4, <1>5, <1>6 DEF r, h, q, g

\* A thought.
LEMMA ThoughtReads ==
    ASSUME NEW size \in Nat, NEW v, NEW s, NEW w, Emits(size, v, s.events, w), Reads(s.conv, w),
           NEW p, IsPart(size, p)
    PROVE  LET r == Thought(s, p)
           IN  /\ IsStep(r) /\ SameText(s.conv, r.conv) /\ SameTools(s.conv, r.conv)
               /\ \E x : /\ Emits(size, v, r.events, x) /\ Reads(r.conv, x)
                         /\ ClosedBlock(w, "thinking", x)
<1> DEFINE i == s.conv.nextIndex
           D == IF Data(p.data) THEN <<BlockDelta(i, "thinking", p.data)>> ELSE <<>>
           S == IF p.signature > 0 THEN <<SignatureDelta(i, p.signature)>> ELSE <<>>
<1>1. p.data \in Seq(Nat) /\ Len(p.data) <= size /\ p.signature \in Nat
  BY DEF IsPart
<1>3. D = <<>> \/ D = <<BlockDelta(i, "thinking", p.data)>>
  OBVIOUS
<1>4. S = <<>> \/ (p.signature # 0 /\ S = <<SignatureDelta(i, p.signature)>>)
  BY <1>1
<1>2. Thought(s, p) = Then(s, [s.conv EXCEPT !.nextIndex = @ + 1, !.contentBlockCompleted = TRUE],
                           <<BlockStart(i, "thinking")>> \o D \o S \o <<BlockStop(i)>>)
  BY DEF Thought
<1> HIDE DEF D, S
<1> DEFINE t == Then(s, [s.conv EXCEPT !.nextIndex = @ + 1, !.contentBlockCompleted = TRUE],
                     <<BlockStart(i, "thinking")>> \o D \o S \o <<BlockStop(i)>>)
<1>5. /\ IsStep(t) /\ SameText(s.conv, t.conv) /\ SameTools(s.conv, t.conv)
      /\ \E x : /\ Emits(size, v, t.events, x) /\ Reads(t.conv, x)
                /\ ClosedBlock(w, "thinking", x)
  BY <1>1, <1>3, <1>4, ThinkingReads
<1> HIDE DEF t
<1> QED
  BY <1>2, <1>5 DEF t

\* emitSignatureCarrier.
LEMMA CarrierReads ==
    ASSUME NEW size \in Nat, NEW v, NEW s, NEW w, Emits(size, v, s.events, w), Reads(s.conv, w),
           IsStep(s), NEW signature \in Nat
    PROVE  LET r == SignatureCarrier(s, signature)
           IN  /\ IsStep(r) /\ SameText(s.conv, r.conv) /\ SameTools(s.conv, r.conv)
               /\ \E x : /\ Emits(size, v, r.events, x) /\ Reads(r.conv, x)
                         /\ x = w \/ ClosedBlock(w, "thinking", x)
<1>1. CASE signature = 0
  <2>1. SignatureCarrier(s, signature) = s
    BY <1>1 DEF SignatureCarrier
  <2> QED
    BY <2>1 DEF SameText, SameTools
<1>2. CASE signature # 0
  <2> DEFINE i == s.conv.nextIndex
             D == <<>>
             S == <<SignatureDelta(i, signature)>>
             q == <<BlockStart(i, "thinking")>> \o D \o S \o <<BlockStop(i)>>
             t == Then(s, [s.conv EXCEPT !.nextIndex = @ + 1, !.contentBlockCompleted = TRUE], q)
  <2>1. <<>> \in Seq(Nat) /\ Len(<<>>) <= size
    BY EmptySeq
  <2>2. /\ IsStep(t) /\ SameText(s.conv, t.conv) /\ SameTools(s.conv, t.conv)
        /\ \E x : /\ Emits(size, v, t.events, x) /\ Reads(t.conv, x)
                  /\ ClosedBlock(w, "thinking", x)
    BY <1>2, <2>1, ThinkingReads
  <2>3. q = <<BlockStart(i, "thinking"), SignatureDelta(i, signature), BlockStop(i)>>
    BY TripleIs
  <2>4. SignatureCarrier(s, signature) = t
    BY <1>2, <2>3 DEF SignatureCarrier
  <2> HIDE DEF t
  <2> QED
    BY <2>2, <2>4
<1> QED
  BY <1>1, <1>2

\* The text block, opened unless it is.
TextView(g, w) == IF g.textBlockOpen THEN w ELSE WithBlock(w, "text")
TextAt(g, w) == IF g.textBlockOpen THEN g.textIndex ELSE Len(w.blocks)

\* The text block is there, or started.
LEMMA OpenTextReads ==
    ASSUME NEW size \in Nat, NEW v, NEW s, NEW w, Emits(size, v, s.events, w), Reads(s.conv, w),
           IsStep(s)
    PROVE  LET r == OpenText(s)
               x == TextView(s.conv, w)
           IN  /\ IsStep(r) /\ SameTools(s.conv, r.conv)
               /\ r.conv.previousText = s.conv.previousText
               /\ Emits(size, v, r.events, x) /\ Reads(r.conv, x)
               /\ r.conv.textBlockOpen
               /\ r.conv.textIndex = TextAt(s.conv, w)
<1> DEFINE g == s.conv
           n == Len(w.blocks)
           r == OpenText(s)
           x == WithBlock(w, "text")
<1>1. g \in GeminiConverters /\ w \in Views /\ w.msg = "started" /\ g.nextIndex = n
  BY OpenTracks
<1>2. CASE g.textBlockOpen
  <2>1. r = s
    BY <1>2 DEF OpenText
  <2> QED
    BY <1>2, <2>1 DEF SameTools, TextView, TextAt
<1>3. CASE ~g.textBlockOpen
  <2> DEFINE h == [g EXCEPT !.nextIndex = @ + 1, !.textIndex = g.nextIndex, !.textBlockOpen = TRUE]
             q == <<BlockStart(n, "text")>>
  <2>1. r = Then(s, h, q)
    BY <1>1, <1>3 DEF OpenText
  <2>2. Reads(h, x)
    BY <1>3, TextBlockTracks
  <2>3. /\ h.toolStates = g.toolStates /\ h.sawFunctionCall = g.sawFunctionCall
        /\ h.previousText = g.previousText /\ h.textBlockOpen = TRUE /\ h.textIndex = g.nextIndex
    <3> HIDE DEF g
    <3>1. /\ h \in GeminiConverters /\ h.started = g.started /\ h.finished = g.finished
          /\ h.nextIndex = g.nextIndex + 1
          /\ h.contentBlockCompleted = g.contentBlockCompleted
          /\ h.textBlockOpen = TRUE /\ h.textIndex = g.nextIndex
          /\ h.toolStates = g.toolStates /\ h.previousText = g.previousText
          /\ h.sawFunctionCall = g.sawFunctionCall
      BY <1>1, TextBlockConverter, Zenon
    <3> HIDE DEF h
    <3> QED
      BY <3>1
  <2>4. Emits(size, w, q, x)
    BY <1>1, EmitsBlockStart DEF Kinds
  <2> HIDE DEF h, q, x, r
  <2>5. r.conv = h /\ r.events = s.events \o q /\ IsStep(r)
    BY <2>1, StepIs
  <2>6. Emits(size, v, s.events \o q, x)
    BY <2>4, EmitsThen
  <2>7. SameTools(g, r.conv)
    BY <2>3, <2>5 DEF SameTools
  <2> QED
    BY <1>1, <1>3, <2>2, <2>3, <2>5, <2>6, <2>7 DEF r, x, TextView, TextAt
<1> QED
  BY <1>2, <1>3

\* A conversion of data, kept for the next chunk to compare.
LEMMA PreviousText ==
    ASSUME NEW g, NEW w, Reads(g, w), NEW d \in Seq(Nat)
    PROVE  LET h == [g EXCEPT !.previousText = d]
           IN  /\ Reads(h, w) /\ h.previousText = d
               /\ h.textBlockOpen = g.textBlockOpen /\ h.textIndex = g.textIndex
               /\ SameTools(g, h)
<1> DEFINE h == [g EXCEPT !.previousText = d]
<1>1. g \in GeminiConverters /\ Tracks(g, w) /\ g.started /\ ~g.finished
  BY OpenTracks DEF Reads
<1>2. /\ h \in GeminiConverters /\ h.started = g.started /\ h.finished = g.finished
      /\ h.nextIndex = g.nextIndex /\ h.contentBlockCompleted = g.contentBlockCompleted
      /\ h.textBlockOpen = g.textBlockOpen /\ h.textIndex = g.textIndex
  BY <1>1 DEF GeminiConverters
<1>3. h.toolStates = g.toolStates /\ h.sawFunctionCall = g.sawFunctionCall /\ h.previousText = d
  BY <1>1 DEF GeminiConverters
<1> HIDE DEF h
<1>4. Tracks(h, w)
  BY <1>1, <1>2, <1>3, SameTracks
<1>5. Reads(h, w)
  BY <1>1, <1>2, <1>4 DEF Reads
<1> QED
  BY <1>2, <1>3, <1>5 DEF h, SameTools

\* A text.
LEMMA TextPartReads ==
    ASSUME NEW size \in Nat, NEW v, NEW s, NEW w, Emits(size, v, s.events, w), Reads(s.conv, w),
           IsStep(s), NEW p, IsPart(size, p)
    PROVE  LET g == s.conv
               r == TextPart(s, p)
               u == TextView(g, w)
               i == TextAt(g, w)
               d == StreamDelta(p.data, g.previousText)
               x == IF d = <<>> THEN u ELSE WithData(u, i, d)
           IN  /\ IsStep(r) /\ SameTools(g, r.conv)
               /\ r.conv.previousText = p.data
               /\ r.conv.textBlockOpen /\ r.conv.textIndex = i
               /\ Emits(size, v, r.events, x) /\ Reads(r.conv, x)
<1> DEFINE g == s.conv
           o == OpenText(s)
           h == o.conv
           r == TextPart(s, p)
           u == TextView(g, w)
           i == TextAt(g, w)
           d == StreamDelta(p.data, g.previousText)
           x == IF d = <<>> THEN u ELSE WithData(u, i, d)
           k == [h EXCEPT !.previousText = p.data]
           q == IF d # <<>> THEN <<BlockDelta(i, "text", d)>> ELSE <<>>
<1>1. /\ IsStep(o) /\ SameTools(g, h)
      /\ h.previousText = g.previousText
      /\ Emits(size, v, o.events, u) /\ Reads(h, u)
      /\ h.textBlockOpen
      /\ h.textIndex = i
  BY OpenTextReads
<1>2. g \in GeminiConverters
  BY OpenTracks
<1>3. d \in Seq(Nat) /\ Len(d) <= size /\ p.data \in Seq(Nat)
  <2>1. /\ p.data \in Seq(Nat) /\ Len(p.data) <= size /\ g.previousText \in Seq(Nat)
        /\ Len(p.data) \in Nat
    BY <1>2, LenProperties DEF IsPart, GeminiConverters
  <2>2. d \in Seq(Nat) /\ Len(d) <= Len(p.data)
    BY <2>1, StreamDeltaIs
  <2>3. Len(d) \in Nat
    BY <2>2, LenProperties
  <2> QED
    BY <2>1, <2>2, <2>3
<1>4. r = Then(o, k, q)
  BY <1>1 DEF TextPart, Data
<1> HIDE DEF o, h, u, i, d, r
<1>5. /\ Reads(k, u) /\ k.previousText = p.data
      /\ k.textBlockOpen = h.textBlockOpen /\ k.textIndex = h.textIndex
      /\ SameTools(h, k)
  BY <1>1, <1>3, PreviousText
<1> HIDE DEF k
<1>6. Emits(size, u, q, x) /\ Reads(k, x)
  <2>1. /\ u \in Views /\ u.msg = "started" /\ i \in OpenIn(u) /\ u.blocks[i + 1].kind = "text"
    <3>1. u \in Views /\ u.msg = "started" /\ i \in OpenIn(u)
      BY <1>1, OpenTracks DEF h
    <3>2. u.blocks[i + 1].kind = "text"
      BY <1>1 DEF Reads, Tracks, h
    <3> QED
      BY <3>1, <3>2
  <2>2. CASE d = <<>>
    BY <1>5, <2>1, <2>2, EmitsNothing
  <2>3. CASE d # <<>>
    <3>1. Emits(size, u, <<BlockDelta(i, "text", d)>>, WithData(u, i, d))
      BY <1>3, <2>1, EmitsBlockDelta
    <3>2. Tracks(k, WithData(u, i, d))
      BY <1>3, <1>5, <2>1, DataTracks DEF Reads
    <3> QED
      BY <1>5, <2>3, <3>1, <3>2 DEF Reads
  <2> QED
    BY <2>2, <2>3
<1> HIDE DEF q, x
<1>7. Emits(size, v, o.events \o q, x)
  BY <1>1, <1>6, EmitsThen
<1>8. r.conv = k /\ r.events = o.events \o q /\ IsStep(r)
  BY <1>4, StepIs
<1>9. SameTools(g, k) /\ k.textBlockOpen /\ k.textIndex = i
  BY <1>1, <1>5 DEF SameTools, h
<1> QED
  BY <1>5, <1>6, <1>7, <1>8, <1>9 DEF r, x, u, i, d

\* The block of the call at position i, opened unless it is.
ToolView(g, i, w) == IF g.toolStates[i].open THEN w ELSE WithBlock(w, "tool")
ToolAt(g, i, w) == IF g.toolStates[i].open THEN g.toolStates[i].index ELSE Len(w.blocks)

\* The tool block at a position is there, or started.
LEMMA OpenToolReads ==
    ASSUME NEW size \in Nat, NEW v, NEW s, NEW w, Emits(size, v, s.events, w), Reads(s.conv, w),
           IsStep(s), NEW i \in Positions
    PROVE  LET r == OpenTool(s, i)
               x == ToolView(s.conv, i, w)
           IN  /\ IsStep(r) /\ SameText(s.conv, r.conv)
               /\ r.conv.sawFunctionCall = s.conv.sawFunctionCall
               /\ r.conv.toolStates[i].previousJSON = s.conv.toolStates[i].previousJSON
               /\ r.conv.toolStates[i].open
               /\ r.conv.toolStates[i].index = ToolAt(s.conv, i, w)
               /\ \A j \in Positions : j # i => r.conv.toolStates[j] = s.conv.toolStates[j]
               /\ Emits(size, v, r.events, x) /\ Reads(r.conv, x)
<1> DEFINE g == s.conv
           n == Len(w.blocks)
           r == OpenTool(s, i)
           x == WithBlock(w, "tool")
<1>1. /\ g \in GeminiConverters /\ w \in Views /\ w.msg = "started" /\ g.nextIndex = n /\ n \in Nat
      /\ ~g.toolStates[i].open => g.toolStates[i].index = NoBlock
  BY OpenTracks
<1>2. CASE g.toolStates[i].open
  <2>1. r = s
    BY <1>2 DEF OpenTool
  <2> QED
    BY <1>2, <2>1 DEF SameText, ToolView, ToolAt
<1>3. CASE ~g.toolStates[i].open
  <2> DEFINE h == [g EXCEPT !.nextIndex = n + 1, !.toolStates[i].index = n,
                            !.toolStates[i].open = TRUE]
             q == <<BlockStart(n, "tool")>>
  <2>1. r = Then(s, h, q)
    <3>1. g.toolStates[i].index = NoBlock
      BY <1>1, <1>3
    <3>2. PICK index : index = (IF g.toolStates[i].index = NoBlock THEN g.nextIndex
                                ELSE g.toolStates[i].index)
      OBVIOUS
    <3>3. PICK m : m = (IF index = g.nextIndex THEN g.nextIndex + 1 ELSE g.nextIndex)
      OBVIOUS
    <3>4. index = n /\ m = n + 1
      BY <1>1, <3>1, <3>2, <3>3
    <3>5. r = Then(s, [g EXCEPT !.nextIndex = m, !.toolStates[i].index = index,
                                !.toolStates[i].open = TRUE], <<BlockStart(index, "tool")>>)
      BY <1>3, <3>2, <3>3, Zenon DEF OpenTool
    <3> QED
      BY <3>4, <3>5, Zenon
  <2>2. Reads(h, x)
    BY <1>3, ToolBlockTracks
  <2>3. /\ h \in GeminiConverters /\ h.started = g.started /\ h.finished = g.finished
        /\ h.nextIndex = n + 1
        /\ h.contentBlockCompleted = g.contentBlockCompleted
        /\ h.textBlockOpen = g.textBlockOpen /\ h.textIndex = g.textIndex
        /\ h.previousText = g.previousText
        /\ h.sawFunctionCall = g.sawFunctionCall
        /\ h.toolStates[i].index = n /\ h.toolStates[i].open = TRUE
        /\ h.toolStates[i].previousJSON = g.toolStates[i].previousJSON
        /\ \A j \in Positions : j # i => h.toolStates[j] = g.toolStates[j]
    <3>1. g \in GeminiConverters /\ n \in Nat
      BY <1>1
    <3> HIDE DEF g, n
    <3> QED
      BY <3>1, ToolBlockConverter, ZenonT(60)
  <2>4. Emits(size, w, q, x)
    BY <1>1, EmitsBlockStart DEF Kinds
  <2> HIDE DEF h, q, x, r
  <2>5. r.conv = h /\ r.events = s.events \o q /\ IsStep(r)
    BY <2>1, StepIs
  <2>6. Emits(size, v, s.events \o q, x)
    BY <2>4, EmitsThen
  <2>7. SameText(g, r.conv)
    BY <2>3, <2>5 DEF SameText
  <2>8. ToolView(g, i, w) = x /\ ToolAt(g, i, w) = n
    BY <1>3 DEF ToolView, ToolAt, x
  <2> HIDE DEF g, n
  <2>9. /\ r.conv.sawFunctionCall = g.sawFunctionCall
        /\ r.conv.toolStates[i].previousJSON = g.toolStates[i].previousJSON
        /\ r.conv.toolStates[i].open
        /\ r.conv.toolStates[i].index = n
        /\ \A j \in Positions : j # i => r.conv.toolStates[j] = g.toolStates[j]
    BY <2>3, <2>5
  <2>10. Emits(size, v, r.events, x) /\ Reads(r.conv, x)
    BY <2>2, <2>5, <2>6
  <2> QED
    BY <2>5, <2>7, <2>8, <2>9, <2>10 DEF g, r
<1> QED
  BY <1>2, <1>3

\* Remembering the last arguments of a call changes nothing else.
LEMMA PreviousJSON ==
    ASSUME NEW g, NEW w, Reads(g, w), NEW i \in Positions, NEW d \in Seq(Nat)
    PROVE  LET h == [g EXCEPT !.toolStates[i].previousJSON = d]
           IN  /\ Reads(h, w) /\ SameText(g, h) /\ h.sawFunctionCall = g.sawFunctionCall
               /\ h.toolStates[i].previousJSON = d
               /\ h.toolStates[i].open = g.toolStates[i].open
               /\ h.toolStates[i].index = g.toolStates[i].index
               /\ \A j \in Positions : j # i => h.toolStates[j] = g.toolStates[j]
<1> DEFINE f == g.toolStates
           b == [f[i] EXCEPT !.previousJSON = d]
           t == [f EXCEPT ![i] = b]
           h == [g EXCEPT !.toolStates[i].previousJSON = d]
           k == [g EXCEPT !.toolStates = t]
<1>1. g \in GeminiConverters /\ Tracks(g, w) /\ g.started /\ ~g.finished
  BY OpenTracks DEF Reads
<1>2. f \in [Positions -> ToolStates] /\ f[i] \in ToolStates
  BY <1>1 DEF GeminiConverters
<1>3. h = k
  BY <1>1, <1>2 DEF GeminiConverters, ToolStates
<1> HIDE DEF f, h
<1>4. b \in ToolStates /\ b.open = f[i].open /\ b.index = f[i].index /\ b.previousJSON = d
  BY <1>2 DEF ToolStates
<1> HIDE DEF b
<1>5. t \in [Positions -> ToolStates] /\ t[i] = b /\ \A j \in Positions : j # i => t[j] = f[j]
  BY <1>2, <1>4
<1> HIDE DEF t
<1>6. /\ k \in GeminiConverters /\ k.started = g.started /\ k.finished = g.finished
      /\ k.nextIndex = g.nextIndex /\ k.contentBlockCompleted = g.contentBlockCompleted
      /\ k.textBlockOpen = g.textBlockOpen /\ k.textIndex = g.textIndex
  BY <1>1, <1>5 DEF GeminiConverters
<1>7. /\ k.toolStates = t /\ k.sawFunctionCall = g.sawFunctionCall
      /\ k.previousText = g.previousText
  BY <1>1, <1>5 DEF GeminiConverters
<1> HIDE DEF k
<1>8. \A j \in Positions : /\ k.toolStates[j].open = g.toolStates[j].open
                           /\ k.toolStates[j].index = g.toolStates[j].index
  BY <1>4, <1>5, <1>7 DEF f
<1>9. Tracks(k, w)
  BY <1>1, <1>6, <1>8, SameTracks
<1>10. Reads(k, w) /\ SameText(g, k)
  BY <1>1, <1>6, <1>7, <1>9 DEF Reads, SameText
<1>11. /\ k.toolStates[i].previousJSON = d
       /\ k.toolStates[i].open = g.toolStates[i].open
       /\ k.toolStates[i].index = g.toolStates[i].index
       /\ \A j \in Positions : j # i => k.toolStates[j] = g.toolStates[j]
  BY <1>4, <1>5, <1>7 DEF f
<1> QED
  BY <1>3, <1>7, <1>10, <1>11 DEF h

\* The mark that a message has calls.
LEMMA SawFunctionCall ==
    ASSUME NEW s, NEW w, IsStep(s), Reads(s.conv, w)
    PROVE  LET r == [s EXCEPT !.conv.sawFunctionCall = TRUE]
           IN  /\ IsStep(r) /\ r.events = s.events /\ Reads(r.conv, w)
               /\ SameText(s.conv, r.conv)
               /\ r.conv.toolStates = s.conv.toolStates /\ r.conv.sawFunctionCall = TRUE
<1> DEFINE g == s.conv
           q == s.events
           h == [g EXCEPT !.sawFunctionCall = TRUE]
           r == [s EXCEPT !.conv.sawFunctionCall = TRUE]
<1>1. g \in GeminiConverters /\ Tracks(g, w) /\ g.started /\ ~g.finished
  BY OpenTracks DEF Reads
<1>2. r = Step(h, q)
  <2>1. s = Step(g, q)
    BY DEF IsStep
  <2>2. r = [s EXCEPT !.conv = h]
    BY <2>1 DEF Step
  <2> HIDE DEF h, r, g, q
  <2> QED
    BY <2>1, <2>2 DEF Step
<1> HIDE DEF g, q, r, h
<1>3. r.conv = h /\ r.events = q /\ IsStep(r)
  <2>1. Step(h, q).conv = h /\ Step(h, q).events = q /\ IsStep(Step(h, q))
    BY StepOf
  <2> QED
    BY <1>2, <2>1
<1>4. /\ h \in GeminiConverters /\ h.started = g.started /\ h.finished = g.finished
      /\ h.nextIndex = g.nextIndex /\ h.contentBlockCompleted = g.contentBlockCompleted
      /\ h.textBlockOpen = g.textBlockOpen /\ h.textIndex = g.textIndex
  BY <1>1 DEF GeminiConverters, h
<1>5. /\ h.toolStates = g.toolStates /\ h.sawFunctionCall = TRUE
      /\ h.previousText = g.previousText
  BY <1>1 DEF GeminiConverters, h
<1>6. Tracks(h, w)
  BY <1>1, <1>4, <1>5, SameTracks
<1>7. Reads(h, w) /\ SameText(g, h)
  BY <1>1, <1>4, <1>5, <1>6 DEF Reads, SameText
<1> QED
  BY <1>3, <1>5, <1>7 DEF g, q, r

\* What a call leaves alone: text, and the calls at other positions.
CallAt(g, i, h) ==
    /\ SameText(g, h) /\ h.sawFunctionCall = TRUE
    /\ \A j \in Positions : j # i => h.toolStates[j] = g.toolStates[j]

\* A call: a block for its signature, if it has one, then its own.
LEMMA CallPartReads ==
    ASSUME NEW size \in Nat, NEW v, NEW s, NEW w, Emits(size, v, s.events, w), Reads(s.conv, w),
           IsStep(s), NEW i \in Positions, NEW p, IsPart(size, p)
    PROVE  LET g == s.conv
               r == CallPart(s, i, p)
               d == StreamDelta(p.data, g.toolStates[i].previousJSON)
           IN  /\ IsStep(r) /\ CallAt(g, i, r.conv)
               /\ r.conv.toolStates[i].previousJSON = p.data /\ r.conv.toolStates[i].open
               /\ \E t : /\ t = w \/ ClosedBlock(w, "thinking", t)
                         /\ t \in Views
                         /\ LET u == ToolView(g, i, t)
                                x == IF d = <<>> THEN u ELSE WithData(u, ToolAt(g, i, t), d)
                            IN  /\ Emits(size, v, r.events, x) /\ Reads(r.conv, x)
                                /\ u \in Views
                                /\ r.conv.toolStates[i].index = ToolAt(g, i, t)
                                /\ ToolAt(g, i, t) \in OpenIn(u)
<1> DEFINE g == s.conv
           carried == SignatureCarrier(s, p.signature)
           c == [carried EXCEPT !.conv.sawFunctionCall = TRUE]
           o == OpenTool(c, i)
           h == o.conv
           r == CallPart(s, i, p)
           d == StreamDelta(p.data, g.toolStates[i].previousJSON)
           k == [h EXCEPT !.toolStates[i].previousJSON = p.data]
<1>1. /\ IsStep(carried) /\ SameText(g, carried.conv) /\ SameTools(g, carried.conv)
      /\ \E x : /\ Emits(size, v, carried.events, x) /\ Reads(carried.conv, x)
                /\ x = w \/ ClosedBlock(w, "thinking", x)
  BY CarrierReads DEF IsPart
<1>2. PICK t : /\ Emits(size, v, carried.events, t) /\ Reads(carried.conv, t)
               /\ t = w \/ ClosedBlock(w, "thinking", t)
  BY <1>1
<1> DEFINE u == ToolView(g, i, t)
           n == ToolAt(g, i, t)
           x == IF d = <<>> THEN u ELSE WithData(u, n, d)
           q == IF d # <<>> THEN <<BlockDelta(n, "tool", d)>> ELSE <<>>
<1>3. /\ IsStep(c) /\ c.events = carried.events /\ Reads(c.conv, t)
      /\ SameText(carried.conv, c.conv)
      /\ c.conv.toolStates = carried.conv.toolStates /\ c.conv.sawFunctionCall = TRUE
  BY <1>1, <1>2, SawFunctionCall
<1>4. r = Then(o, [h EXCEPT !.toolStates[i].previousJSON = p.data],
               IF Data(StreamDelta(p.data, h.toolStates[i].previousJSON))
               THEN <<BlockDelta(h.toolStates[i].index, "tool",
                                 StreamDelta(p.data, h.toolStates[i].previousJSON))>>
               ELSE <<>>)
  BY DEF CallPart
<1> HIDE DEF carried, c, r
<1>5. /\ IsStep(o) /\ SameText(c.conv, h)
      /\ h.sawFunctionCall = c.conv.sawFunctionCall
      /\ h.toolStates[i].previousJSON = c.conv.toolStates[i].previousJSON
      /\ h.toolStates[i].open
      /\ h.toolStates[i].index = ToolAt(c.conv, i, t)
      /\ \A j \in Positions : j # i => h.toolStates[j] = c.conv.toolStates[j]
      /\ Emits(size, v, o.events, ToolView(c.conv, i, t)) /\ Reads(h, ToolView(c.conv, i, t))
  <2>1. Emits(size, v, c.events, t)
    BY <1>2, <1>3
  <2> QED
    BY <1>3, <2>1, OpenToolReads
<1>6. c.conv.toolStates = g.toolStates /\ SameText(g, h)
  BY <1>1, <1>3, <1>5 DEF SameTools, SameText
<1>7. ToolAt(c.conv, i, t) = n /\ ToolView(c.conv, i, t) = u
  BY <1>6 DEF ToolAt, ToolView
<1> HIDE DEF o, h, u, n
<1>8. /\ h.sawFunctionCall = TRUE /\ h.toolStates[i].open /\ h.toolStates[i].index = n
      /\ \A j \in Positions : j # i => h.toolStates[j] = g.toolStates[j]
      /\ h.toolStates[i].previousJSON = g.toolStates[i].previousJSON
      /\ Emits(size, v, o.events, u) /\ Reads(h, u)
  BY <1>3, <1>5, <1>6, <1>7
<1>9. /\ u \in Views /\ u.msg = "started" /\ n \in OpenIn(u) /\ t \in Views
      /\ u.blocks[n + 1].kind = "tool"
  <2>1. /\ u \in Views /\ u.msg = "started" /\ n \in OpenIn(u)
    BY <1>8, OpenTracks
  <2>2. t \in Views
    BY <1>2, OpenTracks
  <2>3. u.blocks[n + 1].kind = "tool"
    BY <1>8 DEF Reads, Tracks
  <2> QED
    BY <2>1, <2>2, <2>3
<1>10. d \in Seq(Nat) /\ Len(d) <= size /\ p.data \in Seq(Nat)
  <2>1. p.data \in Seq(Nat) /\ Len(p.data) <= size /\ Len(p.data) \in Nat
    BY LenProperties DEF IsPart
  <2>2. g.toolStates[i].previousJSON \in Seq(Nat)
    <3>1. g.toolStates[i] \in ToolStates
      BY OpenTracks
    <3> QED
      BY <3>1 DEF ToolStates
  <2>3. d \in Seq(Nat) /\ Len(d) <= Len(p.data)
    BY <2>1, <2>2, StreamDeltaIs
  <2>4. Len(d) \in Nat
    BY <2>3, LenProperties
  <2> QED
    BY <2>1, <2>3, <2>4
<1>11. r = Then(o, k, q)
  BY <1>4, <1>8 DEF Data
<1> HIDE DEF d, k, q
<1>12. /\ Reads(k, u) /\ SameText(h, k) /\ k.sawFunctionCall = h.sawFunctionCall
       /\ k.toolStates[i].previousJSON = p.data
       /\ k.toolStates[i].open = h.toolStates[i].open
       /\ k.toolStates[i].index = h.toolStates[i].index
       /\ \A j \in Positions : j # i => k.toolStates[j] = h.toolStates[j]
  <2>1. Reads(h, u) /\ p.data \in Seq(Nat)
    BY <1>8, <1>10
  <2> QED
    BY <2>1, PreviousJSON, ZenonT(60) DEF k
<1>13. Emits(size, u, q, x) /\ Reads(k, x)
  <2>1. CASE d = <<>>
    BY <1>9, <1>12, <2>1, EmitsNothing DEF q
  <2>2. CASE d # <<>>
    <3>1. Emits(size, u, <<BlockDelta(n, "tool", d)>>, WithData(u, n, d))
      BY <1>9, <1>10, EmitsBlockDelta
    <3>2. Tracks(k, WithData(u, n, d))
      BY <1>9, <1>10, <1>12, DataTracks DEF Reads
    <3> QED
      BY <1>12, <2>2, <3>1, <3>2 DEF Reads, q
  <2> QED
    BY <2>1, <2>2
<1> HIDE DEF x
<1>14. Emits(size, v, o.events \o q, x)
  BY <1>8, <1>13, EmitsThen
<1>15. r.conv = k /\ r.events = o.events \o q /\ IsStep(r)
  BY <1>11, StepIs
<1>16. CallAt(g, i, k)
  BY <1>6, <1>8, <1>12 DEF CallAt, SameText
<1>17. k.toolStates[i].open /\ k.toolStates[i].index = n
  BY <1>8, <1>12
<1> QED
  BY <1>2, <1>9, <1>12, <1>13, <1>14, <1>15, <1>16, <1>17 DEF r, x, u, n, d, g

\* A part of a chunk, of whatever kind.
LEMMA PartReads ==
    ASSUME NEW size \in Nat, NEW v, NEW s, NEW w, Emits(size, v, s.events, w), Reads(s.conv, w),
           IsStep(s), NEW i \in Positions, NEW p, IsPart(size, p)
    PROVE  LET r == Part(s, i, p)
           IN  IsStep(r) /\ \E x : Emits(size, v, r.events, x) /\ Reads(r.conv, x)
<1> DEFINE r == Part(s, i, p)
<1>1. CASE p.kind = "thought"
  <2>1. r = Thought(s, p)
    BY <1>1 DEF Part
  <2> HIDE DEF r
  <2>2. /\ IsStep(Thought(s, p))
        /\ \E x : Emits(size, v, Thought(s, p).events, x) /\ Reads(Thought(s, p).conv, x)
    BY ThoughtReads
  <2> QED
    BY <2>1, <2>2 DEF r
<1>2. CASE p.kind = "text"
  <2>1. CASE p.data # <<>>
    <3>1. r = TextPart(s, p)
      BY <1>2, <2>1 DEF Part, Data
    <3> HIDE DEF r
    <3> DEFINE g == s.conv
               u == TextView(g, w)
               d == StreamDelta(p.data, g.previousText)
               x == IF d = <<>> THEN u ELSE WithData(u, TextAt(g, w), d)
               t == TextPart(s, p)
    <3>2. IsStep(t) /\ Emits(size, v, t.events, x) /\ Reads(t.conv, x)
      BY TextPartReads
    <3> HIDE DEF x, t
    <3> QED
      BY <3>1, <3>2 DEF r, t
  <2>2. CASE p.data = <<>>
    <3>1. r = s
      BY <1>2, <2>2 DEF Part, Data
    <3> QED
      BY <3>1
  <2> QED
    BY <2>1, <2>2
<1>3. CASE p.kind = "call"
  <2>1. r = CallPart(s, i, p)
    BY <1>3 DEF Part
  <2> HIDE DEF r
  <2> DEFINE g == s.conv
             c == CallPart(s, i, p)
             d == StreamDelta(p.data, g.toolStates[i].previousJSON)
  <2>2. /\ IsStep(c)
        /\ \E t : LET u == ToolView(g, i, t)
                      x == IF d = <<>> THEN u ELSE WithData(u, ToolAt(g, i, t), d)
                  IN  Emits(size, v, c.events, x) /\ Reads(c.conv, x)
    BY CallPartReads
  <2> HIDE DEF c, d
  <2>3. \E x : Emits(size, v, c.events, x) /\ Reads(c.conv, x)
    BY <2>2, Zenon
  <2> QED
    BY <2>1, <2>2, <2>3 DEF r, c
<1> QED
  BY <1>1, <1>2, <1>3 DEF IsPart, PartKinds

\* f reads the parts one by one, from begun on.
ReadsParts(f, begun, parts) ==
    f = [n \in 0..Len(parts) |-> IF n = 0 THEN begun ELSE Part(f[n - 1], n, parts[n])]

\* The recursive definition of the loop over the parts has a solution.
LEMMA PartsAreRead ==
    ASSUME NEW begun, NEW parts, Len(parts) \in Nat
    PROVE  ReadsParts(CHOOSE f : ReadsParts(f, begun, parts), begun, parts)
<1> DEFINE n == Len(parts)
           Q(s, i) == Part(s, i, parts[i])
           Read(f, m) == f[0] = begun /\ \A i \in 1..m : f[i] = Q(f[i - 1], i)
           unsolved == {m \in Nat : m <= n /\ ~\E f : Read(f, m)}
<1> HIDE DEF n, Q
<1>1. n \in Nat
  BY DEF n
<1>2. unsolved = {}
  <2> SUFFICES ASSUME unsolved # {} PROVE FALSE
    OBVIOUS
  <2>1. PICK m \in unsolved : \A k \in unsolved : m <= k
    BY Least
  <2>2. CASE m = 0
    <3>1. Read([i \in 0..0 |-> begun], 0)
      OBVIOUS
    <3> QED
      BY <2>1, <2>2, <3>1
  <2>3. CASE m # 0
    <3>1. m - 1 \in Nat /\ m - 1 <= n /\ m - 1 \notin unsolved
      <4>1. m \in Nat /\ m <= n
        OBVIOUS
      <4>2. m - 1 \in Nat /\ m - 1 <= n /\ ~(m <= m - 1)
        BY <1>1, <2>3, <4>1
      <4> HIDE DEF unsolved
      <4> QED
        BY <2>1, <4>2, Zenon
    <3>2. PICK f : Read(f, m - 1)
      BY <3>1, Zenon
    <3> DEFINE g == [i \in 0..m |-> IF i < m THEN f[i] ELSE Q(f[m - 1], m)]
    <3>3. m \in Nat
      BY <2>1
    <3>4. g[0] = begun
      BY <2>3, <3>2, <3>3
    <3>5. \A i \in 1..m : g[i] = Q(g[i - 1], i)
      <4> TAKE i \in 1..m
      <4>1. i - 1 \in 0..m /\ i - 1 < m /\ i \in 0..m /\ i \in Nat
        BY <3>3
      <4>2. g[i - 1] = f[i - 1]
        BY <4>1
      <4>3. CASE i < m
        <5>1. g[i] = f[i] /\ i \in 1..m - 1
          BY <3>3, <4>1, <4>3
        <5> HIDE DEF g
        <5>2. f[i] = Q(f[i - 1], i)
          BY <3>2, <5>1
        <5> QED
          BY <4>2, <5>1, <5>2
      <4>4. CASE i = m
        BY <4>1, <4>2, <4>4
      <4> QED
        BY <3>3, <4>1, <4>3, <4>4
    <3> QED
      BY <2>1, <3>4, <3>5
  <2> QED
    BY <2>2, <2>3
<1>3. PICK f : Read(f, n)
  <2>1. n <= n /\ n \in Nat
    BY <1>1
  <2> QED
    BY <1>2, <2>1, Zenon
<1> DEFINE h == [i \in 0..n |-> f[i]]
<1>4. ReadsParts(h, begun, parts)
  <2>1. \A i \in 0..n : h[i] = IF i = 0 THEN begun ELSE Q(h[i - 1], i)
    <3> TAKE i \in 0..n
    <3>1. CASE i = 0
      BY <1>1, <1>3, <3>1
    <3>2. CASE i # 0
      <4>1. i \in 1..n /\ i - 1 \in 0..n
        BY <1>1, <3>2
      <4>2. f[i] = Q(f[i - 1], i)
        BY <1>3, <4>1
      <4>3. h[i] = f[i] /\ h[i - 1] = f[i - 1]
        BY <4>1
      <4> HIDE DEF h
      <4> QED
        BY <3>2, <4>2, <4>3
    <3> QED
      BY <3>1, <3>2
  <2>2. h = [i \in 0..n |-> h[i]]
    OBVIOUS
  <2> HIDE DEF h
  <2>3. h = [i \in 0..n |-> IF i = 0 THEN begun ELSE Q(h[i - 1], i)]
    BY <2>1, <2>2, Zenon
  <2> QED
    BY <2>3 DEF ReadsParts, n, Q
<1> HIDE DEF h
<1> QED
  BY <1>4, Zenon

\* All parts of a chunk.
LEMMA PartsRead ==
    ASSUME NEW size \in Nat, NEW v, NEW begun, NEW w,
           Emits(size, v, begun.events, w), Reads(begun.conv, w), IsStep(begun),
           NEW parts, Len(parts) \in Nat,
           \A i \in 1..Len(parts) : i \in Positions /\ IsPart(size, parts[i]),
           NEW f, ReadsParts(f, begun, parts)
    PROVE  LET r == f[Len(parts)]
           IN  IsStep(r) /\ \E x : Emits(size, v, r.events, x) /\ Reads(r.conv, x)
<1> DEFINE n == Len(parts)
           Good(r) == IsStep(r) /\ \E x : Emits(size, v, r.events, x) /\ Reads(r.conv, x)
           bad == {m \in Nat : m <= n /\ ~Good(f[m])}
<1>1. Good(begun)
  OBVIOUS
<1>2. n \in Nat /\ \A i \in 1..n : i \in Positions /\ IsPart(size, parts[i])
  OBVIOUS
<1>3. f = [i \in 0..n |-> IF i = 0 THEN begun ELSE Part(f[i - 1], i, parts[i])]
  BY DEF ReadsParts
<1> HIDE DEF n
<1>4. f[0] = begun
  BY <1>2, <1>3
<1>5. \A i \in 1..n : f[i] = Part(f[i - 1], i, parts[i])
  <2> TAKE i \in 1..n
  <2>1. i \in 0..n /\ i # 0
    BY <1>2
  <2> DEFINE P(j) == Part(f[j - 1], j, parts[j])
  <2> HIDE DEF P
  <2>2. f = [j \in 0..n |-> IF j = 0 THEN begun ELSE P(j)]
    BY <1>3 DEF P
  <2>3. f[i] = P(i)
    BY <2>1, <2>2
  <2> QED
    BY <2>3 DEF P
<1>6. \A r : \A i \in 1..n : Good(r) => Good(Part(r, i, parts[i]))
  <2> TAKE r
  <2> TAKE i \in 1..n
  <2> HAVE Good(r)
  <2>1. PICK x : Emits(size, v, r.events, x) /\ Reads(r.conv, x)
    OBVIOUS
  <2>2. i \in Positions /\ IsPart(size, parts[i])
    BY <1>2
  <2> QED
    BY <2>1, <2>2, PartReads
<1> HIDE DEF Good
<1>7. bad = {}
  <2> SUFFICES ASSUME bad # {} PROVE FALSE
    OBVIOUS
  <2>1. PICK m \in bad : \A k \in bad : m <= k
    BY Least
  <2>2. m \in Nat /\ m <= n /\ ~Good(f[m])
    BY <2>1
  <2>3. m # 0
    BY <1>1, <1>4, <2>2
  <2>4. m - 1 \in Nat /\ m - 1 <= n /\ ~(m <= m - 1) /\ m \in 1..n
    BY <1>2, <2>2, <2>3
  <2>5. Good(f[m - 1])
    <3>1. m - 1 \notin bad
      BY <2>1, <2>4
    <3> QED
      BY <2>4, <3>1
  <2> QED
    BY <1>5, <1>6, <2>2, <2>4, <2>5
<1>8. Good(f[n])
  <2>1. n \notin bad /\ n <= n
    BY <1>2, <1>7
  <2> QED
    BY <1>2, <2>1
<1> QED
  BY <1>8 DEF Good, n

\* An index, then others in ascending order.
LEMMA OneThenAscending ==
    ASSUME NEW N \in Nat, NEW S \in SUBSET (0..N), NEW i \in Nat, i \notin S
    PROVE  LET r == <<i>> \o Ascending(S)
           IN  /\ r \in Seq(Nat) /\ {i} \cup S = {r[k] : k \in 1..Len(r)}
               /\ \A k, l \in 1..Len(r) : k # l => r[k] # r[l]
<1> DEFINE a == Ascending(S)
           n == Len(a)
           r == <<i>> \o a
<1>1. /\ a \in Seq(S) /\ n \in Nat
      /\ \A j \in S : \E k \in 1..n : a[k] = j
      /\ \A k, l \in 1..n : k < l => a[k] < a[l]
  BY AscendingLists, LenProperties
<1>2. \A k \in 1..n : a[k] \in S /\ a[k] \in Nat
  <2>1. \A k \in 1..n : a[k] \in S
    BY <1>1, ElementOfSeq
  <2>2. \A j \in S : j \in Nat
    OBVIOUS
  <2> HIDE DEF a, n
  <2> QED
    BY <2>1, <2>2
<1>3. a \in Seq(Nat) /\ <<i>> \in Seq(Nat) /\ Len(<<i>>) = 1 /\ <<i>>[1] = i
  <2>1. DOMAIN a = 1..n
    BY <1>1, LenProperties
  <2>2. a \in Seq(Nat)
    <3>1. a = [k \in DOMAIN a |-> a[k]]
      BY <1>1, LenProperties
    <3> HIDE DEF a, n
    <3>2. a \in [1..n -> Nat]
      BY <1>2, <2>1, <3>1
    <3> QED
      BY <1>1, <3>2, SeqDef
  <2> HIDE DEF a
  <2> QED
    BY <2>2
<1> HIDE DEF a
<1>4. /\ r \in Seq(Nat) /\ Len(r) = 1 + n
      /\ \A k \in 1..1 + n : r[k] = IF k <= 1 THEN <<i>>[k] ELSE a[k - 1]
  BY <1>3, ConcatProperties
<1> HIDE DEF r, n
<1>5. r[1] = i /\ \A k \in 1..n : r[k + 1] = a[k]
  <2>1. 1 \in 1..1 + n
    BY <1>1
  <2>2. \A k \in 1..n : k + 1 \in 1..1 + n /\ ~(k + 1 <= 1) /\ (k + 1) - 1 = k
    BY <1>1
  <2> QED
    BY <1>3, <1>4, <2>1, <2>2
<1>6. \A k \in 1..1 + n : k = 1 \/ \E l \in 1..n : k = l + 1
  <2> TAKE k \in 1..1 + n
  <2>1. k # 1 => k - 1 \in 1..n /\ k = (k - 1) + 1
    BY <1>1
  <2> QED
    BY <2>1
<1>7. \A k \in 1..n : k + 1 \in 1..1 + n
  BY <1>1
<1>8. {i} \cup S = {r[k] : k \in 1..1 + n}
  <2>1. \A k \in 1..1 + n : r[k] \in {i} \cup S
    BY <1>2, <1>5, <1>6
  <2>2. 1 \in 1..1 + n
    BY <1>1
  <2>3. \A j \in S : \E k \in 1..1 + n : r[k] = j
    BY <1>1, <1>5, <1>7
  <2>4. \A j \in {i} \cup S : \E k \in 1..1 + n : r[k] = j
    BY <1>5, <2>2, <2>3
  <2> QED
    BY <2>1, <2>4, Zenon
<1>9. \A k, l \in 1..n : k # l => a[k] # a[l]
  <2> TAKE k, l \in 1..n
  <2>1. k # l => k < l \/ l < k
    OBVIOUS
  <2>2. a[k] \in Nat /\ a[l] \in Nat /\ (k < l => a[k] < a[l]) /\ (l < k => a[l] < a[k])
    BY <1>1, <1>2
  <2> QED
    BY <2>1, <2>2
<1>10. \A k, l \in 1..1 + n : k # l => r[k] # r[l]
  <2> TAKE k, l \in 1..1 + n
  <2> HAVE k # l
  <2>1. CASE k = 1
    <3>1. PICK m \in 1..n : l = m + 1
      BY <1>6, <2>1
    <3> QED
      BY <1>2, <1>5, <2>1, <3>1
  <2>2. CASE l = 1
    <3>1. PICK m \in 1..n : k = m + 1
      BY <1>6, <2>2
    <3> QED
      BY <1>2, <1>5, <2>2, <3>1
  <2>3. CASE k # 1 /\ l # 1
    <3>1. PICK m \in 1..n : k = m + 1
      BY <1>6, <2>3
    <3>2. PICK o \in 1..n : l = o + 1
      BY <1>6, <2>3
    <3>3. m # o
      BY <3>1, <3>2
    <3> QED
      BY <1>5, <1>9, <3>1, <3>2, <3>3
  <2> QED
    BY <2>1, <2>2, <2>3
<1> QED
  BY <1>4, <1>8, <1>10 DEF r, a

\* Indexes in ascending order.
LEMMA OnlyAscending ==
    ASSUME NEW N \in Nat, NEW S \in SUBSET (0..N)
    PROVE  LET r == <<>> \o Ascending(S)
           IN  /\ r \in Seq(Nat) /\ S = {r[k] : k \in 1..Len(r)}
               /\ \A k, l \in 1..Len(r) : k # l => r[k] # r[l]
<1> DEFINE a == Ascending(S)
           n == Len(a)
<1>1. /\ a \in Seq(S) /\ n \in Nat
      /\ \A j \in S : \E k \in 1..n : a[k] = j
      /\ \A k, l \in 1..n : k < l => a[k] < a[l]
  BY AscendingLists, LenProperties
<1>2. \A k \in 1..n : a[k] \in S /\ a[k] \in Nat
  <2>1. \A k \in 1..n : a[k] \in S
    BY <1>1, ElementOfSeq
  <2>2. \A j \in S : j \in Nat
    OBVIOUS
  <2> HIDE DEF a, n
  <2> QED
    BY <2>1, <2>2
<1>3. a \in Seq(Nat)
  <2>1. DOMAIN a = 1..n /\ a = [k \in DOMAIN a |-> a[k]]
    BY <1>1, LenProperties
  <2> HIDE DEF a, n
  <2>2. a \in [1..n -> Nat]
    BY <1>2, <2>1
  <2> QED
    BY <1>1, <2>2, SeqDef
<1>4. <<>> \o a = a
  BY <1>3, ConcatEmptySeq
<1> HIDE DEF a, n
<1>5. S = {a[k] : k \in 1..n}
  BY <1>1, <1>2, Zenon
<1>6. \A k, l \in 1..n : k # l => a[k] # a[l]
  <2> TAKE k, l \in 1..n
  <2>1. k # l => k < l \/ l < k
    OBVIOUS
  <2>2. a[k] \in Nat /\ a[l] \in Nat /\ (k < l => a[k] < a[l]) /\ (l < k => a[l] < a[k])
    BY <1>1, <1>2
  <2> QED
    BY <2>1, <2>2
<1> QED
  BY <1>3, <1>4, <1>5, <1>6 DEF a, n

\* The converter g, once it stopped its blocks: f, whether it completed one.
Stilled(g, f) ==
    [g EXCEPT !.textBlockOpen = FALSE,
              !.toolStates = [i \in Positions |-> [g.toolStates[i] EXCEPT !.open = FALSE]],
              !.contentBlockCompleted = f]

\* What it still knows then.
LEMMA StilledIs ==
    ASSUME NEW g \in GeminiConverters, NEW f \in BOOLEAN
    PROVE  LET h == Stilled(g, f)
           IN  /\ h \in GeminiConverters /\ h.started = g.started /\ h.finished = g.finished
               /\ h.nextIndex = g.nextIndex /\ h.contentBlockCompleted = f
               /\ h.textBlockOpen = FALSE /\ h.sawFunctionCall = g.sawFunctionCall
               /\ \A i \in Positions : h.toolStates[i].open = FALSE
<1> DEFINE t == [i \in Positions |-> [g.toolStates[i] EXCEPT !.open = FALSE]]
           h == [g EXCEPT !.textBlockOpen = FALSE, !.toolStates = t, !.contentBlockCompleted = f]
<1>1. \A i \in Positions : g.toolStates[i] \in ToolStates
  BY DEF GeminiConverters
<1>2. \A i \in Positions : t[i] \in ToolStates /\ t[i].open = FALSE
  BY <1>1 DEF ToolStates
<1>3. t \in [Positions -> ToolStates]
  BY <1>2
<1> HIDE DEF t
<1>4. /\ h \in GeminiConverters /\ h.started = g.started /\ h.finished = g.finished
      /\ h.nextIndex = g.nextIndex
  BY <1>3 DEF GeminiConverters
<1>5. /\ h.contentBlockCompleted = f /\ h.textBlockOpen = FALSE
      /\ h.sawFunctionCall = g.sawFunctionCall /\ h.toolStates = t
  BY <1>3 DEF GeminiConverters
<1>6. Stilled(g, f) = h
  BY DEF Stilled, t
<1> HIDE DEF h
<1> QED
  BY <1>2, <1>4, <1>5, <1>6

\* The indexes of the blocks the converter g stops, in that order.
ClosingOf(g) == (IF g.textBlockOpen THEN <<g.textIndex>> ELSE <<>>) \o Ascending(OpenTools(g))

\* The indexes that are closed are those of the open blocks, each once (closeOpenBlocks).
LEMMA ClosingOfIs ==
    ASSUME NEW g, NEW w \in Views, OpenIn(w) = OpenTexts(g) \cup OpenTools(g),
           g.textBlockOpen => g.textIndex \in Nat /\ g.textIndex \notin OpenTools(g)
    PROVE  LET r == ClosingOf(g)
           IN  /\ r \in Seq(Nat) /\ OpenIn(w) = {r[k] : k \in 1..Len(r)}
               /\ \A k, l \in 1..Len(r) : k # l => r[k] # r[l]
<1> DEFINE n == Len(w.blocks)
           S == OpenTools(g)
<1>1. n \in Nat /\ S \in SUBSET (0..n)
  <2>1. n \in Nat /\ OpenIn(w) \subseteq 0..n
    BY BlocksOfView DEF OpenIn
  <2> QED
    BY <2>1
<1> HIDE DEF n, S
<1>2. CASE g.textBlockOpen
  <2> DEFINE i == g.textIndex
             r == <<i>> \o Ascending(S)
  <2>1. i \in Nat /\ i \notin S /\ OpenIn(w) = {i} \cup S
    BY <1>2 DEF OpenTexts, S
  <2> HIDE DEF i
  <2>2. /\ r \in Seq(Nat) /\ {i} \cup S = {r[k] : k \in 1..Len(r)}
        /\ \A k, l \in 1..Len(r) : k # l => r[k] # r[l]
    BY <1>1, <2>1, OneThenAscending
  <2>3. ClosingOf(g) = r
    BY <1>2 DEF ClosingOf, S, i
  <2> HIDE DEF r
  <2> QED
    BY <2>1, <2>2, <2>3
<1>3. CASE ~g.textBlockOpen
  <2> DEFINE r == <<>> \o Ascending(S)
  <2>1. OpenIn(w) = S
    BY <1>3 DEF OpenTexts, S
  <2>2. /\ r \in Seq(Nat) /\ S = {r[k] : k \in 1..Len(r)}
        /\ \A k, l \in 1..Len(r) : k # l => r[k] # r[l]
    BY <1>1, OnlyAscending
  <2>3. ClosingOf(g) = r
    BY <1>3 DEF ClosingOf, S
  <2> HIDE DEF r
  <2> QED
    BY <2>1, <2>2, <2>3
<1> QED
  BY <1>2, <1>3

\* The record CloseBlocks returns.
LEMMA CloseBlocksIs ==
    ASSUME NEW s
    PROVE  LET g == s.conv
           IN  CloseBlocks(s) = Then(s, Stilled(g, g.contentBlockCompleted \/ ClosingOf(g) # <<>>),
                                     Stops(ClosingOf(g)))
BY Zenon DEF CloseBlocks, Stilled, ClosingOf, OpenTools

\* In the middle of a message, when all blocks are stopped.
Stills(h, x) ==
    /\ h \in GeminiConverters /\ x \in Views /\ x.msg = "started"
    /\ h.started /\ ~h.finished /\ h.nextIndex = Len(x.blocks)
    /\ OpenIn(x) = {} /\ ~h.textBlockOpen
    /\ \A i \in Positions : ~h.toolStates[i].open
    /\ h.contentBlockCompleted <=> \E j \in 1..Len(x.blocks) : ~x.blocks[j].open

\* Blocks that are open, or one that is not: a message that has any has one of them.
LEMMA SomeBlock ==
    ASSUME NEW w \in Views
    PROVE  /\ w.blocks # <<>> <=> Len(w.blocks) # 0
           /\ OpenIn(w) # {} => Len(w.blocks) # 0
           /\ (\E j \in 1..Len(w.blocks) : ~w.blocks[j].open) => Len(w.blocks) # 0
           /\ Len(w.blocks) # 0 => OpenIn(w) # {} \/ \E j \in 1..Len(w.blocks) : ~w.blocks[j].open
<1> DEFINE n == Len(w.blocks)
<1>1. n \in Nat /\ (w.blocks = <<>> <=> n = 0)
  BY BlocksOfView, EmptySeq DEF Views
<1>2. OpenIn(w) # {} => n # 0
  BY <1>1 DEF OpenIn
<1>3. (\E j \in 1..n : ~w.blocks[j].open) => n # 0
  BY <1>1
<1>4. n # 0 => OpenIn(w) # {} \/ \E j \in 1..n : ~w.blocks[j].open
  <2> HAVE n # 0
  <2>1. 1 \in 1..n /\ 0 \in 0..n - 1 /\ 0 + 1 = 1
    BY <1>1
  <2>2. w.blocks[1].open => 0 \in OpenIn(w)
    BY <2>1 DEF OpenIn
  <2> QED
    BY <2>1, <2>2
<1> QED
  BY <1>1, <1>2, <1>3, <1>4

\* closeBlocks stops every block that is open.
LEMMA CloseBlocksReads ==
    ASSUME NEW size \in Nat, NEW v, NEW s, NEW w, Emits(size, v, s.events, w), Reads(s.conv, w)
    PROVE  LET r == CloseBlocks(s)
               x == AllStopped(w)
           IN  /\ IsStep(r) /\ Emits(size, v, r.events, x) /\ Stills(r.conv, x) /\ Kept(w, x)
               /\ r.conv.sawFunctionCall = s.conv.sawFunctionCall
<1> DEFINE g == s.conv
           q == ClosingOf(g)
           r == CloseBlocks(s)
           x == AllStopped(w)
           n == Len(w.blocks)
<1>1. /\ g \in GeminiConverters /\ w \in Views /\ w.msg = "started" /\ n \in Nat /\ g.nextIndex = n
      /\ g.textBlockOpen => g.textIndex \in Nat
  BY OpenTracks
<1>2. g.textBlockOpen => g.textIndex \notin OpenTools(g)
  <2>1. \A i \in OpenTools(g) : w.blocks[i + 1].kind = "tool"
    BY DEF Reads, Tracks, OpenTools
  <2>2. g.textBlockOpen => w.blocks[g.textIndex + 1].kind = "text"
    BY DEF Reads, Tracks
  <2> QED
    BY <2>1, <2>2
<1>3. /\ q \in Seq(Nat) /\ OpenIn(w) = {q[k] : k \in 1..Len(q)}
      /\ \A k, l \in 1..Len(q) : k # l => q[k] # q[l]
  <2>1. OpenIn(w) = OpenTexts(g) \cup OpenTools(g)
    BY DEF Reads, Tracks
  <2> HIDE DEF g
  <2> QED
    BY <1>1, <1>2, <2>1, ClosingOfIs
<1>4. PICK f \in BOOLEAN : f = (g.contentBlockCompleted \/ q # <<>>)
  OBVIOUS
<1>5. r = Then(s, Stilled(g, f), Stops(q))
  <2>1. r = Then(s, Stilled(g, g.contentBlockCompleted \/ q # <<>>), Stops(q))
    BY CloseBlocksIs
  <2> QED
    BY <1>4, <2>1, Zenon
<1> DEFINE h == Stilled(g, f)
<1>6. /\ h \in GeminiConverters /\ h.started = g.started /\ h.finished = g.finished
      /\ h.nextIndex = g.nextIndex /\ h.contentBlockCompleted = f
      /\ h.textBlockOpen = FALSE /\ h.sawFunctionCall = g.sawFunctionCall
      /\ \A i \in Positions : h.toolStates[i].open = FALSE
  BY <1>1, StilledIs
<1>7. q # <<>> <=> OpenIn(w) # {}
  <2> HIDE DEF q
  <2>1. Len(q) \in Nat /\ (q = <<>> <=> Len(q) = 0)
    BY <1>3, LenProperties, EmptySeq
  <2>2. Len(q) # 0 => 1 \in 1..Len(q)
    BY <2>1
  <2>3. Len(q) = 0 => 1..Len(q) = {}
    BY <2>1
  <2> QED
    BY <1>3, <2>1, <2>2, <2>3
<1>8. /\ x \in Views /\ x.msg = "started" /\ Len(x.blocks) = n /\ OpenIn(x) = {}
      /\ \A j \in 1..n : /\ x.blocks[j].kind = w.blocks[j].kind
                         /\ x.blocks[j].data = w.blocks[j].data
                         /\ ~x.blocks[j].open
  BY <1>1, AllStoppedIs
<1>9. Emits(size, w, Stops(q), x)
  BY <1>1, <1>3, EmitsStops
<1>10. g.contentBlockCompleted <=> \E j \in 1..n : ~w.blocks[j].open
  BY DEF Reads, Tracks
<1> HIDE DEF x, h, q, r
<1>11. h.contentBlockCompleted <=> \E j \in 1..Len(x.blocks) : ~x.blocks[j].open
  <2>1. OpenIn(w) # {} => n # 0
    BY <1>1, SomeBlock
  <2>2. (\E j \in 1..n : ~w.blocks[j].open) => n # 0
    BY <1>1, SomeBlock
  <2>3. n # 0 => OpenIn(w) # {} \/ \E j \in 1..n : ~w.blocks[j].open
    BY <1>1, SomeBlock
  <2>4. n # 0 <=> \E j \in 1..Len(x.blocks) : ~x.blocks[j].open
    <3>1. n # 0 => 1 \in 1..n
      BY <1>1
    <3>2. n = 0 => 1..n = {}
      BY <1>1
    <3> QED
      BY <1>8, <3>1, <3>2
  <2> QED
    BY <1>4, <1>6, <1>7, <1>10, <2>1, <2>2, <2>3, <2>4
<1>12. Stills(h, x)
  BY <1>1, <1>6, <1>8, <1>11 DEF Stills, Reads
<1>13. r.conv = h /\ r.events = s.events \o Stops(q) /\ IsStep(r)
  BY <1>5, StepIs DEF h
<1>14. Emits(size, v, s.events \o Stops(q), x)
  BY <1>9, EmitsThen
<1>15. Kept(w, x)
  BY <1>8 DEF Kept
<1> QED
  BY <1>6, <1>12, <1>13, <1>14, <1>15 DEF r, x

\* Of a message that ended, closeBlocks stops nothing.
LEMMA CloseNothing ==
    ASSUME NEW g, NEW w, Tracks(g, w), g.finished
    PROVE  LET r == CloseBlocks(Step(g, <<>>))
           IN  IsStep(r) /\ r.events = <<>> /\ Tracks(r.conv, w) /\ r.conv.finished
<1> DEFINE q == ClosingOf(g)
           s == Step(g, <<>>)
           r == CloseBlocks(s)
<1>1. /\ g \in GeminiConverters /\ w \in Views /\ w.msg = "stopped" /\ OpenIn(w) = {} /\ g.started
      /\ OpenTexts(g) = {} /\ OpenTools(g) = {}
  BY DEF Tracks
<1>2. ~g.textBlockOpen
  BY <1>1 DEF OpenTexts
<1>3. /\ q \in Seq(Nat) /\ OpenIn(w) = {q[k] : k \in 1..Len(q)}
  BY <1>1, <1>2, ClosingOfIs
<1>4. q = <<>>
  <2> HIDE DEF q
  <2>1. Len(q) \in Nat /\ (q = <<>> <=> Len(q) = 0)
    BY <1>3, LenProperties, EmptySeq
  <2>2. Len(q) # 0 => 1 \in 1..Len(q)
    BY <2>1
  <2> QED
    BY <1>1, <1>3, <2>1, <2>2
<1>5. PICK f \in BOOLEAN : f = (g.contentBlockCompleted \/ q # <<>>)
  OBVIOUS
<1>6. f = g.contentBlockCompleted
  BY <1>1, <1>4, <1>5 DEF GeminiConverters
<1> DEFINE h == Stilled(g, f)
<1>7. /\ h \in GeminiConverters /\ h.started = g.started /\ h.finished = g.finished
      /\ h.nextIndex = g.nextIndex /\ h.contentBlockCompleted = f
      /\ h.textBlockOpen = FALSE
      /\ \A i \in Positions : h.toolStates[i].open = FALSE
  BY <1>1, StilledIs
<1>8. r = Then(s, h, Stops(q))
  <2>1. s.conv = g
    BY StepOf
  <2>2. r = Then(s, Stilled(g, g.contentBlockCompleted \/ q # <<>>), Stops(q))
    BY <2>1, CloseBlocksIs
  <2> QED
    BY <1>5, <2>2, Zenon
<1> HIDE DEF h, r
<1>9. r.conv = h /\ r.events = s.events \o Stops(q) /\ IsStep(r)
  BY <1>8, StepIs
<1>10. r.events = <<>>
  <2>1. s.events = <<>>
    BY StepOf
  <2>2. Stops(<<>>) = <<>>
    BY DEF Stops
  <2>3. <<>> \o <<>> = <<>>
    OBVIOUS
  <2> QED
    BY <1>4, <1>9, <2>1, <2>2, <2>3
<1>11. OpenTexts(h) = {} /\ OpenTools(h) = {}
  BY <1>7 DEF OpenTexts, OpenTools
<1>12. Tracks(h, w)
  BY <1>1, <1>6, <1>7, <1>11 DEF Tracks
<1> QED
  BY <1>7, <1>9, <1>10, <1>12 DEF r

\* ensureContentBlock, once nothing is open.
LEMMA FillerReads ==
    ASSUME NEW size \in Nat, NEW v, NEW s, NEW w, Emits(size, v, s.events, w), Stills(s.conv, w),
           IsStep(s)
    PROVE  LET r == Filler(s)
           IN  /\ IsStep(r) /\ r.conv.sawFunctionCall = s.conv.sawFunctionCall
               /\ \E x : /\ Emits(size, v, r.events, x) /\ Stills(r.conv, x)
                         /\ Kept(w, x) /\ x.blocks # <<>>
<1> DEFINE g == s.conv
           n == Len(w.blocks)
           r == Filler(s)
           x == WithFiller(w)
<1>1. /\ g \in GeminiConverters /\ w \in Views /\ w.msg = "started" /\ n \in Nat
      /\ g.nextIndex = n /\ OpenIn(w) = {}
      /\ g.contentBlockCompleted <=> \E j \in 1..n : ~w.blocks[j].open
  BY BlocksOfView DEF Stills
<1>2. (\E j \in 1..n : ~w.blocks[j].open) <=> w.blocks # <<>>
  BY <1>1, SomeBlock
<1>3. CASE g.contentBlockCompleted
  <2>1. r = s
    BY <1>3 DEF Filler
  <2>2. Kept(w, w)
    BY DEF Kept
  <2> QED
    BY <1>1, <1>2, <1>3, <2>1, <2>2
<1>4. CASE ~g.contentBlockCompleted
  <2> DEFINE h == [g EXCEPT !.nextIndex = @ + 1, !.contentBlockCompleted = TRUE]
             q == <<BlockStart(n, "text"), BlockStop(n)>>
  <2>1. r = Then(s, h, q)
    BY <1>1, <1>4 DEF Filler
  <2>2. n = 0
    BY <1>1, <1>2, <1>4, SomeBlock
  <2>3. /\ Emits(size, w, q, x)
        /\ x \in Views /\ x.msg = w.msg /\ x.stop = w.stop /\ Len(x.blocks) = n + 1
        /\ x.blocks[n + 1].kind = "text" /\ x.blocks[n + 1].data = <<>> /\ ~x.blocks[n + 1].open
    BY <1>1, EmitsFiller
  <2> HIDE DEF x, q
  <2>4. Len(x.blocks) = 1 /\ x.blocks[1].kind = "text" /\ x.blocks[1].data = <<>> /\ ~x.blocks[1].open
    BY <2>2, <2>3
  <2>5. 1..1 = {1} /\ 0..1 - 1 = {0} /\ 0 + 1 = 1
    OBVIOUS
  <2>6. OpenIn(x) = {}
    BY <2>4, <2>5 DEF OpenIn
  <2>7. \E j \in 1..Len(x.blocks) : ~x.blocks[j].open
    BY <2>4, <2>5
  <2>8. x.blocks # <<>> /\ Kept(w, x)
    <3>1. x.blocks # <<>>
      BY <2>3, <2>4, SomeBlock
    <3> QED
      BY <2>2, <2>4, <3>1 DEF Kept
  <2>9. /\ h \in GeminiConverters /\ h.started = g.started /\ h.finished = g.finished
        /\ h.nextIndex = g.nextIndex + 1 /\ h.contentBlockCompleted = TRUE
        /\ h.textBlockOpen = g.textBlockOpen
        /\ h.toolStates = g.toolStates
        /\ h.sawFunctionCall = g.sawFunctionCall
    <3>1. g \in GeminiConverters
      BY <1>1
    <3> HIDE DEF g
    <3>2. /\ h \in GeminiConverters /\ h.started = g.started /\ h.finished = g.finished
          /\ h.nextIndex = g.nextIndex + 1 /\ h.contentBlockCompleted = TRUE
          /\ h.textBlockOpen = g.textBlockOpen /\ h.textIndex = g.textIndex
          /\ h.toolStates = g.toolStates /\ h.previousText = g.previousText
          /\ h.sawFunctionCall = g.sawFunctionCall
      BY <3>1, BlockMoreConverter, Zenon
    <3> HIDE DEF h
    <3> QED
      BY <3>2
  <2> HIDE DEF h, r
  <2>10. Stills(h, x)
    BY <1>1, <2>3, <2>6, <2>7, <2>9 DEF Stills
  <2>11. r.conv = h /\ r.events = s.events \o q /\ IsStep(r)
    BY <2>1, StepIs
  <2>12. Emits(size, v, s.events \o q, x)
    BY <2>3, EmitsThen
  <2> QED
    BY <2>8, <2>9, <2>10, <2>11, <2>12 DEF r
<1> QED
  BY <1>3, <1>4

\* x is w at the end of a message.
Finishes(w, x, stop) == Kept(w, x) /\ x.stop = stop
SameCalls(g, h) == h.sawFunctionCall = g.sawFunctionCall

\* The end of a message.
LEMMA EndWithTracks ==
    ASSUME NEW size \in Nat, NEW v, NEW s, NEW w, Emits(size, v, s.events, w), Reads(s.conv, w),
           NEW stop \in StopReasons
    PROVE  LET r == EndWith(s, stop)
           IN  /\ IsStep(r) /\ r.conv.finished
               /\ SameCalls(s.conv, r.conv)
               /\ \E x : Emits(size, v, r.events, x) /\ Tracks(r.conv, x) /\ Finishes(w, x, stop)
<1> DEFINE c == CloseBlocks(s)
           u == AllStopped(w)
           f == Filler(c)
           r == EndWith(s, stop)
<1>1. /\ IsStep(c) /\ Emits(size, v, c.events, u) /\ Stills(c.conv, u) /\ Kept(w, u)
      /\ c.conv.sawFunctionCall = s.conv.sawFunctionCall
  BY CloseBlocksReads
<1>2. r = Then(f, [f.conv EXCEPT !.finished = TRUE], Ending(stop))
  BY DEF EndWith
<1> HIDE DEF c, u, r
<1>3. /\ IsStep(f) /\ f.conv.sawFunctionCall = c.conv.sawFunctionCall
      /\ \E x : /\ Emits(size, v, f.events, x) /\ Stills(f.conv, x)
                /\ Kept(u, x) /\ x.blocks # <<>>
  <2>1. Emits(size, v, c.events, u) /\ Stills(c.conv, u) /\ IsStep(c)
    BY <1>1
  <2>2. size \in Nat
    OBVIOUS
  <2>3. LET q == Filler(c)
        IN  /\ IsStep(q) /\ q.conv.sawFunctionCall = c.conv.sawFunctionCall
            /\ \E x : /\ Emits(size, v, q.events, x) /\ Stills(q.conv, x)
                      /\ Kept(u, x) /\ x.blocks # <<>>
    BY ONLY <2>1, <2>2, FillerReads, ZenonT(40)
  <2> QED
    BY <2>3
<1>4. PICK x : /\ Emits(size, v, f.events, x) /\ Stills(f.conv, x)
               /\ Kept(u, x) /\ x.blocks # <<>>
  BY <1>3
<1> DEFINE g == f.conv
           h == [g EXCEPT !.finished = TRUE]
           y == Ended(x, stop)
<1> HIDE DEF f
<1>5. /\ g \in GeminiConverters /\ x \in Views /\ x.msg = "started" /\ OpenIn(x) = {}
      /\ u \in Views /\ w \in Views
  BY <1>1, <1>4, OpenTracks DEF Stills
<1>6. /\ Emits(size, x, Ending(stop), y)
      /\ y \in Views /\ y.msg = "stopped" /\ y.stop = stop /\ y.blocks = x.blocks
  BY <1>4, <1>5, EmitsEnding
<1> HIDE DEF y, g
<1>7. /\ h \in GeminiConverters /\ h.started = g.started /\ h.finished = TRUE
      /\ h.nextIndex = g.nextIndex /\ h.contentBlockCompleted = g.contentBlockCompleted
  BY <1>5 DEF GeminiConverters
<1>8. /\ h.textBlockOpen = g.textBlockOpen /\ h.toolStates = g.toolStates
      /\ h.sawFunctionCall = g.sawFunctionCall
  BY <1>5 DEF GeminiConverters
<1> HIDE DEF h
<1>9. OpenTexts(h) = {} /\ OpenTools(h) = {} /\ OpenIn(y) = {}
  BY <1>4, <1>5, <1>6, <1>8 DEF OpenTexts, OpenTools, OpenIn, Stills, g
<1>10. Tracks(h, y)
  <2>1. g.started /\ g.nextIndex = Len(x.blocks) /\ ~g.textBlockOpen
    BY <1>4 DEF Stills, g
  <2>2. \A i \in Positions : ~h.toolStates[i].open
    BY <1>4, <1>8 DEF Stills, g
  <2>3. g.contentBlockCompleted <=> \E j \in 1..Len(x.blocks) : ~x.blocks[j].open
    BY <1>4 DEF Stills, g
  <2> QED
    BY <1>6, <1>7, <1>8, <1>9, <2>1, <2>2, <2>3 DEF Tracks
<1>11. Kept(w, y)
  <2>1. Kept(w, x)
    BY <1>1, <1>4, <1>5, KeptTransitive
  <2> QED
    BY <1>6, <2>1 DEF Kept
<1>12. r.conv = h /\ r.events = f.events \o Ending(stop) /\ IsStep(r)
  BY <1>2, StepIs DEF h, g
<1>13. Emits(size, v, f.events \o Ending(stop), y)
  BY <1>4, <1>6, EmitsThen
<1>14. h.sawFunctionCall = s.conv.sawFunctionCall
  BY <1>1, <1>3, <1>8 DEF g
<1>15. Finishes(w, y, stop) /\ SameCalls(s.conv, h)
  BY <1>6, <1>11, <1>14 DEF Finishes, SameCalls
<1> QED
  BY <1>7, <1>10, <1>12, <1>13, <1>15 DEF r

\* ProcessResponse starts the message with its first chunk.
BegunStep(g) == Step([g EXCEPT !.started = TRUE], IF g.started THEN <<>> ELSE <<MessageStart>>)

\* After the missing start, client and converter agree.
LEMMA BegunReads ==
    ASSUME NEW size \in Nat, NEW g, NEW w, Tracks(g, w), ~g.finished
    PROVE  LET s == BegunStep(g)
           IN  /\ IsStep(s) /\ Emits(size, w, s.events, Begun(w)) /\ Reads(s.conv, Begun(w))
               /\ SameText(g, s.conv) /\ SameTools(g, s.conv)
               /\ Begun(w).blocks = w.blocks /\ Begun(w) \in Views
<1> DEFINE h == [g EXCEPT !.started = TRUE]
           q == IF g.started THEN <<>> ELSE <<MessageStart>>
           s == BegunStep(g)
           x == Begun(w)
<1>1. g \in GeminiConverters /\ w \in Views
  BY DEF Tracks
<1>2. /\ h \in GeminiConverters /\ h.started = TRUE /\ h.finished = g.finished
      /\ h.nextIndex = g.nextIndex /\ h.contentBlockCompleted = g.contentBlockCompleted
  BY <1>1 DEF GeminiConverters
<1>3. /\ h.textBlockOpen = g.textBlockOpen /\ h.textIndex = g.textIndex
      /\ h.previousText = g.previousText /\ h.sawFunctionCall = g.sawFunctionCall
      /\ h.toolStates = g.toolStates
  BY <1>1 DEF GeminiConverters
<1>4. s.conv = h /\ s.events = q /\ IsStep(s)
  BY StepOf DEF BegunStep
<1>5. /\ Emits(size, w, q, x) /\ x \in Views /\ x.msg = "started" /\ x.blocks = w.blocks
  <2>1. CASE g.started
    <3>1. w.msg = "started" /\ x = w
      BY <2>1 DEF Tracks, Begun
    <3> QED
      BY <1>1, <2>1, <3>1, EmitsNothing
  <2>2. CASE ~g.started
    <3>1. w = NoMessage /\ NoMessage.msg = "none" /\ NoMessage.blocks = <<>>
      BY <2>2 DEF Tracks, NoMessage
    <3>2. x = Fresh
      BY <3>1 DEF Begun
    <3>3. /\ Emits(size, NoMessage, <<MessageStart>>, Fresh)
          /\ Fresh \in Views /\ Fresh.msg = "started" /\ Fresh.blocks = <<>>
      BY EmitsMessageStart DEF Fresh, NoMessage
    <3> QED
      BY <2>2, <3>1, <3>2, <3>3
  <2> QED
    BY <2>1, <2>2
<1> HIDE DEF h, q, s, x
<1>6. OpenIn(x) = OpenIn(w)
  BY <1>5 DEF OpenIn
<1>7. OpenTexts(h) = OpenTexts(g) /\ OpenTools(h) = OpenTools(g)
  BY <1>3 DEF OpenTexts, OpenTools
<1>8. Tracks(h, x)
  BY <1>2, <1>3, <1>5, <1>6, <1>7 DEF Tracks
<1>9. Reads(h, x)
  BY <1>2, <1>8 DEF Reads
<1> QED
  BY <1>3, <1>4, <1>5, <1>9 DEF s, x, SameText, SameTools

\* The loop over the parts, and the end after it.
LEMMA ProcessResponseIs ==
    ASSUME NEW g, NEW parts, Len(parts) \in Nat, NEW finish
    PROVE  \E f : /\ ReadsParts(f, BegunStep(g), parts)
                  /\ LET all == f[Len(parts)]
                     IN  ProcessResponse(g, [parts |-> parts, finish |-> finish]) =
                            IF finish = "none" THEN all
                            ELSE EndWith(all, StopReasonOf(all.conv, finish))
<1> DEFINE chunk == [parts |-> parts, finish |-> finish]
           f == CHOOSE h : ReadsParts(h, BegunStep(g), chunk.parts)
<1>1. chunk.parts = parts /\ chunk.finish = finish
  OBVIOUS
<1> HIDE DEF chunk
<1>2. ReadsParts(f, BegunStep(g), chunk.parts)
  BY <1>1, PartsAreRead
<1>3. ProcessResponse(g, chunk) =
         IF chunk.finish = "none" THEN f[Len(chunk.parts)]
         ELSE EndWith(f[Len(chunk.parts)], StopReasonOf(f[Len(chunk.parts)].conv, chunk.finish))
  BY DEF ProcessResponse, ReadsParts, BegunStep
<1> HIDE DEF f
<1> QED
  BY <1>1, <1>2, <1>3, Zenon DEF chunk

\* A chunk.
LEMMA ProcessResponseTracks ==
    ASSUME NEW size \in Nat, NEW g, NEW w, Tracks(g, w), ~g.finished,
           NEW parts, Len(parts) \in Nat,
           \A i \in 1..Len(parts) : i \in Positions /\ IsPart(size, parts[i]), NEW finish
    PROVE  LET r == ProcessResponse(g, [parts |-> parts, finish |-> finish])
           IN  /\ ~r.err /\ r.conv.started /\ (r.conv.finished <=> finish # "none")
               /\ \E x : Emits(size, w, r.events, x) /\ Tracks(r.conv, x)
<1> DEFINE r == ProcessResponse(g, [parts |-> parts, finish |-> finish])
           begun == BegunStep(g)
<1>1. PICK f : /\ ReadsParts(f, begun, parts)
               /\ r = IF finish = "none" THEN f[Len(parts)]
                      ELSE EndWith(f[Len(parts)], StopReasonOf(f[Len(parts)].conv, finish))
  BY ProcessResponseIs, Zenon
<1> DEFINE all == f[Len(parts)]
<1>2. IsStep(begun) /\ Emits(size, w, begun.events, Begun(w)) /\ Reads(begun.conv, Begun(w))
  BY BegunReads
<1> HIDE DEF r, begun
<1>3. IsStep(all) /\ \E x : Emits(size, w, all.events, x) /\ Reads(all.conv, x)
  BY <1>1, <1>2, PartsRead
<1>4. PICK x : Emits(size, w, all.events, x) /\ Reads(all.conv, x)
  BY <1>3
<1> HIDE DEF all
<1>5. CASE finish = "none"
  <2>1. r = all
    BY <1>1, <1>5 DEF all
  <2>2. ~all.err
    BY <1>3, StepIs
  <2> QED
    BY <1>4, <1>5, <2>1, <2>2 DEF Reads, r
<1>6. CASE finish # "none"
  <2> DEFINE stop == StopReasonOf(all.conv, finish)
             e == EndWith(all, stop)
  <2>1. stop \in StopReasons
    BY DEF StopReasonOf, StopReasons
  <2>2. r = e
    BY <1>1, <1>6 DEF all
  <2> HIDE DEF stop
  <2>3. /\ IsStep(e) /\ e.conv.finished
        /\ \E y : Emits(size, w, e.events, y) /\ Tracks(e.conv, y)
    BY <1>4, <2>1, EndWithTracks
  <2> HIDE DEF e
  <2>4. ~e.err /\ e.conv.started
    <3>1. ~e.err
      BY <2>3, StepIs
    <3>2. e.conv.started
      BY <2>3 DEF Tracks
    <3> QED
      BY <3>1, <3>2
  <2> QED
    BY <1>6, <2>2, <2>3, <2>4 DEF r
<1> QED
  BY <1>5, <1>6

\* Finalize: the message, if there is one, ends.
LEMMA FinalizeTracks ==
    ASSUME NEW size \in Nat, NEW g, NEW w, Tracks(g, w)
    PROVE  LET r == FinalizeGemini(g)
           IN  /\ ~r.err
               /\ \E x : Emits(size, w, r.events, x) /\ Tracks(r.conv, x) /\ Kept(w, x)
                         /\ x.msg = (IF g.started THEN "stopped" ELSE "none")
                         /\ (~g.started \/ g.finished => x = w)
                         /\ (g.started /\ ~g.finished => x.stop = "end_turn")
<1> DEFINE s == Step(g, <<>>)
           r == FinalizeGemini(g)
<1>1. w \in Views /\ g \in GeminiConverters /\ (g.finished => g.started)
  BY DEF Tracks
<1>2. s.conv = g /\ s.events = <<>> /\ ~s.err /\ IsStep(s)
  BY StepOf
<1>3. Emits(size, w, <<>>, w) /\ Kept(w, w)
  BY <1>1, EmitsNothing DEF Kept
<1>4. CASE ~g.started
  <2>1. r = s
    BY <1>4 DEF FinalizeGemini
  <2>2. w.msg = "none"
    BY <1>4 DEF Tracks
  <2> HIDE DEF s
  <2> QED
    BY <1>2, <1>3, <1>4, <2>1, <2>2
<1>5. CASE g.started /\ g.finished
  <2> DEFINE c == CloseBlocks(s)
  <2>1. r = c
    BY <1>5 DEF FinalizeGemini
  <2>2. IsStep(c) /\ c.events = <<>> /\ Tracks(c.conv, w)
    BY <1>5, CloseNothing
  <2> HIDE DEF c, r
  <2>3. ~c.err
    BY <2>2, StepIs
  <2>4. w.msg = "stopped"
    BY <1>5 DEF Tracks
  <2> QED
    BY <1>3, <1>5, <2>1, <2>2, <2>3, <2>4 DEF r
<1>6. CASE g.started /\ ~g.finished
  <2> DEFINE e == EndWith(s, "end_turn")
  <2>1. r = e
    BY <1>6 DEF FinalizeGemini
  <2>2. Emits(size, w, s.events, w) /\ Reads(s.conv, w)
    BY <1>2, <1>3, <1>6 DEF Reads
  <2>3. "end_turn" \in StopReasons
    BY DEF StopReasons
  <2>4. /\ IsStep(e) /\ e.conv.finished
        /\ \E x : Emits(size, w, e.events, x) /\ Tracks(e.conv, x) /\ Finishes(w, x, "end_turn")
    <3> HIDE DEF s, r
    <3> QED
      BY <2>2, <2>3, EndWithTracks
  <2>5. PICK x : /\ Emits(size, w, e.events, x) /\ Tracks(e.conv, x)
                 /\ Finishes(w, x, "end_turn")
    BY <2>4
  <2> HIDE DEF e, r
  <2>6. ~e.err /\ x.msg = "stopped"
    <3>1. ~e.err
      BY <2>4, StepIs
    <3>2. x.msg = "stopped"
      BY <2>4, <2>5 DEF Tracks
    <3> QED
      BY <3>1, <3>2
  <2> QED
    BY <1>6, <2>1, <2>5, <2>6 DEF r, Finishes
<1> QED
  BY <1>4, <1>5, <1>6

=============================================================================
