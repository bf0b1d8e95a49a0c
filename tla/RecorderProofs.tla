---------------------------- MODULE RecorderProofs ----------------------------
(***************************************************************************)
(* What holds of the request log for any number of requests and any        *)
(* capacity of the queue.                                                  *)
(***************************************************************************)
EXTENDS Recorder, SequenceTheorems, FiniteSetTheorems, TLAPS

-----------------------------------------------------------------------------
(* The inductive invariant.                                                *)

\* A request hands its record in when it ends, and the writer works on one
\* record, which is logged before its payload is.
OneRecordEach ==
    /\ ToSet(submitted) = {r \in Requests : request[r] = "done"}
    /\ dropped \cup failed \cup panicked \subseteq ToSet(submitted)
    /\ writer \in {"log", "payload"} => \E r \in Requests : record = {r}
    /\ writer = "log" => record \cap ToSet(logs) = {}
    /\ writer = "payload" => record \subseteq ToSet(logs)

\* What the stages of the shutdown rest on.
ShutdownOrder ==
    /\ closed <=> main \in {"waiting", "closeDb", "exited"}
    /\ panicked # {} => closed /\ timedOut
    /\ timedOut => main \notin {"running", "draining"}
    /\ main \notin {"running", "draining"} /\ ~timedOut => ~Serving
    /\ writer = "stopped" => closed /\ queue = <<>>
    /\ main \in {"closeDb", "exited"} => writer = "stopped"

IInv ==
    /\ TypeOK
    /\ OneFate
    /\ OneRecordEach
    /\ ShutdownOrder

-----------------------------------------------------------------------------
(* Facts about sequences.                                                  *)

\* The elements of a sequence are its values at 1, 2 and so on.
LEMMA ElementsOf ==
    ASSUME NEW S, NEW s \in Seq(S)
    PROVE  /\ \A x : x \in ToSet(s) <=> \E i \in 1..Len(s) : x = s[i]
           /\ ToSet(s) \subseteq S
<1>1. DOMAIN s = 1..Len(s) /\ \A i \in 1..Len(s) : s[i] \in S
  BY LenProperties, ElementOfSeq
<1> QED
  BY <1>1 DEF ToSet

\* The set a record is in becomes a sequence: no record is the empty one.
LEMMA EmptyToSeq == SetToSeq({}) = <<>>
<1>1. Cardinality({}) = 0 /\ 1..0 = {}
  BY FS_EmptySet
<1>2. \A f \in [{} -> {}] : f = <<>>
  OBVIOUS
<1>3. [x \in {} |-> x] \in [{} -> {}] /\ IsInjective([x \in {} |-> x])
  BY DEF IsInjective
<1>4. SetToSeq({}) \in [{} -> {}]
  BY <1>1, <1>3 DEF SetToSeq
<1> QED
  BY <1>2, <1>4

\* A record alone becomes a sequence of one.
LEMMA SingletonToSeq == \A x : SetToSeq({x}) = <<x>>
<1> TAKE x
<1>1. Cardinality({x}) = 1
  BY FS_Singleton
<1>2. <<x>> \in [1..1 -> {x}] /\ IsInjective(<<x>>)
  BY DEF IsInjective
<1>3. \A f \in [1..1 -> {x}] : f = <<x>>
  OBVIOUS
<1>4. SetToSeq({x}) \in [1..1 -> {x}]
  BY <1>1, <1>2 DEF SetToSeq
<1> QED
  BY <1>3, <1>4

\* A sequence with one more element at its end.
LEMMA AppendElements ==
    ASSUME NEW S, NEW s \in Seq(S), NEW x \in S
    PROVE  ToSet(Append(s, x)) = ToSet(s) \cup {x}
<1>1. Append(s, x) \in Seq(S) /\ Len(Append(s, x)) = Len(s) + 1 /\ Len(s) \in Nat
  BY AppendProperties, LenProperties
<1>2. /\ \A i \in 1..Len(s) : Append(s, x)[i] = s[i]
      /\ Append(s, x)[Len(s) + 1] = x
  BY AppendProperties
<1>3. \A y : y \in ToSet(Append(s, x)) <=> \E i \in 1..(Len(s) + 1) : y = Append(s, x)[i]
  BY <1>1, ElementsOf
<1>4. \A y : y \in ToSet(s) <=> \E i \in 1..Len(s) : y = s[i]
  BY ElementsOf
<1>5. \A y : y \in ToSet(Append(s, x)) <=> y \in ToSet(s) \/ y = x
  BY <1>1, <1>2, <1>3, <1>4
<1> QED
  BY <1>5

\* The elements of two sequences in a row.
LEMMA ConcatElements ==
    ASSUME NEW S, NEW s \in Seq(S), NEW t \in Seq(S)
    PROVE  ToSet(s \o t) = ToSet(s) \cup ToSet(t)
<1>1. Range(s \o t) = Range(s) \cup Range(t)
  BY RangeConcatenation
<1>2. \A u : ToSet(u) = Range(u)
  BY DEF ToSet, Range
<1> QED
  BY <1>1, <1>2

\* A sequence is its head followed by its tail.
LEMMA HeadFirst ==
    ASSUME NEW S, NEW s \in Seq(S), s # <<>>
    PROVE  s = <<Head(s)>> \o Tail(s) /\ <<Head(s)>> \in Seq(S) /\ Tail(s) \in Seq(S)
<1>1. Len(s) \in Nat \ {0}
  BY EmptySeq
<1>2. SubSeq(s, 1, Len(s)) = <<s[1]>> \o SubSeq(s, 2, Len(s))
  BY <1>1, SubSeqRecursiveFirst
<1>3. SubSeq(s, 1, Len(s)) = s /\ SubSeq(s, 2, Len(s)) = Tail(s) /\ s[1] = Head(s)
  BY SubSeqFull, TailIsSubSeq
<1>4. Head(s) \in S /\ Tail(s) \in Seq(S)
  BY HeadTailProperties
<1> QED
  BY <1>2, <1>3, <1>4

\* Every two elements of rest appear in whole in the same order.
InOrderOf(rest, whole) ==
    \A i, j \in 1..Len(rest) : i < j =>
        \E k, l \in 1..Len(whole) : k < l /\ rest[i] = whole[k] /\ rest[j] = whole[l]

\* A sequence in which one element is left out keeps the order of the others.
LEMMA OneLeftOut ==
    ASSUME NEW S, NEW s \in Seq(S), NEW t \in Seq(S), NEW x \in S
    PROVE  InOrderOf(s \o t, (s \o <<x>>) \o t)
<1> DEFINE whole == (s \o <<x>>) \o t
           rest  == s \o t
<1>1. <<x>> \in Seq(S) /\ Len(<<x>>) = 1
  OBVIOUS
<1>2. Len(s) \in Nat /\ Len(t) \in Nat
  BY LenProperties
<1>3. /\ s \o <<x>> \in Seq(S) /\ Len(s \o <<x>>) = Len(s) + 1
      /\ \A i \in 1..(Len(s) + 1) : i <= Len(s) => (s \o <<x>>)[i] = s[i]
  BY <1>1, <1>2, ConcatProperties
<1>4. /\ Len(whole) = Len(s) + 1 + Len(t)
      /\ \A i \in 1..(Len(s) + 1 + Len(t)) :
            whole[i] = IF i <= Len(s) + 1 THEN (s \o <<x>>)[i] ELSE t[i - (Len(s) + 1)]
  BY <1>3, ConcatProperties
<1>5. /\ Len(rest) = Len(s) + Len(t)
      /\ \A i \in 1..(Len(s) + Len(t)) : rest[i] = IF i <= Len(s) THEN s[i] ELSE t[i - Len(s)]
  BY ConcatProperties
<1> DEFINE at(i) == IF i <= Len(s) THEN i ELSE i + 1
<1> HIDE DEF whole, rest
<1>6. \A i \in 1..Len(rest) : at(i) \in 1..Len(whole) /\ rest[i] = whole[at(i)]
  <2> TAKE i \in 1..Len(rest)
  <2>1. CASE i <= Len(s)
    <3>1. rest[i] = s[i] /\ i \in 1..(Len(s) + 1)
      BY <1>2, <1>5, <2>1
    <3>2. whole[i] = (s \o <<x>>)[i] /\ i \in 1..Len(whole)
      BY <1>2, <1>4, <1>5, <2>1
    <3>3. (s \o <<x>>)[i] = s[i]
      BY <1>3, <2>1, <3>1
    <3> QED
      BY <2>1, <3>1, <3>2, <3>3
  <2>2. CASE i > Len(s)
    <3>1. rest[i] = t[i - Len(s)] /\ i + 1 \in 1..Len(whole)
      BY <1>2, <1>4, <1>5, <2>2
    <3>2. whole[i + 1] = t[(i + 1) - (Len(s) + 1)]
      BY <1>2, <1>4, <2>2, <3>1
    <3>3. (i + 1) - (Len(s) + 1) = i - Len(s) /\ ~(i <= Len(s))
      BY <1>2, <1>5, <2>2
    <3> QED
      BY <3>1, <3>2, <3>3
  <2> QED
    BY <1>2, <1>5, <2>1, <2>2
<1>7. \A i, j \in 1..Len(rest) : i < j => at(i) < at(j)
  BY <1>2, <1>5
<1> QED
  BY <1>6, <1>7 DEF whole, rest, InOrderOf

-----------------------------------------------------------------------------
(* The records logged, being logged and queued.                            *)

\* What is kept of the logged records l, the record rec in the writer's hands
\* and the queue q.
KeptOf(l, rec, q) == l \o SetToSeq(rec \ ToSet(l)) \o q

\* The same of the current state.
LEMMA KeptIsKeptOf == Kept = KeptOf(logs, record, queue)
BY DEF Kept, KeptOf

\* The writer holds nothing, or a record that is logged already.
LEMMA NothingInHand ==
    ASSUME NEW l \in Seq(Requests), NEW q, NEW rec, rec \subseteq ToSet(l)
    PROVE  KeptOf(l, rec, q) = l \o q
<1>1. rec \ ToSet(l) = {}
  OBVIOUS
<1>2. l \o <<>> = l
  BY ConcatEmptySeq
<1> QED
  BY <1>1, <1>2, EmptyToSeq DEF KeptOf

\* The writer holds a record it has yet to log.
LEMMA OneInHand ==
    ASSUME NEW l, NEW q, NEW x, x \notin ToSet(l)
    PROVE  KeptOf(l, {x}, q) = (l \o <<x>>) \o q
<1>1. {x} \ ToSet(l) = {x}
  OBVIOUS
<1> QED
  BY <1>1, SingletonToSeq DEF KeptOf

\* One more record at the end of the log.
LEMMA OneMoreLogged ==
    ASSUME NEW l \in Seq(Requests), NEW x \in Requests
    PROVE  l \o <<x>> \in Seq(Requests) /\ ToSet(l \o <<x>>) = ToSet(l) \cup {x}
<1>1. l \o <<x>> = Append(l, x)
  BY AppendIsConcat
<1>2. Append(l, x) \in Seq(Requests) /\ ToSet(Append(l, x)) = ToSet(l) \cup {x}
  BY AppendElements, AppendProperties
<1> QED
  BY <1>1, <1>2, Zenon

\* No record was handed in before itself.
LEMMA NeverBeforeItself == ASSUME TypeOK, OneFate PROVE \A r : ~Before(r, r)
<1>1. DOMAIN submitted = 1..Len(submitted) /\ Len(submitted) \in Nat
  BY LenProperties DEF TypeOK
<1> QED
  BY <1>1 DEF OneFate, Before, IsInjective

\* As long as nothing is submitted or lost, what is kept has one fate.
LEMMA FateKept ==
    ASSUME OneFate, Kept' = Kept, UNCHANGED <<submitted, dropped, failed, panicked>>
    PROVE  OneFate'
<1>1. \A q, r : Before(q, r)' = Before(q, r)
  BY DEF Before
<1> QED
  BY <1>1 DEF OneFate

\* What is kept is a sequence of records.
LEMMA RecordInSeq ==
    ASSUME TypeOK, OneRecordEach
    PROVE  logs \o SetToSeq(record \ ToSet(logs)) \in Seq(Requests)
<1>1. record \ ToSet(logs) = {} \/ \E x \in Requests : record \ ToSet(logs) = {x}
  BY DEF TypeOK, OneRecordEach
<1>2. \A x \in Requests : <<x>> \in Seq(Requests)
  OBVIOUS
<1>3. SetToSeq(record \ ToSet(logs)) \in Seq(Requests)
  <2>1. CASE record \ ToSet(logs) = {}
    BY <2>1, EmptyToSeq, EmptySeq
  <2>2. CASE \E x \in Requests : record \ ToSet(logs) = {x}
    BY <1>2, <2>2, SingletonToSeq
  <2> QED
    BY <1>1, <2>1, <2>2
<1> QED
  BY <1>3, ConcatProperties DEF TypeOK

\* Everything kept is a sequence of records.
LEMMA KeptInSeq == ASSUME TypeOK, OneRecordEach PROVE Kept \in Seq(Requests)
BY RecordInSeq, ConcatProperties DEF Kept, TypeOK

\* Record r is handed in: the order of the others stays, and r comes last.
LEMMA HandedIn ==
    ASSUME TypeOK, OneRecordEach, OneFate, NEW r \in Requests, r \notin ToSet(submitted),
           submitted' = Append(submitted, r)
    PROVE  /\ IsInjective(submitted')
           /\ ToSet(submitted') = ToSet(submitted) \cup {r}
           /\ \A p, q : Before(p, q) => Before(p, q)'
           /\ \A p \in ToSet(submitted) : Before(p, r)'
<1> USE DEF TypeOK
<1>1. /\ Len(submitted) \in Nat /\ Len(submitted') = Len(submitted) + 1
      /\ \A i \in 1..Len(submitted) : submitted'[i] = submitted[i]
      /\ submitted'[Len(submitted) + 1] = r
  BY AppendProperties, LenProperties
<1>2. DOMAIN submitted = 1..Len(submitted) /\ DOMAIN submitted' = 1..(Len(submitted) + 1)
  BY <1>1, AppendProperties, LenProperties
<1>3. \A p : p \in ToSet(submitted) <=> \E i \in 1..Len(submitted) : p = submitted[i]
  BY ElementsOf
<1>4. IsInjective(submitted')
  <2>1. \A i, j \in 1..Len(submitted) : submitted[i] = submitted[j] => i = j
    BY <1>2 DEF OneFate, IsInjective
  <2>2. \A i, j \in 1..(Len(submitted) + 1) : submitted'[i] = submitted'[j] => i = j
    BY <1>1, <1>3, <2>1
  <2> QED
    BY <1>2, <2>2 DEF IsInjective
<1>5. ToSet(submitted') = ToSet(submitted) \cup {r}
  BY AppendElements
<1>6. \A p, q : Before(p, q) => Before(p, q)'
  BY <1>1 DEF Before
<1>7. \A p \in ToSet(submitted) : Before(p, r)'
  <2> SUFFICES ASSUME NEW i \in 1..Len(submitted)
               PROVE  Before(submitted[i], r)'
    BY <1>3
  <2>1. submitted'[i] = submitted[i] /\ i < Len(submitted) + 1
    BY <1>1
  <2>2. i \in 1..Len(submitted') /\ Len(submitted) + 1 \in 1..Len(submitted')
    BY <1>1
  <2> QED
    BY <1>1, <2>1, <2>2 DEF Before
<1> QED
  BY <1>4, <1>5, <1>6, <1>7

\* A record that is handed in and kept comes after all others.
LEMMA FateGrows ==
    ASSUME TypeOK, OneRecordEach, OneFate, NEW r \in Requests, r \notin ToSet(submitted),
           submitted' = Append(submitted, r), Kept' = Append(Kept, r),
           UNCHANGED <<dropped, failed, panicked>>
    PROVE  OneFate'
<1>1. Kept \in Seq(Requests)
  BY KeptInSeq
<1>2. /\ Len(Kept) \in Nat /\ Len(Kept') = Len(Kept) + 1
      /\ \A i \in 1..Len(Kept) : Kept'[i] = Kept[i]
      /\ Kept'[Len(Kept) + 1] = r
  BY <1>1, AppendProperties, LenProperties
<1>3. ToSet(Kept') = ToSet(Kept) \cup {r}
  BY <1>1, AppendElements
<1>4. \A i \in 1..Len(Kept) : Kept[i] \in ToSet(submitted)
  BY <1>1, ElementsOf DEF OneFate
<1>5. \A i, j \in 1..Len(Kept) : i < j => Before(Kept[i], Kept[j])
  BY DEF OneFate
<1>6. \A i, j \in 1..(Len(Kept) + 1) : i < j => Before(Kept[i], Kept[j])'
  <2> TAKE i, j \in 1..(Len(Kept) + 1)
  <2> HAVE i < j
  <2>1. i \in 1..Len(Kept) /\ Kept'[i] = Kept[i]
    BY <1>2
  <2>2. CASE j \in 1..Len(Kept)
    BY <1>2, <1>5, <2>1, <2>2, HandedIn
  <2>3. CASE j = Len(Kept) + 1
    BY <1>2, <1>4, <2>1, <2>3, HandedIn
  <2> QED
    BY <1>2, <2>2, <2>3
<1>7. ToSet(Kept') = ToSet(submitted') \ (dropped \cup failed \cup panicked)
  BY <1>3, HandedIn DEF OneFate, OneRecordEach
<1> QED
  BY <1>2, <1>6, <1>7, HandedIn DEF OneFate

\* A record that is handed in and lost leaves what is kept as it was.
LEMMA FateLost ==
    ASSUME TypeOK, OneRecordEach, OneFate, NEW r \in Requests, r \notin ToSet(submitted),
           submitted' = Append(submitted, r), Kept' = Kept,
           dropped' \cup failed' \cup panicked' = dropped \cup failed \cup panicked \cup {r}
    PROVE  OneFate'
<1>1. \A i, j \in 1..Len(Kept) : i < j => Before(Kept[i], Kept[j])'
  BY HandedIn DEF OneFate
<1>2. ToSet(Kept) = ToSet(submitted') \ (dropped' \cup failed' \cup panicked')
  BY HandedIn DEF OneFate
<1> QED
  BY <1>1, <1>2, HandedIn DEF OneFate

-----------------------------------------------------------------------------
(* Every step keeps the invariant.                                         *)

\* A request is accepted: nothing is recorded yet.
LEMMA AcceptKeeps == ASSUME IInv, NEW r \in Requests, Accept(r) PROVE IInv'
<1> USE DEF IInv, Accept, requestVars, writerVars, mainVars
<1>1. TypeOK'
  BY DEF TypeOK, Stages
<1>2. OneFate'
  <2>1. Kept' = Kept
    BY DEF Kept
  <2> QED
    BY <2>1, FateKept
<1>3. OneRecordEach'
  BY DEF OneRecordEach, TypeOK
<1>4. ShutdownOrder'
  BY DEF ShutdownOrder, Serving, TypeOK, Stages
<1> QED
  BY <1>1, <1>2, <1>3, <1>4

\* A request ends: its record comes last in the queue, or is dropped, or panics
\* on the closed queue, which needs a request that outlived the deadline.
LEMMA RecordKeeps == ASSUME IInv, NEW r \in Requests, Record(r) PROVE IInv'
<1> USE DEF IInv
<1>1. /\ request[r] = "serving" /\ request' = [request EXCEPT ![r] = "done"]
      /\ submitted' = Append(submitted, r)
      /\ UNCHANGED <<closed, writerVars, mainVars>>
  BY DEF Record
<1>2. r \notin ToSet(submitted)
  BY <1>1 DEF OneRecordEach
<1>3. submitted' \in Seq(Requests) /\ ToSet(submitted') = ToSet(submitted) \cup {r}
  BY <1>1, AppendProperties, AppendElements DEF TypeOK
<1>4. request' \in [Requests -> {"new", "serving", "done"}]
  BY <1>1 DEF TypeOK
<1>5. {q \in Requests : request'[q] = "done"} = {q \in Requests : request[q] = "done"} \cup {r}
  BY <1>1 DEF TypeOK
<1>6. \/ queue' = queue /\ dropped' = dropped \cup {r} /\ panicked' = panicked
      \/ queue' = queue /\ dropped' = dropped /\ panicked' = panicked \cup {r} /\ closed
      \/ /\ queue' = Append(queue, r) /\ HasRoom
         /\ UNCHANGED <<dropped, panicked>> /\ ~closed
  BY DEF Record
<1>7. TypeOK'
  <2>1. queue' \in Seq(Requests) /\ Len(queue') <= Capacity
    <3>1. /\ queue \in Seq(Requests) /\ Len(queue) \in Nat /\ Len(queue) <= Capacity
          /\ Append(queue, r) \in Seq(Requests) /\ Len(Append(queue, r)) = Len(queue) + 1
      BY AppendProperties, LenProperties DEF TypeOK
    <3>2. HasRoom => Len(queue) + 1 <= Capacity
      BY <3>1, RecorderAssumption DEF HasRoom
    <3> QED
      BY <1>6, <3>1, <3>2
  <2>2. dropped' \cup failed' \cup panicked' \subseteq Requests
    BY <1>1, <1>6 DEF TypeOK, writerVars
  <2> QED
    BY <1>1, <1>3, <1>4, <2>1, <2>2 DEF TypeOK, writerVars, mainVars
<1>8. OneFate'
  <2>1. CASE queue' = queue
    <3>1. Kept' = Kept
      BY <1>1, <2>1 DEF Kept, writerVars
    <3>2. dropped' \cup failed' \cup panicked' = dropped \cup failed \cup panicked \cup {r}
      <4>1. ~(queue = Append(queue, r))
        BY AppendProperties, LenProperties DEF TypeOK
      <4> QED
        BY <1>1, <1>6, <2>1, <4>1 DEF writerVars
    <3> QED
      BY <1>1, <1>2, <3>1, <3>2, FateLost
  <2>2. CASE queue' = Append(queue, r) /\ UNCHANGED <<dropped, panicked>>
    <3>1. \A t \in Seq(Requests) : t \o Append(queue, r) = Append(t \o queue, r)
      <4> TAKE t \in Seq(Requests)
      <4>1. queue \in Seq(Requests) /\ <<r>> \in Seq(Requests) /\ t \o queue \in Seq(Requests)
        BY ConcatProperties DEF TypeOK
      <4>2. (t \o queue) \o <<r>> = t \o (queue \o <<r>>)
        BY <4>1, ConcatAssociative
      <4> QED
        BY <4>1, <4>2, AppendIsConcat
    <3>2. logs \o SetToSeq(record \ ToSet(logs)) \in Seq(Requests)
      BY RecordInSeq
    <3>3. Kept' = Append(Kept, r)
      BY <1>1, <2>2, <3>1, <3>2 DEF Kept, writerVars
    <3> QED
      BY <1>1, <1>2, <2>2, <3>3, FateGrows DEF writerVars
  <2> QED
    BY <1>6, <2>1, <2>2
<1>9. OneRecordEach'
  BY <1>1, <1>3, <1>5, <1>6 DEF OneRecordEach, writerVars
<1>10. ShutdownOrder'
  <2>1. writer # "stopped" \/ closed
    BY DEF ShutdownOrder
  <2>2. Serving' => Serving
    BY <1>1 DEF Serving, TypeOK
  <2>3. closed /\ Serving => timedOut
    BY DEF ShutdownOrder
  <2>4. Serving
    BY <1>1 DEF Serving
  <2> QED
    BY <1>1, <1>6, <2>1, <2>2, <2>3, <2>4 DEF ShutdownOrder, writerVars, mainVars
<1> QED
  BY <1>7, <1>8, <1>9, <1>10

\* The writer takes the head of the queue, which is next after the log and is
\* not logged yet: nothing came before itself.
LEMMA ReceiveKeeps == ASSUME IInv, Receive PROVE IInv'
<1> USE DEF IInv
<1>1. /\ writer = "receive" /\ writer' = "log" /\ queue # <<>>
      /\ record' = {Head(queue)} /\ queue' = Tail(queue)
      /\ UNCHANGED <<requestVars, closed, logs, payloads, failed, mainVars>>
  BY DEF Receive
<1>2. /\ Head(queue) \in Requests /\ queue' \in Seq(Requests) /\ Len(queue') = Len(queue) - 1
      /\ Len(queue) \in Nat
  BY <1>1, HeadTailProperties, LenProperties DEF TypeOK
<1>3. record = {} /\ Kept = logs \o queue
  BY <1>1, KeptIsKeptOf, NothingInHand DEF TypeOK
<1>4. Head(queue) \notin ToSet(logs)
  <2> SUFFICES ASSUME NEW i \in 1..Len(logs), logs[i] = Head(queue) PROVE FALSE
    BY ElementsOf DEF TypeOK
  <2>1. Len(logs) \in Nat /\ Len(Kept) = Len(logs) + Len(queue) /\ Len(queue) >= 1
    BY <1>1, <1>2, <1>3, ConcatProperties, LenProperties, EmptySeq DEF TypeOK
  <2>2. Kept[i] = logs[i] /\ Kept[Len(logs) + 1] = queue[1]
    BY <1>2, <1>3, <2>1, ConcatProperties DEF TypeOK
  <2>3. queue[1] = Head(queue)
    OBVIOUS
  <2>4. Before(Kept[i], Kept[Len(logs) + 1])
    BY <1>2, <2>1 DEF OneFate
  <2>5. ~Before(Head(queue), Head(queue))
    BY NeverBeforeItself
  <2> QED
    BY <2>2, <2>3, <2>4, <2>5
<1>5. TypeOK'
  <2>1. /\ queue \in Seq(Requests) /\ Len(queue) <= Capacity
        /\ request \in [Requests -> {"new", "serving", "done"}]
        /\ logs \in Seq(Requests) /\ submitted \in Seq(Requests)
    BY DEF TypeOK
  <2>2. Len(queue') <= Capacity
    BY <1>2, <2>1, RecorderAssumption
  <2>3. record' \subseteq Requests /\ record' # {}
    BY <1>1, <1>2
  <2> QED
    BY <1>1, <1>2, <2>2, <2>3 DEF TypeOK, requestVars, mainVars
<1>6. Kept' = Kept
  <2>1. Kept' = (logs \o <<Head(queue)>>) \o Tail(queue)
    <3>1. KeptOf(logs, {Head(queue)}, Tail(queue)) = (logs \o <<Head(queue)>>) \o Tail(queue)
      BY <1>4, OneInHand
    <3>2. logs' = logs /\ record' = {Head(queue)} /\ queue' = Tail(queue)
      BY <1>1
    <3>3. Kept' = KeptOf(logs', record', queue')
      BY DEF Kept, KeptOf
    <3> QED
      BY <3>1, <3>2, <3>3
  <2>2. (logs \o <<Head(queue)>>) \o Tail(queue) = logs \o (<<Head(queue)>> \o Tail(queue))
    BY <1>1, HeadFirst, ConcatAssociative DEF TypeOK
  <2> QED
    BY <1>1, <1>3, <2>1, <2>2, HeadFirst DEF TypeOK
<1>7. OneFate'
  BY <1>1, <1>6, FateKept DEF requestVars
<1>8. OneRecordEach'
  BY <1>1, <1>2, <1>4 DEF OneRecordEach, requestVars
<1>9. ShutdownOrder'
  BY <1>1 DEF ShutdownOrder, Serving, requestVars, mainVars
<1> QED
  BY <1>5, <1>7, <1>8, <1>9

\* SQLite refuses the row: one record leaves the middle of what is kept, and the
\* others keep their order.
LEMMA LogFailsKeeps == ASSUME IInv, LogFails PROVE IInv'
<1> USE DEF IInv
<1>1. /\ writer = "log" /\ failed' = failed \cup record
      /\ record' = {} /\ writer' = "receive"
      /\ UNCHANGED <<requestVars, queue, closed, logs, payloads, mainVars>>
  BY DEF LogFails
<1>2. PICK x \in Requests : record = {x} /\ x \notin ToSet(logs)
  BY <1>1 DEF OneRecordEach
<1>3. logs \in Seq(Requests) /\ queue \in Seq(Requests)
  BY DEF TypeOK
<1>4. TypeOK'
  BY <1>1, <1>2 DEF TypeOK, requestVars, mainVars
<1> DEFINE whole == (logs \o <<x>>) \o queue
           rest  == logs \o queue
<1>5. Kept = whole /\ Kept' = rest
  <2>1. KeptOf(logs, {x}, queue) = whole /\ KeptOf(logs, {}, queue) = rest
    <3>1. KeptOf(logs, {x}, queue) = (logs \o <<x>>) \o queue
      BY <1>2, OneInHand
    <3>2. KeptOf(logs, {}, queue) = logs \o queue
      BY <1>3, NothingInHand
    <3> QED
      BY <3>1, <3>2
  <2>2. Kept' = KeptOf(logs', record', queue')
    BY DEF Kept, KeptOf
  <2> QED
    BY <1>1, <1>2, <2>1, <2>2, KeptIsKeptOf
<1>6. /\ ToSet(whole) = ToSet(logs) \cup {x} \cup ToSet(queue)
      /\ ToSet(rest) = ToSet(logs) \cup ToSet(queue)
  <2>1. logs \o <<x>> \in Seq(Requests) /\ ToSet(logs \o <<x>>) = ToSet(logs) \cup {x}
    BY <1>3, OneMoreLogged
  <2>2. ToSet(whole) = ToSet(logs \o <<x>>) \cup ToSet(queue)
    <3>1. \A l \in Seq(Requests) : ToSet(l \o queue) = ToSet(l) \cup ToSet(queue)
      BY <1>3, ConcatElements
    <3> QED
      BY <2>1, <3>1, Zenon
  <2>3. ToSet(rest) = ToSet(logs) \cup ToSet(queue)
    BY <1>3, ConcatElements
  <2> QED
    BY <2>1, <2>2, <2>3
<1>7. x \notin ToSet(queue)
  <2> SUFFICES ASSUME NEW i \in 1..Len(queue), queue[i] = x PROVE FALSE
    BY <1>3, ElementsOf
  <2>1. /\ Len(logs) \in Nat /\ Len(queue) \in Nat
        /\ <<x>> \in Seq(Requests) /\ logs \o <<x>> \in Seq(Requests)
        /\ Len(logs \o <<x>>) = Len(logs) + 1 /\ (logs \o <<x>>)[Len(logs) + 1] = x
    BY <1>3, ConcatProperties, LenProperties
  <2>2. /\ Len(whole) = Len(logs) + 1 + Len(queue)
        /\ whole[Len(logs) + 1] = x /\ whole[Len(logs) + 1 + i] = queue[i]
    BY <1>3, <2>1, ConcatProperties
  <2>3. Before(whole[Len(logs) + 1], whole[Len(logs) + 1 + i])
    <3>1. /\ Len(logs) + 1 \in 1..Len(whole) /\ Len(logs) + 1 + i \in 1..Len(whole)
          /\ Len(logs) + 1 < Len(logs) + 1 + i
      BY <2>1, <2>2
    <3> HIDE DEF whole
    <3> QED
      BY <1>5, <3>1 DEF OneFate
  <2> QED
    BY <2>2, <2>3, NeverBeforeItself
<1>8. OneFate'
  <2>1. \A p, q : Before(p, q)' = Before(p, q)
    BY <1>1 DEF Before, requestVars
  <2>2. \A i, j \in 1..Len(rest) : i < j => Before(rest[i], rest[j])
    <3>1. \A i, j \in 1..Len(whole) : i < j => Before(whole[i], whole[j])
      BY <1>5 DEF OneFate
    <3>2. InOrderOf(rest, whole)
      BY <1>3, OneLeftOut, Zenon
    <3> HIDE DEF whole, rest
    <3> QED
      BY <3>1, <3>2 DEF InOrderOf
  <2>3. ToSet(rest) = ToSet(submitted) \ (dropped \cup failed \cup panicked \cup {x})
    BY <1>2, <1>5, <1>6, <1>7 DEF OneFate
  <2> QED
    BY <1>1, <1>2, <1>5, <2>1, <2>2, <2>3 DEF OneFate, requestVars
<1>9. OneRecordEach'
  <2>1. x \in ToSet(submitted)
    BY <1>5, <1>6 DEF OneFate
  <2> QED
    BY <1>1, <1>2, <2>1 DEF OneRecordEach, requestVars
<1>10. ShutdownOrder'
  BY <1>1 DEF ShutdownOrder, Serving, requestVars, mainVars
<1> QED
  BY <1>4, <1>8, <1>9, <1>10

\* The row is written: what is kept does not change.
LEMMA InsertLogKeeps == ASSUME IInv, InsertLog PROVE IInv'
<1> USE DEF IInv
<1>1. /\ writer = "log" /\ logs' = logs \o SetToSeq(record)
      /\ \/ writer' = "payload" /\ UNCHANGED record
         \/ writer' = "receive" /\ record' = {}
      /\ UNCHANGED <<requestVars, queue, closed, payloads, failed, mainVars>>
  BY DEF InsertLog
<1>2. PICK x \in Requests : record = {x} /\ x \notin ToSet(logs)
  BY <1>1 DEF OneRecordEach
<1>3. /\ logs' = logs \o <<x>> /\ logs' \in Seq(Requests)
      /\ ToSet(logs') = ToSet(logs) \cup {x}
  <2>1. logs \o <<x>> \in Seq(Requests) /\ ToSet(logs \o <<x>>) = ToSet(logs) \cup {x}
    BY OneMoreLogged DEF TypeOK
  <2>2. logs' = logs \o <<x>>
    BY <1>1, <1>2, SingletonToSeq
  <2> QED
    BY <2>1, <2>2
<1>4. TypeOK'
  BY <1>1, <1>2, <1>3 DEF TypeOK, requestVars, mainVars
<1>5. Kept' = Kept
  <2>1. Kept = (logs \o <<x>>) \o queue
    BY <1>2, KeptIsKeptOf, OneInHand
  <2>2. record' \subseteq ToSet(logs')
    BY <1>1, <1>2, <1>3
  <2>3. Kept' = logs' \o queue
    <3>1. KeptOf(logs', record', queue) = logs' \o queue
      BY <1>3, <2>2, NothingInHand
    <3>2. Kept' = KeptOf(logs', record', queue') /\ queue' = queue
      BY <1>1 DEF Kept, KeptOf
    <3> QED
      BY <3>1, <3>2
  <2> QED
    BY <1>3, <2>1, <2>3
<1>6. OneFate'
  BY <1>1, <1>5, FateKept DEF requestVars
<1>7. OneRecordEach'
  BY <1>1, <1>2, <1>3 DEF OneRecordEach, requestVars
<1>8. ShutdownOrder'
  BY <1>1 DEF ShutdownOrder, Serving, requestVars, mainVars
<1> QED
  BY <1>4, <1>6, <1>7, <1>8

\* The payload is written or refused: the row stays.
LEMMA InsertPayloadKeeps == ASSUME IInv, InsertPayload PROVE IInv'
<1> USE DEF IInv
<1>1. /\ writer = "payload" /\ record' = {} /\ writer' = "receive"
      /\ payloads' \in {payloads, payloads \cup record}
      /\ UNCHANGED <<requestVars, queue, closed, logs, failed, mainVars>>
  BY DEF InsertPayload
<1>2. record \subseteq ToSet(logs)
  BY <1>1 DEF OneRecordEach
<1>3. TypeOK'
  BY <1>1, <1>2 DEF TypeOK, requestVars, mainVars
<1>4. Kept' = Kept
  <2>1. KeptOf(logs, record, queue) = logs \o queue /\ KeptOf(logs, {}, queue) = logs \o queue
    BY <1>2, NothingInHand DEF TypeOK
  <2>2. Kept' = KeptOf(logs', record', queue')
    BY DEF Kept, KeptOf
  <2> QED
    BY <1>1, <2>1, <2>2, KeptIsKeptOf
<1>5. OneFate'
  BY <1>1, <1>4, FateKept DEF requestVars
<1>6. OneRecordEach' /\ ShutdownOrder'
  BY <1>1 DEF OneRecordEach, ShutdownOrder, Serving, requestVars, mainVars
<1> QED
  BY <1>3, <1>5, <1>6

\* The writer stops when the closed queue is empty.
LEMMA StopKeeps == ASSUME IInv, Stop PROVE IInv'
<1> USE DEF IInv, Stop, requestVars, writerVars, mainVars
<1>1. TypeOK'
  BY DEF TypeOK, Stages
<1>2. OneFate'
  <2>1. Kept' = Kept
    BY DEF Kept
  <2> QED
    BY <2>1, FateKept
<1>3. OneRecordEach'
  BY DEF OneRecordEach, TypeOK
<1>4. ShutdownOrder'
  BY DEF ShutdownOrder, Serving, TypeOK, Stages
<1> QED
  BY <1>1, <1>2, <1>3, <1>4

\* A signal stops the listener.
LEMMA BeginShutdownKeeps == ASSUME IInv, BeginShutdown PROVE IInv'
<1> USE DEF IInv, BeginShutdown, requestVars, writerVars, mainVars
<1>1. TypeOK'
  BY DEF TypeOK, Stages
<1>2. OneFate'
  <2>1. Kept' = Kept
    BY DEF Kept
  <2> QED
    BY <2>1, FateKept
<1>3. OneRecordEach'
  BY DEF OneRecordEach, TypeOK
<1>4. ShutdownOrder'
  BY DEF ShutdownOrder, Serving, TypeOK, Stages
<1> QED
  BY <1>1, <1>2, <1>3, <1>4

\* The server is drained: no request is left, or the deadline has passed.
LEMMA DrainKeeps == ASSUME IInv, Drain PROVE IInv'
<1> USE DEF IInv, Drain, requestVars, writerVars, mainVars
<1>1. TypeOK'
  <2>1. timedOut' \in BOOLEAN
    BY DEF Drain, Serving
  <2> QED
    BY <2>1 DEF TypeOK, Stages
<1>2. OneFate'
  <2>1. Kept' = Kept
    BY DEF Kept
  <2> QED
    BY <2>1, FateKept
<1>3. OneRecordEach'
  BY DEF OneRecordEach, TypeOK
<1>4. ShutdownOrder'
  BY DEF ShutdownOrder, Serving, TypeOK, Stages
<1> QED
  BY <1>1, <1>2, <1>3, <1>4

\* The queue is closed: from here on a record panics.
LEMMA CloseQueueKeeps == ASSUME IInv, CloseQueue PROVE IInv'
<1> USE DEF IInv, CloseQueue, requestVars, writerVars, mainVars
<1>1. TypeOK'
  BY DEF TypeOK, Stages
<1>2. OneFate'
  <2>1. Kept' = Kept
    BY DEF Kept
  <2> QED
    BY <2>1, FateKept
<1>3. OneRecordEach'
  BY DEF OneRecordEach, TypeOK
<1>4. ShutdownOrder'
  BY DEF ShutdownOrder, Serving, TypeOK, Stages
<1> QED
  BY <1>1, <1>2, <1>3, <1>4

\* Shutdown goes on when the writer has stopped, and so has emptied the queue.
LEMMA WaitWriterKeeps == ASSUME IInv, WaitWriter PROVE IInv'
<1> USE DEF IInv, WaitWriter, requestVars, writerVars, mainVars
<1>1. TypeOK'
  BY DEF TypeOK, Stages
<1>2. OneFate'
  <2>1. Kept' = Kept
    BY DEF Kept
  <2> QED
    BY <2>1, FateKept
<1>3. OneRecordEach'
  BY DEF OneRecordEach, TypeOK
<1>4. ShutdownOrder'
  BY DEF ShutdownOrder, Serving, TypeOK, Stages
<1> QED
  BY <1>1, <1>2, <1>3, <1>4

\* The database is closed after the writer stopped.
LEMMA CloseDbKeeps == ASSUME IInv, CloseDb PROVE IInv'
<1> USE DEF IInv, CloseDb, requestVars, writerVars, mainVars
<1>1. TypeOK'
  BY DEF TypeOK, Stages
<1>2. OneFate'
  <2>1. Kept' = Kept
    BY DEF Kept
  <2> QED
    BY <2>1, FateKept
<1>3. OneRecordEach'
  BY DEF OneRecordEach, TypeOK
<1>4. ShutdownOrder'
  BY DEF ShutdownOrder, Serving, TypeOK, Stages
<1> QED
  BY <1>1, <1>2, <1>3, <1>4

\* The process ends.
LEMMA ExitKeeps == ASSUME IInv, Exit PROVE IInv'
<1> USE DEF IInv, Exit, requestVars, writerVars, mainVars
<1>1. TypeOK'
  BY DEF TypeOK, Stages
<1>2. OneFate'
  <2>1. Kept' = Kept
    BY DEF Kept
  <2> QED
    BY <2>1, FateKept
<1>3. OneRecordEach'
  BY DEF OneRecordEach, TypeOK
<1>4. ShutdownOrder'
  BY DEF ShutdownOrder, Serving, TypeOK, Stages
<1> QED
  BY <1>1, <1>2, <1>3, <1>4

\* A started process has handed in nothing.
LEMMA InitEstablishes == ASSUME Init PROVE IInv
<1> USE DEF Init
<1>1. Kept = <<>>
  <2>1. KeptOf(<<>>, {}, <<>>) = <<>> \o <<>>
    BY NothingInHand, EmptySeq
  <2> QED
    BY <2>1, KeptIsKeptOf
<1>2. ToSet(<<>>) = {}
  BY DEF ToSet
<1>3. TypeOK
  <2>1. <<>> \in Seq(Requests) /\ Len(<<>>) = 0 /\ 0 <= Capacity
    BY EmptySeq, RecorderAssumption
  <2>2. request \in [Requests -> {"new", "serving", "done"}]
    OBVIOUS
  <2> QED
    BY <1>2, <2>1, <2>2 DEF TypeOK, Stages
<1>4. OneFate
  BY <1>1, <1>2 DEF OneFate, IsInjective
<1>5. OneRecordEach
  BY <1>2 DEF OneRecordEach
<1>6. ShutdownOrder
  BY DEF ShutdownOrder, Serving
<1> QED
  BY <1>3, <1>4, <1>5, <1>6 DEF IInv

\* A stuttering step.
LEMMA NothingChanges == ASSUME IInv, UNCHANGED vars PROVE IInv'
<1> USE DEF vars, requestVars, writerVars, mainVars
<1>1. TypeOK'
  BY DEF IInv, TypeOK
<1>2. OneFate'
  <2>1. Kept' = Kept
    BY DEF Kept
  <2> QED
    BY <2>1, FateKept DEF IInv
<1>3. OneRecordEach' /\ ShutdownOrder'
  BY DEF IInv, OneRecordEach, ShutdownOrder, Serving
<1> QED
  BY <1>1, <1>2, <1>3 DEF IInv

\* Requests, the writer and the shutdown interleave as they like.
LEMMA StepKeeps == ASSUME IInv, [Next]_vars PROVE IInv'
<1>1. CASE \E r \in Requests : Accept(r) \/ Record(r)
  BY <1>1, AcceptKeeps, RecordKeeps
<1>2. CASE Write
  BY <1>2, ReceiveKeeps, LogFailsKeeps, InsertLogKeeps, InsertPayloadKeeps, StopKeeps DEF Write
<1>3. CASE BeginShutdown \/ ShutDown
  BY <1>3, BeginShutdownKeeps, DrainKeeps, CloseQueueKeeps, WaitWriterKeeps, CloseDbKeeps,
     ExitKeeps DEF ShutDown
<1>4. CASE UNCHANGED vars
  BY <1>4, NothingChanges
<1> QED
  BY <1>1, <1>2, <1>3, <1>4 DEF Next

\* The invariant holds however requests end while the queue is full, SQLite
\* refuses a row or the process shuts down (recorder.go, main.go:189-214).
THEOREM IInvHolds == Spec => []IInv
BY InitEstablishes, StepKeeps, PTL DEF Spec

-----------------------------------------------------------------------------
(* What it implies.                                                        *)

\* The log and the queue are sequences of the requests' records, and the
\* queue never outgrows its channel's capacity (recorder.go:41-49).
THEOREM TypeCorrect == Spec => []TypeOK
<1>1. IInv => TypeOK
  BY DEF IInv
<1> QED
  BY <1>1, IInvHolds, PTL

\* A record passes from the queue to the log in the order in which the requests
\* ended, or is dropped, failed or lost to a panic: none is lost otherwise,
\* overtaken or logged twice, for any number of requests and any capacity of
\* the queue (recorder.go:51-110).
THEOREM RecordsHaveOneFate == Spec => []OneFate
<1>1. IInv => OneFate
  BY DEF IInv
<1> QED
  BY <1>1, IInvHolds, PTL

\* Shutting the server down, closing the queue, waiting for the writer and
\* closing the database in this order loses no record of a request that ended
\* before the deadline (main.go:189-214).
THEOREM GracefulExit == Spec => []GracefulExitKeepsRecords
<1>1. ASSUME IInv, main = "exited", ~timedOut, NEW r \in Requests, request[r] # "new"
      PROVE  r \in ToSet(logs) \cup dropped \cup failed
  <2>1. ~Serving /\ writer = "stopped" /\ queue = <<>> /\ panicked = {}
    BY <1>1 DEF IInv, ShutdownOrder
  <2>2. r \in ToSet(submitted)
    BY <1>1, <2>1 DEF IInv, TypeOK, OneRecordEach, Serving
  <2>3. Kept = logs
    <3>1. record = {} /\ logs \in Seq(Requests)
      BY <1>1, <2>1 DEF IInv, TypeOK
    <3>2. KeptOf(logs, {}, <<>>) = logs \o <<>> /\ logs \o <<>> = logs
      BY <3>1, NothingInHand, ConcatEmptySeq
    <3> QED
      BY <2>1, <3>1, <3>2, KeptIsKeptOf
  <2> QED
    BY <1>1, <2>1, <2>2, <2>3 DEF IInv, OneFate
<1>2. IInv => GracefulExitKeepsRecords
  BY <1>1 DEF GracefulExitKeepsRecords
<1> QED
  BY <1>2, IInvHolds, PTL

=============================================================================
