---------------------------- MODULE TcpSendProof ----------------------------
(***************************************************************************)
(* Proofs about the sending of a connection (TcpSend): the queues and what *)
(* they count, the timers, and that the client gets the byte stream.       *)
(***************************************************************************)
EXTENDS TcpSend, SequenceTheorems, WellFoundedInduction, TLAPS

-----------------------------------------------------------------------------
(* Least elements and induction, from the well-founded order of Nat.       *)

Smaller == {p \in Nat \X Nat : p[1] < p[2]}

\* The naturals are well-founded under <.
LEMMA SmallerWF == IsWellFoundedOn(Smaller, Nat)
<1>1. IsWellFoundedOn(OpToRel(<, Nat), Nat)
  BY NatLessThanWellFounded
<1>2. OpToRel(<, Nat) = Smaller
  BY DEF OpToRel, Smaller
<1> QED
  BY <1>1, <1>2

\* A set of naturals with an element has a least one.
LEMMA Least ==
  ASSUME NEW S \in SUBSET Nat, S # {}
  PROVE  \E n \in S : \A m \in S : n <= m
<1>1. PICK n \in S : \A m \in S : ~ (<<m, n>> \in Smaller)
  BY SmallerWF, WFMin
<1>2. ASSUME NEW m \in S PROVE n <= m
  <2>1. n \in Nat /\ m \in Nat
    OBVIOUS
  <2>2. <<m, n>> \notin Smaller
    BY <1>1
  <2>3. m < n => <<m, n>> \in Smaller
    BY <2>1 DEF Smaller
  <2> QED
    BY <2>1, <2>2, <2>3
<1> QED
  BY <1>2

\* Min of a set of naturals is its least element.
LEMMA MinIs ==
  ASSUME NEW S \in SUBSET Nat, S # {}
  PROVE  Min(S) \in S /\ \A m \in S : Min(S) <= m
  BY Least DEF Min

\* Induction over the naturals, for a set.
LEMMA Induction ==
  ASSUME NEW S, 0 \in S, \A n \in Nat : n \in S => n + 1 \in S
  PROVE  Nat \subseteq S
<1> SUFFICES ASSUME Nat \ S # {} PROVE FALSE
  OBVIOUS
<1>1. PICK n \in Nat \ S : \A m \in Nat \ S : n <= m
  BY Least
<1>2. n # 0 /\ n - 1 \in Nat /\ n - 1 \in S
  BY <1>1
<1> QED
  BY <1>1, <1>2

\* Max of a bounded set of naturals is its greatest element.
LEMMA MaxIs ==
  ASSUME NEW S \in SUBSET Nat, S # {}, NEW b \in Nat, \A m \in S : m <= b
  PROVE  Max(S) \in S /\ \A m \in S : Max(S) >= m
<1> DEFINE T == {b - m : m \in S}
<1>1. PICK k \in T : \A j \in T : k <= j
  <2>1. \A m \in S : b - m \in Nat
    OBVIOUS
  <2>2. T \in SUBSET Nat
    BY <2>1
  <2>3. T # {}
    OBVIOUS
  <2> QED
    BY <2>2, <2>3, Least
<1>2. PICK m \in S : k = b - m
  OBVIOUS
<1>3. \A j \in S : m >= j
  BY <1>1, <1>2
<1> QED
  BY <1>3 DEF Max

\* How far a property reaches from the front: k of the first n.
LEMMA Leading ==
  ASSUME NEW n \in Nat, NEW T,
         NEW K, K = {0} \cup {k \in 1..n : \A i \in 1..k : i \in T}
  PROVE  /\ Max(K) \in 0..n
         /\ \A i \in 1..Max(K) : i \in T
         /\ Max(K) < n => Max(K) + 1 \notin T
<1>1. K \in SUBSET Nat /\ K # {} /\ \A m \in K : m <= n
  OBVIOUS
<1>2. Max(K) \in K /\ \A m \in K : Max(K) >= m
  BY <1>1, MaxIs
<1>3. Max(K) \in 0..n /\ \A i \in 1..Max(K) : i \in T
  BY <1>1, <1>2
<1>4. ASSUME Max(K) < n, Max(K) + 1 \in T PROVE FALSE
  <2>1. PICK k \in Nat : k = Max(K)
    BY <1>3
  <2>2. k + 1 \in 1..n /\ \A i \in 1..k + 1 : i \in T
    BY <1>3, <1>4, <2>1
  <2>3. k + 1 \in K
    BY <2>2
  <2>4. k >= k + 1
    BY <1>2, <2>1, <2>3
  <2> QED
    BY <2>1, <2>4
<1> QED
  BY <1>3, <1>4

-----------------------------------------------------------------------------
(* Queues of segments.                                                     *)

Segment == [seq : Nat, data : Seq(Nat), bufs : Nat]

\* A sequence is its first m elements and then the others.
LEMMA SplitIs ==
  ASSUME NEW S, NEW b \in Seq(S), NEW m \in 0..Len(b)
  PROVE  /\ SubSeq(b, 1, m) \in Seq(S) /\ SubSeq(b, m + 1, Len(b)) \in Seq(S)
         /\ Len(SubSeq(b, 1, m)) = m /\ Len(SubSeq(b, m + 1, Len(b))) = Len(b) - m
         /\ SubSeq(b, 1, m) \o SubSeq(b, m + 1, Len(b)) = b
<1>1. Len(b) \in Nat /\ \A i \in 1..Len(b) : b[i] \in S
  BY LenProperties, ElementOfSeq
<1>2. SubSeq(b, 1, m) \in Seq(S) /\ Len(SubSeq(b, 1, m)) = m
  <2>1. \A i \in 1..m : b[i] \in S
    BY <1>1
  <2> QED
    BY <2>1, <1>1, SubSeqProperties
<1>3. /\ SubSeq(b, m + 1, Len(b)) \in Seq(S)
      /\ Len(SubSeq(b, m + 1, Len(b))) = Len(b) - m
  <2>1. \A i \in m + 1..Len(b) : b[i] \in S
    BY <1>1
  <2>2. Len(SubSeq(b, m + 1, Len(b))) =
           IF m + 1 <= Len(b) THEN Len(b) - (m + 1) + 1 ELSE 0
    BY <2>1, <1>1, SubSeqProperties
  <2>3. SubSeq(b, m + 1, Len(b)) \in Seq(S)
    BY <2>1, <1>1, SubSeqProperties
  <2> QED
    BY <2>2, <2>3, <1>1
<1>4. SubSeq(b, 1, m) \o SubSeq(b, m + 1, Len(b)) = b
  <2>1. 1 \in 1..Len(b) + 1 /\ m \in 1 - 1..Len(b) /\ Len(b) \in m..Len(b)
    BY <1>1
  <2>2. SubSeq(b, 1, m) \o SubSeq(b, m + 1, Len(b)) = SubSeq(b, 1, Len(b))
    BY <2>1, ConcatAdjacentSubSeq
  <2> QED
    BY <2>2, SubSeqFull
<1> QED
  BY <1>2, <1>3, <1>4

\* The same behind another sequence.
LEMMA Regrouped ==
  ASSUME NEW S, NEW a \in Seq(S), NEW b \in Seq(S), NEW m \in 0..Len(b)
  PROVE  (a \o SubSeq(b, 1, m)) \o SubSeq(b, m + 1, Len(b)) = a \o b
<1>1. PICK x \in Seq(S), y \in Seq(S) :
        x = SubSeq(b, 1, m) /\ y = SubSeq(b, m + 1, Len(b)) /\ x \o y = b
  <2>1. /\ SubSeq(b, 1, m) \in Seq(S) /\ SubSeq(b, m + 1, Len(b)) \in Seq(S)
        /\ SubSeq(b, 1, m) \o SubSeq(b, m + 1, Len(b)) = b
    BY SplitIs
  <2> QED
    BY <2>1, Zenon
<1>2. (a \o x) \o y = a \o (x \o y)
  <2>1. \A s, t, u \in Seq(S) : (s \o t) \o u = s \o (t \o u)
    BY SMTT(30)
  <2> QED
    BY <2>1, ZenonT(60)
<1>3. (a \o x) \o y = a \o b
  BY <1>1, <1>2, Zenon
<1> QED
  BY <1>1, <1>3, Zenon

\* Where Inserted puts a segment: k is what it is put behind.
LEMMA InsertedIs ==
  ASSUME NEW segs \in Seq(Segment), NEW seg
  PROVE  \E k \in 0..Len(segs) :
           /\ Inserted(segs, seg) =
                SubSeq(segs, 1, k) \o <<seg>> \o SubSeq(segs, k + 1, Len(segs))
           /\ \A i \in 1..k : segs[i].seq < seg.seq
           /\ k < Len(segs) => ~(segs[k + 1].seq < seg.seq)
<1> DEFINE T == {i \in 1..Len(segs) : segs[i].seq < seg.seq}
           K == {0} \cup {k \in 1..Len(segs) : \A i \in 1..k : i \in T}
           J == {0} \cup {k \in 1..Len(segs) : \A i \in 1..k : segs[i].seq < seg.seq}
<1>1. Len(segs) \in Nat
  BY LenProperties
<1>2. K = J
  BY <1>1
<1>3. /\ Max(K) \in 0..Len(segs)
      /\ \A i \in 1..Max(K) : i \in T
      /\ Max(K) < Len(segs) => Max(K) + 1 \notin T
  <2> HIDE DEF T
  <2>1. PICK L : L = K
    OBVIOUS
  <2>2. L = {0} \cup {k \in 1..Len(segs) : \A i \in 1..k : i \in T}
    BY <2>1
  <2> HIDE DEF K
  <2> QED
    BY <1>1, <2>1, <2>2, Leading
<1>4. Inserted(segs, seg) =
        SubSeq(segs, 1, Max(J)) \o <<seg>> \o SubSeq(segs, Max(J) + 1, Len(segs))
  BY DEF Inserted
<1> HIDE DEF K, J
<1>5. PICK k \in 0..Len(segs) : k = Max(K)
  BY <1>3
<1>6. k < Len(segs) => k + 1 \in 1..Len(segs)
  BY <1>1
<1>7. k < Len(segs) => ~(segs[k + 1].seq < seg.seq)
  BY <1>3, <1>5, <1>6
<1>8. \A i \in 1..k : segs[i].seq < seg.seq
  BY <1>3, <1>5
<1> QED
  BY <1>2, <1>4, <1>5, <1>7, <1>8

\* A segment behind all of the queue is inserted as the last.
LEMMA InsertedLast ==
  ASSUME NEW segs \in Seq(Segment), NEW seg \in Segment,
         \A i \in 1..Len(segs) : segs[i].seq < seg.seq
  PROVE  Inserted(segs, seg) = Append(segs, seg)
<1>1. PICK k \in 0..Len(segs) :
           /\ Inserted(segs, seg) =
                SubSeq(segs, 1, k) \o <<seg>> \o SubSeq(segs, k + 1, Len(segs))
           /\ \A i \in 1..k : segs[i].seq < seg.seq
           /\ k < Len(segs) => ~(segs[k + 1].seq < seg.seq)
  BY InsertedIs
<1>2. Len(segs) \in Nat
  BY LenProperties
<1>3. k = Len(segs)
  <2>1. k < Len(segs) => k + 1 \in 1..Len(segs)
    BY <1>2
  <2> QED
    BY <1>1, <1>2, <2>1
<1>4. SubSeq(segs, 1, k) = segs /\ SubSeq(segs, k + 1, Len(segs)) = << >>
  BY <1>2, <1>3, SubSeqFull, SubSeqEmpty
<1>5. Append(segs, seg) = segs \o <<seg>> /\ Append(segs, seg) \in Seq(Segment)
  BY AppendIsConcat, AppendProperties
<1>6. (segs \o <<seg>>) \o << >> = segs \o <<seg>>
  BY <1>5, ConcatEmptySeq
<1> QED
  BY <1>1, <1>4, <1>5, <1>6

\* A segment in front of all of the queue is inserted as the first.
LEMMA InsertedFirst ==
  ASSUME NEW segs \in Seq(Segment), NEW seg \in Segment,
         \A i \in 1..Len(segs) : ~(segs[i].seq < seg.seq)
  PROVE  Inserted(segs, seg) = <<seg>> \o segs
<1>1. PICK k \in 0..Len(segs) :
           /\ Inserted(segs, seg) =
                SubSeq(segs, 1, k) \o <<seg>> \o SubSeq(segs, k + 1, Len(segs))
           /\ \A i \in 1..k : segs[i].seq < seg.seq
           /\ k < Len(segs) => ~(segs[k + 1].seq < seg.seq)
  BY InsertedIs
<1>2. Len(segs) \in Nat
  BY LenProperties
<1>3. k = 0
  <2>1. k # 0 => 1 \in 1..k /\ 1 \in 1..Len(segs)
    BY <1>2
  <2> QED
    BY <1>1, <2>1
<1>4. SubSeq(segs, 1, k) = << >> /\ SubSeq(segs, k + 1, Len(segs)) = segs
  BY <1>2, <1>3, SubSeqFull, SubSeqEmpty
<1>5. <<seg>> \in Seq(Segment)
  OBVIOUS
<1>6. << >> \o <<seg>> = <<seg>>
  BY <1>5, ConcatEmptySeq
<1> QED
  BY <1>1, <1>4, <1>6

\* The recursion of AllInserted has a solution.
LEMMA AllInsertedIs ==
  ASSUME NEW segs, NEW new, Len(new) \in Nat
  PROVE  \E queue : /\ AllInserted(segs, new) = queue[Len(new)]
                    /\ queue[0] = segs
                    /\ \A n \in 1..Len(new) : queue[n] = Inserted(queue[n - 1], new[n])
<1> DEFINE step(f, n) == IF n = 0 THEN segs ELSE Inserted(f[n - 1], new[n])
           solves(f, m) == f = [n \in 0..m |-> step(f, n)]
           M == {m \in Nat : \E f : solves(f, m)}
<1>1. Nat \subseteq M
  <2>1. 0 \in M
    <3> DEFINE f == [n \in 0..0 |-> segs]
    <3>1. f = [n \in 0..0 |-> step(f, n)]
      OBVIOUS
    <3>2. solves(f, 0)
      BY <3>1
    <3> HIDE DEF f, solves
    <3> QED
      BY <3>2
  <2>2. ASSUME NEW m \in Nat, m \in M PROVE m + 1 \in M
    <3>1. PICK f : f = [n \in 0..m |-> step(f, n)]
      BY <2>2
    <3> DEFINE g == [n \in 0..m + 1 |-> IF n = m + 1 THEN Inserted(f[m], new[m + 1])
                                        ELSE f[n]]
    <3>2. ASSUME NEW n \in 0..m + 1 PROVE g[n] = step(g, n)
      <4>1. CASE n = m + 1
        <5>1. n # 0 /\ n - 1 = m /\ g[m] = f[m] /\ g[n] = Inserted(f[m], new[m + 1])
          BY <4>1
        <5> QED
          BY <4>1, <5>1
      <4>2. CASE n # m + 1 /\ n # 0
        <5>1. PICK k \in 0..m : k = n - 1
          BY <4>2
        <5>2. n \in 0..m /\ g[n] = f[n] /\ g[k] = f[k]
          BY <4>2, <5>1
        <5> HIDE DEF g
        <5>3. f[n] = step(f, n)
          BY <3>1, <5>2
        <5> QED
          BY <4>2, <5>1, <5>2, <5>3
      <4>3. CASE n = 0
        <5>1. n \in 0..m /\ g[n] = f[n]
          BY <4>3
        <5> HIDE DEF g
        <5>2. f[n] = step(f, n)
          BY <3>1, <5>1
        <5> QED
          BY <4>3, <5>1, <5>2
      <4> QED
        BY <4>1, <4>2, <4>3
    <3>3. g = [n \in 0..m + 1 |-> g[n]]
      OBVIOUS
    <3> HIDE DEF g
    <3>4. g = [n \in 0..m + 1 |-> step(g, n)]
      BY <3>2, <3>3
    <3> QED
      BY <3>4
  <2> HIDE DEF M
  <2> QED
    BY <2>1, <2>2, Induction
<1>2. \E f : solves(f, Len(new))
  BY <1>1
<1> DEFINE queue == CHOOSE f : solves(f, Len(new))
<1>3. solves(queue, Len(new))
  <2> HIDE DEF solves
  <2> QED
    BY <1>2
<1>4. AllInserted(segs, new) = queue[Len(new)]
  BY DEF AllInserted
<1> HIDE DEF queue
<1>5. queue[0] = segs
  BY <1>3
<1>6. ASSUME NEW n \in 1..Len(new) PROVE queue[n] = Inserted(queue[n - 1], new[n])
  <2>1. n \in 0..Len(new) /\ n # 0
    OBVIOUS
  <2> QED
    BY <1>3, <2>1
<1> QED
  BY <1>4, <1>5, <1>6

\* From the m-th on, segments in order behind the queue are inserted as they are.
LEMMA InsertedOneByOne ==
  ASSUME NEW base \in Seq(Segment), NEW new \in Seq(Segment), NEW m \in 0..Len(new),
         NEW queue, queue[m] = base,
         \A n \in 1..Len(new) : queue[n] = Inserted(queue[n - 1], new[n]),
         \A i \in 1..Len(base), j \in 1..Len(new) : j > m => base[i].seq < new[j].seq,
         \A i, j \in 1..Len(new) : i < j => new[i].seq < new[j].seq
  PROVE  queue[Len(new)] = base \o SubSeq(new, m + 1, Len(new))
<1> DEFINE upTo(n) == base \o SubSeq(new, m + 1, n)
           M == {n \in Nat : m <= n /\ n <= Len(new) => queue[n] = upTo(n)}
<1>1. Len(new) \in Nat /\ Len(base) \in Nat /\ \A i \in 1..Len(new) : new[i] \in Segment
  BY LenProperties, ElementOfSeq
<1>2. queue[m] = upTo(m)
  <2>1. SubSeq(new, m + 1, m) = << >>
    BY SubSeqEmpty
  <2> QED
    BY <2>1, ConcatEmptySeq
<1>3. ASSUME NEW n \in Nat, m <= n, n < Len(new), queue[n] = upTo(n)
      PROVE  queue[n + 1] = upTo(n + 1)
  <2> DEFINE part == SubSeq(new, m + 1, n)
  <2>1. /\ part \in Seq(Segment) /\ Len(part) = n - m
        /\ \A i \in 1..n - m : part[i] = new[m + i]
    <3>1. \A i \in m + 1..n : new[i] \in Segment
      BY <1>1, <1>3
    <3>2. /\ part \in Seq(Segment)
          /\ Len(part) = IF m + 1 <= n THEN n - (m + 1) + 1 ELSE 0
          /\ \A i \in 1..n - (m + 1) + 1 : part[i] = new[m + 1 + i - 1]
      BY <3>1, SubSeqProperties
    <3> HIDE DEF part
    <3>3. Len(part) = n - m
      BY <3>2, <1>3
    <3>4. ASSUME NEW i \in 1..n - m PROVE part[i] = new[m + i]
      <4>1. i \in 1..n - (m + 1) + 1 /\ m + 1 + i - 1 = m + i
        BY <1>3
      <4> QED
        BY <3>2, <4>1
    <3> QED
      BY <3>2, <3>3, <3>4
  <2>2. n + 1 \in 1..Len(new) /\ (n + 1) - 1 = n /\ new[n + 1] \in Segment
    BY <1>1, <1>3
  <2>3. upTo(n) \in Seq(Segment) /\ Len(upTo(n)) = Len(base) + (n - m)
        /\ \A i \in 1..Len(base) + (n - m) :
             upTo(n)[i] = IF i <= Len(base) THEN base[i] ELSE part[i - Len(base)]
    <3> HIDE DEF part
    <3>1. base \o part \in Seq(Segment) /\ Len(base \o part) = Len(base) + Len(part)
          /\ \A i \in 1..Len(base) + Len(part) :
               (base \o part)[i] = IF i <= Len(base) THEN base[i] ELSE part[i - Len(base)]
      BY <2>1, ConcatProperties
    <3>2. upTo(n) = base \o part
      BY DEF part
    <3> HIDE DEF upTo
    <3> QED
      BY <2>1, <3>1, <3>2
  <2>4. ASSUME NEW i \in 1..Len(upTo(n)) PROVE upTo(n)[i].seq < new[n + 1].seq
    <3> HIDE DEF part, upTo
    <3>1. i \in 1..Len(base) + (n - m)
      BY <2>3
    <3>2. CASE i <= Len(base)
      <4>1. i \in 1..Len(base) /\ upTo(n)[i] = base[i] /\ n + 1 > m
        BY <1>1, <1>3, <2>3, <3>1, <3>2
      <4> QED
        BY <2>2, <4>1
    <3>3. CASE ~(i <= Len(base))
      <4>1. \A b, c, x \in Nat : x \in 1..b + c /\ ~(x <= b) => x - b \in 1..c
        OBVIOUS
      <4>2. n - m \in Nat /\ i \in Nat
        BY <1>1, <1>3, <3>1
      <4>3. i - Len(base) \in 1..n - m
        BY <1>1, <3>1, <3>3, <4>1, <4>2
      <4>4. PICK k \in 1..n - m : k = i - Len(base)
        BY <4>3
      <4>5. upTo(n)[i] = new[m + k]
        BY <2>1, <2>3, <3>1, <3>3, <4>4
      <4>6. m + k \in 1..Len(new) /\ m + k < n + 1
        BY <1>1, <1>3
      <4> QED
        BY <2>2, <4>5, <4>6
    <3> QED
      BY <3>2, <3>3
  <2>5. queue[n + 1] = Inserted(upTo(n), new[n + 1])
    BY <1>3, <2>2
  <2>6. Inserted(upTo(n), new[n + 1]) = Append(upTo(n), new[n + 1])
    <3> HIDE DEF upTo
    <3> QED
      BY <2>2, <2>3, <2>4, InsertedLast
  <2>7. Append(upTo(n), new[n + 1]) = upTo(n) \o <<new[n + 1]>>
    <3> HIDE DEF upTo
    <3> QED
      BY <2>2, <2>3, AppendIsConcat
  <2>8. SubSeq(new, m + 1, n + 1) = part \o <<new[n + 1]>>
    <3>1. m + 1 \in 1..Len(new) /\ n + 1 \in m + 1..Len(new)
      BY <1>1, <1>3
    <3>2. SubSeq(new, m + 1, n + 1) = SubSeq(new, m + 1, (n + 1) - 1) \o <<new[n + 1]>>
      BY <3>1, SubSeqRecursiveSecond
    <3> QED
      BY <2>2, <3>2
  <2>9. base \o (part \o <<new[n + 1]>>) = (base \o part) \o <<new[n + 1]>>
    <3>1. \A s, t, u \in Seq(Segment) : (s \o t) \o u = s \o (t \o u)
      BY SMTT(30)
    <3>2. <<new[n + 1]>> \in Seq(Segment)
      BY <2>2
    <3> HIDE DEF part
    <3> QED
      BY <2>1, <3>1, <3>2, ZenonT(60)
  <2> QED
    BY <2>5, <2>6, <2>7, <2>8, <2>9
<1>4. 0 \in M
  BY <1>1, <1>2
<1>5. ASSUME NEW n \in Nat, n \in M PROVE n + 1 \in M
  <2> HIDE DEF upTo
  <2>1. CASE m <= n
    BY <1>1, <1>3, <1>5, <2>1
  <2>2. CASE ~(m <= n)
    <3>1. m <= n + 1 => n + 1 = m
      BY <2>2
    <3> QED
      BY <1>2, <3>1
  <2> QED
    BY <2>1, <2>2
<1>6. Nat \subseteq M
  <2> HIDE DEF M
  <2> QED
    BY <1>4, <1>5, Induction
<1>7. Len(new) \in M
  <2> HIDE DEF M
  <2> QED
    BY <1>1, <1>6
<1>8. m <= Len(new)
  BY <1>1
<1> QED
  <2> HIDE DEF upTo
  <2>1. queue[Len(new)] = upTo(Len(new))
    BY <1>1, <1>7, <1>8
  <2> QED
    BY <2>1 DEF upTo

\* Segments sent for the first time go behind unacked.
LEMMA AllInsertedLast ==
  ASSUME NEW segs \in Seq(Segment), NEW new \in Seq(Segment),
         \A i \in 1..Len(segs), j \in 1..Len(new) : segs[i].seq < new[j].seq,
         \A i, j \in 1..Len(new) : i < j => new[i].seq < new[j].seq
  PROVE  AllInserted(segs, new) = segs \o new
<1>1. Len(new) \in Nat
  BY LenProperties
<1>2. PICK queue : /\ AllInserted(segs, new) = queue[Len(new)]
                   /\ queue[0] = segs
                   /\ \A n \in 1..Len(new) : queue[n] = Inserted(queue[n - 1], new[n])
  BY <1>1, AllInsertedIs
<1>3. queue[Len(new)] = segs \o SubSeq(new, 0 + 1, Len(new))
  <2>1. 0 \in 0..Len(new) /\
        \A i \in 1..Len(segs), j \in 1..Len(new) : j > 0 => segs[i].seq < new[j].seq
    BY <1>1
  <2> QED
    <3> SUFFICES ASSUME NEW m \in 0..Len(new), m = 0
                 PROVE  queue[Len(new)] = segs \o SubSeq(new, m + 1, Len(new))
      BY <2>1
    <3>1. queue[m] = segs /\
          \A i \in 1..Len(segs), j \in 1..Len(new) : j > m => segs[i].seq < new[j].seq
      BY <1>2, <2>1
    <3> QED
      BY <1>2, <3>1, InsertedOneByOne
<1> QED
  BY <1>2, <1>3, SubSeqFull

\* After a fast retransmission the first segment goes in front of unacked, the others behind.
LEMMA AllInsertedFirst ==
  ASSUME NEW segs \in Seq(Segment), NEW new \in Seq(Segment), Len(new) >= 1,
         \A i \in 1..Len(segs) : new[1].seq < segs[i].seq,
         \A i \in 1..Len(segs), j \in 1..Len(new) : j > 1 => segs[i].seq < new[j].seq,
         \A i, j \in 1..Len(new) : i < j => new[i].seq < new[j].seq
  PROVE  AllInserted(segs, new) = (<<new[1]>> \o segs) \o SubSeq(new, 2, Len(new))
<1>1. Len(new) \in Nat /\ Len(segs) \in Nat /\ 1 \in 1..Len(new) /\ new[1] \in Segment
      /\ \A i \in 1..Len(segs) : segs[i] \in Segment
  BY LenProperties, ElementOfSeq
<1>2. PICK queue : /\ AllInserted(segs, new) = queue[Len(new)]
                   /\ queue[0] = segs
                   /\ \A n \in 1..Len(new) : queue[n] = Inserted(queue[n - 1], new[n])
  BY <1>1, AllInsertedIs
<1>3. queue[1] = <<new[1]>> \o segs
  <2>1. queue[1] = Inserted(segs, new[1])
    <3>1. PICK n \in 1..Len(new) : n = 1 /\ n - 1 = 0
      BY <1>1
    <3>2. queue[n] = Inserted(queue[n - 1], new[n])
      BY <1>2, Zenon
    <3>3. queue[n - 1] = segs
      BY <1>2, <3>1, Zenon
    <3>4. queue[n] = Inserted(segs, new[n])
      BY <3>2, <3>3, Zenon
    <3> QED
      BY <3>1, <3>4, Zenon
  <2>2. ASSUME NEW i \in 1..Len(segs) PROVE ~(segs[i].seq < new[1].seq)
    <3>1. new[1].seq < segs[i].seq
      OBVIOUS
    <3>2. new[1].seq \in Nat /\ segs[i].seq \in Nat
      BY <1>1 DEF Segment
    <3> QED
      BY <3>1, <3>2
  <2> QED
    BY <1>1, <2>1, <2>2, InsertedFirst
<1> DEFINE base == <<new[1]>> \o segs
<1>4. base \in Seq(Segment) /\ Len(base) = 1 + Len(segs)
      /\ \A i \in 1..1 + Len(segs) : base[i] = IF i <= 1 THEN new[1] ELSE segs[i - 1]
  <2>1. <<new[1]>> \in Seq(Segment) /\ Len(<<new[1]>>) = 1 /\ <<new[1]>>[1] = new[1]
    BY <1>1
  <2>2. base \in Seq(Segment) /\ Len(base) = Len(<<new[1]>>) + Len(segs)
        /\ \A i \in 1..Len(<<new[1]>>) + Len(segs) :
             base[i] = IF i <= Len(<<new[1]>>) THEN <<new[1]>>[i]
                       ELSE segs[i - Len(<<new[1]>>)]
    BY <2>1, ConcatProperties
  <2>3. ASSUME NEW i \in 1..1 + Len(segs)
        PROVE  base[i] = IF i <= 1 THEN new[1] ELSE segs[i - 1]
    <3>1. i <= 1 => i = 1
      OBVIOUS
    <3> HIDE DEF base
    <3> QED
      BY <2>1, <2>2, <3>1
  <2> QED
    BY <2>1, <2>2, <2>3
<1>5. ASSUME NEW i \in 1..Len(base), NEW j \in 1..Len(new), j > 1
      PROVE  base[i].seq < new[j].seq
  <2> HIDE DEF base
  <2>1. CASE i <= 1
    BY <1>1, <1>4, <1>5, <2>1
  <2>2. CASE ~(i <= 1)
    <3>1. PICK k \in 1..Len(segs) : k = i - 1
      BY <1>1, <1>4, <2>2
    <3> QED
      BY <1>4, <1>5, <2>2, <3>1
  <2> QED
    BY <2>1, <2>2
<1>6. queue[Len(new)] = base \o SubSeq(new, 1 + 1, Len(new))
  <2>1. queue[1] = base /\ 1 \in 0..Len(new)
    BY <1>1, <1>3
  <2> HIDE DEF base
  <2>2. SUFFICES ASSUME NEW m \in 0..Len(new), m = 1
                PROVE  queue[Len(new)] = base \o SubSeq(new, m + 1, Len(new))
    BY <2>1
  <2>3. queue[m] = base /\
        \A i \in 1..Len(base), j \in 1..Len(new) : j > m => base[i].seq < new[j].seq
    BY <1>5, <2>1, <2>2
  <2>4. base \in Seq(Segment)
    BY <1>4
  <2>5. \A n \in 1..Len(new) : queue[n] = Inserted(queue[n - 1], new[n])
    BY <1>2
  <2> QED
    BY <2>3, <2>4, <2>5, InsertedOneByOne, ZenonT(60)
<1> QED
  BY <1>2, <1>6

\* The recursion of Bufs has a solution.
LEMMA BufsIs ==
  ASSUME NEW segs, Len(segs) \in Nat
  PROVE  \E sum : /\ Bufs(segs) = sum[Len(segs)]
                  /\ sum[0] = 0
                  /\ \A n \in 1..Len(segs) : sum[n] = sum[n - 1] + segs[n].bufs
<1> DEFINE step(f, n) == IF n = 0 THEN 0 ELSE f[n - 1] + segs[n].bufs
           solves(f, m) == f = [n \in 0..m |-> step(f, n)]
           M == {m \in Nat : \E f : solves(f, m)}
<1>1. Nat \subseteq M
  <2>1. 0 \in M
    <3> DEFINE f == [n \in 0..0 |-> 0]
    <3>1. f = [n \in 0..0 |-> step(f, n)]
      OBVIOUS
    <3>2. solves(f, 0)
      BY <3>1
    <3> HIDE DEF f, solves
    <3> QED
      BY <3>2
  <2>2. ASSUME NEW m \in Nat, m \in M PROVE m + 1 \in M
    <3>1. PICK f : f = [n \in 0..m |-> step(f, n)]
      BY <2>2
    <3> DEFINE g == [n \in 0..m + 1 |-> IF n = m + 1 THEN f[m] + segs[m + 1].bufs
                                        ELSE f[n]]
    <3>2. ASSUME NEW n \in 0..m + 1 PROVE g[n] = step(g, n)
      <4>1. CASE n = m + 1
        <5>1. n # 0 /\ n - 1 = m /\ g[m] = f[m] /\ g[n] = f[m] + segs[m + 1].bufs
          BY <4>1
        <5> QED
          BY <4>1, <5>1
      <4>2. CASE n # m + 1 /\ n # 0
        <5>1. PICK k \in 0..m : k = n - 1
          BY <4>2
        <5>2. n \in 0..m /\ g[n] = f[n] /\ g[k] = f[k]
          BY <4>2, <5>1
        <5> HIDE DEF g
        <5>3. f[n] = step(f, n)
          BY <3>1, <5>2
        <5> QED
          BY <4>2, <5>1, <5>2, <5>3
      <4>3. CASE n = 0
        <5>1. n \in 0..m /\ g[n] = f[n]
          BY <4>3
        <5> HIDE DEF g
        <5>2. f[n] = step(f, n)
          BY <3>1, <5>1
        <5> QED
          BY <4>3, <5>1, <5>2
      <4> QED
        BY <4>1, <4>2, <4>3
    <3>3. g = [n \in 0..m + 1 |-> g[n]]
      OBVIOUS
    <3> HIDE DEF g
    <3>4. g = [n \in 0..m + 1 |-> step(g, n)]
      BY <3>2, <3>3
    <3> QED
      BY <3>4
  <2> HIDE DEF M
  <2> QED
    BY <2>1, <2>2, Induction
<1>2. \E f : solves(f, Len(segs))
  BY <1>1
<1> DEFINE sum == CHOOSE f : solves(f, Len(segs))
<1>3. solves(sum, Len(segs))
  <2> HIDE DEF solves
  <2> QED
    BY <1>2
<1>4. Bufs(segs) = sum[Len(segs)]
  BY DEF Bufs
<1> HIDE DEF sum
<1>5. sum[0] = 0
  BY <1>3
<1>6. ASSUME NEW n \in 1..Len(segs) PROVE sum[n] = sum[n - 1] + segs[n].bufs
  <2>1. n \in 0..Len(segs) /\ n # 0
    OBVIOUS
  <2> QED
    BY <1>3, <2>1
<1> QED
  BY <1>4, <1>5, <1>6

\* From index d on, f is the sum of the n numbers h.
Adds(f, d, h, n) ==
  f[d] \in Nat /\ \A i \in 1..n : h[i] \in Nat /\ f[d + i] = f[d + i - 1] + h[i]

\* Two sums of the same numbers.
LEMMA SameSums ==
  ASSUME NEW f, NEW g, NEW d \in Nat, NEW n \in Nat, NEW h,
         g[0] = 0, Adds(g, 0, h, n), Adds(f, d, h, n)
  PROVE  f[d + n] = f[d] + g[n]
<1> DEFINE M == {k \in Nat : k <= n => g[k] \in Nat /\ f[d + k] = f[d] + g[k]}
<1>1. 0 \in M
  <2>1. d + 0 = d /\ f[d] \in Nat
    BY DEF Adds
  <2>2. f[d] + g[0] = f[d]
    BY <2>1
  <2> QED
    BY <2>1, <2>2
<1>2. ASSUME NEW k \in Nat, k \in M PROVE k + 1 \in M
  <2> SUFFICES ASSUME k + 1 <= n
               PROVE  g[k + 1] \in Nat /\ f[d + (k + 1)] = f[d] + g[k + 1]
    OBVIOUS
  <2>1. g[k] \in Nat /\ f[d + k] = f[d] + g[k]
    BY <1>2
  <2>2. PICK i \in 1..n : i = k + 1
    OBVIOUS
  <2>3. f[d + i] = f[d + i - 1] + h[i] /\ g[0 + i] = g[0 + i - 1] + h[i]
    BY DEF Adds
  <2>4. d + i - 1 = d + k /\ 0 + i = i /\ 0 + i - 1 = k /\ d + i = d + (k + 1)
    BY <2>2
  <2>5. h[i] \in Nat /\ f[d] \in Nat
    BY DEF Adds
  <2>6. g[i] = g[k] + h[i] /\ f[d + (k + 1)] = (f[d] + g[k]) + h[i]
    BY <2>1, <2>3, <2>4
  <2>7. \A x, y, z \in Nat : (x + y) + z = x + (y + z) /\ y + z \in Nat
    OBVIOUS
  <2>8. (f[d] + g[k]) + h[i] = f[d] + (g[k] + h[i]) /\ g[k] + h[i] \in Nat
    BY <2>1, <2>5, <2>7
  <2> QED
    BY <2>2, <2>6, <2>8
<1>3. Nat \subseteq M
  <2> HIDE DEF M
  <2> QED
    BY <1>1, <1>2, Induction
<1> QED
  BY <1>3

\* A sum of naturals is a natural.
LEMMA SumIsNat ==
  ASSUME NEW g, NEW n \in Nat, NEW h, g[0] = 0, Adds(g, 0, h, n)
  PROVE  g[n] \in Nat
<1> DEFINE M == {k \in Nat : k <= n => g[k] \in Nat}
<1>1. 0 \in M
  OBVIOUS
<1>2. ASSUME NEW k \in Nat, k \in M PROVE k + 1 \in M
  <2> SUFFICES ASSUME k + 1 <= n PROVE g[k + 1] \in Nat
    OBVIOUS
  <2>1. PICK i \in 1..n : i = k + 1
    OBVIOUS
  <2>2. h[i] \in Nat /\ g[0 + i] = g[0 + i - 1] + h[i]
    BY DEF Adds
  <2>3. 0 + i = i /\ 0 + i - 1 = k /\ g[k] \in Nat
    BY <1>2, <2>1
  <2> QED
    BY <2>1, <2>2, <2>3
<1>3. Nat \subseteq M
  <2> HIDE DEF M
  <2> QED
    BY <1>1, <1>2, Induction
<1> QED
  BY <1>3

\* The pbufs of two queues are those of one and those of the other.
LEMMA BufsConcat ==
  ASSUME NEW a \in Seq(Segment), NEW b \in Seq(Segment)
  PROVE  /\ Bufs(a) \in Nat /\ Bufs(b) \in Nat
         /\ Bufs(a \o b) = Bufs(a) + Bufs(b)
<1> DEFINE q == a \o b
<1>1. /\ Len(a) \in Nat /\ Len(b) \in Nat
      /\ \A i \in 1..Len(a) : a[i].bufs \in Nat
      /\ \A i \in 1..Len(b) : b[i].bufs \in Nat
  <2>1. Len(a) \in Nat /\ Len(b) \in Nat
    BY LenProperties
  <2>2. (\A i \in 1..Len(a) : a[i] \in Segment) /\ (\A i \in 1..Len(b) : b[i] \in Segment)
    BY ElementOfSeq
  <2> QED
    BY <2>1, <2>2 DEF Segment
<1>2. /\ Len(q) = Len(a) + Len(b)
      /\ \A i \in 1..Len(a) : q[i] = a[i]
      /\ \A i \in 1..Len(b) : q[Len(a) + i] = b[i]
  <2>1. /\ Len(q) = Len(a) + Len(b)
        /\ \A i \in 1..Len(a) + Len(b) : q[i] = IF i <= Len(a) THEN a[i] ELSE b[i - Len(a)]
    BY ConcatProperties
  <2>2. ASSUME NEW i \in 1..Len(a) PROVE q[i] = a[i]
    <3>1. i \in 1..Len(a) + Len(b) /\ i <= Len(a)
      BY <1>1
    <3> HIDE DEF q
    <3> QED
      BY <2>1, <3>1
  <2>3. ASSUME NEW i \in 1..Len(b) PROVE q[Len(a) + i] = b[i]
    <3>1. /\ Len(a) + i \in 1..Len(a) + Len(b) /\ ~(Len(a) + i <= Len(a))
          /\ Len(a) + i - Len(a) = i
      BY <1>1
    <3>2. PICK k \in 1..Len(a) + Len(b) : k = Len(a) + i /\ ~(k <= Len(a)) /\ k - Len(a) = i
      BY <3>1
    <3> HIDE DEF q
    <3>3. q[k] = b[i]
      BY <2>1, <3>2
    <3> QED
      BY <3>2, <3>3
  <2> QED
    BY <2>1, <2>2, <2>3
<1> HIDE DEF q
<1>3. PICK f : /\ Bufs(q) = f[Len(q)] /\ f[0] = 0
               /\ \A n \in 1..Len(q) : f[n] = f[n - 1] + q[n].bufs
  <2>1. Len(q) \in Nat
    BY <1>1, <1>2
  <2> QED
    BY <2>1, BufsIs
<1>4. PICK g : /\ Bufs(a) = g[Len(a)] /\ g[0] = 0
               /\ \A n \in 1..Len(a) : g[n] = g[n - 1] + a[n].bufs
  BY <1>1, BufsIs
<1>5. PICK h : /\ Bufs(b) = h[Len(b)] /\ h[0] = 0
               /\ \A n \in 1..Len(b) : h[n] = h[n - 1] + b[n].bufs
  BY <1>1, BufsIs
<1>6. g[Len(a)] \in Nat /\ f[Len(a)] = g[Len(a)]
  <2>1. PICK e : e = [i \in 1..Len(a) |-> a[i].bufs]
    OBVIOUS
  <2>2. e \in [1..Len(a) -> Nat]
    BY <1>1, <2>1
  <2>3. Adds(g, 0, e, Len(a))
    <3>1. g[0] \in Nat /\ \A i \in 1..Len(a) : e[i] \in Nat
      BY <1>4, <2>2
    <3> SUFFICES ASSUME NEW i \in 1..Len(a) PROVE g[0 + i] = g[0 + i - 1] + e[i]
      BY <3>1 DEF Adds
    <3>2. 0 + i = i /\ 0 + i - 1 = i - 1
      OBVIOUS
    <3> QED
      BY <1>4, <2>1, <3>2
  <2>4. Adds(f, 0, e, Len(a))
    <3>1. f[0] \in Nat /\ \A i \in 1..Len(a) : e[i] \in Nat
      BY <1>3, <2>2
    <3> SUFFICES ASSUME NEW i \in 1..Len(a) PROVE f[0 + i] = f[0 + i - 1] + e[i]
      BY <3>1 DEF Adds
    <3>2. i \in 1..Len(q) /\ 0 + i = i /\ 0 + i - 1 = i - 1
      BY <1>1, <1>2
    <3>3. f[i] = f[i - 1] + q[i].bufs
      BY <1>3, <3>2
    <3> QED
      BY <1>2, <2>1, <3>2, <3>3
  <2>5. 0 \in Nat /\ f[0] \in Nat /\ g[0] = 0 /\ Len(a) \in Nat
    BY <1>1, <1>3, <1>4
  <2>6. g[Len(a)] \in Nat
    BY <2>3, <2>5, SumIsNat
  <2>7. f[0 + Len(a)] = f[0] + g[Len(a)]
    BY <2>3, <2>4, <2>5, SameSums
  <2> QED
    BY <1>1, <1>3, <2>6, <2>7
<1>7. h[Len(b)] \in Nat /\ f[Len(a) + Len(b)] = g[Len(a)] + h[Len(b)]
  <2>1. PICK e : e = [i \in 1..Len(b) |-> b[i].bufs]
    OBVIOUS
  <2>2. e \in [1..Len(b) -> Nat]
    BY <1>1, <2>1
  <2>3. Adds(h, 0, e, Len(b))
    <3>1. h[0] \in Nat /\ \A i \in 1..Len(b) : e[i] \in Nat
      BY <1>5, <2>2
    <3> SUFFICES ASSUME NEW i \in 1..Len(b) PROVE h[0 + i] = h[0 + i - 1] + e[i]
      BY <3>1 DEF Adds
    <3>2. 0 + i = i /\ 0 + i - 1 = i - 1
      OBVIOUS
    <3> QED
      BY <1>5, <2>1, <3>2
  <2>4. Adds(f, Len(a), e, Len(b))
    <3> SUFFICES ASSUME NEW i \in 1..Len(b)
                 PROVE  f[Len(a) + i] = f[Len(a) + i - 1] + e[i]
      BY <1>6, <2>2 DEF Adds
    <3>1. Len(a) + i \in 1..Len(q)
      BY <1>1, <1>2
    <3>2. f[Len(a) + i] = f[Len(a) + i - 1] + q[Len(a) + i].bufs
      BY <1>3, <3>1
    <3> QED
      BY <1>2, <2>1, <3>2
  <2>5. Len(a) \in Nat /\ f[Len(a)] \in Nat /\ h[0] = 0 /\ Len(b) \in Nat
    BY <1>1, <1>5, <1>6
  <2>6. h[Len(b)] \in Nat
    BY <2>3, <2>5, SumIsNat
  <2>7. f[Len(a) + Len(b)] = f[Len(a)] + h[Len(b)]
    BY <2>3, <2>4, <2>5, SameSums
  <2> QED
    BY <1>6, <2>6, <2>7
<1> QED
  BY <1>2, <1>3, <1>4, <1>5, <1>6, <1>7 DEF q

\* The pbufs of one segment.
LEMMA BufsOne == ASSUME NEW seg \in Segment PROVE Bufs(<<seg>>) = seg.bufs
<1>1. <<seg>> \in Seq(Segment) /\ Len(<<seg>>) = 1 /\ <<seg>>[1] = seg
  OBVIOUS
<1>2. PICK f : /\ Bufs(<<seg>>) = f[Len(<<seg>>)] /\ f[0] = 0
               /\ \A n \in 1..Len(<<seg>>) : f[n] = f[n - 1] + <<seg>>[n].bufs
  BY <1>1, BufsIs
<1>3. f[1] = f[1 - 1] + seg.bufs
  BY <1>1, <1>2
<1> QED
  BY <1>1, <1>2, <1>3 DEF Segment

\* An empty queue has no pbufs.
LEMMA BufsNone == Bufs(<< >>) = 0
<1>1. Len(<< >>) = 0
  OBVIOUS
<1> QED
  BY <1>1, BufsIs

Linked(q) ==
  /\ \A i \in 1..Len(q) : /\ Length(q[i]) \in 1..Mss
                          /\ \A j \in 1..Length(q[i]) : q[i].data[j] = q[i].seq + j
  /\ \A i, j \in 1..Len(q) : j = i + 1 => q[j].seq = End(q[i])

\* What is not acknowledged, from low to high, is in the segments of q, in order.
Holds(q, low, high) ==
  IF q = << >> THEN low = high
  ELSE q[1].seq <= low /\ low < End(q[1]) /\ End(q[Len(q)]) = high

QueueOk(q, low, high) == q \in Seq(Segment) /\ Linked(q) /\ Holds(q, low, high)

\* The fields of a segment and where it ends.
LEMMA SegmentIs ==
  ASSUME NEW seg \in Segment
  PROVE  seg.seq \in Nat /\ seg.bufs \in Nat /\ seg.data \in Seq(Nat)
         /\ Length(seg) \in Nat /\ End(seg) = seg.seq + Length(seg) /\ End(seg) \in Nat
<1>1. seg.seq \in Nat /\ seg.bufs \in Nat /\ seg.data \in Seq(Nat)
  BY DEF Segment
<1>2. Length(seg) \in Nat
  BY <1>1, LenProperties DEF Length
<1> QED
  BY <1>1, <1>2 DEF End

\* Segments of a queue follow each other.
LEMMA InOrderIs ==
  ASSUME NEW q \in Seq(Segment), Linked(q), NEW i \in 1..Len(q), NEW j \in 1..Len(q), i < j
  PROVE  q[i].seq < End(q[i]) /\ End(q[i]) <= q[j].seq /\ q[j].seq < End(q[j])
<1>1. Len(q) \in Nat /\ \A k \in 1..Len(q) : q[k] \in Segment
  BY LenProperties, ElementOfSeq
<1>2. ASSUME NEW k \in 1..Len(q)
      PROVE  q[k].seq \in Nat /\ End(q[k]) \in Nat /\ q[k].seq < End(q[k])
  <2>1. Length(q[k]) \in 1..Mss
    BY DEF Linked
  <2> QED
    BY <1>1, <2>1, SegmentIs, SMTT(30)
<1> DEFINE M == {n \in Nat : \A k \in 1..Len(q) : k <= n /\ i < k => End(q[i]) <= q[k].seq}
<1>3. 0 \in M
  OBVIOUS
<1>4. ASSUME NEW n \in Nat, n \in M PROVE n + 1 \in M
  <2> SUFFICES ASSUME NEW k \in 1..Len(q), k <= n + 1, i < k
               PROVE  End(q[i]) <= q[k].seq
    OBVIOUS
  <2>1. PICK m \in 1..Len(q) : k = m + 1 /\ i <= m /\ m <= n
    <3>1. k - 1 \in 1..Len(q) /\ k = (k - 1) + 1 /\ i <= k - 1 /\ k - 1 <= n
      BY <1>1
    <3> QED
      BY <3>1
  <2>2. q[k].seq = End(q[m])
    BY <2>1 DEF Linked
  <2>3. CASE i = m
    BY <1>2, <2>2, <2>3
  <2>4. CASE i < m
    <3>1. End(q[i]) <= q[m].seq
      BY <1>4, <2>1, <2>4
    <3> QED
      BY <1>2, <2>2, <3>1
  <2> QED
    BY <2>1, <2>3, <2>4
<1>5. Nat \subseteq M
  <2> HIDE DEF M
  <2> QED
    BY <1>3, <1>4, Induction
<1>6. End(q[i]) <= q[j].seq
  BY <1>5
<1> QED
  BY <1>2, <1>6

\* What is left of a queue when all that ends up to x has been taken away.
LEMMA RestOk ==
  ASSUME NEW q, NEW low \in Nat, NEW high \in Nat, QueueOk(q, low, high),
         NEW x \in low..high, NEW k \in 0..Len(q),
         \A i \in 1..k : End(q[i]) <= x,
         k < Len(q) => \A i \in 1..Len(q) : i = k + 1 => End(q[i]) > x,
         NEW r \in Seq(Segment), Len(r) = Len(q) - k,
         \A i \in 1..Len(r) : r[i] = q[k + i]
  PROVE  QueueOk(r, x, high)
<1>1. q \in Seq(Segment) /\ Linked(q) /\ Holds(q, low, high)
  BY DEF QueueOk
<1>2. Len(q) \in Nat /\ Len(r) \in Nat /\ \A i \in 1..Len(q) : q[i] \in Segment
  BY <1>1, LenProperties, ElementOfSeq
<1>3. ASSUME NEW i \in 1..Len(r) PROVE k + i \in 1..Len(q)
  BY <1>2
<1>4. Linked(r)
  <2>1. ASSUME NEW i \in 1..Len(r)
        PROVE  /\ Length(r[i]) \in 1..Mss
               /\ \A j \in 1..Length(r[i]) : r[i].data[j] = r[i].seq + j
    <3>1. PICK m \in 1..Len(q) : m = k + i
      BY <1>3
    <3>2. r[i] = q[m]
      BY <3>1
    <3>3. /\ Length(q[m]) \in 1..Mss
          /\ \A j \in 1..Length(q[m]) : q[m].data[j] = q[m].seq + j
      BY <1>1 DEF Linked
    <3> QED
      BY <3>2, <3>3, Zenon
  <2>2. ASSUME NEW i \in 1..Len(r), NEW j \in 1..Len(r), j = i + 1
        PROVE  r[j].seq = End(r[i])
    <3>1. PICK m \in 1..Len(q), n \in 1..Len(q) : m = k + i /\ n = k + j
      BY <1>3
    <3>2. n = m + 1
      BY <2>2, <3>1
    <3>3. q[n].seq = End(q[m])
      BY <1>1, <3>2 DEF Linked
    <3>4. r[i] = q[m] /\ r[j] = q[n]
      BY <3>1
    <3> QED
      BY <3>3, <3>4
  <2> QED
    BY <2>1, <2>2 DEF Linked
<1>5. CASE Len(r) = 0
  <2>1. r = << >> /\ k = Len(q)
    BY <1>2, <1>5, EmptySeq
  <2>2. x = high
    <3>1. CASE q = << >>
      BY <1>1, <3>1 DEF Holds
    <3>2. CASE q # << >>
      <4>1. Len(q) \in 1..k
        BY <1>1, <1>2, <2>1, <3>2, EmptySeq
      <4>2. End(q[Len(q)]) <= x /\ End(q[Len(q)]) = high
        BY <1>1, <3>2, <4>1 DEF Holds
      <4> QED
        BY <4>2
    <3> QED
      BY <3>1, <3>2
  <2> QED
    BY <1>4, <2>1, <2>2 DEF QueueOk, Holds
<1>6. CASE Len(r) # 0
  <2>1. r # << >> /\ q # << >> /\ 1 \in 1..Len(r) /\ k < Len(q) /\ Len(q) \in 1..Len(q)
    BY <1>2, <1>6, EmptySeq
  <2>2. PICK m \in 1..Len(q) : m = k + 1 /\ r[1] = q[m] /\ End(q[m]) > x
    <3>1. k + 1 \in 1..Len(q)
      BY <1>2, <2>1
    <3>2. PICK m \in 1..Len(q) : m = k + 1
      BY <3>1
    <3>3. r[1] = q[m]
      BY <2>1, <3>2
    <3> QED
      BY <2>1, <3>2, <3>3
  <2>3. q[m].seq <= x
    <3>1. CASE k = 0
      <4>1. m = 1 /\ q[1].seq <= low
        BY <1>1, <2>1, <2>2, <3>1 DEF Holds
      <4>2. q[m].seq \in Nat
        BY <1>2, SegmentIs
      <4> QED
        BY <4>1, <4>2
    <3>2. CASE k # 0
      <4>1. k \in 1..Len(q) /\ k \in 1..k
        BY <1>2, <3>2
      <4>2. q[m].seq = End(q[k]) /\ End(q[k]) <= x
        BY <1>1, <2>2, <4>1 DEF Linked
      <4> QED
        BY <4>2
    <3> QED
      BY <3>1, <3>2
  <2>4. r[Len(r)] = q[Len(q)]
    <3>1. \A a, b, c \in Nat : b # 0 /\ b = a - c => b \in 1..b /\ c + b = a
      OBVIOUS
    <3>2. k \in Nat /\ Len(r) = Len(q) - k
      BY <1>2
    <3>3. Len(r) \in 1..Len(r) /\ k + Len(r) = Len(q)
      BY <1>2, <1>6, <3>1, <3>2, Zenon
    <3> QED
      BY <3>3
  <2>5. End(q[Len(q)]) = high
    BY <1>1, <2>1 DEF Holds
  <2>6. x < End(q[m])
    BY <1>2, <2>2, SegmentIs
  <2> QED
    BY <1>4, <2>1, <2>2, <2>3, <2>4, <2>5, <2>6 DEF QueueOk, Holds
<1> QED
  BY <1>5, <1>6

\* Every segment of the queue ends in what is not acknowledged.
LEMMA EndsIn ==
  ASSUME NEW q, NEW low \in Nat, NEW high \in Nat, QueueOk(q, low, high),
         NEW i \in 1..Len(q)
  PROVE  low < End(q[i]) /\ End(q[i]) <= high /\ low < high
<1>1. q \in Seq(Segment) /\ Linked(q) /\ Holds(q, low, high)
  BY DEF QueueOk
<1>2. Len(q) \in Nat /\ (\A k \in 1..Len(q) : q[k] \in Segment)
  BY <1>1, LenProperties, ElementOfSeq
<1>3. q # << >> /\ 1 \in 1..Len(q) /\ Len(q) \in 1..Len(q)
  BY <1>1, <1>2, EmptySeq
<1>4. low < End(q[1]) /\ End(q[Len(q)]) = high
  BY <1>1, <1>3 DEF Holds
<1>5. \A k \in 1..Len(q) : q[k].seq \in Nat /\ End(q[k]) \in Nat
  BY <1>2, SegmentIs
<1>6. End(q[1]) <= End(q[i])
  <2>1. CASE i = 1
    BY <1>3, <1>5, <2>1
  <2>2. CASE 1 < i
    <3>1. End(q[1]) <= q[i].seq /\ q[i].seq < End(q[i])
      BY <1>1, <1>3, <2>2, InOrderIs
    <3> QED
      BY <1>3, <1>5, <3>1
  <2> QED
    BY <2>1, <2>2
<1>7. End(q[i]) <= End(q[Len(q)])
  <2>1. CASE i = Len(q)
    BY <1>3, <1>5, <2>1
  <2>2. CASE i < Len(q)
    <3>1. End(q[i]) <= q[Len(q)].seq /\ q[Len(q)].seq < End(q[Len(q)])
      BY <1>1, <1>3, <2>2, InOrderIs
    <3> QED
      BY <1>3, <1>5, <3>1
  <2> QED
    BY <1>2, <2>1, <2>2
<1> QED
  BY <1>3, <1>4, <1>5, <1>6, <1>7

\* An acknowledgement covers the first segments of a queue, up to one that it does not.
LEMMA CoveredIs ==
  ASSUME NEW segs \in Seq(Segment), NEW x
  PROVE  /\ Covered(segs, x) \in 0..Len(segs)
         /\ \A i \in 1..Covered(segs, x) : End(segs[i]) <= x
         /\ \A i \in 1..Len(segs) : i = Covered(segs, x) + 1 => ~(End(segs[i]) <= x)
<1> DEFINE T == {i \in 1..Len(segs) : End(segs[i]) <= x}
           K == {0} \cup {k \in 1..Len(segs) : \A i \in 1..k : i \in T}
           J == {0} \cup {k \in 1..Len(segs) : \A i \in 1..k : End(segs[i]) <= x}
<1>1. Len(segs) \in Nat
  BY LenProperties
<1>2. K = J
  BY <1>1
<1>3. /\ Max(K) \in 0..Len(segs)
      /\ \A i \in 1..Max(K) : i \in T
      /\ Max(K) < Len(segs) => Max(K) + 1 \notin T
  <2> HIDE DEF T
  <2>1. PICK L : L = K
    OBVIOUS
  <2>2. L = {0} \cup {k \in 1..Len(segs) : \A i \in 1..k : i \in T}
    BY <2>1
  <2> HIDE DEF K
  <2> QED
    BY <1>1, <2>1, <2>2, Leading
<1>4. Covered(segs, x) = Max(J)
  BY DEF Covered
<1> HIDE DEF K, J
<1>5. PICK k \in 0..Len(segs) : k = Max(K)
  BY <1>3
<1>6. \A i \in 1..k : End(segs[i]) <= x
  BY <1>3, <1>5
<1>7. ASSUME NEW i \in 1..Len(segs), i = k + 1 PROVE ~(End(segs[i]) <= x)
  <2>1. k < Len(segs)
    BY <1>1, <1>7
  <2>2. i \notin T
    BY <1>3, <1>5, <1>7, <2>1
  <2> QED
    BY <2>2
<1> QED
  BY <1>2, <1>4, <1>5, <1>6, <1>7

\* Nothing is covered by an acknowledgement from before the queue.
LEMMA NothingCovered ==
  ASSUME NEW segs \in Seq(Segment), NEW x \in Nat, \A i \in 1..Len(segs) : x < End(segs[i])
  PROVE  /\ Covered(segs, x) = 0
         /\ SubSeq(segs, Covered(segs, x) + 1, Len(segs)) = segs
         /\ SubSeq(segs, 1, Covered(segs, x)) = << >>
<1>1. Len(segs) \in Nat /\ Covered(segs, x) \in 0..Len(segs)
  BY LenProperties, CoveredIs
<1>2. Covered(segs, x) = 0
  <2> SUFFICES ASSUME Covered(segs, x) # 0 PROVE FALSE
    OBVIOUS
  <2>1. 1 \in 1..Covered(segs, x) /\ 1 \in 1..Len(segs)
    BY <1>1
  <2>2. End(segs[1]) <= x /\ x < End(segs[1]) /\ End(segs[1]) \in Nat
    BY <2>1, CoveredIs, ElementOfSeq, SegmentIs
  <2> QED
    BY <2>2
<1>3. SubSeq(segs, 1, 0) = << >> /\ SubSeq(segs, 1, Len(segs)) = segs
  BY SubSeqEmpty, SubSeqFull
<1> QED
  BY <1>2, <1>3

\* The two queues after x has been acknowledged.
LEMMA AckedQueue ==
  ASSUME NEW a \in Seq(Segment), NEW b \in Seq(Segment), NEW low \in Nat, NEW high \in Nat,
         QueueOk(a \o b, low, high), NEW x \in low..high
  PROVE  QueueOk(SubSeq(a, Covered(a, x) + 1, Len(a)) \o
                   SubSeq(b, Covered(b, x) + 1, Len(b)), x, high)
<1> DEFINE q == a \o b
<1>1. PICK k \in 0..Len(a), l \in 0..Len(b) : k = Covered(a, x) /\ l = Covered(b, x)
  BY CoveredIs
<1>2. /\ \A i \in 1..k : End(a[i]) <= x
      /\ \A i \in 1..Len(a) : i = k + 1 => ~(End(a[i]) <= x)
      /\ \A i \in 1..l : End(b[i]) <= x
      /\ \A i \in 1..Len(b) : i = l + 1 => ~(End(b[i]) <= x)
  BY <1>1, CoveredIs
<1>3. /\ Len(a) \in Nat /\ Len(b) \in Nat
      /\ \A i \in 1..Len(a) : a[i] \in Segment /\ End(a[i]) \in Nat
      /\ \A i \in 1..Len(b) : b[i] \in Segment /\ End(b[i]) \in Nat
  <2>1. Len(a) \in Nat /\ Len(b) \in Nat
    BY LenProperties
  <2>2. (\A i \in 1..Len(a) : a[i] \in Segment) /\ (\A i \in 1..Len(b) : b[i] \in Segment)
    BY ElementOfSeq
  <2> QED
    BY <2>1, <2>2, SegmentIs
<1>4. /\ q \in Seq(Segment) /\ Len(q) = Len(a) + Len(b)
      /\ \A i \in 1..Len(a) + Len(b) : q[i] = IF i <= Len(a) THEN a[i] ELSE b[i - Len(a)]
  BY ConcatProperties
<1> DEFINE a2 == SubSeq(a, k + 1, Len(a))
           b2 == SubSeq(b, l + 1, Len(b))
           r == a2 \o b2
<1>5. /\ a2 \in Seq(Segment) /\ Len(a2) = Len(a) - k
      /\ \A i \in 1..Len(a) - k : a2[i] = a[k + i]
  <2>1. \A i \in k + 1..Len(a) : a[i] \in Segment
    BY <1>3
  <2>2. /\ a2 \in Seq(Segment)
        /\ \A i \in 1..Len(a) - (k + 1) + 1 : a2[i] = a[(k + 1) + i - 1]
    BY <1>3, <2>1, SubSeqProperties
  <2>3. Len(a2) = Len(a) - k
    BY SplitIs
  <2> HIDE DEF a2
  <2>4. ASSUME NEW i \in 1..Len(a) - k PROVE a2[i] = a[k + i]
    <3>1. i \in 1..Len(a) - (k + 1) + 1 /\ (k + 1) + i - 1 = k + i
      BY <1>3
    <3> QED
      BY <2>2, <3>1
  <2> QED
    BY <2>2, <2>3, <2>4
<1>6. /\ b2 \in Seq(Segment) /\ Len(b2) = Len(b) - l
      /\ \A i \in 1..Len(b) - l : b2[i] = b[l + i]
  <2>1. \A i \in l + 1..Len(b) : b[i] \in Segment
    BY <1>3
  <2>2. /\ b2 \in Seq(Segment)
        /\ \A i \in 1..Len(b) - (l + 1) + 1 : b2[i] = b[(l + 1) + i - 1]
    BY <1>3, <2>1, SubSeqProperties
  <2>3. Len(b2) = Len(b) - l
    BY SplitIs
  <2> HIDE DEF b2
  <2>4. ASSUME NEW i \in 1..Len(b) - l PROVE b2[i] = b[l + i]
    <3>1. i \in 1..Len(b) - (l + 1) + 1 /\ (l + 1) + i - 1 = l + i
      BY <1>3
    <3> QED
      BY <2>2, <3>1
  <2> QED
    BY <2>2, <2>3, <2>4
<1> HIDE DEF a2, b2, q
<1>7. /\ r \in Seq(Segment) /\ Len(r) = (Len(a) - k) + (Len(b) - l)
      /\ \A i \in 1..(Len(a) - k) + (Len(b) - l) :
           r[i] = IF i <= Len(a) - k THEN a2[i] ELSE b2[i - (Len(a) - k)]
  <2>1. /\ r \in Seq(Segment) /\ Len(r) = Len(a2) + Len(b2)
        /\ \A i \in 1..Len(a2) + Len(b2) :
             r[i] = IF i <= Len(a2) THEN a2[i] ELSE b2[i - Len(a2)]
    BY <1>5, <1>6, ConcatProperties
  <2>2. Len(a2) = Len(a) - k /\ Len(b2) = Len(b) - l
    BY <1>5, <1>6
  <2> HIDE DEF r
  <2> QED
    BY <2>1, <2>2
<1> HIDE DEF r
<1>8. QueueOk(q, low, high)
  BY DEF q
<1>9. CASE k < Len(a)
  <2>1. k + 1 \in 1..Len(a) /\ k + 1 \in 1..Len(q) /\ q[k + 1] = a[k + 1]
    BY <1>3, <1>4, <1>9
  <2>2. x < End(a[k + 1])
    BY <1>2, <1>3, <2>1
  <2>3. l = 0
    <3> SUFFICES ASSUME l # 0 PROVE FALSE
      OBVIOUS
    <3>1. 1 \in 1..l /\ 1 \in 1..Len(b)
      BY <1>3
    <3>2. PICK n \in 1..Len(q) : n = Len(a) + 1 /\ n - Len(a) = 1 /\ ~(n <= Len(a)) /\ k + 1 < n
      <4>1. Len(a) + 1 \in 1..Len(q) /\ (Len(a) + 1) - Len(a) = 1
            /\ ~(Len(a) + 1 <= Len(a)) /\ k + 1 < Len(a) + 1
        BY <1>3, <1>4, <1>9, <3>1
      <4> QED
        BY <4>1
    <3>3. q[n] = b[1]
      BY <1>4, <3>2
    <3>4. PICK m \in 1..Len(q) : m = k + 1 /\ m < n
      BY <2>1, <3>2
    <3>5. End(q[m]) <= q[n].seq /\ q[n].seq < End(q[n])
      BY <1>4, <1>8, <3>4, InOrderIs DEF QueueOk
    <3>6. End(b[1]) <= x /\ End(b[1]) \in Nat /\ b[1].seq \in Nat
      BY <1>2, <1>3, <3>1, SegmentIs
    <3>7. q[m] = a[k + 1] /\ End(a[k + 1]) \in Nat
      BY <1>3, <2>1, <3>4, SegmentIs
    <3>8. x < End(q[m]) /\ End(q[m]) \in Nat
      BY <2>2, <3>7
    <3>9. End(q[n]) <= x /\ End(q[n]) \in Nat /\ q[n].seq \in Nat
      BY <3>3, <3>6
    <3> QED
      BY <3>5, <3>8, <3>9
  <2>4. k \in 0..Len(q) /\ Len(r) = Len(q) - k
    BY <1>3, <1>4, <1>7, <2>3
  <2>5. \A i \in 1..k : End(q[i]) <= x
    <3> SUFFICES ASSUME NEW i \in 1..k PROVE End(q[i]) <= x
      OBVIOUS
    <3>1. i \in 1..Len(a) + Len(b) /\ i <= Len(a)
      BY <1>3
    <3>2. q[i] = a[i]
      BY <1>4, <3>1
    <3> QED
      BY <1>2, <3>2
  <2>6. \A i \in 1..Len(q) : i = k + 1 => End(q[i]) > x
    BY <1>3, <2>1, <2>2
  <2>7. ASSUME NEW i \in 1..Len(r) PROVE r[i] = q[k + i]
    <3>1. i \in 1..(Len(a) - k) + (Len(b) - l) /\ Len(a) - k \in Nat /\ Len(b) - l \in Nat
      BY <1>3, <1>7
    <3>2. CASE i <= Len(a) - k
      <4>1. k + i \in 1..Len(a) + Len(b) /\ k + i <= Len(a) /\ i \in 1..Len(a) - k
        BY <1>3, <3>1, <3>2
      <4>2. q[k + i] = a[k + i]
        BY <1>4, <4>1
      <4>3. r[i] = a2[i] /\ a2[i] = a[k + i]
        BY <1>5, <1>7, <3>1, <3>2, <4>1
      <4> QED
        BY <4>2, <4>3
    <3>3. CASE ~(i <= Len(a) - k)
      <4>1. PICK j \in 1..Len(b) : j = i - (Len(a) - k)
        <5>1. i - (Len(a) - k) \in 1..Len(b)
          BY <1>3, <2>3, <3>1, <3>3
        <5> QED
          BY <5>1
      <4>2. r[i] = b2[j] /\ b2[j] = b[j]
        <5>1. j \in 1..Len(b) - l /\ l + j = j
          BY <1>3, <2>3
        <5>2. r[i] = b2[j]
          BY <1>7, <3>1, <3>3, <4>1
        <5> QED
          BY <1>6, <5>1, <5>2
      <4>3. PICK n \in 1..Len(a) + Len(b) : n = k + i /\ ~(n <= Len(a)) /\ n - Len(a) = j
        <5>1. k + i \in 1..Len(a) + Len(b) /\ ~(k + i <= Len(a)) /\ (k + i) - Len(a) = j
          BY <1>3, <3>1, <3>3, <4>1
        <5> QED
          BY <5>1
      <4>4. q[n] = b[j]
        BY <1>4, <4>3
      <4> QED
        BY <4>2, <4>3, <4>4
    <3> QED
      BY <3>2, <3>3
  <2>8. r \in Seq(Segment)
    BY <1>7
  <2>9. QueueOk(r, x, high)
    BY <1>8, <2>4, <2>5, <2>6, <2>7, <2>8, RestOk
  <2> QED
    BY <1>1, <2>9 DEF r, a2, b2
<1>10. CASE k = Len(a)
  <2>1. PICK d \in 0..Len(q) : d = Len(a) + l
    BY <1>3, <1>4
  <2>2. Len(r) = Len(q) - d
    BY <1>3, <1>4, <1>7, <1>10, <2>1
  <2>3. ASSUME NEW i \in 1..d PROVE End(q[i]) <= x
    <3>1. i \in 1..Len(a) + Len(b)
      BY <1>3, <2>1
    <3>2. CASE i <= Len(a)
      BY <1>2, <1>4, <1>10, <3>1, <3>2
    <3>3. CASE ~(i <= Len(a))
      <4>1. PICK j \in 1..l : j = i - Len(a)
        <5>1. i - Len(a) \in 1..l
          BY <1>3, <2>1, <3>3
        <5> QED
          BY <5>1
      <4> QED
        BY <1>2, <1>4, <3>1, <3>3, <4>1
    <3> QED
      BY <3>2, <3>3
  <2>4. ASSUME NEW i \in 1..Len(q), i = d + 1 PROVE End(q[i]) > x
    <3>1. PICK j \in 1..Len(b) : j = l + 1 /\ i - Len(a) = j /\ ~(i <= Len(a))
      <4>1. l + 1 \in 1..Len(b) /\ i - Len(a) = l + 1 /\ ~(i <= Len(a))
        BY <1>3, <1>4, <2>1, <2>4
      <4> QED
        BY <4>1
    <3>2. q[i] = b[j]
      BY <1>4, <3>1
    <3>3. ~(End(b[j]) <= x) /\ End(b[j]) \in Nat
      BY <1>2, <1>3, <3>1
    <3> QED
      BY <3>2, <3>3
  <2>5. ASSUME NEW i \in 1..Len(r) PROVE r[i] = q[d + i]
    <3>1. i \in 1..(Len(a) - k) + (Len(b) - l) /\ Len(a) - k = 0 /\ i \in 1..Len(b) - l
      BY <1>3, <1>7, <1>10
    <3>2. r[i] = b2[i]
      <4>1. ~(i <= Len(a) - k) /\ i - (Len(a) - k) = i
        BY <3>1
      <4> QED
        BY <1>7, <3>1, <4>1
    <3>3. PICK j \in 1..Len(b) : j = l + i
      BY <1>3, <3>1
    <3>4. PICK n \in 1..Len(a) + Len(b) : n = d + i /\ n - Len(a) = j /\ ~(n <= Len(a))
      <4>1. d + i \in 1..Len(a) + Len(b) /\ (d + i) - Len(a) = j /\ ~(d + i <= Len(a))
        BY <1>3, <2>1, <3>1, <3>3
      <4> QED
        BY <4>1
    <3>5. q[n] = b[j]
      BY <1>4, <3>4
    <3>6. b2[i] = b[j]
      BY <1>6, <3>1, <3>3
    <3> QED
      BY <3>2, <3>4, <3>5, <3>6
  <2>6. r \in Seq(Segment)
    BY <1>7
  <2>7. QueueOk(r, x, high)
    BY <1>8, <2>1, <2>2, <2>3, <2>4, <2>5, <2>6, RestOk
  <2> QED
    BY <1>1, <2>7 DEF r, a2, b2
<1> QED
  BY <1>3, <1>9, <1>10

\* What an acknowledgement takes off snd_queuelen is what leaves the queues.
LEMMA AckedBufs ==
  ASSUME NEW a \in Seq(Segment), NEW b \in Seq(Segment),
         NEW k \in 0..Len(a), NEW l \in 0..Len(b)
  PROVE  Bufs(SubSeq(a, k + 1, Len(a)) \o SubSeq(b, l + 1, Len(b))) =
           (Bufs(a \o b) - Bufs(SubSeq(a, 1, k))) - Bufs(SubSeq(b, 1, l))
<1>1. /\ SubSeq(a, 1, k) \in Seq(Segment) /\ SubSeq(a, k + 1, Len(a)) \in Seq(Segment)
      /\ SubSeq(a, 1, k) \o SubSeq(a, k + 1, Len(a)) = a
  BY SplitIs
<1>2. /\ SubSeq(b, 1, l) \in Seq(Segment) /\ SubSeq(b, l + 1, Len(b)) \in Seq(Segment)
      /\ SubSeq(b, 1, l) \o SubSeq(b, l + 1, Len(b)) = b
  BY SplitIs
<1>3. PICK a1 \in Seq(Segment), a2 \in Seq(Segment) :
        a1 = SubSeq(a, 1, k) /\ a2 = SubSeq(a, k + 1, Len(a)) /\ a1 \o a2 = a
  BY <1>1
<1>4. PICK b1 \in Seq(Segment), b2 \in Seq(Segment) :
        b1 = SubSeq(b, 1, l) /\ b2 = SubSeq(b, l + 1, Len(b)) /\ b1 \o b2 = b
  BY <1>2
<1>5. Bufs(a1 \o a2) = Bufs(a1) + Bufs(a2) /\ Bufs(a1) \in Nat /\ Bufs(a2) \in Nat
  BY BufsConcat
<1>6. Bufs(b1 \o b2) = Bufs(b1) + Bufs(b2) /\ Bufs(b1) \in Nat /\ Bufs(b2) \in Nat
  BY BufsConcat
<1>7. Bufs(a \o b) = Bufs(a) + Bufs(b) /\ Bufs(a2 \o b2) = Bufs(a2) + Bufs(b2)
  BY BufsConcat
<1>8. Bufs(a) = Bufs(a1) + Bufs(a2) /\ Bufs(b) = Bufs(b1) + Bufs(b2)
  BY <1>3, <1>4, <1>5, <1>6
<1>9. Bufs(a2 \o b2) = (Bufs(a \o b) - Bufs(a1)) - Bufs(b1)
  BY <1>5, <1>6, <1>7, <1>8, SMTT(30)
<1> QED
  BY <1>3, <1>4, <1>9

\* The indices of a queue made of two.
LEMMA TwoParts ==
  ASSUME NEW a \in Seq(Segment), NEW b \in Seq(Segment)
  PROVE  /\ Len(a) \in Nat /\ Len(b) \in Nat
         /\ a \o b \in Seq(Segment) /\ Len(a \o b) = Len(a) + Len(b)
         /\ \A i \in 1..Len(a) : \E n \in 1..Len(a \o b) : n = i /\ (a \o b)[n] = a[i]
         /\ \A j \in 1..Len(b) :
              \E n \in 1..Len(a \o b) : n = Len(a) + j /\ (a \o b)[n] = b[j]
<1> DEFINE q == a \o b
<1>1. /\ q \in Seq(Segment) /\ Len(q) = Len(a) + Len(b) /\ Len(a) \in Nat /\ Len(b) \in Nat
      /\ \A i \in 1..Len(a) + Len(b) : q[i] = IF i <= Len(a) THEN a[i] ELSE b[i - Len(a)]
  BY ConcatProperties, LenProperties
<1> HIDE DEF q
<1>2. ASSUME NEW i \in 1..Len(a) PROVE \E n \in 1..Len(q) : n = i /\ q[n] = a[i]
  <2>1. i \in 1..Len(a) + Len(b) /\ i <= Len(a)
    BY <1>1
  <2> QED
    BY <1>1, <2>1
<1>3. ASSUME NEW j \in 1..Len(b)
      PROVE  \E n \in 1..Len(q) : n = Len(a) + j /\ q[n] = b[j]
  <2>1. PICK n \in 1..Len(a) + Len(b) : n = Len(a) + j /\ ~(n <= Len(a)) /\ n - Len(a) = j
    <3>1. Len(a) + j \in 1..Len(a) + Len(b) /\ ~(Len(a) + j <= Len(a))
          /\ (Len(a) + j) - Len(a) = j
      BY <1>1
    <3> QED
      BY <3>1
  <2>2. q[n] = b[j]
    BY <1>1, <2>1
  <2> QED
    BY <1>1, <2>1, <2>2
<1> QED
  BY <1>1, <1>2, <1>3 DEF q

\* An element of either queue is one of both together.
LEMMA PartIs ==
  \A a, b \in Seq(Segment) :
    /\ \A i \in 1..Len(a) : \E n \in 1..Len(a \o b) : n = i /\ (a \o b)[n] = a[i]
    /\ \A j \in 1..Len(b) : \E n \in 1..Len(a \o b) : n = Len(a) + j /\ (a \o b)[n] = b[j]
  BY TwoParts

\* The first m segments of b go behind those of a.
LEMMA MergedBehind ==
  ASSUME NEW a \in Seq(Segment), NEW b \in Seq(Segment), Linked(a \o b), NEW m \in 0..Len(b)
  PROVE  AllInserted(a, SubSeq(b, 1, m)) = a \o SubSeq(b, 1, m)
<1>1. PICK sent \in Seq(Segment) : sent = SubSeq(b, 1, m) /\ Len(sent) = m
  <2>1. SubSeq(b, 1, m) \in Seq(Segment) /\ Len(SubSeq(b, 1, m)) = m
    BY SplitIs
  <2> QED
    BY <2>1
<1>2. Len(b) \in Nat /\ \A i \in 1..m : sent[i] = b[i]
  <2>1. Len(b) \in Nat /\ \A i \in 1..Len(b) : b[i] \in Segment
    BY LenProperties, ElementOfSeq
  <2>2. \A i \in 1..m : b[i] \in Segment
    BY <2>1
  <2>3. \A i \in 1..m - 1 + 1 : SubSeq(b, 1, m)[i] = b[1 + i - 1]
    BY <2>2, SubSeqProperties
  <2>4. ASSUME NEW i \in 1..m PROVE sent[i] = b[i]
    <3>1. i \in 1..m - 1 + 1 /\ 1 + i - 1 = i
      OBVIOUS
    <3> QED
      BY <1>1, <2>3, <3>1
  <2> QED
    BY <2>1, <2>4
<1>3. ASSUME NEW i \in 1..Len(a), NEW j \in 1..Len(sent) PROVE a[i].seq < sent[j].seq
  <2>1. j \in 1..Len(b) /\ sent[j] = b[j]
    BY <1>1, <1>2
  <2>2. PICK n \in 1..Len(a \o b) : n = i /\ (a \o b)[n] = a[i]
    BY PartIs, Zenon
  <2>3. PICK k \in 1..Len(a \o b) : k = Len(a) + j /\ (a \o b)[k] = b[j]
    BY <2>1, PartIs, Zenon
  <2>4. n < k /\ a \o b \in Seq(Segment)
    BY <2>2, <2>3, TwoParts
  <2>5. a[i].seq < End(a[i]) /\ End(a[i]) <= b[j].seq
    BY <2>2, <2>3, <2>4, InOrderIs
  <2>6. a[i].seq \in Nat /\ End(a[i]) \in Nat /\ b[j].seq \in Nat
    BY <2>1, ElementOfSeq, SegmentIs
  <2> QED
    BY <2>1, <2>5, <2>6, SMTT(30)
<1>4. ASSUME NEW i \in 1..Len(sent), NEW j \in 1..Len(sent), i < j
      PROVE  sent[i].seq < sent[j].seq
  <2>1. i \in 1..Len(b) /\ j \in 1..Len(b) /\ sent[i] = b[i] /\ sent[j] = b[j]
    BY <1>1, <1>2
  <2>2. PICK n \in 1..Len(a \o b) : n = Len(a) + i /\ (a \o b)[n] = b[i]
    BY <2>1, PartIs, Zenon
  <2>3. PICK k \in 1..Len(a \o b) : k = Len(a) + j /\ (a \o b)[k] = b[j]
    BY <2>1, PartIs, Zenon
  <2>4. n < k /\ a \o b \in Seq(Segment)
    BY <1>4, <2>2, <2>3, TwoParts
  <2>5. b[i].seq < End(b[i]) /\ End(b[i]) <= b[j].seq
    BY <2>2, <2>3, <2>4, InOrderIs
  <2>6. b[i].seq \in Nat /\ End(b[i]) \in Nat /\ b[j].seq \in Nat
    BY <2>1, ElementOfSeq, SegmentIs
  <2> QED
    BY <2>1, <2>5, <2>6, SMTT(30)
<1> QED
  BY <1>1, <1>3, <1>4, AllInsertedLast

\* After a fast retransmission the head of unacked is the head of unsent, and the first of
\* the m segments that go back.
LEMMA MergedAround ==
  ASSUME NEW s \in Segment, NEW a \in Seq(Segment), NEW b \in Seq(Segment),
         Linked((<<s>> \o a) \o b), NEW m \in 1..Len(<<s>> \o b)
  PROVE  /\ AllInserted(a, SubSeq(<<s>> \o b, 1, m)) \in Seq(Segment)
         /\ AllInserted(a, SubSeq(<<s>> \o b, 1, m)) = (<<s>> \o a) \o SubSeq(b, 1, m - 1)
         /\ SubSeq(<<s>> \o b, m + 1, Len(<<s>> \o b)) = SubSeq(b, m, Len(b))
         /\ m - 1 \in 0..Len(b)
<1> DEFINE u == <<s>> \o b
           c == <<s>> \o a
           q == c \o b
<1>1. /\ <<s>> \in Seq(Segment) /\ Len(<<s>>) = 1 /\ <<s>>[1] = s
      /\ Len(a) \in Nat /\ Len(b) \in Nat /\ u \in Seq(Segment) /\ c \in Seq(Segment)
      /\ Len(u) = Len(b) + 1 /\ Len(c) = Len(a) + 1
  <2>1. <<s>> \in Seq(Segment) /\ Len(<<s>>) = 1 /\ <<s>>[1] = s
    OBVIOUS
  <2>2. u \in Seq(Segment) /\ Len(u) = Len(<<s>>) + Len(b) /\ Len(a) \in Nat
    BY <2>1, ConcatProperties, LenProperties
  <2>3. c \in Seq(Segment) /\ Len(c) = Len(<<s>>) + Len(a) /\ Len(b) \in Nat
    BY <2>1, ConcatProperties, LenProperties
  <2> HIDE DEF u, c
  <2> QED
    BY <2>1, <2>2, <2>3
<1>2. u[1] = s /\ \A j \in 1..Len(b) : \E n \in 1..Len(u) : n = j + 1 /\ u[n] = b[j]
  <2>1. \A i \in 1..1 : \E n \in 1..Len(u) : n = i /\ u[n] = <<s>>[i]
    BY <1>1, TwoParts
  <2>2. \A j \in 1..Len(b) : \E n \in 1..Len(u) : n = Len(<<s>>) + j /\ u[n] = b[j]
    BY <1>1, TwoParts
  <2> HIDE DEF u
  <2> QED
    BY <1>1, <2>1, <2>2
<1>3. c[1] = s /\ \A j \in 1..Len(a) : \E n \in 1..Len(c) : n = j + 1 /\ c[n] = a[j]
  <2>1. \A i \in 1..1 : \E n \in 1..Len(c) : n = i /\ c[n] = <<s>>[i]
    BY <1>1, TwoParts
  <2>2. \A j \in 1..Len(a) : \E n \in 1..Len(c) : n = Len(<<s>>) + j /\ c[n] = a[j]
    BY <1>1, TwoParts
  <2> HIDE DEF c
  <2> QED
    BY <1>1, <2>1, <2>2
<1> HIDE DEF u, c
<1>4. /\ q \in Seq(Segment) /\ Linked(q) /\ Len(q) = Len(c) + Len(b)
      /\ \A i \in 1..Len(c) : \E n \in 1..Len(q) : n = i /\ q[n] = c[i]
      /\ \A j \in 1..Len(b) : \E n \in 1..Len(q) : n = Len(c) + j /\ q[n] = b[j]
  <2>1. Linked(q)
    BY DEF c
  <2> QED
    BY <1>1, <2>1, TwoParts
<1> HIDE DEF q
<1>5. q[1] = s /\ 1 \in 1..Len(q)
      /\ (\A j \in 1..Len(a) : \E n \in 1..Len(q) : n = j + 1 /\ q[n] = a[j])
      /\ (\A j \in 1..Len(b) : \E n \in 1..Len(q) : n = Len(a) + 1 + j /\ q[n] = b[j])
  <2>1. 1 \in 1..Len(c)
    BY <1>1
  <2>2. q[1] = s /\ 1 \in 1..Len(q)
    BY <1>3, <1>4, <2>1
  <2>3. ASSUME NEW j \in 1..Len(a) PROVE \E n \in 1..Len(q) : n = j + 1 /\ q[n] = a[j]
    <3>1. PICK n \in 1..Len(c) : n = j + 1 /\ c[n] = a[j]
      BY <1>3
    <3> QED
      BY <1>4, <3>1
  <2>4. ASSUME NEW j \in 1..Len(b)
        PROVE  \E n \in 1..Len(q) : n = Len(a) + 1 + j /\ q[n] = b[j]
    BY <1>1, <1>4
  <2> QED
    BY <2>2, <2>3, <2>4
<1>6. PICK k \in 0..Len(b) : k = m - 1
  BY <1>1 DEF u
<1>7. PICK sent \in Seq(Segment) : sent = SubSeq(u, 1, m) /\ Len(sent) = m
  <2>1. m \in 0..Len(u)
    BY <1>1 DEF u
  <2>2. SubSeq(u, 1, m) \in Seq(Segment) /\ Len(SubSeq(u, 1, m)) = m
    BY <1>1, <2>1, SplitIs
  <2> QED
    BY <2>2
<1>8. \A i \in 1..m : sent[i] = u[i]
  <2>1. \A i \in 1..Len(u) : u[i] \in Segment
    BY <1>1, ElementOfSeq
  <2>2. \A i \in 1..m : u[i] \in Segment
    BY <1>1, <2>1 DEF u
  <2>3. \A i \in 1..m - 1 + 1 : SubSeq(u, 1, m)[i] = u[1 + i - 1]
    BY <2>2, SubSeqProperties
  <2>4. ASSUME NEW i \in 1..m PROVE sent[i] = u[i]
    <3>1. i \in 1..m - 1 + 1 /\ 1 + i - 1 = i
      OBVIOUS
    <3> QED
      BY <1>7, <2>3, <3>1
  <2> QED
    BY <2>4
<1>9. ASSUME NEW i \in 1..m, i > 1
      PROVE  \E j \in 1..Len(b) : i = j + 1 /\ sent[i] = b[j]
  <2>1. PICK j \in 1..Len(b) : i = j + 1
    <3>1. i - 1 \in 1..Len(b) /\ i = (i - 1) + 1
      BY <1>1, <1>6, <1>9
    <3> QED
      BY <3>1
  <2>2. PICK n \in 1..Len(u) : n = j + 1 /\ u[n] = b[j]
    BY <1>2
  <2> QED
    BY <1>8, <2>1, <2>2
<1>10. sent[1] = s /\ 1 \in 1..m
  <2>1. m \in 1..Len(u)
    BY DEF u
  <2>2. 1 \in 1..m
    BY <1>1, <2>1
  <2> QED
    BY <1>2, <1>8, <2>2
<1>11. \A i \in 1..Len(q) : q[i].seq \in Nat /\ End(q[i]) \in Nat
  BY <1>4, ElementOfSeq, SegmentIs
<1>12. \A i, j \in 1..Len(q) : i < j => q[i].seq < q[j].seq
  <2> SUFFICES ASSUME NEW i \in 1..Len(q), NEW j \in 1..Len(q), i < j
               PROVE  q[i].seq < q[j].seq
    OBVIOUS
  <2>1. q[i].seq < End(q[i]) /\ End(q[i]) <= q[j].seq
    BY <1>4, InOrderIs
  <2> QED
    BY <1>11, <2>1, SMTT(30)
<1>13. \A i \in 1..Len(a) : sent[1].seq < a[i].seq
  <2> SUFFICES ASSUME NEW i \in 1..Len(a) PROVE s.seq < a[i].seq
    BY <1>10
  <2>1. PICK n \in 1..Len(q) : n = i + 1 /\ q[n] = a[i]
    BY <1>5
  <2> QED
    BY <1>5, <1>12, <2>1
<1>14. \A i \in 1..Len(a), j \in 1..Len(sent) : j > 1 => a[i].seq < sent[j].seq
  <2> SUFFICES ASSUME NEW i \in 1..Len(a), NEW j \in 1..m, j > 1 PROVE a[i].seq < sent[j].seq
    BY <1>7
  <2>1. PICK n \in 1..Len(q) : n = i + 1 /\ q[n] = a[i]
    BY <1>5
  <2>2. PICK l \in 1..Len(b) : j = l + 1 /\ sent[j] = b[l]
    BY <1>9
  <2>3. PICK o \in 1..Len(q) : o = Len(a) + 1 + l /\ q[o] = b[l]
    BY <1>5
  <2>4. n < o
    BY <1>1, <2>1, <2>3
  <2> QED
    BY <1>12, <2>1, <2>2, <2>3, <2>4
<1>15. \A i, j \in 1..Len(sent) : i < j => sent[i].seq < sent[j].seq
  <2> SUFFICES ASSUME NEW i \in 1..m, NEW j \in 1..m, i < j PROVE sent[i].seq < sent[j].seq
    BY <1>7
  <2>1. PICK l \in 1..Len(b) : j = l + 1 /\ sent[j] = b[l]
    BY <1>9
  <2>2. PICK o \in 1..Len(q) : o = Len(a) + 1 + l /\ q[o] = b[l]
    BY <1>5
  <2>3. CASE i = 1
    <3>1. 1 < o
      BY <1>1, <2>2
    <3> QED
      BY <1>5, <1>10, <1>12, <2>1, <2>2, <2>3, <3>1, SMTT(30)
  <2>4. CASE i > 1
    <3>1. PICK e \in 1..Len(b) : i = e + 1 /\ sent[i] = b[e]
      BY <1>9, <2>4
    <3>2. PICK n \in 1..Len(q) : n = Len(a) + 1 + e /\ q[n] = b[e]
      BY <1>5
    <3>3. n < o
      BY <1>1, <2>1, <2>2, <3>1, <3>2
    <3> QED
      BY <1>12, <2>1, <2>2, <3>1, <3>2, <3>3
  <2> QED
    BY <2>3, <2>4
<1>16. AllInserted(a, sent) = (<<sent[1]>> \o a) \o SubSeq(sent, 2, Len(sent))
  <2>1. Len(sent) >= 1
    BY <1>7
  <2> QED
    BY <1>13, <1>14, <1>15, <2>1, AllInsertedFirst
<1>17. SubSeq(sent, 2, Len(sent)) = SubSeq(b, 1, k)
  <2>1. \A i \in 1..Len(sent) : sent[i] \in Segment
    BY ElementOfSeq
  <2>2. /\ SubSeq(b, 1, k) \in Seq(Segment) /\ Len(SubSeq(b, 1, k)) = k
    BY SplitIs
  <2>3. \A i \in 2..m : sent[i] \in Segment
    BY <1>7, <2>1
  <2>4. /\ SubSeq(sent, 2, m) \in Seq(Segment)
        /\ Len(SubSeq(sent, 2, m)) = IF 2 <= m THEN m - 2 + 1 ELSE 0
        /\ \A i \in 1..m - 2 + 1 : SubSeq(sent, 2, m)[i] = sent[2 + i - 1]
    BY <2>3, SubSeqProperties
  <2>5. \A i \in 1..k : b[i] \in Segment
    BY <1>1, ElementOfSeq
  <2>6. \A i \in 1..k - 1 + 1 : SubSeq(b, 1, k)[i] = b[1 + i - 1]
    BY <2>5, SubSeqProperties
  <2>7. PICK x \in Seq(Segment), y \in Seq(Segment) :
          x = SubSeq(sent, 2, m) /\ y = SubSeq(b, 1, k)
    BY <2>2, <2>4
  <2>8. Len(x) = k /\ Len(y) = k
    BY <1>6, <2>2, <2>4, <2>7
  <2>9. ASSUME NEW i \in 1..k PROVE x[i] = y[i]
    <3>1. i \in 1..m - 2 + 1 /\ i \in 1..k - 1 + 1 /\ 1 + i - 1 = i
      BY <1>6
    <3>2. y[i] = b[i]
      BY <2>6, <2>7, <3>1
    <3>3. PICK n \in 1..m : n = 2 + i - 1 /\ n > 1
      <4>1. 2 + i - 1 \in 1..m /\ 2 + i - 1 > 1
        BY <1>6
      <4> QED
        BY <4>1
    <3>4. x[i] = sent[n]
      BY <2>4, <2>7, <3>1, <3>3
    <3>5. PICK j \in 1..Len(b) : n = j + 1 /\ sent[n] = b[j]
      BY <1>9, <3>3
    <3>6. j = i
      BY <3>3, <3>5
    <3> QED
      BY <3>2, <3>4, <3>5, <3>6
  <2>10. x = y
    BY <2>8, <2>9, SeqEqual
  <2> QED
    BY <1>7, <2>7, <2>10
<1>18. SubSeq(u, m + 1, Len(u)) = SubSeq(b, m, Len(b))
  <2>1. \A i \in m + 1..Len(u) : u[i] \in Segment
    <3>1. \A i \in 1..Len(u) : u[i] \in Segment
      BY <1>1, ElementOfSeq
    <3> QED
      BY <1>1, <3>1
  <2>2. /\ SubSeq(u, m + 1, Len(u)) \in Seq(Segment)
        /\ Len(SubSeq(u, m + 1, Len(u))) = Len(u) - m
        /\ \A i \in 1..Len(u) - (m + 1) + 1 : SubSeq(u, m + 1, Len(u))[i] = u[m + 1 + i - 1]
    <3>1. m \in 0..Len(u)
      BY <1>1 DEF u
    <3> QED
      BY <1>1, <2>1, <3>1, SubSeqProperties, SplitIs
  <2>3. /\ SubSeq(b, k + 1, Len(b)) \in Seq(Segment)
        /\ Len(SubSeq(b, k + 1, Len(b))) = Len(b) - k
        /\ \A i \in 1..Len(b) - (k + 1) + 1 : SubSeq(b, k + 1, Len(b))[i] = b[k + 1 + i - 1]
    <3>1. \A i \in 1..Len(b) : b[i] \in Segment
      BY ElementOfSeq
    <3>2. \A i \in k + 1..Len(b) : b[i] \in Segment
      BY <1>1, <3>1
    <3> QED
      BY <1>1, <3>2, SubSeqProperties, SplitIs
  <2>4. PICK x \in Seq(Segment), y \in Seq(Segment) :
          x = SubSeq(u, m + 1, Len(u)) /\ y = SubSeq(b, k + 1, Len(b))
    BY <2>2, <2>3
  <2>5. Len(x) = Len(u) - m /\ Len(y) = Len(b) - k
    BY <2>2, <2>3, <2>4
  <2>6. Len(u) - m = Len(b) - k
    BY <1>1, <1>6
  <2>7. ASSUME NEW i \in 1..Len(b) - k PROVE x[i] = y[i]
    <3>1. i \in 1..Len(u) - (m + 1) + 1 /\ i \in 1..Len(b) - (k + 1) + 1
      BY <1>1, <1>6
    <3>2. PICK n \in 1..Len(b) : n = k + 1 + i - 1
      <4>1. k + 1 + i - 1 \in 1..Len(b)
        BY <1>1
      <4> QED
        BY <4>1
    <3>3. y[i] = b[n]
      BY <2>3, <2>4, <3>1, <3>2
    <3>4. PICK o \in 1..Len(u) : o = n + 1 /\ u[o] = b[n]
      BY <1>2
    <3>5. o = m + 1 + i - 1
      BY <1>6, <3>2, <3>4
    <3>6. x[i] = u[o]
      BY <2>2, <2>4, <3>1, <3>5
    <3> QED
      BY <3>3, <3>4, <3>6
  <2>8. x = y
    BY <2>5, <2>6, <2>7, SeqEqual
  <2>9. k + 1 = m
    BY <1>6
  <2> QED
    BY <2>4, <2>8, <2>9
<1>19. AllInserted(a, sent) = c \o SubSeq(b, 1, k)
  BY <1>10, <1>16, <1>17 DEF c
<1>20. c \o SubSeq(b, 1, k) \in Seq(Segment)
  <2>1. SubSeq(b, 1, k) \in Seq(Segment)
    BY SplitIs
  <2> QED
    BY <1>1, <2>1, ConcatProperties
<1> QED
  BY <1>6, <1>7, <1>18, <1>19, <1>20 DEF u, c

\* The first m elements of a sequence.
LEMMA SubSeqTo ==
  ASSUME NEW S, NEW s \in Seq(S), NEW m \in 0..Len(s)
  PROVE  /\ SubSeq(s, 1, m) \in Seq(S) /\ Len(SubSeq(s, 1, m)) = m
         /\ \A i \in 1..m : SubSeq(s, 1, m)[i] = s[i] /\ i \in 1..Len(s)
<1>1. Len(s) \in Nat /\ \A i \in 1..Len(s) : s[i] \in S
  BY LenProperties, ElementOfSeq
<1>2. m \in Nat /\ \A i \in 1..m : i \in 1..Len(s) /\ s[i] \in S
  BY <1>1
<1>3. SubSeq(s, 1, m) \in Seq(S) /\ Len(SubSeq(s, 1, m)) = m
  BY SplitIs
<1>4. \A i \in 1..m - 1 + 1 : SubSeq(s, 1, m)[i] = s[1 + i - 1]
  BY <1>2, SubSeqProperties
<1>5. ASSUME NEW i \in 1..m PROVE SubSeq(s, 1, m)[i] = s[i]
  <2>1. i \in 1..m - 1 + 1 /\ 1 + i - 1 = i
    BY <1>2
  <2> QED
    BY <1>4, <2>1
<1> QED
  BY <1>2, <1>3, <1>5

\* The first k segments of q end by x.
EndBy(q, k, x) == \A i \in 1..k : End(q[i]) <= x

\* Two queues that end by x end by x together.
LEMMA EndByBoth ==
  ASSUME NEW a \in Seq(Segment), NEW e \in Seq(Segment), NEW x,
         EndBy(a, Len(a), x), EndBy(e, Len(e), x)
  PROVE  EndBy(a \o e, Len(a \o e), x)
<1>1. /\ Len(a) \in Nat /\ Len(e) \in Nat /\ Len(a \o e) = Len(a) + Len(e)
      /\ \A i \in 1..Len(a) + Len(e) : (a \o e)[i] = IF i <= Len(a) THEN a[i] ELSE e[i - Len(a)]
  BY ConcatProperties, LenProperties
<1>2. ASSUME NEW i \in 1..Len(a \o e) PROVE End((a \o e)[i]) <= x
  <2>1. CASE i <= Len(a)
    <3>1. (a \o e)[i] = a[i] /\ i \in 1..Len(a)
      BY <1>1, <2>1
    <3> QED
      BY <3>1 DEF EndBy
  <2>2. CASE ~(i <= Len(a))
    <3>1. PICK j \in 1..Len(e) : j = i - Len(a)
      <4>1. i - Len(a) \in 1..Len(e)
        BY <1>1, <2>2
      <4> QED
        BY <4>1
    <3>2. (a \o e)[i] = e[j]
      BY <1>1, <2>2, <3>1
    <3> QED
      BY <3>2 DEF EndBy
  <2> QED
    BY <2>1, <2>2
<1> QED
  BY <1>2 DEF EndBy

\* snd_nxt after l segments of b have been sent.
Onward(nxt, b, l) == IF l = 0 THEN nxt ELSE High(nxt, End(b[l]))

\* The segments of a have been sent and l of b may follow them, nxt is snd_nxt.
MaySend(a, b, low, high, l, nxt, limit, to, c, d) ==
  /\ a \in Seq(Segment) /\ b \in Seq(Segment) /\ low \in Nat /\ high \in Nat
  /\ QueueOk(a \o b, low, high)
  /\ l \in 0..Len(b) /\ limit \in Nat /\ nxt \in low..high /\ nxt <= limit
  /\ EndBy(a, Len(a), nxt) /\ EndBy(b, l, limit)
  /\ to = Onward(nxt, b, l) /\ c = a \o SubSeq(b, 1, l) /\ d = SubSeq(b, l + 1, Len(b))

\* How far tcp_output may send: the queues are regrouped, snd_nxt stays by the ends.
LEMMA Sending ==
  ASSUME NEW a, NEW b, NEW low, NEW high, NEW l, NEW nxt, NEW limit,
         NEW to, NEW c, NEW d, MaySend(a, b, low, high, l, nxt, limit, to, c, d)
  PROVE  /\ to \in nxt..high /\ to <= limit
         /\ c \in Seq(Segment) /\ d \in Seq(Segment) /\ c \o d = a \o b
         /\ EndBy(b, l, to) /\ EndBy(c, Len(c), to)
<1>1. /\ a \in Seq(Segment) /\ b \in Seq(Segment) /\ low \in Nat /\ high \in Nat
      /\ QueueOk(a \o b, low, high)
      /\ l \in 0..Len(b) /\ limit \in Nat /\ nxt \in low..high /\ nxt <= limit
      /\ to = Onward(nxt, b, l) /\ c = a \o SubSeq(b, 1, l) /\ d = SubSeq(b, l + 1, Len(b))
  BY DEF MaySend
<1>2. /\ \A i \in 1..Len(a) : End(a[i]) <= nxt
      /\ \A i \in 1..l : End(b[i]) <= limit
  BY DEF EndBy, MaySend
<1>3. /\ a \o b \in Seq(Segment) /\ Linked(a \o b)
      /\ \A j \in 1..Len(b) : \E n \in 1..Len(a \o b) : n = Len(a) + j /\ (a \o b)[n] = b[j]
  BY <1>1, TwoParts DEF QueueOk
<1>4. Len(a) \in Nat /\ Len(b) \in Nat /\ (\A i \in 1..Len(b) : b[i] \in Segment)
      /\ (\A i \in 1..Len(a) : a[i] \in Segment)
  BY <1>1, LenProperties, ElementOfSeq
<1>5. \A j \in 1..Len(b) : b[j].seq \in Nat /\ End(b[j]) \in Nat /\ End(b[j]) <= high
  <2> SUFFICES ASSUME NEW j \in 1..Len(b)
               PROVE  b[j].seq \in Nat /\ End(b[j]) \in Nat /\ End(b[j]) <= high
    OBVIOUS
  <2>1. PICK n \in 1..Len(a \o b) : (a \o b)[n] = b[j]
    BY <1>3
  <2>2. End((a \o b)[n]) <= high
    BY <1>1, EndsIn
  <2> QED
    BY <1>4, <2>1, <2>2, SegmentIs
<1>6. \A i, j \in 1..Len(b) : i < j => End(b[i]) < End(b[j])
  <2> SUFFICES ASSUME NEW i \in 1..Len(b), NEW j \in 1..Len(b), i < j
               PROVE  End(b[i]) < End(b[j])
    OBVIOUS
  <2>1. PICK n \in 1..Len(a \o b) : n = Len(a) + i /\ (a \o b)[n] = b[i]
    BY <1>3
  <2>2. PICK k \in 1..Len(a \o b) : k = Len(a) + j /\ (a \o b)[k] = b[j]
    BY <1>3
  <2>3. n < k
    BY <1>4, <2>1, <2>2
  <2>4. End(b[i]) <= b[j].seq /\ b[j].seq < End(b[j])
    <3>1. End((a \o b)[n]) <= (a \o b)[k].seq /\ (a \o b)[k].seq < End((a \o b)[k])
      BY <1>3, <2>3, InOrderIs
    <3> QED
      BY <2>1, <2>2, <3>1, Zenon
  <2>5. End(b[i]) \in Nat /\ b[j].seq \in Nat /\ End(b[j]) \in Nat
    BY <1>5
  <2> QED
    BY <2>4, <2>5
<1>7. to \in nxt..high /\ to <= limit /\ \A i \in 1..l : End(b[i]) <= to
  <2>1. CASE l = 0
    <3>1. to = nxt /\ \A i \in 1..l : FALSE
      BY <1>1, <2>1 DEF Onward
    <3>2. nxt \in nxt..high
      BY <1>1
    <3> QED
      BY <1>1, <3>1, <3>2
  <2>2. CASE l # 0
    <3>1. l \in 1..l /\ l \in 1..Len(b) /\ to = High(nxt, End(b[l]))
      BY <1>1, <1>4, <2>2 DEF Onward
    <3>2. to \in nxt..high /\ to <= limit /\ End(b[l]) <= to
      BY <1>1, <1>2, <1>5, <3>1 DEF High
    <3>3. \A i \in 1..l : i < l => End(b[i]) < End(b[l])
      <4>1. \A i \in 1..l : i \in 1..Len(b)
        BY <1>1, <1>4
      <4> QED
        BY <1>6, <3>1, <4>1
    <3>4. \A i \in 1..l : End(b[i]) \in Nat
      <4>1. \A i \in 1..l : i \in 1..Len(b)
        BY <1>1, <1>4
      <4> QED
        BY <1>5, <4>1
    <3>5. \A i \in 1..l : i < l \/ i = l
      BY <1>1, <1>4
    <3>6. \A i \in 1..l : End(b[i]) <= to
      <4> SUFFICES ASSUME NEW i \in 1..l PROVE End(b[i]) <= to
        OBVIOUS
      <4>1. CASE i = l
        BY <3>2, <4>1
      <4>2. CASE i < l
        <5>1. End(b[i]) < End(b[l]) /\ End(b[l]) <= to
          BY <3>2, <3>3, <4>2
        <5>2. End(b[i]) \in Nat /\ End(b[l]) \in Nat /\ to \in Int
          BY <3>1, <3>2, <3>4
        <5> QED
          BY <5>1, <5>2
      <4> QED
        BY <3>5, <4>1, <4>2
    <3> QED
      BY <3>2, <3>6
  <2> QED
    BY <2>1, <2>2
<1>8. /\ SubSeq(b, 1, l) \in Seq(Segment) /\ Len(SubSeq(b, 1, l)) = l
      /\ \A i \in 1..l : SubSeq(b, 1, l)[i] = b[i]
  BY <1>1, SubSeqTo
<1>9. SubSeq(b, l + 1, Len(b)) \in Seq(Segment)
      /\ (a \o SubSeq(b, 1, l)) \o SubSeq(b, l + 1, Len(b)) = a \o b
  <2>1. SubSeq(b, l + 1, Len(b)) \in Seq(Segment)
    BY <1>1, SplitIs
  <2>2. (a \o SubSeq(b, 1, l)) \o SubSeq(b, l + 1, Len(b)) = a \o b
    <3>1. a \in Seq(Segment) /\ b \in Seq(Segment) /\ l \in 0..Len(b)
      BY <1>1, Zenon
    <3> QED
      BY <3>1, Regrouped, Zenon
  <2> QED
    BY <2>1, <2>2
<1>10. PICK e \in Seq(Segment) : e = SubSeq(b, 1, l)
  BY <1>8
<1>11. EndBy(a, Len(a), to)
  <2> SUFFICES ASSUME NEW i \in 1..Len(a) PROVE End(a[i]) <= to
    BY DEF EndBy
  <2>1. End(a[i]) \in Nat /\ End(a[i]) <= nxt
    BY <1>2, <1>4, SegmentIs
  <2> QED
    BY <1>1, <1>7, <2>1, SMTT(30)
<1>12. EndBy(e, Len(e), to)
  <2>1. Len(e) = l /\ \A i \in 1..l : e[i] = b[i]
    BY <1>8, <1>10
  <2> QED
    BY <1>7, <2>1 DEF EndBy
<1>13. c = a \o e /\ d \in Seq(Segment) /\ c \o d = a \o b
  BY <1>1, <1>9, <1>10
<1>14. a \o e \in Seq(Segment) /\ EndBy(a \o e, Len(a \o e), to)
  BY <1>1, <1>11, <1>12, EndByBoth, ConcatProperties
<1> QED
  BY <1>7, <1>13, <1>14 DEF EndBy

-----------------------------------------------------------------------------
(* The invariant.                                                          *)

Flag == {0, 1}
Pcb == [state : {"ESTABLISHED", "CLOSED"},
        unsent : Seq(Segment), unacked : Seq(Segment), oversize : Int,
        snd_lbb : Nat, snd_nxt : Nat, lastack : Nat,
        snd_buf : Int, snd_queuelen : Int,
        snd_wnd : Nat, snd_wl2 : Nat, persist : Flag,
        rtime : {-1, 0}, nrtx : Nat, dupacks : Nat,
        infr : Flag, memerr : Flag]
Plan == [n : Nat \ {0}, tail : Nat, appended : Nat, bufs : Flag, oversize : Int,
         before : Int, queuelen : Int]
Datagram == [seq : Nat, data : Seq(Nat)]
Acknowledgement == [ack : Nat, wnd : Nat]

\* The segments not acknowledged, those sent first.
Queue(p) == p.unacked \o p.unsent

Numbers(p) ==
  /\ p.lastack <= p.snd_nxt /\ p.snd_nxt <= p.snd_lbb
  /\ p.snd_nxt <= p.lastack + p.snd_wnd
  /\ p.snd_wl2 \in {p.lastack, p.lastack + 1}
  /\ p.snd_buf + (p.snd_lbb - p.lastack) = SndBuf

PcbOk(p) ==
  /\ p \in Pcb
  /\ QueueOk(Queue(p), p.lastack, p.snd_lbb)
  /\ Numbers(p)
  /\ EndBy(p.unacked, Len(p.unacked), p.snd_nxt)

\* The first byte that no segment and no window probe has carried.
ReachOf(lastack, nxt, top) == IF lastack = nxt THEN Low(nxt + 1, top) ELSE nxt
Reach == ReachOf(pcb.lastack, pcb.snd_nxt, accepted)

\* A segment carries the bytes of its place in the stream.
DataOk(d, reach) ==
  /\ End(d) <= reach
  /\ \A j \in 1..Length(d) : d.data[j] = d.seq + j

Edge(a) == a.ack + a.wnd

ClientOk(g, r, reach) ==
  /\ g \in [0..Total - 1 -> Nat] /\ r \in Nat /\ r <= Stored(g)
  /\ \A i \in 0..Total - 1 : g[i] # Null => g[i] = i + 1 /\ i < reach /\ i < r + Window

\* A window never shrinks: of two acknowledgements the higher has the further edge.
AcksOk(as, stored, edge, wl2, wnd) ==
  /\ \A a \in as : a.ack <= stored /\ Edge(a) <= edge
  /\ \A a \in as : wl2 < a.ack => wl2 + wnd <= Edge(a)
  /\ \A a, b \in as : a.ack < b.ack => Edge(a) <= Edge(b)
  /\ wl2 <= stored /\ wl2 + wnd <= edge

NetInv ==
  /\ data \in Seq(Datagram) /\ acks \in Seq(Acknowledgement) /\ faults \in Nat
  /\ \A d \in ToSet(data) : DataOk(d, Reach)
  /\ ClientOk(got, read, Reach)
  /\ AcksOk(ToSet(acks), Stored(got), read + Window, pcb.snd_wl2, pcb.snd_wnd)

\* What tcp_write has seen of the last segment stays true of it.
FitsPlan(q) ==
  plan # NoPlan =>
    \A i \in 1..Len(q) : q[i].seq + 1 = plan.tail => Length(q[i]) + plan.appended <= Mss

PlanInv ==
  /\ plan # NoPlan =>
       /\ plan \in Plan
       /\ accepted + plan.n <= Total /\ plan.appended <= plan.n
       /\ plan.queuelen = plan.before + plan.bufs + NewSegments(plan.n - plan.appended)
       /\ plan.tail = Null => plan.appended = 0 /\ plan.bufs = 0
  /\ FitsPlan(Queue(pcb))

CountInv ==
  /\ accepted \in Nat /\ accepted = pcb.snd_lbb /\ accepted <= Total
  /\ stale \in BOOLEAN /\ torn \in BOOLEAN
  /\ ~stale => pcb.snd_queuelen = Bufs(Queue(pcb))

SendInv == PcbOk(pcb) /\ NetInv /\ PlanInv /\ CountInv

-----------------------------------------------------------------------------
(* tcp_output.                                                             *)

\* tcp_output sends from the front of unsent, up to the first segment that may not go.
LEMMA SentIs ==
  ASSUME NEW p, p.unsent \in Seq(Segment), NEW limit
  PROVE  \E m \in 0..Len(p.unsent) :
           /\ Sent(p, limit) = SubSeq(p.unsent, 1, m)
           /\ \A i \in 1..m : Sendable(p, limit, i)
           /\ m < Len(p.unsent) => ~Sendable(p, limit, m + 1)
<1> DEFINE n == Len(p.unsent)
           T == {i \in 1..n : Sendable(p, limit, i)}
           K == {0} \cup {k \in 1..n : \A i \in 1..k : i \in T}
           J == {0} \cup {k \in 1..n : \A i \in 1..k : Sendable(p, limit, i)}
<1>1. n \in Nat
  BY LenProperties
<1>2. K = J
  BY <1>1
<1>3. Sent(p, limit) = SubSeq(p.unsent, 1, Max(J))
  BY DEF Sent
<1>4. /\ Max(K) \in 0..n
      /\ \A i \in 1..Max(K) : i \in T
      /\ Max(K) < n => Max(K) + 1 \notin T
  <2> HIDE DEF T, n
  <2>1. PICK L : L = K
    OBVIOUS
  <2>2. L = {0} \cup {k \in 1..n : \A i \in 1..k : i \in T}
    BY <2>1
  <2> HIDE DEF K
  <2> QED
    BY <1>1, <2>1, <2>2, Leading
<1> HIDE DEF K, J
<1>5. PICK m \in 0..n : m = Max(K)
  BY <1>4
<1>6. m < n => m + 1 \in 1..n
  BY <1>1
<1>7. m < n => ~Sendable(p, limit, m + 1)
  BY <1>4, <1>5, <1>6
<1>8. \A i \in 1..m : Sendable(p, limit, i)
  BY <1>4, <1>5
<1> QED
  BY <1>2, <1>3, <1>5, <1>7, <1>8

\* The types of the fields of a pcb.
LEMMA PcbIs ==
  ASSUME NEW p \in Pcb
  PROVE  /\ p.unsent \in Seq(Segment) /\ p.unacked \in Seq(Segment)
         /\ p.snd_lbb \in Nat /\ p.snd_nxt \in Nat /\ p.lastack \in Nat
         /\ p.snd_wnd \in Nat /\ p.snd_wl2 \in Nat
         /\ p.snd_buf \in Int /\ p.snd_queuelen \in Int /\ p.oversize \in Int
         /\ p.rtime \in {-1, 0} /\ p.nrtx \in Nat /\ p.dupacks \in Nat
         /\ p.infr \in {0, 1}
  BY DEF Pcb, Flag

NxtAfter(nxt, sent) == IF sent = << >> THEN nxt ELSE High(nxt, End(Last(sent)))

\* p is base, or base with a segment moved: the segments sent go where the first l of unsent
\* in base would.
Places(base, p, sent, l) ==
  /\ p.unsent \in Seq(Segment) /\ p.unacked \in Seq(Segment)
  /\ p = [base EXCEPT !.unacked = p.unacked, !.unsent = p.unsent]
  /\ \A i \in 1..l : End(base.unsent[i]) - base.lastack <= base.snd_wnd
  /\ AllInserted(p.unacked, sent) = base.unacked \o SubSeq(base.unsent, 1, l)
  /\ SubSeq(p.unsent, Len(sent) + 1, Len(p.unsent)) =
       SubSeq(base.unsent, l + 1, Len(base.unsent))
  /\ NxtAfter(base.snd_nxt, sent) = Onward(base.snd_nxt, base.unsent, l)

\* A pcb with its sent segments in their place in unacked is a good one.
LEMMA Placed ==
  ASSUME NEW base, PcbOk(base), NEW p, NEW sent, NEW l \in 0..Len(base.unsent),
         Places(base, p, sent, l), NEW r, r = Output(p, sent)
  PROVE  /\ PcbOk(r)
         /\ Queue(r) = Queue(base)
         /\ r.snd_nxt >= base.snd_nxt
         /\ EndBy(base.unsent, l, r.snd_nxt)
         /\ r.state = base.state /\ r.snd_lbb = base.snd_lbb /\ r.lastack = base.lastack
         /\ r.snd_queuelen = base.snd_queuelen
         /\ r.snd_wnd = base.snd_wnd /\ r.snd_wl2 = base.snd_wl2
<1>1. PICK a \in Seq(Segment), b \in Seq(Segment), low \in Nat, high \in Nat,
           wnd \in Nat, nxt \in Nat :
        /\ a = base.unacked /\ b = base.unsent /\ low = base.lastack /\ high = base.snd_lbb
        /\ wnd = base.snd_wnd /\ nxt = base.snd_nxt
  BY PcbIs DEF PcbOk
<1>2. PICK c, d, to :
        /\ c = a \o SubSeq(b, 1, l) /\ d = SubSeq(b, l + 1, Len(b))
        /\ to = Onward(nxt, b, l)
  OBVIOUS
<1>3. /\ QueueOk(a \o b, low, high) /\ l \in 0..Len(b)
      /\ EndBy(a, Len(a), nxt)
  BY <1>1 DEF PcbOk, Queue
<1>4. low <= nxt /\ nxt <= high /\ nxt <= low + wnd
  BY <1>1 DEF PcbOk, Numbers
<1>5. PICK limit \in Nat : limit = low + wnd
  OBVIOUS
<1>6. EndBy(b, l, limit)
  <2> SUFFICES ASSUME NEW i \in 1..l PROVE End(b[i]) <= limit
    BY DEF EndBy
  <2>1. i \in 1..Len(b)
    BY <1>3, LenProperties
  <2>2. End(b[i]) \in Nat
    BY <2>1, ElementOfSeq, SegmentIs
  <2>3. End(b[i]) - low <= wnd
    BY <1>1 DEF Places
  <2> QED
    BY <1>5, <2>2, <2>3
<1>7. /\ to \in nxt..high /\ to <= limit
      /\ c \in Seq(Segment) /\ d \in Seq(Segment) /\ c \o d = a \o b
      /\ EndBy(b, l, to) /\ EndBy(c, Len(c), to)
  <2>1. nxt \in low..high /\ nxt <= limit
    BY <1>4, <1>5
  <2>2. MaySend(a, b, low, high, l, nxt, limit, to, c, d)
    BY <1>2, <1>3, <1>6, <2>1 DEF MaySend
  <2> QED
    BY <2>2, Sending
<1>8. PICK rtime \in {-1, 0}, oversize \in Int :
        r = [base EXCEPT !.unsent = d, !.unacked = c, !.snd_nxt = to, !.rtime = rtime,
                         !.oversize = oversize, !.memerr = 0]
  <2>1. SubSeq(p.unsent, Len(sent) + 1, Len(p.unsent)) = d
    BY <1>1, <1>2 DEF Places
  <2>2. AllInserted(p.unacked, sent) = c
    BY <1>1, <1>2 DEF Places
  <2>3. NxtAfter(base.snd_nxt, sent) = to
    BY <1>1, <1>2 DEF Places
  <2>4. PICK x, y : p = [base EXCEPT !.unacked = x, !.unsent = y]
    BY DEF Places
  <2>5. base \in Pcb
    BY DEF PcbOk
  <2>6. p.snd_nxt = base.snd_nxt /\ p.rtime = base.rtime /\ p.oversize = base.oversize
    BY <2>4, <2>5 DEF Pcb
  <2>7. PICK rtime \in {-1, 0} : rtime = IF sent # << >> THEN High(p.rtime, 0) ELSE p.rtime
    BY <2>5, <2>6, PcbIs DEF High
  <2>8. PICK oversize \in Int : oversize = IF d = << >> THEN 0 ELSE p.oversize
    BY <2>5, <2>6, PcbIs
  <2>9. r = [p EXCEPT !.unsent = d, !.unacked = c, !.snd_nxt = to, !.rtime = rtime,
                      !.oversize = oversize, !.memerr = 0]
    BY <2>1, <2>2, <2>3, <2>6, <2>7, <2>8 DEF Output, NxtAfter
  <2>10. r = [base EXCEPT !.unsent = d, !.unacked = c, !.snd_nxt = to, !.rtime = rtime,
                          !.oversize = oversize, !.memerr = 0]
    BY <2>4, <2>5, <2>9 DEF Pcb
  <2> QED
    BY <2>10
<1>9. to \in Nat /\ base \in Pcb
  BY <1>7 DEF PcbOk
<1>10. r \in Pcb
  BY <1>7, <1>8, <1>9, ZenonT(60) DEF Pcb, Flag
<1>11. /\ r.unsent = d /\ r.unacked = c /\ r.snd_nxt = to
       /\ r.state = base.state /\ r.snd_lbb = base.snd_lbb /\ r.lastack = base.lastack
       /\ r.snd_buf = base.snd_buf /\ r.snd_queuelen = base.snd_queuelen
       /\ r.snd_wnd = base.snd_wnd /\ r.snd_wl2 = base.snd_wl2
  BY <1>8, <1>9 DEF Pcb
<1>12. Queue(r) = Queue(base)
  BY <1>1, <1>7, <1>11 DEF Queue
<1>13. Numbers(r)
  <2>1. /\ base.snd_wl2 \in {base.lastack, base.lastack + 1}
        /\ base.snd_buf + (base.snd_lbb - base.lastack) = SndBuf
    BY DEF PcbOk, Numbers
  <2>2. low <= to /\ to <= high /\ to <= low + wnd /\ nxt <= to
    BY <1>4, <1>5, <1>7
  <2> QED
    BY <1>1, <1>11, <2>1, <2>2 DEF Numbers
<1>14. QueueOk(Queue(r), r.lastack, r.snd_lbb)
  BY <1>11, <1>12 DEF PcbOk
<1>15. PcbOk(r)
  BY <1>7, <1>10, <1>11, <1>13, <1>14 DEF PcbOk
<1>16. r.snd_nxt >= base.snd_nxt
  BY <1>1, <1>7, <1>11
<1>17. EndBy(base.unsent, l, r.snd_nxt)
  BY <1>1, <1>7, <1>11
<1> QED
  BY <1>11, <1>12, <1>15, <1>16, <1>17

\* What is sent are segments of the queue, and snd_nxt is not before their ends.
SentOk(sent, q, nxt) ==
  /\ sent \in Seq(Segment)
  /\ \A i \in 1..Len(sent) : End(sent[i]) <= nxt /\ \E j \in 1..Len(q) : sent[i] = q[j]

\* p after tcp_output.
Outputted(base, r, sent) ==
  /\ PcbOk(r)
  /\ Queue(r) = Queue(base)
  /\ r.snd_nxt >= base.snd_nxt
  /\ SentOk(sent, Queue(base), r.snd_nxt)
  /\ r.state = base.state /\ r.snd_lbb = base.snd_lbb /\ r.lastack = base.lastack
  /\ r.snd_queuelen = base.snd_queuelen
  /\ r.snd_wnd = base.snd_wnd /\ r.snd_wl2 = base.snd_wl2

\* tcp_output on queues in order.
LEMMA OutputNormal ==
  ASSUME NEW base, PcbOk(base), NEW cwnd \in Cwnds, NEW sent, NEW r,
         sent = Sent(base, Low(base.snd_wnd, cwnd)), r = Output(base, sent)
  PROVE  Outputted(base, r, sent)
<1>1. PICK a \in Seq(Segment), b \in Seq(Segment) : a = base.unacked /\ b = base.unsent
  BY PcbIs DEF PcbOk
<1>2. base.snd_wnd \in Nat /\ base.lastack \in Nat /\ base.snd_nxt \in Nat /\ base \in Pcb
  BY PcbIs DEF PcbOk
<1>3. PICK m \in 0..Len(b) :
        /\ sent = SubSeq(b, 1, m)
        /\ \A i \in 1..m : Sendable(base, Low(base.snd_wnd, cwnd), i)
  BY <1>1, SentIs
<1>4. /\ sent \in Seq(Segment) /\ Len(sent) = m
      /\ \A i \in 1..m : sent[i] = b[i] /\ i \in 1..Len(b)
  BY <1>3, SubSeqTo
<1>5. \A i \in 1..m : End(b[i]) - base.lastack <= base.snd_wnd
  <2> SUFFICES ASSUME NEW i \in 1..m PROVE End(b[i]) - base.lastack <= base.snd_wnd
    OBVIOUS
  <2>1. End(b[i]) \in Nat
    BY <1>4, ElementOfSeq, SegmentIs
  <2>2. End(b[i]) - base.lastack <= Low(base.snd_wnd, cwnd)
    BY <1>1, <1>3 DEF Sendable
  <2>3. cwnd \in Nat
    BY SendAssumption, SMTT(30) DEF Cwnds
  <2> QED
    BY <1>2, <2>1, <2>2, <2>3 DEF Low
<1>6. AllInserted(a, sent) = a \o SubSeq(b, 1, m)
  <2>1. Linked(a \o b)
    BY <1>1 DEF PcbOk, Queue, QueueOk
  <2> QED
    BY <1>3, <2>1, MergedBehind
<1>7. NxtAfter(base.snd_nxt, sent) = Onward(base.snd_nxt, b, m)
  <2>1. CASE m = 0
    <3>1. sent = << >>
      BY <1>4, <2>1, EmptySeq
    <3> QED
      BY <2>1, <3>1 DEF NxtAfter, Onward
  <2>2. CASE m # 0
    <3>1. sent # << >>
      BY <1>4, <2>2, EmptySeq
    <3>2. m \in 1..m
      BY <2>2
    <3>3. Last(sent) = b[m]
      BY <1>4, <3>2 DEF Last
    <3> QED
      BY <2>2, <3>1, <3>3 DEF NxtAfter, Onward
  <2> QED
    BY <2>1, <2>2
<1>8. Places(base, base, sent, m)
  <2>1. base = [base EXCEPT !.unacked = base.unacked, !.unsent = base.unsent]
    BY <1>2 DEF Pcb
  <2> QED
    BY <1>1, <1>4, <1>5, <1>6, <1>7, <2>1 DEF Places
<1>9. m \in 0..Len(base.unsent)
  BY <1>1
<1>10. /\ PcbOk(r) /\ Queue(r) = Queue(base) /\ r.snd_nxt >= base.snd_nxt
       /\ EndBy(base.unsent, m, r.snd_nxt)
       /\ r.state = base.state /\ r.snd_lbb = base.snd_lbb /\ r.lastack = base.lastack
       /\ r.snd_queuelen = base.snd_queuelen
       /\ r.snd_wnd = base.snd_wnd /\ r.snd_wl2 = base.snd_wl2
  BY <1>8, <1>9, Placed
<1>11. SentOk(sent, Queue(base), r.snd_nxt)
  <2>1. ASSUME NEW i \in 1..Len(sent)
        PROVE  /\ End(sent[i]) <= r.snd_nxt
               /\ \E j \in 1..Len(Queue(base)) : sent[i] = Queue(base)[j]
    <3>1. i \in 1..m /\ sent[i] = b[i] /\ i \in 1..Len(b)
      BY <1>4
    <3>2. End(b[i]) <= r.snd_nxt
      BY <1>1, <1>10, <3>1 DEF EndBy
    <3>3. \E j \in 1..Len(a \o b) : j = Len(a) + i /\ (a \o b)[j] = b[i]
      BY <3>1, TwoParts
    <3> QED
      BY <1>1, <3>1, <3>2, <3>3 DEF Queue
  <2> QED
    BY <1>4, <2>1 DEF SentOk
<1> QED
  BY <1>10, <1>11 DEF Outputted

\* p is base with the head of unacked moved to the head of unsent.
Moved(p, base) ==
  \E s \in Segment, a \in Seq(Segment), b \in Seq(Segment) :
    /\ base.unacked = <<s>> \o a /\ base.unsent = b
    /\ p = [base EXCEPT !.unacked = a, !.unsent = <<s>> \o b]
    /\ base.infr = 1

\* tcp_output after a fast retransmission has moved the head of unacked back.
LEMMA OutputMoved ==
  ASSUME NEW base, PcbOk(base), NEW cwnd \in Cwnds, NEW p, Moved(p, base), NEW sent, NEW r,
         sent = Sent(p, Low(base.snd_wnd, cwnd)), r = Output(p, sent)
  PROVE  Outputted(base, r, sent)
<1>1. PICK s \in Segment, a \in Seq(Segment), b \in Seq(Segment) :
        /\ base.unacked = <<s>> \o a /\ base.unsent = b
        /\ p = [base EXCEPT !.unacked = a, !.unsent = <<s>> \o b]
        /\ base.infr = 1
  BY DEF Moved
<1>2. /\ base.snd_wnd \in Nat /\ base.lastack \in Nat /\ base.snd_nxt \in Nat /\ base \in Pcb
      /\ base.snd_lbb \in Nat
  BY PcbIs DEF PcbOk
<1>3. PICK u \in Seq(Segment), c \in Seq(Segment) : u = <<s>> \o b /\ c = <<s>> \o a
  <2>1. <<s>> \in Seq(Segment)
    OBVIOUS
  <2>2. <<s>> \o b \in Seq(Segment) /\ <<s>> \o a \in Seq(Segment)
    BY <2>1, ConcatProperties
  <2> QED
    BY <2>2
<1>4. /\ Len(u) = Len(b) + 1 /\ u[1] = s /\ 1 \in 1..Len(u) /\ Len(b) \in Nat
      /\ \A j \in 1..Len(b) : \E n \in 1..Len(u) : n = j + 1 /\ u[n] = b[j]
      /\ \A n \in 1..Len(u) : n > 1 => \E j \in 1..Len(b) : n = j + 1 /\ u[n] = b[j]
  <2>1. <<s>> \in Seq(Segment) /\ Len(<<s>>) = 1 /\ <<s>>[1] = s
    OBVIOUS
  <2>2. PICK t \in Seq(Segment) : t = <<s>> /\ Len(t) = 1 /\ t[1] = s /\ u = t \o b
    BY <1>3, <2>1
  <2>3. /\ Len(u) = Len(t) + Len(b) /\ Len(b) \in Nat
        /\ \A i \in 1..Len(t) : \E n \in 1..Len(u) : n = i /\ u[n] = t[i]
        /\ \A j \in 1..Len(b) : \E n \in 1..Len(u) : n = Len(t) + j /\ u[n] = b[j]
    <3>1. /\ Len(t \o b) = Len(t) + Len(b) /\ Len(b) \in Nat
          /\ \A i \in 1..Len(t) : \E n \in 1..Len(t \o b) : n = i /\ (t \o b)[n] = t[i]
          /\ \A j \in 1..Len(b) :
               \E n \in 1..Len(t \o b) : n = Len(t) + j /\ (t \o b)[n] = b[j]
      BY TwoParts
    <3>2. u = t \o b
      BY <2>2
    <3> QED
      BY <3>1, <3>2
  <2>4. Len(u) = Len(b) + 1 /\ u[1] = s /\ 1 \in 1..Len(u)
    BY <2>2, <2>3
  <2>5. \A j \in 1..Len(b) : \E n \in 1..Len(u) : n = j + 1 /\ u[n] = b[j]
    BY <2>2, <2>3
  <2>6. ASSUME NEW n \in 1..Len(u), n > 1
        PROVE  \E j \in 1..Len(b) : n = j + 1 /\ u[n] = b[j]
    <3>1. PICK j \in 1..Len(b) : j = n - 1
      <4>1. n - 1 \in 1..Len(b)
        BY <2>3, <2>4, <2>6
      <4> QED
        BY <4>1
    <3>2. n = j + 1
      BY <3>1
    <3> QED
      BY <2>5, <3>2
  <2> QED
    BY <2>3, <2>4, <2>5, <2>6
<1>5. p.unsent = u /\ p.unacked = a /\ p.lastack = base.lastack /\ p.infr = 1
  BY <1>1, <1>2, <1>3 DEF Pcb
<1>6. PICK m \in 0..Len(u) :
        /\ sent = SubSeq(u, 1, m)
        /\ \A i \in 1..m : Sendable(p, Low(base.snd_wnd, cwnd), i)
        /\ m < Len(u) => ~Sendable(p, Low(base.snd_wnd, cwnd), m + 1)
  BY <1>5, SentIs
<1>7. /\ sent \in Seq(Segment) /\ Len(sent) = m
      /\ \A i \in 1..m : sent[i] = u[i] /\ i \in 1..Len(u)
  BY <1>6, SubSeqTo
<1>8. /\ QueueOk(c \o b, base.lastack, base.snd_lbb) /\ Linked(c \o b)
      /\ EndBy(c, Len(c), base.snd_nxt)
      /\ base.snd_nxt <= base.lastack + base.snd_wnd
  BY <1>1, <1>3 DEF PcbOk, Queue, QueueOk, Numbers
<1>9. /\ End(s) \in Nat /\ End(s) <= base.snd_nxt /\ End(s) - base.lastack <= Mss
      /\ \E j \in 1..Len(c \o b) : s = (c \o b)[j]
  <2>1. <<s>> \in Seq(Segment) /\ Len(<<s>>) = 1 /\ <<s>>[1] = s
    OBVIOUS
  <2>2. \A i \in 1..1 : \E n \in 1..Len(c) : n = i /\ c[n] = <<s>>[i]
    BY <1>3, <2>1, TwoParts
  <2>3. 1 \in 1..Len(c) /\ c[1] = s
    BY <2>1, <2>2
  <2>4. 1 \in 1..Len(c \o b) /\ (c \o b)[1] = s
    BY <2>3, TwoParts
  <2>5. End(s) <= base.snd_nxt
    BY <1>8, <2>3 DEF EndBy
  <2>6. Length(s) <= Mss /\ Mss \in Nat
    <3>1. Mss \in Nat
      BY SendAssumption
    <3>2. Length((c \o b)[1]) \in 1..Mss
      BY <1>8, <2>4, Zenon DEF Linked
    <3>3. Length(s) \in 1..Mss
      BY <2>4, <3>2, Zenon
    <3> QED
      BY <3>1, <3>3
  <2>7. s.seq <= base.lastack
    <3>1. c \o b # << >>
      BY <2>4, EmptySeq
    <3> QED
      BY <1>8, <2>4, <3>1 DEF QueueOk, Holds
  <2>8. s.seq \in Nat /\ Length(s) \in Nat /\ End(s) = s.seq + Length(s) /\ End(s) \in Nat
    BY SegmentIs
  <2>9. End(s) - base.lastack <= Mss
    <3>1. \A x, y, z, l \in Nat : x <= y /\ l <= z => (x + l) - y <= z
      OBVIOUS
    <3>2. base.lastack \in Nat /\ Mss \in Nat
      BY <1>2, <2>6
    <3> QED
      BY <2>6, <2>7, <2>8, <3>1, <3>2
  <2>10. \E j \in 1..Len(c \o b) : s = (c \o b)[j]
    BY <2>4
  <2> QED
    BY <2>5, <2>8, <2>9, <2>10
<1>10. m \in 1..Len(u)
  <2>1. Sendable(p, Low(base.snd_wnd, cwnd), 1)
    <3>1. Nagle(p, 1)
      BY <1>5 DEF Nagle
    <3>2. cwnd \in Nat /\ Mss <= cwnd /\ Mss \in Nat
      BY SendAssumption DEF Cwnds
    <3>3. End(s) - base.lastack <= Low(base.snd_wnd, cwnd)
      <4>1. \A x, y, z, w \in Nat : x <= y /\ y <= z + w => x - z <= w
        OBVIOUS
      <4>2. End(s) - base.lastack <= base.snd_wnd
        BY <1>2, <1>8, <1>9, <4>1
      <4>3. End(s) - base.lastack <= cwnd
        <5>1. End(s) - base.lastack \in Int /\ End(s) - base.lastack <= Mss
          BY <1>2, <1>9, SMTT(30)
        <5> QED
          BY <3>2, <5>1
      <4> QED
        BY <4>2, <4>3 DEF Low
    <3> QED
      BY <1>4, <1>5, <3>1, <3>3 DEF Sendable
  <2>2. CASE m = 0
    <3>1. m < Len(u) /\ m + 1 = 1
      BY <1>4, <2>2
    <3> QED
      BY <1>6, <2>1, <3>1
  <2>3. CASE m # 0
    BY <2>3
  <2> QED
    BY <2>2, <2>3
<1>11. PICK l \in 0..Len(b) : l = m - 1
  BY <1>4, <1>10
<1>12. /\ AllInserted(a, sent) = c \o SubSeq(b, 1, l)
       /\ SubSeq(u, m + 1, Len(u)) = SubSeq(b, l + 1, Len(b))
  <2>1. m \in 1..Len(<<s>> \o b) /\ Linked((<<s>> \o a) \o b)
    BY <1>3, <1>8, <1>10
  <2>2. AllInserted(a, SubSeq(<<s>> \o b, 1, m)) = (<<s>> \o a) \o SubSeq(b, 1, m - 1)
    BY <2>1, MergedAround, ZenonT(60)
  <2>3. SubSeq(<<s>> \o b, m + 1, Len(<<s>> \o b)) = SubSeq(b, m, Len(b))
    BY <2>1, MergedAround, ZenonT(60)
  <2>4. l + 1 = m
    BY <1>11
  <2> QED
    BY <1>3, <1>6, <1>11, <2>2, <2>3, <2>4
<1>13. ASSUME NEW i \in 1..l
       PROVE  /\ i \in 1..Len(b) /\ End(b[i]) \in Nat
              /\ End(b[i]) - base.lastack <= base.snd_wnd
  <2>1. i \in 1..Len(b)
    BY <1>4
  <2>2. PICK n \in 1..Len(u) : n = i + 1 /\ u[n] = b[i]
    BY <1>4, <2>1
  <2>3. n \in 1..m
    BY <1>11, <2>2
  <2>4. End(b[i]) \in Nat
    BY <2>1, ElementOfSeq, SegmentIs
  <2>5. End(b[i]) - base.lastack <= Low(base.snd_wnd, cwnd)
    BY <1>5, <1>6, <2>2, <2>3 DEF Sendable
  <2>6. cwnd \in Nat
    BY SendAssumption, SMTT(30) DEF Cwnds
  <2> QED
    BY <1>2, <2>1, <2>4, <2>5, <2>6, SMTT(30) DEF Low
<1>14. NxtAfter(base.snd_nxt, sent) = Onward(base.snd_nxt, b, l)
  <2>1. sent # << >> /\ Last(sent) = u[m]
    <3>1. m \in 1..m /\ m # 0
      BY <1>10
    <3> QED
      BY <1>7, <3>1, EmptySeq DEF Last
  <2>2. CASE m = 1
    <3>1. l = 0 /\ u[m] = s
      BY <1>4, <1>11, <2>2
    <3>2. High(base.snd_nxt, End(s)) = base.snd_nxt
      BY <1>2, <1>9 DEF High
    <3> QED
      BY <2>1, <3>1, <3>2 DEF NxtAfter, Onward
  <2>3. CASE m # 1
    <3>1. m > 1
      BY <1>10, <2>3
    <3>2. PICK j \in 1..Len(b) : m = j + 1 /\ u[m] = b[j]
      BY <1>4, <1>10, <3>1
    <3>3. j = l /\ l # 0
      BY <1>11, <3>2
    <3> QED
      BY <2>1, <3>2, <3>3 DEF NxtAfter, Onward
  <2> QED
    BY <2>2, <2>3
<1>15. Places(base, p, sent, l)
  <2>1. p = [base EXCEPT !.unacked = p.unacked, !.unsent = p.unsent]
    BY <1>1, <1>3, <1>5
  <2>2. \A i \in 1..l : End(base.unsent[i]) - base.lastack <= base.snd_wnd
    BY <1>1, <1>13
  <2> QED
    BY <1>1, <1>3, <1>5, <1>7, <1>12, <1>14, <2>1, <2>2 DEF Places
<1>16. l \in 0..Len(base.unsent)
  BY <1>1
<1>17. /\ PcbOk(r) /\ Queue(r) = Queue(base) /\ r.snd_nxt >= base.snd_nxt
       /\ EndBy(base.unsent, l, r.snd_nxt)
       /\ r.state = base.state /\ r.snd_lbb = base.snd_lbb /\ r.lastack = base.lastack
       /\ r.snd_queuelen = base.snd_queuelen
       /\ r.snd_wnd = base.snd_wnd /\ r.snd_wl2 = base.snd_wl2
  BY <1>15, <1>16, Placed
<1>18. SentOk(sent, Queue(base), r.snd_nxt)
  <2>1. Queue(base) = c \o b /\ r.snd_nxt \in Nat
    BY <1>1, <1>3, <1>17, PcbIs DEF Queue, PcbOk
  <2>2. ASSUME NEW i \in 1..Len(sent)
        PROVE  /\ End(sent[i]) <= r.snd_nxt
               /\ \E j \in 1..Len(Queue(base)) : sent[i] = Queue(base)[j]
    <3>1. i \in 1..m /\ sent[i] = u[i] /\ i \in 1..Len(u)
      BY <1>7
    <3>2. CASE i = 1
      <4>1. sent[i] = s
        BY <1>4, <3>1, <3>2
      <4>2. End(s) <= r.snd_nxt
        <5>1. End(s) \in Nat /\ End(s) <= base.snd_nxt /\ base.snd_nxt \in Nat
          BY <1>2, <1>9
        <5>2. base.snd_nxt <= r.snd_nxt /\ r.snd_nxt \in Nat
          BY <1>2, <1>17, <2>1
        <5> QED
          BY <5>1, <5>2
      <4> QED
        BY <1>9, <2>1, <4>1, <4>2
    <3>3. CASE i # 1
      <4>1. i > 1 /\ i \in 1..Len(u)
        BY <3>1, <3>3
      <4>2. PICK k \in 1..Len(b) : i = k + 1 /\ u[i] = b[k]
        BY <1>4, <4>1
      <4>3. k \in 1..l
        BY <1>11, <3>1, <4>2
      <4>4. End(b[k]) <= r.snd_nxt
        BY <1>1, <1>17, <4>3 DEF EndBy
      <4>5. \E j \in 1..Len(c \o b) : j = Len(c) + k /\ (c \o b)[j] = b[k]
        BY PartIs, Zenon
      <4> QED
        BY <2>1, <3>1, <4>2, <4>4, <4>5
    <3> QED
      BY <3>2, <3>3
  <2> QED
    BY <1>7, <2>2, SMTT(30) DEF SentOk
<1> QED
  BY <1>17, <1>18 DEF Outputted

-----------------------------------------------------------------------------
(* tcp_receive.                                                            *)

\* A window update keeps the window or takes the one of the acknowledgement.
LEMMA WindowIs ==
  ASSUME NEW p \in Pcb, NEW a \in Acknowledgement
  PROVE  \E wnd \in Nat, wl2 \in Nat, persist \in Flag :
           /\ WindowUpdated(p, a) =
                [p EXCEPT !.snd_wnd = wnd, !.snd_wl2 = wl2, !.persist = persist]
           /\ \/ wnd = p.snd_wnd /\ wl2 = p.snd_wl2 /\ ~(p.snd_wl2 < a.ack)
              \/ /\ wnd = a.wnd /\ wl2 = a.ack
                 /\ p.snd_wl2 < a.ack \/ (p.snd_wl2 = a.ack /\ a.wnd > p.snd_wnd)
<1>1. a.ack \in Nat /\ a.wnd \in Nat
  BY DEF Acknowledgement
<1>2. CASE p.snd_wl2 < a.ack \/ (p.snd_wl2 = a.ack /\ a.wnd > p.snd_wnd)
  <2>1. PICK persist \in Flag : persist = IF a.wnd = 0 THEN 1 ELSE 0
    BY DEF Flag
  <2>2. WindowUpdated(p, a) = [p EXCEPT !.snd_wnd = a.wnd, !.snd_wl2 = a.ack,
                                        !.persist = persist]
    BY <1>2, <2>1 DEF WindowUpdated
  <2> QED
    BY <1>1, <1>2, <2>2
<1>3. CASE ~(p.snd_wl2 < a.ack \/ (p.snd_wl2 = a.ack /\ a.wnd > p.snd_wnd))
  <2>1. WindowUpdated(p, a) = p
    BY <1>3 DEF WindowUpdated
  <2>2. p = [p EXCEPT !.snd_wnd = p.snd_wnd, !.snd_wl2 = p.snd_wl2, !.persist = p.persist]
    BY DEF Pcb
  <2>3. p.snd_wnd \in Nat /\ p.snd_wl2 \in Nat /\ p.persist \in Flag
    BY DEF Pcb
  <2>4. ~(p.snd_wl2 < a.ack)
    BY <1>3
  <2>5. PICK wnd \in Nat, wl2 \in Nat, persist \in Flag :
          wnd = p.snd_wnd /\ wl2 = p.snd_wl2 /\ persist = p.persist
    BY <2>3
  <2>6. WindowUpdated(p, a) = [p EXCEPT !.snd_wnd = wnd, !.snd_wl2 = wl2,
                                        !.persist = persist]
    BY <2>1, <2>2, <2>5
  <2> QED
    BY <2>4, <2>5, <2>6
<1> QED
  BY <1>2, <1>3

\* Nothing in unsent has been acknowledged.
LEMMA UnsentKept ==
  ASSUME NEW r \in Pcb, NEW a \in Acknowledgement,
         a.ack <= r.snd_nxt => \A i \in 1..Len(r.unsent) : a.ack < End(r.unsent[i])
  PROVE  \E oversize \in Int : UnsentAcked(r, a) = [r EXCEPT !.oversize = oversize]
<1>1. PICK u \in Seq(Segment), n \in Int : u = r.unsent /\ n = r.snd_queuelen
  BY PcbIs
<1>2. a.ack \in Nat
  BY DEF Acknowledgement
<1>3. PICK k : k = IF a.ack <= r.snd_nxt THEN Covered(u, a.ack) ELSE 0
  OBVIOUS
<1>4. k = 0
  <2>1. CASE a.ack <= r.snd_nxt
    <3>1. \A i \in 1..Len(u) : a.ack < End(u[i])
      BY <1>1, <2>1
    <3>2. Covered(u, a.ack) = 0
      BY <1>2, <3>1, NothingCovered
    <3> QED
      BY <1>3, <2>1, <3>2
  <2>2. CASE ~(a.ack <= r.snd_nxt)
    BY <1>3, <2>2
  <2> QED
    BY <2>1, <2>2
<1>5. SubSeq(u, k + 1, Len(u)) = u /\ n - Bufs(SubSeq(u, 1, k)) = n
  <2>1. Len(u) \in Nat
    BY LenProperties
  <2>2. SubSeq(u, 1, Len(u)) = u /\ SubSeq(u, 1, 0) = << >>
    BY <2>1, SubSeqFull, SubSeqEmpty
  <2>3. n - Bufs(<< >>) = n
    BY BufsNone
  <2>4. SubSeq(u, 0 + 1, Len(u)) = SubSeq(u, 1, Len(u))
    OBVIOUS
  <2>5. SubSeq(u, k + 1, Len(u)) = SubSeq(u, 0 + 1, Len(u))
        /\ SubSeq(u, 1, k) = SubSeq(u, 1, 0)
    BY <1>4
  <2> QED
    BY <2>2, <2>3, <2>4, <2>5
<1>6. PICK oversize \in Int : oversize = IF k = Len(u) THEN 0 ELSE r.oversize
  BY PcbIs
<1>7. UnsentAcked(r, a) = [r EXCEPT !.unsent = SubSeq(u, k + 1, Len(u)),
                                    !.oversize = oversize,
                                    !.snd_queuelen = n - Bufs(SubSeq(u, 1, k))]
  BY <1>1, <1>3, <1>6 DEF UnsentAcked
<1>8. UnsentAcked(r, a) = [r EXCEPT !.unsent = u, !.oversize = oversize,
                                    !.snd_queuelen = n]
  BY <1>5, <1>7
<1>9. [r EXCEPT !.unsent = u, !.oversize = oversize, !.snd_queuelen = n] =
        [r EXCEPT !.oversize = oversize]
  BY <1>1 DEF Pcb
<1> QED
  BY <1>8, <1>9

\* What follows the first k elements of a sequence.
LEMMA Suffix ==
  ASSUME NEW S, NEW s \in Seq(S), NEW k \in 0..Len(s)
  PROVE  /\ SubSeq(s, k + 1, Len(s)) \in Seq(S) /\ Len(SubSeq(s, k + 1, Len(s))) = Len(s) - k
         /\ \A i \in 1..Len(s) - k :
              \E j \in 1..Len(s) : j = k + i /\ SubSeq(s, k + 1, Len(s))[i] = s[j]
<1>1. Len(s) \in Nat /\ \A i \in 1..Len(s) : s[i] \in S
  BY LenProperties, ElementOfSeq
<1>2. k \in Nat /\ \A i \in k + 1..Len(s) : i \in 1..Len(s)
  BY <1>1
<1>3. SubSeq(s, k + 1, Len(s)) \in Seq(S) /\ Len(SubSeq(s, k + 1, Len(s))) = Len(s) - k
  BY SplitIs
<1>4. \A i \in 1..Len(s) - (k + 1) + 1 : SubSeq(s, k + 1, Len(s))[i] = s[k + 1 + i - 1]
  <2>1. \A i \in k + 1..Len(s) : s[i] \in S
    BY <1>1, <1>2
  <2> QED
    BY <1>1, <1>2, <2>1, SubSeqProperties
<1>5. ASSUME NEW i \in 1..Len(s) - k
      PROVE  \E j \in 1..Len(s) : j = k + i /\ SubSeq(s, k + 1, Len(s))[i] = s[j]
  <2>1. /\ i \in 1..Len(s) - (k + 1) + 1 /\ k + 1 + i - 1 = k + i /\ k + i \in 1..Len(s)
    BY <1>1, <1>2
  <2> QED
    BY <1>4, <2>1
<1> QED
  BY <1>3, <1>5

\* Every segment of q is one of those of s.
Among(q, s) == \A i \in 1..Len(q) : \E j \in 1..Len(s) : q[i] = s[j]

\* The end of a queue is among the queue.
LEMMA AmongSuffix ==
  ASSUME NEW s \in Seq(Segment), NEW k \in 0..Len(s)
  PROVE  Among(SubSeq(s, k + 1, Len(s)), s)
  BY Suffix DEF Among

\* Parts of two queues are among both together.
LEMMA AmongBoth ==
  ASSUME NEW a \in Seq(Segment), NEW b \in Seq(Segment),
         NEW x \in Seq(Segment), NEW y \in Seq(Segment), Among(x, a), Among(y, b)
  PROVE  Among(x \o y, a \o b)
<1>1. /\ Len(x) \in Nat /\ Len(y) \in Nat /\ Len(x \o y) = Len(x) + Len(y)
      /\ \A i \in 1..Len(x) + Len(y) :
            (x \o y)[i] = IF i <= Len(x) THEN x[i] ELSE y[i - Len(x)]
  BY ConcatProperties, LenProperties
<1>2. ASSUME NEW i \in 1..Len(x \o y)
      PROVE  \E j \in 1..Len(a \o b) : (x \o y)[i] = (a \o b)[j]
  <2>1. CASE i <= Len(x)
    <3>1. i \in 1..Len(x) /\ (x \o y)[i] = x[i]
      BY <1>1, <2>1
    <3>2. PICK j \in 1..Len(a) : x[i] = a[j]
      BY <3>1 DEF Among
    <3>3. \E n \in 1..Len(a \o b) : n = j /\ (a \o b)[n] = a[j]
      BY TwoParts, ZenonT(60)
    <3> QED
      BY <3>1, <3>2, <3>3
  <2>2. CASE ~(i <= Len(x))
    <3>1. PICK k \in 1..Len(y) : k = i - Len(x)
      <4>1. i - Len(x) \in 1..Len(y)
        BY <1>1, <2>2
      <4> QED
        BY <4>1
    <3>2. (x \o y)[i] = y[k]
      BY <1>1, <2>2, <3>1
    <3>3. PICK j \in 1..Len(b) : y[k] = b[j]
      BY DEF Among
    <3>4. \E n \in 1..Len(a \o b) : n = Len(a) + j /\ (a \o b)[n] = b[j]
      BY PartIs, ZenonT(60)
    <3> QED
      BY <3>2, <3>3, <3>4
  <2> QED
    BY <2>1, <2>2
<1> QED
  BY <1>2 DEF Among

\* The acknowledgement is of what has been sent, and shrinks no window.
AckFits(p, a) ==
  /\ a \in Acknowledgement
  /\ \E top \in Nat : a.ack <= ReachOf(p.lastack, p.snd_nxt, top)
  /\ p.snd_wl2 < a.ack => p.snd_wl2 + p.snd_wnd <= Edge(a)

\* b has p's window or the acknowledgement's.
Updated(p, b, a) ==
  \/ b.snd_wnd = p.snd_wnd /\ b.snd_wl2 = p.snd_wl2 /\ ~(p.snd_wl2 < a.ack)
  \/ /\ b.snd_wnd = a.wnd /\ b.snd_wl2 = a.ack
     /\ p.snd_wl2 < a.ack \/ (p.snd_wl2 = a.ack /\ a.wnd > p.snd_wnd)

\* What an acknowledgement makes of p, before tcp_output.
Received(p, b, a) ==
  /\ PcbOk(b)
  /\ b.snd_nxt = p.snd_nxt /\ b.snd_lbb = p.snd_lbb /\ b.state = p.state
  /\ b.lastack >= p.lastack
  /\ p.lastack = p.snd_nxt => b.lastack = p.lastack
  /\ Among(Queue(b), Queue(p))
  /\ p.snd_queuelen = Bufs(Queue(p)) => b.snd_queuelen = Bufs(Queue(b))
  /\ Updated(p, b, a)

SameButWindow(p, b) ==
  /\ b.unacked = p.unacked /\ b.unsent = p.unsent
  /\ b.lastack = p.lastack /\ b.snd_nxt = p.snd_nxt /\ b.snd_lbb = p.snd_lbb
  /\ b.state = p.state /\ b.snd_buf = p.snd_buf /\ b.snd_queuelen = p.snd_queuelen

\* What an acknowledgement that fits the pcb says.
LEMMA AckIs ==
  ASSUME NEW p, PcbOk(p), NEW a, AckFits(p, a)
  PROVE  /\ a.ack \in Nat /\ a.wnd \in Nat /\ a \in Acknowledgement
         /\ ~(a.ack <= p.snd_nxt) => p.lastack = p.snd_nxt /\ a.ack = p.lastack + 1
         /\ p.snd_wl2 < a.ack => p.snd_wl2 + p.snd_wnd <= a.ack + a.wnd
<1>1. a.ack \in Nat /\ a.wnd \in Nat /\ a \in Acknowledgement
  BY DEF AckFits, Acknowledgement
<1>2. p.lastack \in Nat /\ p.snd_nxt \in Nat
  BY PcbIs DEF PcbOk
<1>3. PICK top \in Nat : a.ack <= ReachOf(p.lastack, p.snd_nxt, top)
  BY DEF AckFits
<1>4. ~(a.ack <= p.snd_nxt) => p.lastack = p.snd_nxt /\ a.ack = p.lastack + 1
  BY <1>1, <1>2, <1>3 DEF ReachOf, Low
<1> QED
  BY <1>1, <1>4 DEF AckFits, Edge

\* Without its queue an acknowledgement can only change a pcb's window.
LEMMA SameQueue ==
  ASSUME NEW p, PcbOk(p), NEW a, AckFits(p, a), a.ack <= p.lastack \/ ~(a.ack <= p.snd_nxt),
         NEW b \in Pcb, SameButWindow(p, b), Updated(p, b, a)
  PROVE  Received(p, b, a)
<1>1. Queue(b) = Queue(p)
  BY DEF Queue, SameButWindow
<1>2. QueueOk(Queue(b), b.lastack, b.snd_lbb) /\ EndBy(b.unacked, Len(b.unacked), b.snd_nxt)
  BY <1>1 DEF PcbOk, SameButWindow
<1>3. PICK lastack \in Nat, nxt \in Nat, wl2 \in Nat, wnd \in Nat, ack \in Nat, aw \in Nat :
        /\ lastack = p.lastack /\ nxt = p.snd_nxt /\ wl2 = p.snd_wl2 /\ wnd = p.snd_wnd
        /\ ack = a.ack /\ aw = a.wnd
  BY PcbIs, AckIs DEF PcbOk
<1>4. PICK bwl2 \in Nat, bwnd \in Nat : bwl2 = b.snd_wl2 /\ bwnd = b.snd_wnd
  BY PcbIs
<1>5. lastack <= nxt /\ nxt <= lastack + wnd /\ wl2 \in {lastack, lastack + 1}
  BY <1>3 DEF PcbOk, Numbers
<1>6. /\ ack <= lastack \/ ~(ack <= nxt)
      /\ ~(ack <= nxt) => lastack = nxt /\ ack = lastack + 1
  BY <1>3, AckIs
<1>7. \/ bwnd = wnd /\ bwl2 = wl2 /\ ~(wl2 < ack)
      \/ /\ bwnd = aw /\ bwl2 = ack
         /\ wl2 < ack \/ (wl2 = ack /\ aw > wnd)
  BY <1>3, <1>4 DEF Updated
<1>8. nxt <= lastack + bwnd /\ bwl2 \in {lastack, lastack + 1}
  BY <1>5, <1>6, <1>7
<1>9. Numbers(b)
  <2>1. /\ p.lastack <= p.snd_nxt /\ p.snd_nxt <= p.snd_lbb
        /\ p.snd_buf + (p.snd_lbb - p.lastack) = SndBuf
    BY DEF PcbOk, Numbers
  <2> QED
    BY <1>3, <1>4, <1>8, <2>1 DEF Numbers, SameButWindow
<1>10. PcbOk(b)
  BY <1>2, <1>9 DEF PcbOk
<1>11. Among(Queue(b), Queue(p))
  BY <1>1 DEF Among
<1>12. b.lastack >= p.lastack
  BY <1>3 DEF SameButWindow
<1> QED
  BY <1>1, <1>10, <1>11, <1>12 DEF Received, SameButWindow

\* No segment in the queue has been acknowledged as a whole.
LEMMA EndsAbove ==
  ASSUME NEW p, PcbOk(p)
  PROVE  /\ \A i \in 1..Len(p.unacked) : p.lastack < End(p.unacked[i])
         /\ \A i \in 1..Len(p.unsent) : p.lastack < End(p.unsent[i])
<1>1. PICK a \in Seq(Segment), b \in Seq(Segment), low \in Nat, high \in Nat :
        /\ a = p.unacked /\ b = p.unsent /\ low = p.lastack /\ high = p.snd_lbb
  BY PcbIs DEF PcbOk
<1>2. QueueOk(a \o b, low, high)
  BY <1>1 DEF PcbOk, Queue
<1>3. PICK q : q = a \o b
  OBVIOUS
<1>4. \A i \in 1..Len(q) : low < End(q[i])
  BY <1>2, <1>3, EndsIn
<1>5. \A i \in 1..Len(a) : low < End(a[i])
  <2> SUFFICES ASSUME NEW i \in 1..Len(a) PROVE low < End(a[i])
    OBVIOUS
  <2>1. \E n \in 1..Len(a \o b) : n = i /\ (a \o b)[n] = a[i]
    BY TwoParts
  <2> QED
    BY <1>3, <1>4, <2>1
<1>6. \A i \in 1..Len(b) : low < End(b[i])
  <2> SUFFICES ASSUME NEW i \in 1..Len(b) PROVE low < End(b[i])
    OBVIOUS
  <2>1. \E n \in 1..Len(a \o b) : n = Len(a) + i /\ (a \o b)[n] = b[i]
    BY TwoParts
  <2> QED
    BY <1>3, <1>4, <2>1
<1> QED
  BY <1>1, <1>5, <1>6

\* A queue that is not empty is its head and its tail.
LEMMA HeadAndTail ==
  ASSUME NEW a \in Seq(Segment), a # << >>
  PROVE  /\ Head(a) \in Segment /\ Tail(a) \in Seq(Segment) /\ a = <<Head(a)>> \o Tail(a)
         /\ a[1] = Head(a) /\ 1 \in 1..Len(a)
<1>1. Len(a) \in Nat /\ Len(a) # 0
  BY EmptySeq, LenProperties
<1>2. 1 \in 1..Len(a) /\ Len(a) \in 1..Len(a)
  BY <1>1
<1>3. SubSeq(a, 1, Len(a)) = a /\ Tail(a) = SubSeq(a, 2, Len(a))
  BY SubSeqFull, TailIsSubSeq
<1>4. Head(SubSeq(a, 1, Len(a))) = a[1]
  BY <1>2, HeadTailOfSubSeq
<1>5. SubSeq(a, 1, Len(a)) = <<a[1]>> \o SubSeq(a, 1 + 1, Len(a))
  BY <1>2, SubSeqRecursiveFirst
<1>6. Head(a) \in Segment /\ Tail(a) \in Seq(Segment)
  BY HeadTailProperties
<1>7. 1 + 1 = 2
  OBVIOUS
<1> QED
  BY <1>2, <1>3, <1>4, <1>5, <1>6, <1>7

\* f is r with the head of unacked moved to the head of unsent.
Rexmitted(r, f, s, a, b, oversize) ==
  /\ r.unacked = <<s>> \o a /\ r.unsent = b /\ r.infr = 0
  /\ f = [r EXCEPT !.unacked = a, !.unsent = <<s>> \o b, !.oversize = oversize,
                   !.nrtx = r.nrtx + 1, !.infr = 1]

\* tcp_rexmit_fast changes nothing or moves the head of unacked to unsent.
LEMMA RexmitFastIs ==
  ASSUME NEW r, PcbOk(r)
  PROVE  \/ RexmitFast(r) = r
         \/ \E s \in Segment, a \in Seq(Segment), b \in Seq(Segment), oversize \in Int :
              Rexmitted(r, RexmitFast(r), s, a, b, oversize)
<1>1. CASE r.unacked = << >> \/ r.infr = 1
  BY <1>1 DEF RexmitFast
<1>2. CASE ~(r.unacked = << >> \/ r.infr = 1)
  <2>1. /\ r \in Pcb /\ r.unacked \in Seq(Segment) /\ r.unsent \in Seq(Segment)
        /\ r.infr = 0
    BY <1>2, PcbIs DEF PcbOk
  <2>2. PICK c \in Seq(Segment), b \in Seq(Segment), low \in Nat, high \in Nat :
          c = r.unacked /\ b = r.unsent /\ low = r.lastack /\ high = r.snd_lbb
    BY <2>1, PcbIs
  <2>3. PICK s \in Segment, a \in Seq(Segment) :
          /\ s = Head(c) /\ a = Tail(c) /\ c = <<s>> \o a
          /\ c[1] = s /\ 1 \in 1..Len(c)
    BY <1>2, <2>2, HeadAndTail
  <2>4. \A i \in 1..Len(b) : ~(b[i].seq < s.seq)
    <3> SUFFICES ASSUME NEW i \in 1..Len(b) PROVE ~(b[i].seq < s.seq)
      OBVIOUS
    <3>1. c \o b \in Seq(Segment) /\ Linked(c \o b)
      BY <2>2 DEF PcbOk, Queue, QueueOk
    <3>2. PICK n \in 1..Len(c \o b) : n = 1 /\ (c \o b)[n] = c[1]
      BY <2>3, PartIs, ZenonT(60)
    <3>3. PICK k \in 1..Len(c \o b) : k = Len(c) + i /\ (c \o b)[k] = b[i]
      BY PartIs, Zenon
    <3>4. n < k
      <4>1. Len(c) \in Nat
        BY LenProperties
      <4> QED
        BY <2>3, <3>2, <3>3, <4>1
    <3>5. s.seq < End(s) /\ End(s) <= b[i].seq
      BY <2>3, <3>1, <3>2, <3>3, <3>4, InOrderIs
    <3>6. s.seq \in Nat /\ End(s) \in Nat /\ b[i].seq \in Nat
      BY ElementOfSeq, SegmentIs
    <3> QED
      BY <3>5, <3>6
  <2>5. Inserted(b, s) = <<s>> \o b
    BY <2>4, InsertedFirst
  <2>6. PICK oversize \in Int :
          oversize = IF \A t \in ToSet(r.unsent) : t.seq < s.seq THEN 0 ELSE r.oversize
    BY <2>1, PcbIs
  <2>7. RexmitFast(r) = [r EXCEPT !.unacked = Tail(r.unacked),
                                  !.unsent = Inserted(r.unsent, s),
                                  !.oversize = oversize, !.nrtx = r.nrtx + 1, !.infr = 1]
    BY <1>2, <2>2, <2>3, <2>6 DEF RexmitFast
  <2>8. RexmitFast(r) = [r EXCEPT !.unacked = a, !.unsent = <<s>> \o b,
                                  !.oversize = oversize, !.nrtx = r.nrtx + 1, !.infr = 1]
    BY <2>2, <2>3, <2>5, <2>7
  <2>9. Rexmitted(r, RexmitFast(r), s, a, b, oversize)
    BY <2>1, <2>2, <2>3, <2>8 DEF Rexmitted
  <2> QED
    BY <2>9
<1> QED
  BY <1>1, <1>2

\* r is q with another number of duplicate acknowledgements.
Counted(q, r) == \E dupacks \in Nat : r = [q EXCEPT !.dupacks = dupacks]

\* An acknowledgement of nothing new counts, and may lead to a fast retransmission.
LEMMA OldAckIs ==
  ASSUME NEW p, NEW q \in Pcb, NEW a
  PROVE  \E r : Counted(q, r) /\ OldAck(p, q, a) \in {r, RexmitFast(r)}
<1>1. CASE ~IsDupAck(p, q, a)
  <2>1. PICK r : r = [q EXCEPT !.dupacks = 0]
    OBVIOUS
  <2>2. OldAck(p, q, a) = r
    BY <1>1, <2>1 DEF OldAck
  <2>3. Counted(q, r)
    BY <2>1 DEF Counted
  <2> QED
    BY <2>2, <2>3
<1>2. CASE IsDupAck(p, q, a)
  <2>1. PICK d \in Nat : d = Low(q.dupacks + 1, DupAcks + 1)
    BY PcbIs, SendAssumption DEF Low
  <2>2. PICK r : r = [q EXCEPT !.dupacks = d]
    OBVIOUS
  <2>3. OldAck(p, q, a) = IF r.dupacks = DupAcks THEN RexmitFast(r) ELSE r
    BY <1>2, <2>1, <2>2 DEF OldAck
  <2>4. Counted(q, r)
    BY <2>2 DEF Counted
  <2> QED
    BY <2>3, <2>4
<1> QED
  BY <1>1, <1>2

\* An acknowledgement of nothing new.
LEMMA ReceivedOld ==
  ASSUME NEW p, PcbOk(p), NEW a, AckFits(p, a), a.ack <= p.lastack, NEW result,
         result = UnsentAcked(OldAck(p, WindowUpdated(p, a), a), a)
  PROVE  \E b : Received(p, b, a) /\ (result = b \/ Moved(result, b))
<1>1. PICK wnd \in Nat, wl2 \in Nat, persist \in Flag :
        /\ WindowUpdated(p, a) =
             [p EXCEPT !.snd_wnd = wnd, !.snd_wl2 = wl2, !.persist = persist]
        /\ \/ wnd = p.snd_wnd /\ wl2 = p.snd_wl2 /\ ~(p.snd_wl2 < a.ack)
           \/ /\ wnd = a.wnd /\ wl2 = a.ack
              /\ p.snd_wl2 < a.ack \/ (p.snd_wl2 = a.ack /\ a.wnd > p.snd_wnd)
  BY WindowIs, AckIs DEF PcbOk
<1>2. PICK q : q = [p EXCEPT !.snd_wnd = wnd, !.snd_wl2 = wl2, !.persist = persist]
  OBVIOUS
<1>3. p \in Pcb
  BY DEF PcbOk
<1>4. q \in Pcb
  BY <1>2, <1>3 DEF Pcb
<1>5. PICK r : Counted(q, r) /\ OldAck(p, q, a) \in {r, RexmitFast(r)}
  BY <1>4, OldAckIs
<1>6. PICK dupacks \in Nat : r = [q EXCEPT !.dupacks = dupacks]
  BY <1>5 DEF Counted
<1>7. r \in Pcb
  BY <1>4, <1>6 DEF Pcb
<1>8. SameButWindow(p, r) /\ r.snd_wnd = wnd /\ r.snd_wl2 = wl2
  BY <1>2, <1>3, <1>4, <1>6 DEF Pcb, SameButWindow
<1>9. Updated(p, r, a)
  BY <1>1, <1>8 DEF Updated
<1>10. Received(p, r, a)
  BY <1>7, <1>8, <1>9, SameQueue
<1>11. PcbOk(r) /\ a \in Acknowledgement /\ a.ack \in Nat
  BY <1>10, AckIs DEF Received
<1>12. /\ \A i \in 1..Len(r.unacked) : p.lastack < End(r.unacked[i])
       /\ \A i \in 1..Len(r.unsent) : p.lastack < End(r.unsent[i])
  BY <1>8, EndsAbove DEF SameButWindow
<1>13. p.lastack \in Nat
  BY <1>3, PcbIs
<1>14. CASE OldAck(p, q, a) = r
  <2>1. \A i \in 1..Len(r.unsent) : a.ack < End(r.unsent[i])
    <3> SUFFICES ASSUME NEW i \in 1..Len(r.unsent) PROVE a.ack < End(r.unsent[i])
      OBVIOUS
    <3>1. End(r.unsent[i]) \in Nat
      BY <1>7, PcbIs, ElementOfSeq, SegmentIs
    <3>2. p.lastack < End(r.unsent[i])
      BY <1>12
    <3> QED
      BY <1>11, <1>13, <3>1, <3>2
  <2>2. PICK oversize \in Int : UnsentAcked(r, a) = [r EXCEPT !.oversize = oversize]
    BY <1>7, <1>11, <2>1, UnsentKept
  <2>3. PICK b : b = [r EXCEPT !.oversize = oversize]
    OBVIOUS
  <2>4. b \in Pcb
    BY <1>7, <2>3 DEF Pcb
  <2>5. SameButWindow(p, b) /\ b.snd_wnd = wnd /\ b.snd_wl2 = wl2
    BY <1>7, <1>8, <2>3 DEF Pcb, SameButWindow
  <2>6. Updated(p, b, a)
    BY <1>1, <2>5 DEF Updated
  <2>7. Received(p, b, a)
    BY <2>4, <2>5, <2>6, SameQueue
  <2>8. result = b
    BY <1>1, <1>2, <1>14, <2>2, <2>3
  <2> QED
    BY <2>7, <2>8
<1>15. CASE OldAck(p, q, a) = RexmitFast(r) /\ RexmitFast(r) # r
  <2>1. PICK s \in Segment, c \in Seq(Segment), u \in Seq(Segment), oversize \in Int :
          Rexmitted(r, RexmitFast(r), s, c, u, oversize)
    BY <1>11, <1>15, RexmitFastIs
  <2>2. /\ r.unacked = <<s>> \o c /\ r.unsent = u /\ r.infr = 0
        /\ RexmitFast(r) = [r EXCEPT !.unacked = c, !.unsent = <<s>> \o u,
                                     !.oversize = oversize, !.nrtx = r.nrtx + 1,
                                     !.infr = 1]
    BY <2>1 DEF Rexmitted
  <2>3. PICK v \in Seq(Segment) : v = <<s>> \o u
    <3>1. <<s>> \in Seq(Segment)
      OBVIOUS
    <3>2. <<s>> \o u \in Seq(Segment)
      BY <3>1, ConcatProperties
    <3> QED
      BY <3>2
  <2>4. PICK f : f = [r EXCEPT !.unacked = c, !.unsent = v, !.oversize = oversize,
                               !.nrtx = r.nrtx + 1, !.infr = 1]
    OBVIOUS
  <2>5. f = RexmitFast(r)
    BY <2>2, <2>3, <2>4
  <2>6. r.nrtx + 1 \in Nat
    BY <1>7, PcbIs
  <2>7. f \in Pcb
    BY <1>7, <2>4, <2>6 DEF Pcb, Flag
  <2>8. f.unsent = v
    BY <1>7, <2>4 DEF Pcb
  <2>9. \A i \in 1..Len(f.unsent) : a.ack < End(f.unsent[i])
    <3> SUFFICES ASSUME NEW i \in 1..Len(v) PROVE a.ack < End(v[i])
      BY <2>8
    <3>1. End(v[i]) \in Nat
      BY ElementOfSeq, SegmentIs
    <3>2. PICK t \in Seq(Segment) : t = <<s>> /\ Len(t) = 1 /\ t[1] = s
      <4>1. <<s>> \in Seq(Segment) /\ Len(<<s>>) = 1 /\ <<s>>[1] = s
        OBVIOUS
      <4> QED
        BY <4>1
    <3>3. /\ \A j \in 1..Len(t) + Len(u) :
                (t \o u)[j] = IF j <= Len(t) THEN t[j] ELSE u[j - Len(t)]
          /\ Len(t \o u) = Len(t) + Len(u) /\ Len(u) \in Nat
      BY ConcatProperties, LenProperties
    <3>4. v = t \o u
      BY <2>3, <3>2
    <3>5. p.lastack < End(v[i])
      <4>1. CASE i = 1
        <5>1. v[i] = s
          BY <3>2, <3>3, <3>4, <4>1
        <5>2. r.unacked # << >> /\ r.unacked[1] = s /\ 1 \in 1..Len(r.unacked)
          <6>1. t \o c \in Seq(Segment) /\ Len(t \o c) = Len(t) + Len(c) /\ Len(c) \in Nat
                /\ \A j \in 1..Len(t) + Len(c) :
                      (t \o c)[j] = IF j <= Len(t) THEN t[j] ELSE c[j - Len(t)]
            BY ConcatProperties, LenProperties
          <6>2. 1 \in 1..Len(t \o c) /\ (t \o c)[1] = s
            BY <3>2, <6>1
          <6> QED
            BY <2>2, <3>2, <6>1, <6>2, EmptySeq
        <5> QED
          BY <1>12, <5>1, <5>2
      <4>2. CASE i # 1
        <5>1. PICK j \in 1..Len(u) : j = i - 1
          <6>1. i - 1 \in 1..Len(u)
            BY <3>2, <3>3, <3>4, <4>2
          <6> QED
            BY <6>1
        <5>2. v[i] = u[j]
          BY <3>2, <3>3, <3>4, <4>2, <5>1
        <5> QED
          BY <1>12, <2>2, <5>2
      <4> QED
        BY <4>1, <4>2
    <3> QED
      BY <1>11, <1>13, <3>1, <3>5
  <2>10. PICK o \in Int : UnsentAcked(f, a) = [f EXCEPT !.oversize = o]
    BY <1>11, <2>7, <2>9, UnsentKept
  <2>11. PICK b : b = [r EXCEPT !.oversize = o, !.nrtx = r.nrtx + 1, !.infr = 1]
    OBVIOUS
  <2>12. b \in Pcb
    BY <1>7, <2>6, <2>11 DEF Pcb, Flag
  <2>13. SameButWindow(p, b) /\ b.snd_wnd = wnd /\ b.snd_wl2 = wl2
    BY <1>7, <1>8, <2>11 DEF Pcb, SameButWindow
  <2>14. Updated(p, b, a)
    BY <1>1, <2>13 DEF Updated
  <2>15. Received(p, b, a)
    BY <2>12, <2>13, <2>14, SameQueue
  <2>16. /\ b.unacked = <<s>> \o c /\ b.unsent = u /\ b.infr = 1
    BY <1>7, <2>2, <2>11 DEF Pcb
  <2>17. [f EXCEPT !.oversize = o] = [b EXCEPT !.unacked = c, !.unsent = v]
    BY <1>7, <2>4, <2>11 DEF Pcb
  <2>18. result = [b EXCEPT !.unacked = c, !.unsent = <<s>> \o u]
    BY <1>1, <1>2, <1>15, <2>3, <2>5, <2>10, <2>17
  <2>19. Moved(result, b)
    BY <2>16, <2>18 DEF Moved
  <2> QED
    BY <2>15, <2>19
<1> QED
  BY <1>5, <1>6, <1>14, <1>15

\* An acknowledgement of segments sent.
LEMMA ReceivedNew ==
  ASSUME NEW p, PcbOk(p), NEW a, AckFits(p, a), ~(a.ack <= p.lastack), a.ack <= p.snd_nxt,
         NEW b, b = UnsentAcked(NewAck(WindowUpdated(p, a), a), a)
  PROVE  Received(p, b, a)
<1>1. PICK wnd \in Nat, wl2 \in Nat, persist \in Flag :
        /\ WindowUpdated(p, a) =
             [p EXCEPT !.snd_wnd = wnd, !.snd_wl2 = wl2, !.persist = persist]
        /\ \/ wnd = p.snd_wnd /\ wl2 = p.snd_wl2 /\ ~(p.snd_wl2 < a.ack)
           \/ /\ wnd = a.wnd /\ wl2 = a.ack
              /\ p.snd_wl2 < a.ack \/ (p.snd_wl2 = a.ack /\ a.wnd > p.snd_wnd)
  BY WindowIs, AckIs DEF PcbOk
<1>2. PICK c \in Seq(Segment), d \in Seq(Segment), low \in Nat, high \in Nat, nxt \in Nat,
           ack \in Nat, n \in Int, buf \in Int :
        /\ c = p.unacked /\ d = p.unsent /\ low = p.lastack /\ high = p.snd_lbb
        /\ nxt = p.snd_nxt /\ ack = a.ack /\ n = p.snd_queuelen /\ buf = p.snd_buf
  BY PcbIs, AckIs DEF PcbOk
<1>3. PICK k \in 0..Len(c), l \in 0..Len(d) : k = Covered(c, ack) /\ l = Covered(d, ack)
  BY CoveredIs
<1>4. PICK x \in Seq(Segment), y \in Seq(Segment) :
        /\ x = SubSeq(c, k + 1, Len(c)) /\ y = SubSeq(d, l + 1, Len(d))
        /\ Among(x, c) /\ Among(y, d)
  BY Suffix, AmongSuffix
<1>5. PICK used \in Nat, gone \in Nat :
        used = Bufs(SubSeq(c, 1, k)) /\ gone = Bufs(SubSeq(d, 1, l))
  <2>1. SubSeq(c, 1, k) \in Seq(Segment) /\ SubSeq(d, 1, l) \in Seq(Segment)
    BY SubSeqTo
  <2> QED
    BY <2>1, BufsConcat
<1>6. PICK q : q = [p EXCEPT !.snd_wnd = wnd, !.snd_wl2 = wl2, !.persist = persist]
  OBVIOUS
<1>7. p \in Pcb
  BY DEF PcbOk
<1>8. /\ q \in Pcb /\ q.unacked = c /\ q.unsent = d /\ q.lastack = low /\ q.snd_nxt = nxt
      /\ q.snd_lbb = high /\ q.snd_queuelen = n /\ q.snd_buf = buf /\ q.state = p.state
      /\ q.snd_wnd = wnd /\ q.snd_wl2 = wl2
  BY <1>2, <1>6, <1>7 DEF Pcb
<1>9. PICK rtime \in {-1, 0} : rtime = IF x = << >> THEN -1 ELSE 0
  OBVIOUS
<1>10. PICK r : r = [q EXCEPT !.infr = 0, !.nrtx = 0, !.dupacks = 0,
                              !.snd_buf = buf + (ack - low), !.lastack = ack,
                              !.unacked = x, !.snd_queuelen = n - used, !.rtime = rtime]
  OBVIOUS
<1>11. r = NewAck(q, a)
  <2>1. SubSeq(q.unacked, Covered(q.unacked, a.ack) + 1, Len(q.unacked)) = x
    BY <1>2, <1>3, <1>4, <1>8
  <2>2. Bufs(SubSeq(q.unacked, 1, Covered(q.unacked, a.ack))) = used
    BY <1>2, <1>3, <1>5, <1>8
  <2> QED
    BY <1>2, <1>8, <1>9, <1>10, <2>1, <2>2 DEF NewAck
<1>12. /\ r \in Pcb /\ r.unsent = d /\ r.unacked = x /\ r.lastack = ack /\ r.snd_nxt = nxt
       /\ r.snd_lbb = high /\ r.snd_queuelen = n - used /\ r.snd_buf = buf + (ack - low)
       /\ r.state = p.state /\ r.snd_wnd = wnd /\ r.snd_wl2 = wl2
  <2>1. buf + (ack - low) \in Int /\ n - used \in Int
    OBVIOUS
  <2>2. r \in Pcb
    BY <1>8, <1>10, <2>1, ZenonT(60) DEF Pcb, Flag
  <2>3. /\ r.unsent = d /\ r.unacked = x /\ r.lastack = ack /\ r.snd_nxt = nxt
        /\ r.snd_lbb = high /\ r.snd_queuelen = n - used /\ r.snd_buf = buf + (ack - low)
        /\ r.state = p.state /\ r.snd_wnd = wnd /\ r.snd_wl2 = wl2
    BY <1>8, <1>10 DEF Pcb
  <2> QED
    BY <2>2, <2>3
<1>13. PICK oversize \in Int : oversize = IF l = Len(d) THEN 0 ELSE r.oversize
  <2>1. PICK o \in Int : o = r.oversize
    BY <1>12 DEF Pcb
  <2>2. (IF l = Len(d) THEN 0 ELSE o) \in Int
    OBVIOUS
  <2> QED
    BY <2>1, <2>2
<1>14. b = [r EXCEPT !.unsent = y, !.oversize = oversize, !.snd_queuelen = (n - used) - gone]
  <2>1. b = UnsentAcked(r, a)
    BY <1>1, <1>6, <1>11
  <2>2. a.ack <= r.snd_nxt
    BY <1>2, <1>12
  <2>3. SubSeq(r.unsent, Covered(r.unsent, a.ack) + 1, Len(r.unsent)) = y
    BY <1>2, <1>3, <1>4, <1>12
  <2>4. Bufs(SubSeq(r.unsent, 1, Covered(r.unsent, a.ack))) = gone
    BY <1>2, <1>3, <1>5, <1>12
  <2>5. Covered(r.unsent, a.ack) = l
    BY <1>2, <1>3, <1>12
  <2> QED
    BY <1>12, <1>13, <2>1, <2>2, <2>3, <2>4, <2>5 DEF UnsentAcked
<1>15. /\ b \in Pcb /\ b.unsent = y /\ b.unacked = x /\ b.lastack = ack /\ b.snd_nxt = nxt
       /\ b.snd_lbb = high /\ b.snd_queuelen = (n - used) - gone
       /\ b.snd_buf = buf + (ack - low)
       /\ b.state = p.state /\ b.snd_wnd = wnd /\ b.snd_wl2 = wl2
  <2>1. (n - used) - gone \in Int
    OBVIOUS
  <2>2. b \in Pcb
    BY <1>12, <1>14, <2>1, ZenonT(60) DEF Pcb
  <2>3. /\ b.unsent = y /\ b.unacked = x /\ b.lastack = ack /\ b.snd_nxt = nxt
        /\ b.snd_lbb = high /\ b.snd_queuelen = (n - used) - gone
        /\ b.snd_buf = buf + (ack - low)
        /\ b.state = p.state /\ b.snd_wnd = wnd /\ b.snd_wl2 = wl2
    BY <1>12, <1>14 DEF Pcb
  <2> QED
    BY <2>2, <2>3
<1>16. /\ low < ack /\ ack <= nxt /\ nxt <= high /\ low <= nxt
       /\ nxt <= low + p.snd_wnd /\ p.snd_wl2 \in {low, low + 1}
       /\ buf + (high - low) = SndBuf /\ p.snd_wnd \in Nat /\ p.snd_wl2 \in Nat
  <2>1. /\ p.lastack <= p.snd_nxt /\ p.snd_nxt <= p.snd_lbb
        /\ p.snd_nxt <= p.lastack + p.snd_wnd
        /\ p.snd_wl2 \in {p.lastack, p.lastack + 1}
        /\ p.snd_buf + (p.snd_lbb - p.lastack) = SndBuf
    BY DEF PcbOk, Numbers
  <2>2. p.snd_wnd \in Nat /\ p.snd_wl2 \in Nat
    BY <1>7, PcbIs
  <2> QED
    BY <1>2, <2>1, <2>2, SMTT(30)
<1>17. QueueOk(Queue(b), b.lastack, b.snd_lbb)
  <2>1. QueueOk(c \o d, low, high)
    BY <1>2 DEF PcbOk, Queue
  <2>2. PICK e \in low..high : e = ack
    BY <1>16
  <2>3. QueueOk(SubSeq(c, Covered(c, e) + 1, Len(c)) \o SubSeq(d, Covered(d, e) + 1, Len(d)),
                e, high)
    BY <2>1, AckedQueue
  <2> QED
    BY <1>3, <1>4, <1>15, <2>2, <2>3 DEF Queue
<1>18. EndBy(b.unacked, Len(b.unacked), b.snd_nxt)
  <2>1. \A i \in 1..Len(c) : End(c[i]) <= nxt
    BY <1>2 DEF PcbOk, EndBy
  <2>2. \A i \in 1..Len(x) : End(x[i]) <= nxt
    BY <1>4, <2>1 DEF Among
  <2> QED
    BY <1>15, <2>2 DEF EndBy
<1>19. Numbers(b)
  <2>1. ack <= nxt /\ nxt <= high
    BY <1>16
  <2>2. PICK pw \in Nat, pl \in Nat, aw \in Nat : pw = p.snd_wnd /\ pl = p.snd_wl2 /\ aw = a.wnd
    BY <1>16, AckIs
  <2>3. pl < ack => pl + pw <= ack + aw
    BY <1>2, <2>2, AckIs
  <2>4. \/ wnd = pw /\ wl2 = pl /\ ~(pl < ack)
        \/ wnd = aw /\ wl2 = ack /\ (pl < ack \/ (pl = ack /\ aw > pw))
    BY <1>1, <1>2, <2>2
  <2>5. low < ack /\ nxt <= low + pw /\ pl \in {low, low + 1}
    BY <1>16, <2>2
  <2>6. nxt <= ack + wnd /\ wl2 \in {ack, ack + 1}
    BY <2>1, <2>3, <2>4, <2>5
  <2>7. (buf + (ack - low)) + (high - ack) = SndBuf
    BY <1>16
  <2> QED
    BY <1>15, <2>1, <2>6, <2>7 DEF Numbers
<1>20. Among(Queue(b), Queue(p))
  BY <1>2, <1>4, <1>15, AmongBoth DEF Queue
<1>21. p.snd_queuelen = Bufs(Queue(p)) => b.snd_queuelen = Bufs(Queue(b))
  <2>1. Bufs(x \o y) = (Bufs(c \o d) - used) - gone
    BY <1>4, <1>5, AckedBufs
  <2> QED
    BY <1>2, <1>15, <2>1 DEF Queue
<1>22. Updated(p, b, a)
  BY <1>1, <1>15 DEF Updated
<1>23. b.lastack >= p.lastack /\ (p.lastack = p.snd_nxt => b.lastack = p.lastack)
  <2>1. b.lastack = ack /\ p.lastack = low /\ p.snd_nxt = nxt
    BY <1>2, <1>15
  <2>2. ack >= low /\ low # nxt
    BY <1>16
  <2> QED
    BY <2>1, <2>2
<1>24. PcbOk(b)
  BY <1>15, <1>17, <1>18, <1>19 DEF PcbOk
<1> QED
  BY <1>2, <1>15, <1>20, <1>21, <1>22, <1>23, <1>24 DEF Received

\* An acknowledgement of more than has been sent: of the byte of a window probe.
LEMMA ReceivedBeyond ==
  ASSUME NEW p, PcbOk(p), NEW a, AckFits(p, a), ~(a.ack <= p.snd_nxt),
         NEW b, b = UnsentAcked(WindowUpdated(p, a), a)
  PROVE  Received(p, b, a)
<1>1. PICK wnd \in Nat, wl2 \in Nat, persist \in Flag :
        /\ WindowUpdated(p, a) =
             [p EXCEPT !.snd_wnd = wnd, !.snd_wl2 = wl2, !.persist = persist]
        /\ \/ wnd = p.snd_wnd /\ wl2 = p.snd_wl2 /\ ~(p.snd_wl2 < a.ack)
           \/ /\ wnd = a.wnd /\ wl2 = a.ack
              /\ p.snd_wl2 < a.ack \/ (p.snd_wl2 = a.ack /\ a.wnd > p.snd_wnd)
  BY WindowIs, AckIs DEF PcbOk
<1>2. PICK q : q = [p EXCEPT !.snd_wnd = wnd, !.snd_wl2 = wl2, !.persist = persist]
  OBVIOUS
<1>3. p \in Pcb
  BY DEF PcbOk
<1>4. q \in Pcb /\ q.snd_nxt = p.snd_nxt
  BY <1>2, <1>3 DEF Pcb
<1>5. PICK oversize \in Int : UnsentAcked(q, a) = [q EXCEPT !.oversize = oversize]
  <2>1. a \in Acknowledgement /\ ~(a.ack <= q.snd_nxt)
    BY <1>4, AckIs
  <2> QED
    BY <1>4, <2>1, UnsentKept
<1>6. b = [q EXCEPT !.oversize = oversize]
  BY <1>1, <1>2, <1>5
<1>7. b \in Pcb
  BY <1>4, <1>6 DEF Pcb
<1>8. SameButWindow(p, b) /\ b.snd_wnd = wnd /\ b.snd_wl2 = wl2
  BY <1>2, <1>3, <1>4, <1>6 DEF Pcb, SameButWindow
<1>9. Updated(p, b, a)
  BY <1>1, <1>8 DEF Updated
<1> QED
  BY <1>7, <1>8, <1>9, SameQueue

\* tcp_receive leaves a pcb that is good, but for the segment a fast retransmission has moved.
LEMMA ReceivedIs ==
  ASSUME NEW p, PcbOk(p), NEW a, AckFits(p, a), NEW result,
         result = UnsentAcked(Acked(p, WindowUpdated(p, a), a), a)
  PROVE  \E b : Received(p, b, a) /\ (result = b \/ Moved(result, b))
<1>1. CASE a.ack <= p.lastack
  <2>1. result = UnsentAcked(OldAck(p, WindowUpdated(p, a), a), a)
    BY <1>1 DEF Acked
  <2> QED
    BY <1>1, <2>1, ReceivedOld
<1>2. CASE ~(a.ack <= p.lastack) /\ a.ack <= p.snd_nxt
  <2>1. result = UnsentAcked(NewAck(WindowUpdated(p, a), a), a)
    BY <1>2 DEF Acked
  <2> QED
    BY <1>2, <2>1, ReceivedNew
<1>3. CASE ~(a.ack <= p.lastack) /\ ~(a.ack <= p.snd_nxt)
  <2>1. result = UnsentAcked(WindowUpdated(p, a), a)
    BY <1>3 DEF Acked
  <2> QED
    BY <1>3, <2>1, ReceivedBeyond
<1> QED
  BY <1>1, <1>2, <1>3

-----------------------------------------------------------------------------
(* tcp_write.                                                              *)

\* Multiples of the segment length.
LEMMA Times ==
  /\ \A m \in Nat : m * 0 = 0 /\ m * 1 = m
  /\ \A m, k \in Nat : m * k \in Nat /\ m * (k + 1) = m * k + m
  /\ \A m, j, k \in Nat : j <= k => m * j <= m * k
<1>1. ASSUME NEW m \in Nat, NEW j \in Nat, NEW k \in Nat, j <= k PROVE m * j <= m * k
  <2>1. PICK d \in Nat : k = j + d
    <3>1. k - j \in Nat /\ k = j + (k - j)
      BY <1>1
    <3> QED
      BY <3>1
  <2>2. m * (j + d) = m * j + m * d /\ m * d \in Nat /\ m * j \in Nat
    OBVIOUS
  <2> QED
    BY <2>1, <2>2
<1>2. \A m \in Nat : m * 0 = 0 /\ m * 1 = m
  OBVIOUS
<1>3. \A m, k \in Nat : m * k \in Nat /\ m * (k + 1) = m * k + m
  OBVIOUS
<1> QED
  BY <1>1, <1>2, <1>3

\* n bytes fill all the new segments but the last.
LEMMA NewSegmentsIs ==
  ASSUME NEW n \in Nat
  PROVE  /\ NewSegments(n) \in Nat
         /\ n = 0 => NewSegments(n) = 0
         /\ n # 0 => \E k \in Nat : NewSegments(n) = k + 1 /\ Mss * k < n /\ n <= Mss * k + Mss
<1>1. PICK m \in Nat : m = Mss /\ m > 0
  BY SendAssumption
<1>2. PICK x \in Nat : x = n + m - 1
  BY <1>1
<1>3. PICK s \in Int : s = x \div m
  BY <1>1
<1>4. m * s <= x /\ x < m * s + m
  BY <1>1, <1>3
<1>5. s \in Nat
  <2>1. CASE s < 0
    <3>1. PICK t \in Nat : s = -1 - t
      <4>1. -1 - s \in Nat /\ s = -1 - (-1 - s)
        BY <2>1
      <4> QED
        BY <4>1
    <3>2. m * s + m = -(m * t) /\ m * t \in Nat
      BY <3>1
    <3> QED
      BY <1>4, <3>2
  <2>2. CASE ~(s < 0)
    BY <2>2
  <2> QED
    BY <2>1, <2>2
<1>6. NewSegments(n) = s
  BY <1>1, <1>2, <1>3 DEF NewSegments
<1>7. ASSUME n = 0 PROVE s = 0
  <2>1. m * s < m
    BY <1>1, <1>2, <1>4, <1>5, <1>7
  <2>2. 1 <= s => m * 1 <= m * s
    BY <1>5, Times
  <2>3. m * 1 = m /\ m * s \in Nat
    BY <1>5, Times
  <2> QED
    BY <1>5, <2>1, <2>2, <2>3
<1>8. ASSUME n # 0 PROVE \E k \in Nat : s = k + 1 /\ m * k < n /\ n <= m * k + m
  <2>1. s # 0
    <3>1. m * 0 = 0
      BY Times
    <3> QED
      BY <1>1, <1>2, <1>4, <1>8, <3>1
  <2>2. PICK k \in Nat : s = k + 1
    <3>1. s - 1 \in Nat /\ s = (s - 1) + 1
      BY <1>5, <2>1
    <3> QED
      BY <3>1
  <2>3. m * s = m * k + m /\ m * k \in Nat
    BY <2>2, Times
  <2>4. m * k < n /\ n <= m * k + m
    BY <1>1, <1>2, <1>4, <2>3
  <2> QED
    BY <2>2, <2>4
<1> QED
  BY <1>1, <1>5, <1>6, <1>7, <1>8

\* Segments behind a queue.
LEMMA AppendedOk ==
  ASSUME NEW e, NEW low \in Nat, NEW high \in Nat, QueueOk(e, low, high),
         NEW f \in Seq(Segment), Linked(f), NEW to \in Nat,
         f = << >> => to = high,
         f # << >> => f[1].seq = high /\ End(f[Len(f)]) = to
  PROVE  QueueOk(e \o f, low, to)
<1>1. /\ e \in Seq(Segment) /\ Linked(e) /\ Holds(e, low, high)
  BY DEF QueueOk
<1>2. PICK q \in Seq(Segment) :
        /\ q = e \o f /\ Len(q) = Len(e) + Len(f)
        /\ \A i \in 1..Len(e) + Len(f) : q[i] = IF i <= Len(e) THEN e[i] ELSE f[i - Len(e)]
  <2>1. /\ e \o f \in Seq(Segment) /\ Len(e \o f) = Len(e) + Len(f)
        /\ \A i \in 1..Len(e) + Len(f) : (e \o f)[i] = IF i <= Len(e) THEN e[i] ELSE f[i - Len(e)]
    BY <1>1, ConcatProperties
  <2>2. PICK q : q = e \o f
    OBVIOUS
  <2>3. /\ q \in Seq(Segment) /\ Len(q) = Len(e) + Len(f)
        /\ \A i \in 1..Len(e) + Len(f) : q[i] = IF i <= Len(e) THEN e[i] ELSE f[i - Len(e)]
    BY <2>1, <2>2, Zenon
  <2> QED
    BY <2>2, <2>3
<1>3. Len(e) \in Nat /\ Len(f) \in Nat
  BY <1>1, LenProperties
<1>4. CASE f = << >>
  <2>1. e \o f = e
    BY <1>1, <1>4, ConcatEmptySeq
  <2> QED
    BY <1>4, <2>1
<1>5. CASE f # << >>
  <2>1. Len(f) \in 1..Len(f) /\ 1 \in 1..Len(f)
    BY <1>3, <1>5, EmptySeq
  <2>2. ASSUME NEW i \in 1..Len(q)
        PROVE  \/ i \in 1..Len(e) /\ q[i] = e[i]
               \/ \E j \in 1..Len(f) : i = Len(e) + j /\ q[i] = f[j]
    <3>1. CASE i <= Len(e)
      BY <1>2, <1>3, <3>1
    <3>2. CASE ~(i <= Len(e))
      <4>1. PICK j \in 1..Len(f) : j = i - Len(e) /\ i = Len(e) + j
        <5>1. i - Len(e) \in 1..Len(f) /\ i = Len(e) + (i - Len(e))
          BY <1>2, <1>3, <3>2
        <5> QED
          BY <5>1
      <4>2. q[i] = f[j]
        BY <1>2, <3>2, <4>1
      <4> QED
        BY <4>1, <4>2
    <3> QED
      BY <3>1, <3>2
  <2>3. ASSUME NEW i \in 1..Len(q)
        PROVE  /\ Length(q[i]) \in 1..Mss
               /\ \A j \in 1..Length(q[i]) : q[i].data[j] = q[i].seq + j
    <3>1. CASE i \in 1..Len(e) /\ q[i] = e[i]
      <4>1. /\ Length(e[i]) \in 1..Mss
            /\ \A j \in 1..Length(e[i]) : e[i].data[j] = e[i].seq + j
        BY <1>1, <3>1 DEF Linked
      <4> QED
        BY <3>1, <4>1, Zenon
    <3>2. CASE \E j \in 1..Len(f) : i = Len(e) + j /\ q[i] = f[j]
      <4>1. PICK n \in 1..Len(f) : q[i] = f[n]
        BY <3>2
      <4>2. /\ Length(f[n]) \in 1..Mss
            /\ \A j \in 1..Length(f[n]) : f[n].data[j] = f[n].seq + j
        BY DEF Linked
      <4> QED
        BY <4>1, <4>2, Zenon
    <3> QED
      BY <2>2, <3>1, <3>2
  <2>4. ASSUME NEW i \in 1..Len(q), NEW j \in 1..Len(q), j = i + 1
        PROVE  q[j].seq = End(q[i])
    <3>1. CASE j \in 1..Len(e)
      <4>1. i \in 1..Len(e) /\ q[i] = e[i] /\ q[j] = e[j]
        BY <1>2, <1>3, <2>4, <3>1
      <4> QED
        BY <1>1, <2>4, <3>1, <4>1 DEF Linked
    <3>2. CASE i = Len(e)
      <4>1. q[j] = f[1] /\ q[i] = e[i] /\ i \in 1..Len(e)
        BY <1>2, <1>3, <2>1, <2>4, <3>2
      <4>2. e # << >>
        BY <1>3, <4>1, EmptySeq
      <4>3. End(e[Len(e)]) = high
        BY <1>1, <4>2 DEF Holds
      <4> QED
        BY <1>5, <3>2, <4>1, <4>3
    <3>3. CASE i > Len(e)
      <4>1. ~(i \in 1..Len(e)) /\ ~(j \in 1..Len(e))
        BY <1>3, <2>4, <3>3
      <4>2. PICK m \in 1..Len(f) : i = Len(e) + m /\ q[i] = f[m]
        BY <2>2, <4>1
      <4>3. PICK n \in 1..Len(f) : j = Len(e) + n /\ q[j] = f[n]
        BY <2>2, <4>1
      <4>4. n = m + 1
        BY <1>3, <2>4, <4>2, <4>3
      <4>5. f[n].seq = End(f[m])
        BY <4>4 DEF Linked
      <4> QED
        BY <4>2, <4>3, <4>5
    <3> QED
      BY <1>2, <1>3, <2>4, <3>1, <3>2, <3>3
  <2>5. Linked(q)
    BY <2>3, <2>4 DEF Linked
  <2>6. q # << >> /\ q[Len(q)] = f[Len(f)]
    <3>1. Len(q) # 0 /\ ~(Len(q) <= Len(e)) /\ Len(q) - Len(e) = Len(f)
          /\ Len(q) \in 1..Len(e) + Len(f)
      BY <1>2, <1>3, <2>1
    <3> QED
      BY <1>2, <3>1, EmptySeq
  <2>7. q[1].seq <= low /\ low < End(q[1])
    <3>1. CASE e = << >>
      <4>1. low = high /\ Len(e) = 0
        BY <1>1, <3>1, EmptySeq DEF Holds
      <4>2. q[1] = f[1]
        <5>1. 1 \in 1..Len(e) + Len(f) /\ ~(1 <= Len(e)) /\ 1 - Len(e) = 1
          BY <1>3, <2>1, <4>1
        <5> QED
          BY <1>2, <5>1
      <4>3. f[1] \in Segment /\ Length(f[1]) \in 1..Mss
        BY <2>1, ElementOfSeq DEF Linked
      <4>4. f[1].seq = low /\ f[1].seq < End(f[1])
        <5>1. End(f[1]) = f[1].seq + Length(f[1]) /\ f[1].seq \in Nat
          BY <4>3, SegmentIs
        <5>2. Length(f[1]) \in Nat /\ Length(f[1]) > 0
          BY <4>3, SendAssumption, SMTT(30)
        <5> QED
          BY <1>5, <4>1, <5>1, <5>2
      <4> QED
        BY <4>2, <4>4
    <3>2. CASE e # << >>
      <4>1. Len(e) # 0
        BY <1>1, <3>2, EmptySeq
      <4>2. q[1] = e[1]
        <5>1. 1 \in 1..Len(e) + Len(f) /\ 1 <= Len(e)
          BY <1>3, <4>1
        <5> QED
          BY <1>2, <5>1
      <4> QED
        BY <1>1, <3>2, <4>2 DEF Holds
    <3> QED
      BY <3>1, <3>2
  <2> QED
    BY <1>2, <1>5, <2>5, <2>6, <2>7 DEF QueueOk, Holds
<1> QED
  BY <1>4, <1>5

\* q is g and then s.
EndsWith(q, g, s, n) ==
  /\ q \in Seq(Segment) /\ q = g \o <<s>>
  /\ n \in Nat /\ n = Len(g) + 1 /\ Len(q) = n
  /\ q[n] = s /\ \A i \in 1..n : i # n => q[i] = g[i]

\* A queue with a segment appended ends with it.
LEMMA EndsWithIs ==
  ASSUME NEW g \in Seq(Segment), NEW s \in Segment
  PROVE  EndsWith(g \o <<s>>, g, s, Len(g) + 1)
<1>1. PICK ss \in Seq(Segment) : ss = <<s>> /\ Len(ss) = 1 /\ ss[1] = s
  <2>1. <<s>> \in Seq(Segment) /\ Len(<<s>>) = 1 /\ <<s>>[1] = s
    OBVIOUS
  <2> QED
    BY <2>1
<1>2. PICK n \in Nat : n = Len(g) + 1
  BY LenProperties
<1>3. PICK q : q = g \o ss
  OBVIOUS
<1>4. /\ q \in Seq(Segment) /\ Len(q) = n
      /\ \A i \in 1..n : q[i] = IF i <= Len(g) THEN g[i] ELSE ss[i - Len(g)]
  <2>1. /\ g \o ss \in Seq(Segment) /\ Len(g \o ss) = n
        /\ \A i \in 1..n : (g \o ss)[i] = IF i <= Len(g) THEN g[i] ELSE ss[i - Len(g)]
    BY <1>1, <1>2, ConcatProperties
  <2> QED
    BY <1>3, <2>1, Zenon
<1>5. n \in 1..n /\ ~(n <= Len(g)) /\ n - Len(g) = 1 /\ \A i \in 1..n : i # n => i <= Len(g)
  BY <1>2, LenProperties
<1>6. q[n] = s
  BY <1>1, <1>4, <1>5
<1>7. \A i \in 1..n : i # n => q[i] = g[i]
  BY <1>4, <1>5
<1>8. EndsWith(q, g, s, n)
  BY <1>1, <1>2, <1>3, <1>4, <1>6, <1>7 DEF EndsWith
<1> QED
  BY <1>1, <1>2, <1>3, <1>8

\* The last segment of a queue becomes longer.
LEMMA LongerOk ==
  ASSUME NEW g \in Seq(Segment), NEW s \in Segment, NEW low \in Nat, NEW high \in Nat,
         QueueOk(g \o <<s>>, low, high),
         NEW t \in Segment, t.seq = s.seq, Length(t) \in Length(s)..Mss,
         \A j \in 1..Length(t) : t.data[j] = t.seq + j
  PROVE  QueueOk(g \o <<t>>, low, End(t))
<1>1. PICK q, r, n :
        q = g \o <<s>> /\ r = g \o <<t>> /\ EndsWith(q, g, s, n) /\ EndsWith(r, g, t, n)
  BY EndsWithIs
<1>2. /\ q \in Seq(Segment) /\ r \in Seq(Segment) /\ n \in Nat
      /\ q = g \o <<s>> /\ r = g \o <<t>> /\ n = Len(g) + 1
      /\ Len(q) = n /\ Len(r) = n /\ q[n] = s /\ r[n] = t
      /\ \A i \in 1..n : i # n => q[i] = g[i] /\ r[i] = g[i]
  BY <1>1 DEF EndsWith
<1>3. Linked(q) /\ Holds(q, low, high) /\ n \in 1..n
  BY <1>2, LenProperties DEF QueueOk
<1>4. /\ s.seq \in Nat /\ Length(s) \in Nat /\ Length(t) \in Nat
      /\ End(s) = s.seq + Length(s) /\ End(t) = s.seq + Length(t) /\ End(t) \in Nat
      /\ Length(s) \in 1..Mss /\ Length(t) \in 1..Mss /\ End(s) <= End(t) /\ Mss \in Nat
  <2>1. Length(s) \in 1..Mss /\ Mss \in Nat
    BY <1>2, <1>3, SendAssumption DEF Linked
  <2>2. /\ s.seq \in Nat /\ Length(s) \in Nat /\ Length(t) \in Nat
        /\ End(s) = s.seq + Length(s) /\ End(t) = t.seq + Length(t) /\ End(t) \in Nat
    BY SegmentIs
  <2> QED
    BY <2>1, <2>2
<1>5. ASSUME NEW i \in 1..n
      PROVE  /\ Length(r[i]) \in 1..Mss
             /\ \A j \in 1..Length(r[i]) : r[i].data[j] = r[i].seq + j
  <2>1. CASE i = n
    BY <1>2, <1>4, <2>1
  <2>2. CASE i # n
    <3>1. r[i] = q[i]
      BY <1>2, <2>2
    <3>2. /\ Length(q[i]) \in 1..Mss
          /\ \A j \in 1..Length(q[i]) : q[i].data[j] = q[i].seq + j
      BY <1>2, <1>3 DEF Linked
    <3> QED
      BY <3>1, <3>2, Zenon
  <2> QED
    BY <2>1, <2>2
<1>6. ASSUME NEW i \in 1..n, NEW j \in 1..n, j = i + 1 PROVE r[j].seq = End(r[i])
  <2>1. q[j].seq = End(q[i])
    BY <1>2, <1>3, <1>6 DEF Linked
  <2>2. i # n /\ r[i] = q[i]
    BY <1>2, <1>6
  <2>3. r[j].seq = q[j].seq
    BY <1>2
  <2> QED
    BY <2>1, <2>2, <2>3
<1>7. Linked(r)
  BY <1>2, <1>5, <1>6 DEF Linked
<1>8. q # << >> /\ r # << >>
  BY <1>2, <1>3, EmptySeq
<1>9. q[1].seq <= low /\ low < End(q[1])
  BY <1>3, <1>8 DEF Holds
<1>10. r[1].seq <= low /\ low < End(r[1])
  <2>1. CASE n = 1
    <3>1. q[1] = s /\ r[1] = t
      BY <1>2, <2>1
    <3> QED
      BY <1>4, <1>9, <3>1
  <2>2. CASE n # 1
    <3>1. q[1] = r[1]
      BY <1>2, <1>3, <2>2
    <3> QED
      BY <1>9, <3>1
  <2> QED
    BY <2>1, <2>2
<1> QED
  BY <1>2, <1>7, <1>8, <1>10 DEF QueueOk, Holds

\* A segment of one pbuf with the m bytes of the stream behind x.
Fresh(seg, x, m) ==
  /\ seg \in Segment /\ seg.seq = x /\ seg.bufs = 1 /\ Length(seg) = m /\ End(seg) = x + m
  /\ \A j \in 1..m : seg.data[j] = x + j

\* From where in the n bytes the k-th new segment takes its own.
From(app, k) == app + Mss * (k - 1)

\* What WriteCommit finds.
Committing(app, n, high) ==
  /\ app \in Nat /\ n \in Nat /\ app <= n /\ high \in Nat
  /\ app = plan.appended /\ n = plan.n /\ high = pcb.snd_lbb /\ high = accepted

\* The bytes from x + 1 to y.
LEMMA BytesIs ==
  ASSUME NEW x \in Nat, NEW y \in Nat, x <= y, accepted \in Nat
  PROVE  /\ Bytes(x + 1, y) \in Seq(Nat) /\ Len(Bytes(x + 1, y)) = y - x
         /\ \A k \in 1..y - x : Bytes(x + 1, y)[k] = accepted + x + k
<1>1. PICK m \in Nat : m = y - x
  OBVIOUS
<1>2. Bytes(x + 1, y) = [k \in 1..m |-> accepted + (x + 1) + k - 1]
  BY <1>1 DEF Bytes
<1>3. \A k \in 1..m : accepted + (x + 1) + k - 1 = accepted + x + k /\ accepted + x + k \in Nat
  OBVIOUS
<1>4. PICK f : f = [k \in 1..m |-> accepted + x + k]
  OBVIOUS
<1>5. f \in [1..m -> Nat]
  BY <1>3, <1>4
<1>6. f \in Seq(Nat) /\ Len(f) = m
  BY <1>5
<1>7. Bytes(x + 1, y) = f
  BY <1>2, <1>3, <1>4
<1> QED
  BY <1>1, <1>4, <1>6, <1>7

\* The k-th new segment begins where the one before it ends, the last ends with the bytes.
LEMMA NewSegmentIs ==
  ASSUME NEW app, NEW n, NEW high, Committing(app, n, high), NEW k \in 1..NewSegments(n - app)
  PROVE  \E m \in 1..Mss :
           /\ Fresh(NewSegment(k), high + From(app, k), m)
           /\ k < NewSegments(n - app) => high + From(app, k) + m = high + From(app, k + 1)
           /\ k = NewSegments(n - app) => high + From(app, k) + m = high + n
<1>1. /\ app \in Nat /\ n \in Nat /\ app <= n /\ high \in Nat /\ accepted \in Nat
      /\ app = plan.appended /\ n = plan.n /\ high = pcb.snd_lbb /\ high = accepted
  BY DEF Committing
<1>2. PICK rest \in Nat : rest = n - app
  BY <1>1
<1>3. NewSegments(rest) \in Nat /\ rest # 0
  BY <1>2, NewSegmentsIs
<1>4. PICK last \in Nat :
        NewSegments(rest) = last + 1 /\ Mss * last < rest /\ rest <= Mss * last + Mss
  BY <1>3, NewSegmentsIs
<1>5. PICK mss \in Nat : mss = Mss /\ mss > 0
  BY SendAssumption
<1>6. PICK j \in Nat : j = k - 1 /\ k = j + 1 /\ j <= last
  <2>1. k - 1 \in Nat /\ k = (k - 1) + 1 /\ k - 1 <= last
    BY <1>2, <1>4
  <2> QED
    BY <2>1
<1>7. PICK x \in Nat, y \in Nat : x = mss * j /\ y = mss * last
  BY <1>5
<1>8. x <= y /\ x < rest
  BY <1>4, <1>5, <1>6, <1>7, Times
<1>9. PICK from \in Nat : from = app + x /\ from < n
  <2>1. app + x \in Nat /\ app + x < n
    BY <1>1, <1>2, <1>8
  <2> QED
    BY <2>1
<1>10. PICK to \in Nat : to = Low(from + mss, n) /\ from < to /\ to <= n /\ to <= from + mss
  <2>1. Low(from + mss, n) \in Nat /\ from < Low(from + mss, n) /\ Low(from + mss, n) <= n
        /\ Low(from + mss, n) <= from + mss
    BY <1>1, <1>5, <1>9 DEF Low
  <2> QED
    BY <2>1
<1>11. PICK m \in 1..mss : m = to - from
  <2>1. to - from \in 1..mss
    BY <1>10
  <2> QED
    BY <2>1
<1>12. PICK d : d = Bytes(from + 1, to)
  OBVIOUS
<1>13. d \in Seq(Nat) /\ Len(d) = m /\ \A i \in 1..m : d[i] = accepted + from + i
  <2>1. from <= to /\ accepted \in Nat
    BY <1>1, <1>10
  <2>2. /\ Bytes(from + 1, to) \in Seq(Nat) /\ Len(Bytes(from + 1, to)) = to - from
        /\ \A i \in 1..to - from : Bytes(from + 1, to)[i] = accepted + from + i
    BY <2>1, BytesIs
  <2> QED
    BY <1>11, <1>12, <2>2
<1>14. PICK seg : seg = [seq |-> high + from, data |-> d, bufs |-> 1]
  OBVIOUS
<1>15. plan.appended + Mss * (k - 1) = from
  BY <1>1, <1>5, <1>6, <1>7, <1>9
<1>16. NewSegment(k) = seg
  BY <1>1, <1>5, <1>10, <1>12, <1>14, <1>15 DEF NewSegment
<1>17. Fresh(seg, high + from, m)
  <2>1. seg \in Segment /\ seg.seq = high + from /\ seg.bufs = 1 /\ seg.data = d
    BY <1>1, <1>13, <1>14 DEF Segment
  <2>2. Length(seg) = m /\ End(seg) = high + from + m
    BY <1>13, <2>1 DEF Length, End
  <2>3. \A i \in 1..m : seg.data[i] = high + from + i
    BY <1>1, <1>13, <2>1
  <2> QED
    BY <2>1, <2>2, <2>3 DEF Fresh
<1>18. From(app, k) = from
  BY <1>1, <1>15 DEF From
<1>19. ASSUME k < NewSegments(n - app) PROVE high + from + m = high + From(app, k + 1)
  <2>1. mss * (j + 1) = x + mss
    BY <1>5, <1>7, Times
  <2>2. j + 1 <= last
    BY <1>2, <1>4, <1>6, <1>19
  <2>3. x + mss <= y
    BY <1>5, <1>7, <2>1, <2>2, Times
  <2>4. from + mss < n
    BY <1>1, <1>2, <1>4, <1>5, <1>7, <1>9, <2>3
  <2>5. to = from + mss
    BY <1>1, <1>10, <2>4 DEF Low
  <2>6. From(app, k + 1) = app + (x + mss)
    <3>1. (k + 1) - 1 = j + 1
      BY <1>6
    <3> QED
      BY <1>5, <2>1, <3>1 DEF From
  <2> QED
    BY <1>1, <1>9, <1>11, <2>5, <2>6
<1>20. ASSUME k = NewSegments(n - app) PROVE high + from + m = high + n
  <2>1. j = last
    BY <1>2, <1>4, <1>6, <1>20
  <2>2. n <= from + mss
    BY <1>1, <1>2, <1>4, <1>5, <1>7, <1>9, <2>1
  <2>3. to = n
    BY <1>1, <1>10, <2>2 DEF Low
  <2> QED
    BY <1>1, <1>9, <1>11, <2>3
<1> QED
  BY <1>5, <1>16, <1>17, <1>18, <1>19, <1>20

\* Segments of one pbuf each have as many pbufs as there are segments.
LEMMA BufsCounts ==
  ASSUME NEW f \in Seq(Segment), \A i \in 1..Len(f) : f[i].bufs = 1
  PROVE  Bufs(f) = Len(f)
<1>1. Len(f) \in Nat
  BY LenProperties
<1>2. PICK sum : /\ Bufs(f) = sum[Len(f)]
                 /\ sum[0] = 0
                 /\ \A n \in 1..Len(f) : sum[n] = sum[n - 1] + f[n].bufs
  BY <1>1, BufsIs
<1>3. PICK S : S = {m \in Nat : m <= Len(f) => sum[m] = m}
  OBVIOUS
<1>4. 0 \in S
  BY <1>2, <1>3
<1>5. ASSUME NEW m \in Nat, m \in S PROVE m + 1 \in S
  <2>1. CASE m + 1 <= Len(f)
    <3>1. PICK n \in 1..Len(f) : n = m + 1
      <4>1. m + 1 \in 1..Len(f)
        BY <1>1, <2>1
      <4> QED
        BY <4>1
    <3>2. sum[n] = sum[n - 1] + 1
      BY <1>2
    <3>3. n - 1 = m /\ sum[m] = m
      BY <1>1, <1>3, <1>5, <2>1, <3>1
    <3>4. sum[n] = m + 1
      BY <3>2, <3>3
    <3> QED
      BY <1>3, <3>1, <3>4
  <2>2. CASE ~(m + 1 <= Len(f))
    BY <1>3, <2>2
  <2> QED
    BY <2>1, <2>2
<1>6. Nat \subseteq S
  BY <1>4, <1>5, Induction
<1> QED
  BY <1>1, <1>2, <1>3, <1>6

\* f holds the bytes behind from, up to to, in count pbufs.
NewQueue(f, from, to, count) ==
  /\ f \in Seq(Segment) /\ Linked(f) /\ Bufs(f) = count
  /\ f = << >> => to = from
  /\ f # << >> => f[1].seq = from /\ End(f[Len(f)]) = to

\* The new segments hold the bytes that did not fit into the last one, in order.
LEMMA NewIs ==
  ASSUME NEW app, NEW n, NEW high, Committing(app, n, high)
  PROVE  NewQueue([k \in 1..NewSegments(n - app) |-> NewSegment(k)],
                  high + app, high + n, NewSegments(n - app))
<1>1. app \in Nat /\ n \in Nat /\ app <= n /\ high \in Nat
  BY DEF Committing
<1>2. PICK rest \in Nat : rest = n - app
  BY <1>1
<1>3. PICK count \in Nat : count = NewSegments(rest)
  BY NewSegmentsIs
<1>4. PICK f : f = [k \in 1..count |-> NewSegment(k)]
  OBVIOUS
<1>5. ASSUME NEW k \in 1..count
      PROVE  \E m \in 1..Mss :
               /\ Fresh(f[k], high + From(app, k), m)
               /\ k < count => high + From(app, k) + m = high + From(app, k + 1)
               /\ k = count => high + From(app, k) + m = high + n
  <2>1. f[k] = NewSegment(k)
    BY <1>4
  <2> QED
    BY <1>2, <1>3, <2>1, NewSegmentIs
<1>6. \A k \in 1..count : f[k] \in Segment
  BY <1>5 DEF Fresh
<1>7. f \in [1..count -> Segment]
  BY <1>4, <1>6
<1>8. f \in Seq(Segment) /\ Len(f) = count
  BY <1>7
<1>9. ASSUME NEW k \in 1..count
      PROVE  /\ Length(f[k]) \in 1..Mss
             /\ \A j \in 1..Length(f[k]) : f[k].data[j] = f[k].seq + j
  BY <1>5 DEF Fresh
<1>10. ASSUME NEW k \in 1..count, NEW j \in 1..count, j = k + 1
       PROVE  f[j].seq = End(f[k])
  <2>1. PICK m \in 1..Mss : /\ Fresh(f[k], high + From(app, k), m)
                            /\ k < count => high + From(app, k) + m = high + From(app, k + 1)
    BY <1>5
  <2>2. k < count
    BY <1>10
  <2>3. End(f[k]) = high + From(app, j)
    BY <1>10, <2>1, <2>2 DEF Fresh
  <2>4. f[j].seq = high + From(app, j)
    BY <1>5 DEF Fresh
  <2> QED
    BY <2>3, <2>4
<1>11. Linked(f)
  BY <1>8, <1>9, <1>10 DEF Linked
<1>12. Bufs(f) = count
  <2>1. \A i \in 1..Len(f) : f[i].bufs = 1
    BY <1>5, <1>8 DEF Fresh
  <2> QED
    BY <1>8, <2>1, BufsCounts
<1>13. ASSUME f = << >> PROVE high + n = high + app
  <2>1. count = 0
    BY <1>8, <1>13
  <2>2. rest = 0
    <3>1. ASSUME rest # 0 PROVE FALSE
      <4>1. PICK k \in Nat : count = k + 1
        BY <1>3, <3>1, NewSegmentsIs
      <4> QED
        BY <2>1, <4>1
    <3> QED
      BY <3>1
  <2> QED
    BY <1>1, <1>2, <2>2
<1>14. ASSUME f # << >> PROVE f[1].seq = high + app /\ End(f[Len(f)]) = high + n
  <2>1. 1 \in 1..count /\ count \in 1..count
    BY <1>8, <1>14, EmptySeq
  <2>2. f[1].seq = high + From(app, 1)
    BY <1>5, <2>1 DEF Fresh
  <2>3. From(app, 1) = app
    <3>1. Mss * (1 - 1) = 0
      BY SendAssumption
    <3> QED
      BY <1>1, <3>1 DEF From
  <2>4. End(f[count]) = high + n
    <3>1. PICK m \in 1..Mss : /\ Fresh(f[count], high + From(app, count), m)
                              /\ high + From(app, count) + m = high + n
      BY <1>5, <2>1
    <3> QED
      BY <3>1 DEF Fresh
  <2> QED
    BY <1>8, <2>2, <2>3, <2>4
<1>15. NewQueue(f, high + app, high + n, count)
  BY <1>8, <1>11, <1>12, <1>13, <1>14 DEF NewQueue
<1> QED
  BY <1>2, <1>3, <1>4, <1>15

\* A queue with a last segment.
LEMMA FrontAndLast ==
  ASSUME NEW b \in Seq(Segment), b # << >>
  PROVE  Front(b) \in Seq(Segment) /\ Last(b) \in Segment /\ b = Front(b) \o <<Last(b)>>
<1>1. PICK n \in Nat : n = Len(b) - 1 /\ Len(b) = n + 1
  <2>1. Len(b) \in Nat /\ Len(b) # 0
    BY LenProperties, EmptySeq
  <2>2. Len(b) - 1 \in Nat /\ Len(b) = (Len(b) - 1) + 1
    BY <2>1
  <2> QED
    BY <2>2, Zenon
<1>2. Front(b) = SubSeq(b, 1, n)
  BY <1>1 DEF Front
<1>3. /\ SubSeq(b, 1, n) \in Seq(Segment) /\ SubSeq(b, n + 1, Len(b)) \in Seq(Segment)
      /\ Len(SubSeq(b, n + 1, Len(b))) = Len(b) - n
      /\ SubSeq(b, 1, n) \o SubSeq(b, n + 1, Len(b)) = b
  BY <1>1, SplitIs
<1>4. PICK last \in Segment : last = b[Len(b)] /\ last = Last(b)
  BY <1>1, ElementOfSeq DEF Last
<1>5. SubSeq(b, n + 1, Len(b)) = <<last>>
  <2>1. PICK s \in Seq(Segment) : s = SubSeq(b, n + 1, Len(b)) /\ Len(s) = 1
    <3>1. Len(b) - n = 1
      BY <1>1
    <3>2. SubSeq(b, n + 1, Len(b)) \in Seq(Segment) /\ Len(SubSeq(b, n + 1, Len(b))) = 1
      BY <1>3, <3>1, Zenon
    <3> QED
      BY <3>2, Zenon
  <2>2. 1 \in 1..Len(b) - n
    BY <1>1
  <2>3. s[1] = b[n + 1]
    BY <1>1, <2>1, <2>2, Suffix
  <2>4. s = <<s[1]>>
    <3>1. PICK x \in Segment : x = s[1]
      BY <2>1, ElementOfSeq
    <3>2. PICK t \in Seq(Segment) : t = <<x>> /\ Len(t) = 1 /\ t[1] = x
      <4>1. <<x>> \in Seq(Segment) /\ Len(<<x>>) = 1 /\ <<x>>[1] = x
        OBVIOUS
      <4> QED
        BY <4>1
    <3>3. \A i \in 1..Len(s) : s[i] = t[i]
      BY <2>1, <3>1, <3>2
    <3>4. s = t
      BY <2>1, <3>2, <3>3, SeqEqual
    <3> QED
      BY <3>1, <3>2, <3>4
  <2> QED
    BY <1>1, <1>4, <2>1, <2>3, <2>4
<1> QED
  BY <1>2, <1>3, <1>4, <1>5, Zenon

Cat(a, b) == a \o b

\* Concatenation is associative.
LEMMA CatIs ==
  \A a, b, c \in Seq(Segment) : Cat(Cat(a, b), c) = Cat(a, Cat(b, c))
<1>1. \A a, b, c \in Seq(Segment) : (a \o b) \o c = a \o (b \o c)
  OBVIOUS
<1> QED
  BY <1>1, Zenon DEF Cat

\* Two queues together are a queue.
LEMMA BothIs == \A x, y \in Seq(Segment) : x \o y \in Seq(Segment)
  OBVIOUS

\* One segment is a queue.
LEMMA OneIs == \A s \in Segment : <<s>> \in Seq(Segment)
  OBVIOUS

\* Segment s with the bytes that go into it.
Filled(s) == [s EXCEPT !.data = @ \o Bytes(1, plan.appended), !.bufs = @ + plan.bufs]

\* s is the last segment, and the bytes fit into it.
Fillable(s, app, n, high) ==
  /\ Committing(app, n, high) /\ plan.bufs \in Nat
  /\ s \in Segment /\ End(s) = high /\ Length(s) + app <= Mss
  /\ \A j \in 1..Length(s) : s.data[j] = s.seq + j

\* The last segment holds its own bytes and then those that tcp_write has put behind them.
LEMMA FilledIs ==
  ASSUME NEW s, NEW app, NEW n, NEW high, Fillable(s, app, n, high)
  PROVE  /\ Filled(s) \in Segment /\ Filled(s).seq = s.seq
         /\ Filled(s).bufs = s.bufs + plan.bufs
         /\ End(Filled(s)) = high + app
         /\ Length(s) <= Length(Filled(s)) /\ Length(Filled(s)) <= Mss
         /\ \A j \in 1..Length(Filled(s)) : Filled(s).data[j] = Filled(s).seq + j
<1>1. /\ app \in Nat /\ high \in Nat /\ app = plan.appended /\ high = accepted
      /\ plan.bufs \in Nat /\ s \in Segment /\ End(s) = high /\ Length(s) + app <= Mss
      /\ \A j \in 1..Length(s) : s.data[j] = s.seq + j
  BY DEF Fillable, Committing
<1>2. PICK d \in Seq(Nat), len \in Nat, seq \in Nat, bufs \in Nat :
        /\ d = s.data /\ len = Len(d) /\ len = Length(s) /\ seq = s.seq /\ bufs = s.bufs
  <2>1. s.data \in Seq(Nat) /\ s.seq \in Nat /\ s.bufs \in Nat
    BY <1>1, SegmentIs
  <2>2. Len(s.data) \in Nat /\ Len(s.data) = Length(s)
    BY <2>1, LenProperties DEF Length
  <2> QED
    BY <2>1, <2>2
<1>3. high = seq + len
  BY <1>1, <1>2, SegmentIs
<1>4. PICK e \in Seq(Nat) :
        /\ e = Bytes(1, app) /\ Len(e) = app /\ \A k \in 1..app : e[k] = high + k
  <2>1. PICK z \in Nat : z = 0 /\ z <= app
    BY <1>1
  <2>2. /\ Bytes(z + 1, app) \in Seq(Nat) /\ Len(Bytes(z + 1, app)) = app - z
        /\ \A k \in 1..app - z : Bytes(z + 1, app)[k] = accepted + z + k
    <3>1. accepted \in Nat
      BY <1>1
    <3> QED
      BY <1>1, <2>1, <3>1, BytesIs
  <2>3. z + 1 = 1 /\ app - z = app /\ \A k \in 1..app : accepted + z + k = high + k
    BY <1>1, <2>1
  <2>4. /\ Bytes(1, app) \in Seq(Nat) /\ Len(Bytes(1, app)) = app
        /\ \A k \in 1..app : Bytes(1, app)[k] = high + k
    BY <2>2, <2>3
  <2> QED
    BY <2>4
<1>5. PICK f \in Seq(Nat) :
        /\ f = d \o e /\ Len(f) = len + app
        /\ \A k \in 1..len + app : f[k] = IF k <= len THEN d[k] ELSE e[k - len]
  <2>1. /\ d \o e \in Seq(Nat) /\ Len(d \o e) = len + app
        /\ \A k \in 1..len + app : (d \o e)[k] = IF k <= len THEN d[k] ELSE e[k - len]
    <3>1. /\ d \o e \in Seq(Nat) /\ Len(d \o e) = Len(d) + Len(e)
          /\ \A k \in 1..Len(d) + Len(e) :
               (d \o e)[k] = IF k <= Len(d) THEN d[k] ELSE e[k - Len(d)]
      BY ConcatProperties
    <3>2. Len(d) = len /\ Len(e) = app
      BY <1>2, <1>4
    <3> QED
      BY <3>1, <3>2, Zenon
  <2>2. PICK f : f = d \o e
    OBVIOUS
  <2>3. /\ f \in Seq(Nat) /\ Len(f) = len + app
        /\ \A k \in 1..len + app : f[k] = IF k <= len THEN d[k] ELSE e[k - len]
    BY <2>1, <2>2, Zenon
  <2> QED
    BY <2>2, <2>3
<1>6. PICK t : t = Filled(s)
  OBVIOUS
<1>7. t = [s EXCEPT !.data = f, !.bufs = bufs + plan.bufs]
  BY <1>1, <1>2, <1>4, <1>5, <1>6 DEF Filled
<1>8. t \in Segment /\ t.seq = seq /\ t.data = f /\ t.bufs = bufs + plan.bufs
  <2>1. PICK nb \in Nat : nb = bufs + plan.bufs
    BY <1>1
  <2>2. t = [s EXCEPT !.data = f, !.bufs = nb]
    BY <1>7, <2>1
  <2>3. t \in Segment
    BY <1>1, <2>2 DEF Segment
  <2>4. t.seq = seq /\ t.data = f /\ t.bufs = nb
    BY <1>1, <1>2, <2>2 DEF Segment
  <2> QED
    BY <2>1, <2>3, <2>4
<1>9. Length(t) = len + app /\ End(t) = high + app
  <2>1. Length(t) = len + app
    BY <1>5, <1>8 DEF Length
  <2>2. End(t) = seq + (len + app)
    BY <1>8, <2>1 DEF End
  <2> QED
    BY <1>1, <1>3, <2>1, <2>2
<1>10. ASSUME NEW k \in 1..len + app PROVE f[k] = seq + k
  <2>1. CASE k <= len
    <3>1. f[k] = d[k] /\ k \in 1..len
      BY <1>5, <2>1
    <3>2. d[k] = seq + k
      BY <1>1, <1>2, <3>1
    <3> QED
      BY <3>1, <3>2
  <2>2. CASE ~(k <= len)
    <3>1. PICK j \in 1..app : j = k - len
      <4>1. k - len \in 1..app
        BY <1>1, <2>2
      <4> QED
        BY <4>1
    <3>2. f[k] = e[j] /\ e[j] = high + j
      BY <1>4, <1>5, <2>2, <3>1
    <3> QED
      BY <1>1, <1>3, <3>1, <3>2
  <2> QED
    BY <2>1, <2>2
<1>11. Length(s) <= Length(t) /\ Length(t) <= Mss
  BY <1>1, <1>2, <1>9
<1> QED
  BY <1>2, <1>6, <1>8, <1>9, <1>10, <1>11

\* What tcp_write leaves in the queues holds the stream up to its last byte.
LEMMA CommitQueue ==
  ASSUME SendInv, plan # NoPlan, TailInPlace
  PROVE  /\ Extended \in Seq(Segment)
         /\ QueueOk(pcb.unacked \o Extended, pcb.lastack, pcb.snd_lbb + plan.n)
         /\ Bufs(pcb.unacked \o Extended) =
              Bufs(Queue(pcb)) + plan.bufs + NewSegments(plan.n - plan.appended)
<1>1. PICK a \in Seq(Segment), b \in Seq(Segment), low \in Nat, high \in Nat :
        a = pcb.unacked /\ b = pcb.unsent /\ low = pcb.lastack /\ high = pcb.snd_lbb
  BY PcbIs DEF SendInv, PcbOk
<1>2. QueueOk(a \o b, low, high)
  BY <1>1 DEF SendInv, PcbOk, Queue
<1>3. /\ plan \in Plan /\ plan.appended <= plan.n
      /\ plan.tail = Null => plan.appended = 0 /\ plan.bufs = 0
      /\ FitsPlan(Queue(pcb))
  BY DEF SendInv, PlanInv
<1>4. PICK app \in Nat, n \in Nat, pb \in Nat :
        app = plan.appended /\ n = plan.n /\ pb = plan.bufs /\ app <= n
  BY <1>3 DEF Plan, Flag
<1>5. Committing(app, n, high)
  BY <1>1, <1>4 DEF SendInv, CountInv, Committing
<1>6. PICK count \in Nat : count = NewSegments(n - app)
  <2>1. n - app \in Nat
    BY <1>4
  <2> QED
    BY <2>1, NewSegmentsIs
<1>7. PICK f : f = [k \in 1..NewSegments(plan.n - plan.appended) |-> NewSegment(k)]
  OBVIOUS
<1>8. NewQueue(f, high + app, high + n, count)
  BY <1>4, <1>5, <1>6, <1>7, NewIs
<1>9. /\ f \in Seq(Segment) /\ Linked(f) /\ Bufs(f) = count
      /\ f = << >> => high + n = high + app
      /\ f # << >> => f[1].seq = high + app /\ End(f[Len(f)]) = high + n
  BY <1>8 DEF NewQueue
<1>10. SUFFICES /\ Extended \in Seq(Segment)
                /\ QueueOk(a \o Extended, low, high + n)
                /\ Bufs(a \o Extended) = Bufs(a \o b) + pb + count
  BY <1>1, <1>4, <1>6 DEF Queue
<1>11. CASE b = << >>
  <2>1. plan.tail = Null
    BY <1>1, <1>11 DEF TailInPlace
  <2>2. app = 0 /\ pb = 0
    BY <1>3, <1>4, <2>1
  <2>3. Extended = f
    <3>1. Extended = << >> \o f
      BY <1>1, <1>7, <1>11 DEF Extended
    <3> QED
      BY <1>9, <3>1, ConcatEmptySeq
  <2>4. QueueOk(a, low, high)
    <3>1. a \o b = a
      BY <1>11, ConcatEmptySeq
    <3> QED
      BY <1>2, <3>1
  <2>5. QueueOk(a \o f, low, high + n)
    <3>1. high + app = high /\ high + n \in Nat
      BY <2>2
    <3> QED
      BY <1>9, <2>4, <3>1, AppendedOk
  <2>6. Bufs(a \o f) = Bufs(a) + count /\ Bufs(a) \in Nat
    BY <1>9, BufsConcat
  <2>7. Bufs(a \o b) = Bufs(a)
    BY <1>11, ConcatEmptySeq
  <2>8. Bufs(a \o f) = Bufs(a \o b) + pb + count
    BY <2>2, <2>6, <2>7
  <2> QED
    BY <1>9, <2>3, <2>5, <2>8
<1>12. CASE b # << >>
  <2>1. PICK g \in Seq(Segment), s \in Segment :
          g = Front(b) /\ s = Last(b) /\ b = g \o <<s>>
    BY <1>12, FrontAndLast
  <2>2. PICK h : h = a \o g
    OBVIOUS
  <2>3. h \in Seq(Segment)
    BY <2>2, ConcatProperties
  <2>4. PICK q, m : EndsWith(q, h, s, m) /\ q = h \o <<s>> /\ m = Len(h) + 1
    BY <2>3, EndsWithIs
  <2>5. a \o b = q
    <3>1. PICK ss \in Seq(Segment) : ss = <<s>>
      BY OneIs
    <3>2. Cat(Cat(a, g), ss) = Cat(a, Cat(g, ss))
      BY CatIs
    <3>3. (a \o g) \o ss = a \o (g \o ss)
      BY <3>2, Zenon DEF Cat
    <3> QED
      BY <2>1, <2>2, <2>4, <3>1, <3>3, Zenon
  <2>6. q \in Seq(Segment) /\ m \in Nat /\ m \in 1..m /\ Len(q) = m /\ q[m] = s /\ q # << >>
    <3>1. q \in Seq(Segment) /\ m \in Nat /\ Len(q) = m /\ q[m] = s
      BY <2>4 DEF EndsWith
    <3>2. m \in 1..m
      BY <2>3, <2>4, <3>1, LenProperties
    <3> QED
      BY <3>1, <3>2, EmptySeq
  <2>7. Linked(q) /\ Holds(q, low, high)
    BY <1>2, <2>5 DEF QueueOk
  <2>8. End(s) = high
    BY <2>6, <2>7 DEF Holds
  <2>9. \A j \in 1..Length(s) : s.data[j] = s.seq + j
    BY <2>6, <2>7 DEF Linked
  <2>10. Length(s) + app <= Mss /\ pb = plan.bufs
    <3>1. plan.tail # Null => s.seq + 1 = plan.tail
      BY <1>1, <2>1 DEF TailInPlace
    <3>2. plan.tail # Null
      BY <1>1, <1>12 DEF TailInPlace
    <3>3. q[m].seq + 1 = plan.tail => Length(q[m]) + plan.appended <= Mss
      BY <1>1, <1>3, <2>5, <2>6 DEF FitsPlan, Queue
    <3> QED
      BY <1>4, <2>6, <3>1, <3>2, <3>3
  <2>11. Fillable(s, app, n, high)
    BY <1>4, <1>5, <2>8, <2>9, <2>10 DEF Fillable
  <2>12. PICK t \in Segment :
           /\ t = Filled(s) /\ t.seq = s.seq /\ t.bufs = s.bufs + pb /\ End(t) = high + app
           /\ Length(s) <= Length(t) /\ Length(t) <= Mss
           /\ \A j \in 1..Length(t) : t.data[j] = t.seq + j
    BY <1>4, <2>11, FilledIs
  <2>13. Extended = (g \o <<t>>) \o f
    <3>1. Extended = Append(g, t) \o f
      BY <1>1, <1>7, <1>12, <2>1, <2>12 DEF Extended, Filled
    <3>2. Append(g, t) = g \o <<t>>
      OBVIOUS
    <3> QED
      BY <3>1, <3>2
  <2>14. PICK r : r = h \o <<t>>
    OBVIOUS
  <2>15. QueueOk(r, low, high + app)
    <3>1. QueueOk(h \o <<s>>, low, high)
      BY <1>2, <2>4, <2>5
    <3>2. Length(t) \in Length(s)..Mss
      BY <2>12, SegmentIs, SendAssumption
    <3>3. QueueOk(h \o <<t>>, low, End(t))
      BY <2>3, <2>12, <3>1, <3>2, LongerOk
    <3> QED
      BY <2>12, <2>14, <3>3
  <2>16. QueueOk(r \o f, low, high + n)
    <3>1. high + app \in Nat /\ high + n \in Nat
      OBVIOUS
    <3> QED
      BY <1>9, <2>15, <3>1, AppendedOk
  <2>17. a \o Extended = r \o f /\ Extended \in Seq(Segment)
    <3>1. PICK ts \in Seq(Segment) : ts = <<t>>
      BY OneIs
    <3>3. g \o ts \in Seq(Segment) /\ (g \o ts) \o f \in Seq(Segment)
      BY <1>9, BothIs
    <3>4. Cat(Cat(a, g), ts) = Cat(a, Cat(g, ts))
      BY CatIs
    <3>5. Cat(Cat(a, Cat(g, ts)), f) = Cat(a, Cat(Cat(g, ts), f))
      <4>1. Cat(g, ts) \in Seq(Segment)
        BY <3>3, Zenon DEF Cat
      <4> QED
        BY <1>9, <4>1, CatIs
    <3>6. a \o Extended = r \o f
      BY <2>2, <2>13, <2>14, <3>1, <3>4, <3>5, Zenon DEF Cat
    <3> QED
      BY <2>13, <3>1, <3>3, <3>6, Zenon
  <2>18. Bufs(a \o Extended) = Bufs(a \o b) + pb + count
    <3>1. PICK ss \in Seq(Segment), ts \in Seq(Segment) :
            ss = <<s>> /\ ts = <<t>> /\ Bufs(ss) = s.bufs /\ Bufs(ts) = t.bufs
      <4>1. <<s>> \in Seq(Segment) /\ <<t>> \in Seq(Segment)
        OBVIOUS
      <4> QED
        BY <4>1, BufsOne
    <3>2. Bufs(h \o ss) = Bufs(h) + Bufs(ss) /\ Bufs(h \o ts) = Bufs(h) + Bufs(ts)
          /\ Bufs(h) \in Nat
      BY <2>3, BufsConcat
    <3>3. r \in Seq(Segment)
      BY <2>15 DEF QueueOk
    <3>4. Bufs(r \o f) = Bufs(r) + count
      BY <1>9, <3>3, BufsConcat
    <3>5. s.bufs \in Nat
      BY SegmentIs
    <3>6. PICK x \in Nat, y \in Nat : x = Bufs(h) /\ y = s.bufs
      BY <3>2, <3>5
    <3>7. Bufs(a \o b) = x + y
      BY <2>4, <2>5, <3>1, <3>2, <3>6
    <3>8. Bufs(r) = x + (y + pb)
      BY <2>12, <2>14, <3>1, <3>2, <3>6
    <3>9. Bufs(a \o Extended) = x + (y + pb) + count
      BY <2>17, <3>4, <3>8
    <3> QED
      BY <3>7, <3>9
  <2> QED
    BY <2>16, <2>17, <2>18
<1> QED
  BY <1>11, <1>12

\* The fields of p that the network knows of are those of q.
SameToNetwork(p, q) ==
  /\ p.lastack = q.lastack /\ p.snd_nxt = q.snd_nxt
  /\ p.snd_wnd = q.snd_wnd /\ p.snd_wl2 = q.snd_wl2

\* The pcb as tcp_write leaves it.
Committed ==
  [pcb EXCEPT !.unsent = Extended, !.oversize = plan.oversize, !.snd_lbb = @ + plan.n,
              !.snd_buf = @ - plan.n, !.snd_queuelen = plan.queuelen]

\* tcp_write leaves a good pcb, which counts its pbufs if it counted them before.
LEMMA CommitOk ==
  ASSUME SendInv, plan # NoPlan, TailInPlace, NEW p, p = Committed
  PROVE  /\ PcbOk(p) /\ SameToNetwork(p, pcb)
         /\ p.snd_lbb = accepted + plan.n /\ accepted + plan.n \in Nat
         /\ accepted + plan.n <= Total
         /\ pcb.snd_queuelen = plan.before /\ pcb.snd_queuelen = Bufs(Queue(pcb)) =>
              p.snd_queuelen = Bufs(Queue(p))
<1>1. PICK e \in Seq(Segment) : e = Extended
  BY CommitQueue
<1>2. PICK n \in Nat, oversize \in Int, queuelen \in Int :
        n = plan.n /\ oversize = plan.oversize /\ queuelen = plan.queuelen
  BY DEF SendInv, PlanInv, Plan
<1>3. PICK high \in Nat, buf \in Int, low \in Nat :
        high = pcb.snd_lbb /\ buf = pcb.snd_buf /\ low = pcb.lastack
  BY PcbIs DEF SendInv, PcbOk
<1>4. PICK to \in Nat, left \in Int : to = high + n /\ left = buf - n
  OBVIOUS
<1>5. pcb \in Pcb
  BY DEF SendInv, PcbOk
<1>6. p = [pcb EXCEPT !.unsent = e, !.oversize = oversize, !.snd_lbb = to,
                      !.snd_buf = left, !.snd_queuelen = queuelen]
  BY <1>1, <1>2, <1>3, <1>4, <1>5 DEF Committed
<1>7. p \in Pcb
  BY <1>5, <1>6, ZenonT(60) DEF Pcb
<1>8. /\ p.unsent = e /\ p.unacked = pcb.unacked /\ p.snd_lbb = to /\ p.snd_buf = left
      /\ p.snd_queuelen = queuelen /\ p.lastack = low /\ p.snd_nxt = pcb.snd_nxt
      /\ p.snd_wnd = pcb.snd_wnd /\ p.snd_wl2 = pcb.snd_wl2
  BY <1>3, <1>5, <1>6 DEF Pcb
<1>9. Queue(p) = pcb.unacked \o Extended
  BY <1>1, <1>8 DEF Queue
<1>10. QueueOk(Queue(p), p.lastack, p.snd_lbb)
  BY <1>2, <1>3, <1>4, <1>8, <1>9, CommitQueue
<1>11. EndBy(p.unacked, Len(p.unacked), p.snd_nxt)
  BY <1>8 DEF SendInv, PcbOk
<1>12. Numbers(p)
  <2>1. Numbers(pcb)
    BY DEF SendInv, PcbOk
  <2>2. PICK nxt \in Nat, wnd \in Nat : nxt = pcb.snd_nxt /\ wnd = pcb.snd_wnd
    BY <1>5, PcbIs
  <2>3. /\ low <= nxt /\ nxt <= high /\ nxt <= low + wnd
        /\ pcb.snd_wl2 \in {low, low + 1} /\ buf + (high - low) = SndBuf
    BY <1>3, <2>1, <2>2 DEF Numbers
  <2>4. nxt <= to /\ left + (to - low) = SndBuf
    <3>1. SndBuf \in Nat
      BY SendAssumption
    <3> QED
      BY <1>4, <2>3, <3>1
  <2> QED
    BY <1>8, <2>2, <2>3, <2>4 DEF Numbers
<1>13. PcbOk(p)
  BY <1>7, <1>10, <1>11, <1>12 DEF PcbOk
<1>14. /\ accepted = high /\ accepted + plan.n <= Total
       /\ plan.queuelen = plan.before + plan.bufs + NewSegments(plan.n - plan.appended)
  BY <1>3 DEF SendInv, CountInv, PlanInv
<1>15. pcb.snd_queuelen = plan.before /\ pcb.snd_queuelen = Bufs(Queue(pcb)) =>
         p.snd_queuelen = Bufs(Queue(p))
  <2>1. Bufs(Queue(p)) =
          Bufs(Queue(pcb)) + plan.bufs + NewSegments(plan.n - plan.appended)
    BY <1>9, CommitQueue
  <2> QED
    BY <1>2, <1>8, <1>14, <2>1
<1>16. SameToNetwork(p, pcb)
  BY <1>3, <1>8 DEF SameToNetwork
<1>17. p.snd_lbb = accepted + plan.n /\ accepted + plan.n \in Nat
  BY <1>2, <1>4, <1>8, <1>14
<1> QED
  BY <1>13, <1>14, <1>15, <1>16, <1>17, Zenon

-----------------------------------------------------------------------------
(* tcp_slowtmr.                                                            *)

\* All segments not acknowledged go back in front of unsent.
PutBack(p) ==
  [p EXCEPT !.unsent = p.unacked \o @, !.unacked = << >>, !.rtime = 0, !.nrtx = @ + 1]

\* A retransmission timeout puts the segments back in their order.
LEMMA PutBackOk ==
  ASSUME NEW p, PcbOk(p), NEW q, q = PutBack(p)
  PROVE  /\ PcbOk(q) /\ SameToNetwork(q, p) /\ Queue(q) = Queue(p)
         /\ q.state = p.state /\ q.snd_lbb = p.snd_lbb /\ q.snd_queuelen = p.snd_queuelen
<1>1. p \in Pcb
  BY DEF PcbOk
<1>2. PICK a \in Seq(Segment), b \in Seq(Segment), nrtx \in Nat :
        a = p.unacked /\ b = p.unsent /\ nrtx = p.nrtx
  BY <1>1, PcbIs
<1>3. PICK c \in Seq(Segment) : c = a \o b
  BY BothIs
<1>4. PICK none \in Seq(Segment) : none = << >> /\ Len(none) = 0
  <2>1. << >> \in Seq(Segment) /\ Len(<< >>) = 0
    OBVIOUS
  <2> QED
    BY <2>1
<1>5. PICK more \in Nat : more = nrtx + 1
  OBVIOUS
<1>6. q = [p EXCEPT !.unsent = c, !.unacked = none, !.rtime = 0, !.nrtx = more]
  BY <1>1, <1>2, <1>3, <1>4, <1>5 DEF PutBack
<1>7. q \in Pcb
  <2>1. 0 \in {-1, 0}
    OBVIOUS
  <2> QED
    BY <1>1, <1>6, <2>1, ZenonT(60) DEF Pcb
<1>8. /\ q.unsent = c /\ q.unacked = none /\ q.lastack = p.lastack /\ q.snd_nxt = p.snd_nxt
      /\ q.snd_wnd = p.snd_wnd /\ q.snd_wl2 = p.snd_wl2 /\ q.state = p.state
      /\ q.snd_lbb = p.snd_lbb /\ q.snd_buf = p.snd_buf /\ q.snd_queuelen = p.snd_queuelen
  BY <1>1, <1>6 DEF Pcb
<1>9. Queue(q) = Queue(p)
  <2>1. << >> \o c = c
    BY ConcatEmptySeq
  <2> QED
    BY <1>2, <1>3, <1>4, <1>8, <2>1, Zenon DEF Queue
<1>10. QueueOk(Queue(q), q.lastack, q.snd_lbb) /\ Numbers(q)
  BY <1>8, <1>9 DEF PcbOk, Numbers
<1>11. EndBy(q.unacked, Len(q.unacked), q.snd_nxt)
  BY <1>4, <1>8 DEF EndBy
<1> QED
  BY <1>7, <1>8, <1>9, <1>10, <1>11 DEF PcbOk, SameToNetwork

-----------------------------------------------------------------------------
(* The client and the network.                                             *)

\* The client has all the bytes before the first that is missing.
LEMMA StoredIs ==
  ASSUME NEW g
  PROVE  /\ Stored(g) \in 0..Total
         /\ Stored(g) = Total \/ g[Stored(g)] = Null
         /\ \A i \in 0..Total - 1 : i < Stored(g) => g[i] # Null
<1>1. PICK S : S = {i \in 0..Total : i = Total \/ g[i] = Null}
  OBVIOUS
<1>2. Total \in S /\ S \in SUBSET Nat
  BY <1>1, SendAssumption
<1>3. PICK m : m = Min(S)
  OBVIOUS
<1>4. m \in S /\ \A i \in S : m <= i
  BY <1>2, <1>3, MinIs
<1>5. Stored(g) = m
  BY <1>1, <1>3 DEF Stored
<1>6. \A i \in 0..Total - 1 : i < m => g[i] # Null
  BY <1>1, <1>4, SendAssumption
<1> QED
  BY <1>1, <1>4, <1>5, <1>6

\* The client has not more than has been carried, and not more than its buffer holds.
LEMMA StoredWithin ==
  ASSUME NEW g, NEW r, NEW reach \in Nat, ClientOk(g, r, reach)
  PROVE  Stored(g) \in Nat /\ r \in Nat /\ r <= Stored(g) /\ Stored(g) <= reach
         /\ Stored(g) <= r + Window /\ Stored(g) <= Total
<1>1. r \in Nat /\ Total \in Nat /\ Window \in Nat
  BY SendAssumption DEF ClientOk
<1>2. PICK s \in Nat : s = Stored(g) /\ s <= Total /\ r <= s
  BY <1>1, StoredIs DEF ClientOk
<1>3. CASE s = 0
  BY <1>1, <1>2, <1>3
<1>4. CASE s # 0
  <2>1. PICK i \in 0..Total - 1 : i = s - 1
    <3>1. s - 1 \in 0..Total - 1
      BY <1>1, <1>2, <1>4
    <3> QED
      BY <3>1
  <2>2. g[i] # Null
    BY <1>2, <2>1, StoredIs
  <2>3. i < reach /\ i < r + Window
    BY <2>2 DEF ClientOk
  <2> QED
    BY <1>1, <1>2, <2>1, <2>3
<1> QED
  BY <1>3, <1>4

\* The client may have more: its own bytes stay.
LEMMA StoredGrows ==
  ASSUME NEW g, NEW h, \A i \in 0..Total - 1 : g[i] # Null => h[i] # Null
  PROVE  Stored(g) <= Stored(h)
<1>1. PICK s \in Nat, t \in Nat : s = Stored(g) /\ t = Stored(h) /\ s <= Total /\ t <= Total
  BY StoredIs, SendAssumption
<1>2. CASE t = Total
  BY <1>1, <1>2
<1>3. CASE t # Total
  <2>1. t \in 0..Total - 1 /\ h[t] = Null
    BY <1>1, <1>3, StoredIs, SendAssumption
  <2>2. ~(t < s)
    BY <1>1, <2>1, StoredIs
  <2> QED
    BY <1>1, <2>2
<1> QED
  BY <1>2, <1>3

\* What arrives is put where it belongs.
Filling(g, seg, r) ==
  [i \in 0..Total - 1 |->
     IF g[i] = Null /\ i < r + Window /\ i \in seg.seq..(End(seg) - 1)
       THEN seg.data[i - seg.seq + 1] ELSE g[i]]

\* The fields of a datagram.
LEMMA DatagramIs ==
  ASSUME NEW d \in Datagram
  PROVE  d.seq \in Nat /\ d.data \in Seq(Nat) /\ Length(d) \in Nat
         /\ End(d) = d.seq + Length(d) /\ End(d) \in Nat
<1>1. d.seq \in Nat /\ d.data \in Seq(Nat)
  BY DEF Datagram
<1>2. Length(d) \in Nat
  BY <1>1, LenProperties DEF Length
<1> QED
  BY <1>1, <1>2 DEF End

\* A datagram with the right bytes leaves the client with the right bytes, and no fewer.
LEMMA ArrivesOk ==
  ASSUME NEW g, NEW r, NEW reach \in Nat, ClientOk(g, r, reach),
         NEW seg \in Datagram, DataOk(seg, reach), NEW h, h = Filling(g, seg, r)
  PROVE  ClientOk(h, r, reach) /\ Stored(g) <= Stored(h)
<1>1. /\ g \in [0..Total - 1 -> Nat] /\ r \in Nat /\ r <= Stored(g)
      /\ \A i \in 0..Total - 1 : g[i] # Null => g[i] = i + 1 /\ i < reach /\ i < r + Window
  BY DEF ClientOk
<1>2. PICK seq \in Nat, len \in Nat :
        seq = seg.seq /\ len = Length(seg) /\ End(seg) = seq + len /\ seq + len <= reach
  BY DatagramIs DEF DataOk
<1>3. ASSUME NEW i \in 0..Total - 1
      PROVE  \/ h[i] = g[i]
             \/ g[i] = Null /\ h[i] = i + 1 /\ i < reach /\ i < r + Window
  <2>1. CASE g[i] = Null /\ i < r + Window /\ i \in seg.seq..(End(seg) - 1)
    <3>1. h[i] = seg.data[i - seg.seq + 1]
      BY <2>1 DEF Filling
    <3>2. PICK j \in 1..len : j = i - seq + 1
      <4>1. i - seq + 1 \in 1..len
        BY <1>2, <2>1, SendAssumption
      <4> QED
        BY <4>1
    <3>3. seg.data[j] = seq + j
      BY <1>2 DEF DataOk
    <3>4. h[i] = i + 1 /\ i < reach
      BY <1>2, <2>1, <3>1, <3>2, <3>3, SendAssumption
    <3> QED
      BY <2>1, <3>4
  <2>2. CASE ~(g[i] = Null /\ i < r + Window /\ i \in seg.seq..(End(seg) - 1))
    <3>1. h[i] = g[i]
      BY <2>2 DEF Filling
    <3> QED
      BY <3>1
  <2> QED
    BY <2>1, <2>2
<1>4. \A i \in 0..Total - 1 : i \in Nat /\ i + 1 \in Nat /\ i + 1 # Null
  BY SendAssumption DEF Null
<1>5. Stored(g) <= Stored(h)
  <2>1. \A i \in 0..Total - 1 : g[i] # Null => h[i] # Null
    BY <1>3
  <2> QED
    BY <2>1, StoredGrows
<1>6. h \in [0..Total - 1 -> Nat]
  <2>1. DOMAIN h = 0..Total - 1 /\ h = [i \in 0..Total - 1 |-> h[i]]
    BY DEF Filling
  <2>2. \A i \in 0..Total - 1 : h[i] \in Nat
    BY <1>1, <1>3, <1>4
  <2> QED
    BY <2>1, <2>2
<1>7. r <= Stored(h)
  <2>1. PICK s \in Nat, t \in Nat : s = Stored(g) /\ t = Stored(h)
    BY StoredIs, SendAssumption
  <2> QED
    BY <1>1, <1>5, <2>1
<1>8. \A i \in 0..Total - 1 : h[i] # Null => h[i] = i + 1 /\ i < reach /\ i < r + Window
  BY <1>1, <1>3
<1> QED
  BY <1>1, <1>5, <1>6, <1>7, <1>8 DEF ClientOk

\* What is in a queue of messages.
LEMMA ToSetIs ==
  ASSUME NEW S, NEW s \in Seq(S)
  PROVE  /\ \A x : x \in ToSet(s) <=> \E i \in 1..Len(s) : x = s[i]
         /\ ToSet(s) \subseteq S
<1>1. ToSet(s) = {s[i] : i \in 1..Len(s)}
  BY DEF ToSet
<1>2. \A i \in 1..Len(s) : s[i] \in S
  BY ElementOfSeq
<1> QED
  BY <1>1, <1>2

\* What holds of each element holds of the set of them.
LEMMA ToSetWithin ==
  ASSUME NEW S, NEW s \in Seq(S), NEW T, \A i \in 1..Len(s) : s[i] \in T
  PROVE  ToSet(s) \subseteq T
<1>1. ToSet(s) = {s[i] : i \in 1..Len(s)}
  BY DEF ToSet
<1> QED
  BY <1>1

\* The elements of two sequences are those of one and of the other.
LEMMA ToSetConcat ==
  ASSUME NEW S, NEW s \in Seq(S), NEW t \in Seq(S)
  PROVE  s \o t \in Seq(S) /\ ToSet(s \o t) \subseteq ToSet(s) \cup ToSet(t)
<1>1. PICK u : u = s \o t
  OBVIOUS
<1>2. Len(s) \in Nat /\ Len(t) \in Nat
  BY LenProperties
<1>3. /\ u \in Seq(S) /\ Len(u) = Len(s) + Len(t)
      /\ \A i \in 1..Len(s) + Len(t) : u[i] = IF i <= Len(s) THEN s[i] ELSE t[i - Len(s)]
  <2>1. /\ s \o t \in Seq(S) /\ Len(s \o t) = Len(s) + Len(t)
        /\ \A i \in 1..Len(s) + Len(t) :
             (s \o t)[i] = IF i <= Len(s) THEN s[i] ELSE t[i - Len(s)]
    BY ConcatProperties
  <2> QED
    BY <1>1, <2>1, Zenon
<1>4. ASSUME NEW i \in 1..Len(u) PROVE u[i] \in ToSet(s) \cup ToSet(t)
  <2>1. CASE i <= Len(s)
    <3>1. i \in 1..Len(s) /\ u[i] = s[i]
      BY <1>2, <1>3, <2>1
    <3> QED
      BY <3>1, ToSetIs
  <2>2. CASE ~(i <= Len(s))
    <3>1. PICK j \in 1..Len(t) : j = i - Len(s)
      <4>1. i - Len(s) \in 1..Len(t)
        BY <1>2, <1>3, <2>2
      <4> QED
        BY <4>1
    <3>2. u[i] = t[j]
      BY <1>2, <1>3, <2>2, <3>1
    <3> QED
      BY <3>2, ToSetIs
  <2> QED
    BY <2>1, <2>2
<1>5. ToSet(u) \subseteq ToSet(s) \cup ToSet(t)
  BY <1>3, <1>4, ToSetIs
<1> QED
  BY <1>1, <1>3, <1>5

\* From position k on a queue holds nothing new.
LEMMA ToSetSuffix ==
  ASSUME NEW S, NEW s \in Seq(S), NEW k \in 0..Len(s)
  PROVE  /\ SubSeq(s, k + 1, Len(s)) \in Seq(S)
         /\ ToSet(SubSeq(s, k + 1, Len(s))) \subseteq ToSet(s)
<1>1. PICK t \in Seq(S) : /\ t = SubSeq(s, k + 1, Len(s)) /\ Len(t) = Len(s) - k
                          /\ \A i \in 1..Len(s) - k : \E j \in 1..Len(s) : t[i] = s[j]
  <2>1. /\ SubSeq(s, k + 1, Len(s)) \in Seq(S) /\ Len(SubSeq(s, k + 1, Len(s))) = Len(s) - k
        /\ \A i \in 1..Len(s) - k :
             \E j \in 1..Len(s) : j = k + i /\ SubSeq(s, k + 1, Len(s))[i] = s[j]
    BY Suffix
  <2> QED
    BY <2>1
<1>2. \A i \in 1..Len(t) : t[i] \in ToSet(s)
  <2>1. \A j \in 1..Len(s) : s[j] \in ToSet(s)
    BY ToSetIs
  <2> QED
    BY <1>1, <2>1
<1>3. ToSet(t) \subseteq ToSet(s)
  BY <1>2, ToSetWithin
<1> QED
  BY <1>1, <1>3

\* The front of a sequence has only its elements.
LEMMA ToSetPrefix ==
  ASSUME NEW S, NEW s \in Seq(S), NEW m \in 0..Len(s)
  PROVE  SubSeq(s, 1, m) \in Seq(S) /\ ToSet(SubSeq(s, 1, m)) \subseteq ToSet(s)
<1>1. PICK t \in Seq(S) : /\ t = SubSeq(s, 1, m) /\ Len(t) = m
                          /\ \A i \in 1..m : t[i] = s[i] /\ i \in 1..Len(s)
  <2>1. /\ SubSeq(s, 1, m) \in Seq(S) /\ Len(SubSeq(s, 1, m)) = m
        /\ \A i \in 1..m : SubSeq(s, 1, m)[i] = s[i] /\ i \in 1..Len(s)
    BY SubSeqTo
  <2> QED
    BY <2>1
<1>2. \A i \in 1..Len(t) : t[i] \in ToSet(s)
  <2>1. \A j \in 1..Len(s) : s[j] \in ToSet(s)
    BY ToSetIs
  <2> QED
    BY <1>1, <2>1
<1>3. ToSet(t) \subseteq ToSet(s)
  BY <1>2, ToSetWithin
<1> QED
  BY <1>1, <1>3

\* What the network makes of its messages: one is taken out, the first is lost or doubled.
LEMMA MessagesKept ==
  ASSUME NEW S, NEW s \in Seq(S), s # << >>
  PROVE  /\ \A i \in 1..Len(s) : /\ s[i] \in S /\ s[i] \in ToSet(s)
                                 /\ Without(s, i) \in Seq(S)
                                 /\ ToSet(Without(s, i)) \subseteq ToSet(s)
         /\ Tail(s) \in Seq(S) /\ ToSet(Tail(s)) \subseteq ToSet(s)
         /\ <<Head(s)>> \o s \in Seq(S) /\ ToSet(<<Head(s)>> \o s) \subseteq ToSet(s)
<1>1. Len(s) \in Nat /\ 1 \in 1..Len(s)
  BY LenProperties, EmptySeq
<1>2. ASSUME NEW i \in 1..Len(s)
      PROVE  /\ s[i] \in S /\ s[i] \in ToSet(s)
             /\ Without(s, i) \in Seq(S) /\ ToSet(Without(s, i)) \subseteq ToSet(s)
  <2>1. PICK m \in 0..Len(s) : m = i - 1
    <3>1. i - 1 \in 0..Len(s)
      BY <1>1
    <3> QED
      BY <3>1
  <2>2. i \in 0..Len(s)
    BY <1>1
  <2>3. PICK t \in Seq(S) : t = SubSeq(s, 1, m) /\ ToSet(t) \subseteq ToSet(s)
    BY ToSetPrefix
  <2>4. PICK u \in Seq(S) : u = SubSeq(s, i + 1, Len(s)) /\ ToSet(u) \subseteq ToSet(s)
    BY <2>2, ToSetSuffix
  <2>5. Without(s, i) = t \o u
    BY <2>1, <2>3, <2>4, Zenon DEF Without
  <2>6. t \o u \in Seq(S) /\ ToSet(t \o u) \subseteq ToSet(s)
    <3>1. t \o u \in Seq(S) /\ ToSet(t \o u) \subseteq ToSet(t) \cup ToSet(u)
      BY ToSetConcat
    <3> QED
      BY <2>3, <2>4, <3>1, Zenon
  <2>7. s[i] \in S /\ s[i] \in ToSet(s)
    BY ElementOfSeq, ToSetIs
  <2> QED
    BY <2>5, <2>6, <2>7
<1>3. Tail(s) \in Seq(S) /\ ToSet(Tail(s)) \subseteq ToSet(s)
  <2>1. PICK k \in 0..Len(s) : k = 1 /\ k + 1 = 2
    BY <1>1
  <2>2. Tail(s) = SubSeq(s, k + 1, Len(s))
    BY <2>1
  <2> QED
    BY <2>2, ToSetSuffix
<1>4. <<Head(s)>> \o s \in Seq(S) /\ ToSet(<<Head(s)>> \o s) \subseteq ToSet(s)
  <2>1. PICK x \in S : x = Head(s) /\ x = s[1] /\ x \in ToSet(s)
    BY <1>1, <1>2
  <2>2. PICK t \in Seq(S) : t = <<x>> /\ Len(t) = 1 /\ t[1] = x
    <3>1. <<x>> \in Seq(S) /\ Len(<<x>>) = 1 /\ <<x>>[1] = x
      OBVIOUS
    <3> QED
      BY <3>1
  <2>3. ToSet(t) \subseteq ToSet(s)
    <3>1. \A i \in 1..Len(t) : t[i] \in ToSet(s)
      BY <2>1, <2>2
    <3> QED
      BY <3>1, ToSetWithin
  <2>4. t \o s \in Seq(S) /\ ToSet(t \o s) \subseteq ToSet(s)
    BY <2>3, ToSetConcat
  <2> QED
    BY <2>1, <2>2, <2>4
<1> QED
  BY <1>2, <1>3, <1>4

\* An appended element is the only new one.
LEMMA ToSetAppend ==
  ASSUME NEW S, NEW s \in Seq(S), NEW x \in S
  PROVE  Append(s, x) \in Seq(S) /\ ToSet(Append(s, x)) \subseteq ToSet(s) \cup {x}
<1>1. PICK t \in Seq(S) : t = <<x>> /\ Len(t) = 1 /\ t[1] = x
  <2>1. <<x>> \in Seq(S) /\ Len(<<x>>) = 1 /\ <<x>>[1] = x
    OBVIOUS
  <2> QED
    BY <2>1
<1>2. ToSet(t) \subseteq {x}
  <2>1. \A i \in 1..Len(t) : t[i] \in {x}
    BY <1>1
  <2> QED
    BY <2>1, ToSetWithin
<1>3. s \o t \in Seq(S) /\ ToSet(s \o t) \subseteq ToSet(s) \cup {x}
  BY <1>2, ToSetConcat
<1>4. Append(s, x) = s \o t
  BY <1>1, AppendIsConcat
<1> QED
  BY <1>3, <1>4

\* The fields of an acknowledgement and the edge of its window.
LEMMA AcknowledgementIs ==
  ASSUME NEW a \in Acknowledgement
  PROVE  a.ack \in Nat /\ a.wnd \in Nat /\ Edge(a) \in Nat /\ Edge(a) = a.ack + a.wnd
<1>1. a.ack \in Nat /\ a.wnd \in Nat
  BY DEF Acknowledgement
<1> QED
  BY <1>1 DEF Edge

\* Acknowledgements go on being right: of fewer of them, of more bytes, of a further edge.
LEMMA AcksLeft ==
  ASSUME NEW as, NEW bs \in SUBSET as, as \subseteq Acknowledgement,
         NEW stored \in Nat, NEW edge \in Nat, NEW wl2 \in Nat, NEW wnd \in Nat,
         AcksOk(as, stored, edge, wl2, wnd),
         NEW more \in Nat, NEW further \in Nat, stored <= more, edge <= further
  PROVE  AcksOk(bs, more, further, wl2, wnd)
<1>1. \A a \in as : a.ack \in Nat /\ a.wnd \in Nat /\ Edge(a) \in Nat
  BY AcknowledgementIs
<1>2. /\ \A a \in as : a.ack <= stored /\ Edge(a) <= edge
      /\ \A a \in as : wl2 < a.ack => wl2 + wnd <= Edge(a)
      /\ \A a, b \in as : a.ack < b.ack => Edge(a) <= Edge(b)
      /\ wl2 <= stored /\ wl2 + wnd <= edge
  BY DEF AcksOk
<1>3. ASSUME NEW a \in bs PROVE a.ack <= more /\ Edge(a) <= further
  <2>1. a \in as
    OBVIOUS
  <2>2. a.ack \in Nat /\ Edge(a) \in Nat /\ a.ack <= stored /\ Edge(a) <= edge
    BY <1>1, <1>2, <2>1
  <2> QED
    BY <2>2
<1>4. wl2 <= more /\ wl2 + wnd <= further
  BY <1>2
<1> QED
  BY <1>2, <1>3, <1>4 DEF AcksOk

\* A further one, of all the client has.
LEMMA AcksMore ==
  ASSUME NEW as, as \subseteq Acknowledgement, NEW new \in Acknowledgement,
         NEW bs \in SUBSET (as \cup {new}),
         NEW stored \in Nat, NEW edge \in Nat, NEW wl2 \in Nat, NEW wnd \in Nat,
         AcksOk(as, stored, edge, wl2, wnd), new.ack = stored, Edge(new) = edge
  PROVE  AcksOk(bs, stored, edge, wl2, wnd)
<1>1. \A a \in as : a.ack \in Nat /\ a.wnd \in Nat /\ Edge(a) \in Nat
  BY AcknowledgementIs
<1>2. /\ \A a \in as : a.ack <= stored /\ Edge(a) <= edge
      /\ \A a \in as : wl2 < a.ack => wl2 + wnd <= Edge(a)
      /\ \A a, b \in as : a.ack < b.ack => Edge(a) <= Edge(b)
      /\ wl2 <= stored /\ wl2 + wnd <= edge
  BY DEF AcksOk
<1>3. ASSUME NEW a \in bs PROVE a.ack <= stored /\ Edge(a) <= edge
  <2>1. a \in as \/ a = new
    OBVIOUS
  <2>2. CASE a \in as
    BY <1>2, <2>2
  <2>3. CASE a = new
    <3>1. a.ack = stored /\ Edge(a) = edge
      BY <2>3
    <3>2. stored <= stored /\ edge <= edge
      OBVIOUS
    <3> QED
      BY <3>1, <3>2
  <2> QED
    BY <2>1, <2>2, <2>3
<1>4. \A a \in bs : wl2 < a.ack => wl2 + wnd <= Edge(a)
  BY <1>1, <1>2
<1>5. ASSUME NEW a \in bs, NEW b \in bs, a.ack < b.ack PROVE Edge(a) <= Edge(b)
  <2>1. CASE b = new
    BY <1>3, <2>1
  <2>2. CASE b # new
    <3>1. b \in as /\ b.ack <= stored
      BY <1>2, <2>2
    <3>2. a # new
      <4>1. b.ack \in Nat
        BY <1>1, <3>1
      <4> QED
        BY <1>5, <3>1, <4>1
    <3> QED
      BY <1>2, <1>5, <3>1, <3>2
  <2> QED
    BY <2>1, <2>2
<1> QED
  BY <1>2, <1>3, <1>4, <1>5 DEF AcksOk

\* One of them sets the window.
LEMMA AcksTaken ==
  ASSUME NEW as, as \subseteq Acknowledgement,
         NEW stored, NEW edge, NEW wl2, NEW wnd,
         AcksOk(as, stored, edge, wl2, wnd), NEW a \in as
  PROVE  AcksOk(as, stored, edge, a.ack, a.wnd)
  BY DEF AcksOk, Edge

-----------------------------------------------------------------------------
(* The steps.                                                              *)

\* What the invariant says of the numbers of the stream.
LEMMA StateIs ==
  ASSUME SendInv
  PROVE  /\ accepted \in Nat /\ accepted = pcb.snd_lbb /\ accepted <= Total
         /\ pcb.lastack \in Nat /\ pcb.snd_nxt \in Nat
         /\ pcb.lastack <= pcb.snd_nxt /\ pcb.snd_nxt <= accepted
         /\ Reach \in Nat /\ pcb.snd_nxt <= Reach /\ Reach <= accepted
         /\ pcb.snd_wl2 \in Nat /\ pcb.snd_wnd \in Nat
<1>1. accepted \in Nat /\ accepted = pcb.snd_lbb /\ accepted <= Total
  BY DEF SendInv, CountInv
<1>2. pcb.lastack \in Nat /\ pcb.snd_nxt \in Nat /\ pcb.snd_wl2 \in Nat /\ pcb.snd_wnd \in Nat
  BY PcbIs DEF SendInv, PcbOk
<1>3. pcb.lastack <= pcb.snd_nxt /\ pcb.snd_nxt <= accepted
  BY <1>1 DEF SendInv, PcbOk, Numbers
<1>4. Reach \in Nat /\ pcb.snd_nxt <= Reach /\ Reach <= accepted
  <2>1. PICK low \in Nat, nxt \in Nat, top \in Nat :
          low = pcb.lastack /\ nxt = pcb.snd_nxt /\ top = accepted /\ low <= nxt /\ nxt <= top
    BY <1>1, <1>2, <1>3
  <2>2. /\ ReachOf(low, nxt, top) \in Nat /\ nxt <= ReachOf(low, nxt, top)
        /\ ReachOf(low, nxt, top) <= top
    BY <2>1 DEF ReachOf, Low
  <2> QED
    BY <2>1, <2>2 DEF Reach
<1> QED
  BY <1>1, <1>2, <1>3, <1>4

\* Datagrams and client stay right when more has been carried.
LEMMA MoreReach ==
  /\ \A d, x, y : d \in Datagram /\ x \in Nat /\ y \in Nat /\ x <= y /\ DataOk(d, x) => DataOk(d, y)
  /\ \A g, r, x, y : x \in Nat /\ y \in Nat /\ x <= y /\ ClientOk(g, r, x) => ClientOk(g, r, y)
<1>1. ASSUME NEW d \in Datagram, NEW x \in Nat, NEW y \in Nat, x <= y, DataOk(d, x)
      PROVE  DataOk(d, y)
  BY <1>1, DatagramIs DEF DataOk
<1>2. ASSUME NEW g, NEW r, NEW x \in Nat, NEW y \in Nat, x <= y, ClientOk(g, r, x)
      PROVE  ClientOk(g, r, y)
  <2>1. \A i \in 0..Total - 1 : i < x => i < y
    BY <1>2, SendAssumption
  <2> QED
    BY <1>2, <2>1 DEF ClientOk
<1> QED
  BY <1>1, <1>2

\* The network when the stream has been carried as far or further.
LEMMA NetKept ==
  ASSUME SendInv, NEW reach \in Nat, Reach <= reach
  PROVE  /\ \A d \in ToSet(data) : DataOk(d, reach)
         /\ ClientOk(got, read, reach)
<1>1. Reach \in Nat
  BY StateIs
<1>2. \A d \in ToSet(data) : d \in Datagram /\ DataOk(d, Reach)
  BY ToSetIs DEF SendInv, NetInv
<1>3. ClientOk(got, read, Reach)
  BY DEF SendInv, NetInv
<1> QED
  BY <1>1, <1>2, <1>3, MoreReach

\* Segments that are sent carry the right bytes.
LEMMA SentData ==
  ASSUME NEW r, PcbOk(r), NEW sent, SentOk(sent, Queue(r), r.snd_nxt), NEW f,
         f = [i \in 1..Len(sent) |-> [seq |-> sent[i].seq, data |-> sent[i].data]]
  PROVE  f \in Seq(Datagram) /\ \A d \in ToSet(f) : d \in Datagram /\ DataOk(d, r.snd_nxt)
<1>1. /\ sent \in Seq(Segment) /\ Len(sent) \in Nat
      /\ \A i \in 1..Len(sent) :
           End(sent[i]) <= r.snd_nxt /\ \E j \in 1..Len(Queue(r)) : sent[i] = Queue(r)[j]
  BY LenProperties DEF SentOk
<1>2. Linked(Queue(r))
  BY DEF PcbOk, QueueOk
<1>3. ASSUME NEW i \in 1..Len(sent) PROVE f[i] \in Datagram /\ DataOk(f[i], r.snd_nxt)
  <2>1. PICK seg \in Segment : seg = sent[i]
    BY <1>1, ElementOfSeq
  <2>2. f[i] = [seq |-> seg.seq, data |-> seg.data]
    BY <2>1
  <2>3. f[i] \in Datagram /\ f[i].seq = seg.seq /\ f[i].data = seg.data
    BY <2>2, SegmentIs DEF Datagram
  <2>4. Length(f[i]) = Length(seg) /\ End(f[i]) = End(seg)
    BY <2>3 DEF Length, End
  <2>5. PICK j \in 1..Len(Queue(r)) : seg = Queue(r)[j]
    BY <1>1, <2>1
  <2>6. \A k \in 1..Length(seg) : seg.data[k] = seg.seq + k
    BY <1>2, <2>5 DEF Linked
  <2> QED
    BY <1>1, <2>1, <2>3, <2>4, <2>6 DEF DataOk
<1>4. PICK n \in Nat : n = Len(sent)
  BY <1>1
<1>5. f \in Seq(Datagram) /\ Len(f) = Len(sent)
  <2>1. f = [i \in 1..n |-> [seq |-> sent[i].seq, data |-> sent[i].data]]
    BY <1>4
  <2>2. f \in [1..n -> Datagram]
    BY <1>3, <1>4, <2>1
  <2>3. f \in Seq(Datagram) /\ Len(f) = n
    BY <2>2
  <2> QED
    BY <1>4, <2>3
<1>6. ToSet(f) \subseteq {d \in Datagram : DataOk(d, r.snd_nxt)}
  <2>1. \A i \in 1..Len(f) : f[i] \in {d \in Datagram : DataOk(d, r.snd_nxt)}
    BY <1>3, <1>5
  <2> QED
    BY <1>5, <2>1, ToSetWithin
<1> QED
  BY <1>5, <1>6

\* The pcb before tcp_output.
After(base) ==
  /\ PcbOk(base)
  /\ base.snd_nxt = pcb.snd_nxt /\ base.snd_lbb = pcb.snd_lbb /\ base.lastack >= pcb.lastack
  /\ pcb.lastack = pcb.snd_nxt => base.lastack = pcb.lastack
  /\ Among(Queue(base), Queue(pcb))
  /\ pcb.snd_queuelen = Bufs(Queue(pcb)) => base.snd_queuelen = Bufs(Queue(base))
  /\ AcksOk(ToSet(acks), Stored(got), read + Window, base.snd_wl2, base.snd_wnd)

\* What tcp_output and the network make of it.
Emits(base, sent) ==
  /\ Outputted(base, pcb', sent)
  /\ data' \in Seq(Datagram)
  /\ \A d \in ToSet(data') : d \in ToSet(data) \/ DataOk(d, Reach')
  /\ acks' \in Seq(Acknowledgement) /\ ToSet(acks') \subseteq ToSet(acks)
  /\ faults' \in Nat
  /\ UNCHANGED <<plan, accepted, got, read, stale, torn>>

\* What fits a plan fits it with fewer segments in the queue.
LEMMA FitsAmong ==
  ASSUME NEW q, NEW s, Among(q, s), FitsPlan(s)
  PROVE  FitsPlan(q)
  BY DEF Among, FitsPlan

\* tcp_output can only carry the stream further.
LEMMA ReachAfter ==
  ASSUME SendInv, NEW base, After(base), NEW sent, Outputted(base, pcb', sent),
         accepted' = accepted
  PROVE  Reach' \in Nat /\ Reach <= Reach' /\ pcb'.snd_nxt <= Reach'
<1>1. PICK low \in Nat, nxt \in Nat, top \in Nat :
        /\ low = pcb.lastack /\ nxt = pcb.snd_nxt /\ top = accepted /\ top = pcb.snd_lbb
        /\ low <= nxt /\ nxt <= top
  BY StateIs
<1>2. PICK low1 \in Nat, nxt1 \in Nat :
        low1 = pcb'.lastack /\ nxt1 = pcb'.snd_nxt /\ low1 <= nxt1 /\ nxt1 <= pcb'.snd_lbb
  BY PcbIs DEF Outputted, PcbOk, Numbers
<1>3. low <= low1 /\ nxt <= nxt1 /\ (low = nxt => low1 = low) /\ pcb'.snd_lbb = top
  BY <1>1, <1>2 DEF Outputted, After
<1>4. /\ ReachOf(low, nxt, top) <= ReachOf(low1, nxt1, top)
      /\ ReachOf(low1, nxt1, top) \in Nat
      /\ nxt1 <= ReachOf(low1, nxt1, top)
  BY <1>1, <1>2, <1>3 DEF ReachOf, Low
<1>5. Reach = ReachOf(low, nxt, top) /\ Reach' = ReachOf(low1, nxt1, top)
  BY <1>1, <1>2 DEF Reach
<1> QED
  BY <1>2, <1>4, <1>5

\* A step that ends with tcp_output keeps the invariant.
LEMMA OutputStep ==
  ASSUME SendInv, NEW base, After(base), NEW sent, Emits(base, sent)
  PROVE  SendInv'
<1>1. /\ Outputted(base, pcb', sent)
      /\ plan' = plan /\ accepted' = accepted /\ got' = got /\ read' = read
      /\ stale' = stale /\ torn' = torn
      /\ data' \in Seq(Datagram) /\ acks' \in Seq(Acknowledgement) /\ faults' \in Nat
      /\ ToSet(acks') \subseteq ToSet(acks)
      /\ \A d \in ToSet(data') : d \in ToSet(data) \/ DataOk(d, Reach')
  BY DEF Emits
<1>2. Reach' \in Nat /\ Reach <= Reach'
  BY <1>1, ReachAfter
<1>3. PcbOk(pcb')
  BY <1>1 DEF Outputted
<1>4. /\ \A d \in ToSet(data) : DataOk(d, Reach')
      /\ ClientOk(got, read, Reach')
  BY <1>2, NetKept
<1>5. AcksOk(ToSet(acks'), Stored(got), read + Window, pcb'.snd_wl2, pcb'.snd_wnd)
  <2>1. AcksOk(ToSet(acks), Stored(got), read + Window, pcb'.snd_wl2, pcb'.snd_wnd)
    BY <1>1 DEF After, Outputted
  <2>2. PICK stored \in Nat, edge \in Nat : stored = Stored(got) /\ edge = read + Window
    <3>1. ClientOk(got, read, Reach) /\ Reach \in Nat
      BY StateIs DEF SendInv, NetInv
    <3>2. Stored(got) \in Nat /\ read \in Nat
      BY <3>1, StoredWithin
    <3> QED
      BY <3>2, SendAssumption
  <2>3. PICK wl2 \in Nat, wnd \in Nat : wl2 = pcb'.snd_wl2 /\ wnd = pcb'.snd_wnd
    BY <1>3, PcbIs DEF PcbOk
  <2>4. PICK as, bs : as = ToSet(acks) /\ bs = ToSet(acks')
    OBVIOUS
  <2>5. as \subseteq Acknowledgement /\ bs \in SUBSET as
    BY <1>1, <2>4, ToSetIs DEF SendInv, NetInv
  <2>6. AcksOk(bs, stored, edge, wl2, wnd)
    <3>1. AcksOk(as, stored, edge, wl2, wnd) /\ stored <= stored /\ edge <= edge
      BY <2>1, <2>2, <2>3, <2>4
    <3> QED
      BY <2>5, <3>1, AcksLeft
  <2> QED
    BY <2>2, <2>3, <2>4, <2>6
<1>6. NetInv'
  <2>1. \A d \in ToSet(data') : DataOk(d, Reach')
    BY <1>1, <1>4
  <2> QED
    BY <1>1, <1>4, <1>5, <2>1 DEF NetInv
<1>7. Among(Queue(pcb'), Queue(pcb))
  BY <1>1 DEF After, Outputted
<1>8. PlanInv'
  <2>1. PlanInv
    BY DEF SendInv
  <2>2. FitsPlan(Queue(pcb'))
    BY <1>7, <2>1, FitsAmong DEF PlanInv
  <2>3. FitsPlan(Queue(pcb))'
    BY <1>1, <2>2 DEF FitsPlan, Queue
  <2> QED
    BY <1>1, <2>1, <2>3 DEF PlanInv
<1>9. CountInv'
  <2>1. CountInv
    BY DEF SendInv
  <2>2. pcb'.snd_lbb = accepted
    BY <1>1, <2>1 DEF After, Outputted, CountInv
  <2>3. ~stale => pcb'.snd_queuelen = Bufs(Queue(pcb'))
    BY <1>1, <2>1 DEF After, Outputted, CountInv
  <2> QED
    BY <1>1, <2>1, <2>2, <2>3 DEF CountInv, Queue
<1>10. PcbOk(pcb)'
  BY <1>3 DEF PcbOk, Pcb, Queue, QueueOk, Numbers, EndBy
<1> QED
  BY <1>6, <1>8, <1>9, <1>10 DEF SendInv

\* The last segment of unsent is the only one at its place.
LEMMA LastIs ==
  ASSUME NEW p, PcbOk(p), p.unsent # << >>
  PROVE  /\ Last(p.unsent) \in Segment /\ Length(Last(p.unsent)) \in 1..Mss
         /\ \A i \in 1..Len(Queue(p)) :
              Queue(p)[i].seq = Last(p.unsent).seq => Queue(p)[i] = Last(p.unsent)
<1>1. PICK a \in Seq(Segment), b \in Seq(Segment) : a = p.unacked /\ b = p.unsent
  BY PcbIs DEF PcbOk
<1>2. PICK s \in Segment : s = Last(b) /\ s = b[Len(b)] /\ Len(b) \in 1..Len(b)
  <2>1. Len(b) \in 1..Len(b)
    BY <1>1, LenProperties, EmptySeq
  <2>2. b[Len(b)] \in Segment
    BY <2>1, ElementOfSeq
  <2> QED
    BY <2>1, <2>2 DEF Last
<1>3. PICK q : q = a \o b
  OBVIOUS
<1>4. q \in Seq(Segment) /\ Linked(q) /\ q = Queue(p)
  BY <1>1, <1>3 DEF PcbOk, Queue, QueueOk
<1>5. PICK m \in 1..Len(q) : m = Len(a) + Len(b) /\ q[m] = s /\ m = Len(q)
  <2>1. /\ Len(a \o b) = Len(a) + Len(b)
        /\ \A j \in 1..Len(b) :
             \E k \in 1..Len(a \o b) : k = Len(a) + j /\ (a \o b)[k] = b[j]
    BY TwoParts
  <2>2. /\ Len(q) = Len(a) + Len(b)
        /\ \E k \in 1..Len(q) : k = Len(a) + Len(b) /\ q[k] = b[Len(b)]
    BY <1>2, <1>3, <2>1, Zenon
  <2> QED
    BY <1>2, <2>2
<1>6. Length(s) \in 1..Mss
  BY <1>4, <1>5 DEF Linked
<1>7. ASSUME NEW i \in 1..Len(q), q[i].seq = s.seq PROVE q[i] = s
  <2>1. CASE i < m
    <3>1. q[i].seq < End(q[i]) /\ End(q[i]) <= q[m].seq
      BY <1>4, <2>1, InOrderIs
    <3>2. q[i] \in Segment
      BY <1>4, ElementOfSeq
    <3>3. q[i].seq \in Nat /\ End(q[i]) \in Nat
      BY <3>2, SegmentIs
    <3> QED
      BY <1>5, <1>7, <3>1, <3>3
  <2>2. CASE ~(i < m)
    <3>1. i = m
      BY <1>4, <1>5, <2>2, LenProperties
    <3> QED
      BY <1>5, <3>1
  <2> QED
    BY <2>1, <2>2
<1> QED
  BY <1>1, <1>2, <1>4, <1>6, <1>7

\* Where in the queue the bytes of tcp_write go.
LEMMA PlacedIs ==
  ASSUME NEW p, PcbOk(p), NEW n \in Nat \ {0}
  PROVE  /\ Appended(p, n) \in Nat /\ Appended(p, n) <= n
         /\ p.unsent = << >> => Appended(p, n) = 0 /\ InPlace(p, n) = 0
         /\ p.unsent # << >> => Length(Last(p.unsent)) + Appended(p, n) <= Mss
         /\ InPlace(p, n) \in Int
<1>1. p.oversize \in Int
  BY PcbIs DEF PcbOk
<1>2. CASE p.unsent = << >>
  BY <1>2 DEF Appended, InPlace
<1>3. CASE p.unsent # << >>
  <2>1. PICK len \in Nat, mss \in Nat :
          len = Length(Last(p.unsent)) /\ mss = Mss /\ len <= mss
    BY <1>3, LastIs, SendAssumption
  <2>2. Low(n, mss - len) \in Nat /\ Low(n, mss - len) <= n /\ len + Low(n, mss - len) <= mss
    BY <2>1 DEF Low
  <2>3. InPlace(p, n) \in Int
    BY <1>1, <1>3 DEF InPlace, Low
  <2> QED
    BY <1>3, <2>1, <2>2, <2>3 DEF Appended
<1> QED
  BY <1>2, <1>3

\* The spare room tcp_write notes is a number.
LEMMA OversizeIs ==
  ASSUME NEW p, PcbOk(p), NEW n \in Nat \ {0}
  PROVE  OversizeAfter(p, n) \in Int
<1>1. PICK app \in Nat : app = Appended(p, n) /\ app <= n
  BY PlacedIs
<1>2. PICK rest \in Nat : rest = n - app
  BY <1>1
<1>3. PICK count \in Nat : count = NewSegments(rest)
  BY NewSegmentsIs
<1>4. PICK mss \in Nat, over \in Int : mss = Mss /\ over = p.oversize
  BY PcbIs, SendAssumption DEF PcbOk
<1>5. PICK last \in Int : last = rest - mss * (count - 1)
  OBVIOUS
<1>6. OversizeAfter(p, n) =
        IF rest = 0 THEN IF InPlace(p, n) = n THEN over - n
                         ELSE mss - Length(Last(p.unsent)) - n
        ELSE IF rest > mss \/ p.unsent # << >> \/ p.unacked # << >> THEN mss - last ELSE 0
  BY <1>1, <1>2, <1>3, <1>4, <1>5 DEF OversizeAfter
<1>7. rest = 0 => Length(Last(p.unsent)) \in Int
  <2>1. rest = 0 => p.unsent # << >>
    BY <1>1, <1>2, PlacedIs
  <2> QED
    BY <2>1, LastIs
<1> QED
  BY <1>6, <1>7

\* tcp_write looks at the queues: what it plans fits them.
LEMMA BeginPlan ==
  ASSUME SendInv, NEW n \in 1..Total, WriteBegin(n)
  PROVE  PlanInv'
<1>1. PcbOk(pcb) /\ n \in Nat \ {0} /\ pcb' = pcb /\ accepted' = accepted /\ accepted + n <= Total
  BY SendAssumption DEF SendInv, WriteBegin, net, client
<1>2. PICK app \in Nat, over \in Int, before \in Int :
        /\ app = Appended(pcb, n) /\ app <= n /\ over = OversizeAfter(pcb, n)
        /\ before = pcb.snd_queuelen
        /\ pcb.unsent = << >> => app = 0 /\ InPlace(pcb, n) = 0
        /\ pcb.unsent # << >> => Length(Last(pcb.unsent)) + app <= Mss
  <2>1. /\ Appended(pcb, n) \in Nat /\ Appended(pcb, n) <= n
        /\ pcb.unsent = << >> => Appended(pcb, n) = 0 /\ InPlace(pcb, n) = 0
        /\ pcb.unsent # << >> => Length(Last(pcb.unsent)) + Appended(pcb, n) <= Mss
    BY <1>1, PlacedIs
  <2>2. OversizeAfter(pcb, n) \in Int /\ pcb.snd_queuelen \in Int
    BY <1>1, OversizeIs, PcbIs DEF PcbOk
  <2> QED
    BY <2>1, <2>2
<1>3. PICK tail \in Nat :
        tail = IF pcb.unsent = << >> THEN Null ELSE Last(pcb.unsent).seq + 1
  <2>1. pcb.unsent # << >> => Last(pcb.unsent).seq + 1 \in Nat
    BY <1>1, LastIs, SegmentIs
  <2> QED
    BY <2>1 DEF Null
<1>4. PICK bufs \in Flag : bufs = IF app > InPlace(pcb, n) THEN 1 ELSE 0
  BY DEF Flag
<1>5. PICK count \in Nat : count = NewSegments(n - app)
  <2>1. n - app \in Nat
    BY <1>1, <1>2
  <2> QED
    BY <2>1, NewSegmentsIs
<1>6. PICK total \in Int : total = before + bufs + count
  BY DEF Flag
<1>7. plan' = [n |-> n, tail |-> tail, appended |-> app, bufs |-> bufs, oversize |-> over,
               before |-> before, queuelen |-> total]
  BY <1>2, <1>3, <1>4, <1>5, <1>6 DEF WriteBegin, QueuelenAfter
<1>8. plan' \in Plan
  BY <1>1, <1>7 DEF Plan
<1>9. /\ plan'.n = n /\ plan'.tail = tail /\ plan'.appended = app /\ plan'.bufs = bufs
      /\ plan'.before = before /\ plan'.queuelen = total
  BY <1>7
<1>10. tail = Null => app = 0 /\ bufs = 0
  <2>1. tail = Null => pcb.unsent = << >>
    <3>1. pcb.unsent # << >> => Last(pcb.unsent).seq \in Nat
      BY <1>1, LastIs, SegmentIs
    <3> QED
      BY <1>3, <3>1 DEF Null
  <2>2. tail = Null => app = 0 /\ InPlace(pcb, n) = 0
    BY <1>2, <2>1
  <2> QED
    BY <1>4, <2>2
<1>11. ASSUME NEW i \in 1..Len(Queue(pcb)), Queue(pcb)[i].seq + 1 = tail
       PROVE  Length(Queue(pcb)[i]) + app <= Mss
  <2>1. PICK seq \in Nat : seq = Queue(pcb)[i].seq
    <3>1. Queue(pcb) \in Seq(Segment)
      BY <1>1 DEF PcbOk, QueueOk
    <3> QED
      BY <3>1, ElementOfSeq, SegmentIs
  <2>2. pcb.unsent # << >>
    BY <1>3, <1>11, <2>1 DEF Null
  <2>3. Queue(pcb)[i].seq = Last(pcb.unsent).seq
    <3>1. Last(pcb.unsent).seq \in Nat
      BY <1>1, <2>2, LastIs, SegmentIs
    <3> QED
      BY <1>3, <1>11, <2>1, <2>2, <3>1
  <2>4. Queue(pcb)[i] = Last(pcb.unsent)
    BY <1>1, <2>2, <2>3, LastIs
  <2> QED
    BY <1>2, <2>2, <2>4
<1>12. FitsPlan(Queue(pcb))'
  BY <1>1, <1>9, <1>11 DEF FitsPlan, Queue
<1>13. accepted' + plan'.n <= Total /\ plan'.appended <= plan'.n
  BY <1>1, <1>2, <1>9
<1>14. /\ plan'.queuelen = plan'.before + plan'.bufs + NewSegments(plan'.n - plan'.appended)
       /\ plan'.tail = Null => plan'.appended = 0 /\ plan'.bufs = 0
  BY <1>5, <1>6, <1>9, <1>10
<1> QED
  BY <1>8, <1>12, <1>13, <1>14 DEF PlanInv

\* A step that leaves the pcb and the network alone.
LEMMA SameRest ==
  ASSUME SendInv, UNCHANGED <<pcb, accepted, net, client, stale>>, torn' \in BOOLEAN
  PROVE  PcbOk(pcb)' /\ NetInv' /\ CountInv' /\ Queue(pcb)' = Queue(pcb)
<1>1. /\ pcb' = pcb /\ accepted' = accepted /\ data' = data /\ acks' = acks
      /\ faults' = faults /\ got' = got /\ read' = read /\ stale' = stale
  BY DEF net, client
<1>2. PcbOk(pcb)'
  BY <1>1 DEF SendInv, PcbOk, Pcb, Queue, QueueOk, Numbers, EndBy
<1>3. NetInv'
  BY <1>1 DEF SendInv, NetInv, Reach
<1>4. CountInv'
  BY <1>1 DEF SendInv, CountInv, Queue
<1>5. Queue(pcb)' = Queue(pcb)
  BY <1>1 DEF Queue
<1> QED
  BY <1>2, <1>3, <1>4, <1>5

\* tcp_write looks at the queues.
LEMMA WriteBeginStep ==
  ASSUME SendInv, NEW n \in 1..Total, WriteBegin(n)
  PROVE  SendInv'
<1>1. UNCHANGED <<pcb, accepted, net, client, stale, torn>>
  BY DEF WriteBegin
<1>2. torn' \in BOOLEAN
  BY <1>1 DEF SendInv, CountInv
<1>3. PcbOk(pcb)' /\ NetInv' /\ CountInv'
  BY <1>1, <1>2, SameRest
<1> QED
  BY <1>3, BeginPlan DEF SendInv

\* A step that changes the pcb, and nothing of it that the queues or the network depend on.
LEMMA SamePcb ==
  ASSUME SendInv, NEW p, PcbOk(p), pcb' = p, Queue(p) = Queue(pcb), SameToNetwork(p, pcb),
         p.snd_lbb = pcb.snd_lbb, p.snd_queuelen = pcb.snd_queuelen,
         UNCHANGED <<plan, accepted, net, client, stale, torn>>
  PROVE  SendInv'
<1>1. /\ accepted' = accepted /\ data' = data /\ acks' = acks /\ faults' = faults
      /\ got' = got /\ read' = read /\ stale' = stale /\ torn' = torn /\ plan' = plan
  BY DEF net, client
<1>2. PcbOk(pcb)'
  BY DEF PcbOk, Pcb, Queue, QueueOk, Numbers, EndBy
<1>3. Queue(pcb)' = Queue(pcb)
  BY DEF Queue
<1>4. Reach' = Reach
  BY <1>1 DEF Reach, SameToNetwork
<1>5. NetInv'
  BY <1>1, <1>4 DEF SendInv, NetInv, SameToNetwork
<1>6. PlanInv'
  BY <1>1, <1>3 DEF SendInv, PlanInv, FitsPlan
<1>7. CountInv'
  BY <1>1, <1>3 DEF SendInv, CountInv
<1> QED
  BY <1>2, <1>5, <1>6, <1>7 DEF SendInv

\* tcp_write has no room and sets TF_NAGLEMEMERR.
LEMMA WriteErrorStep == ASSUME SendInv, WriteError PROVE SendInv'
<1>1. PICK p : p = [pcb EXCEPT !.memerr = 1]
  OBVIOUS
<1>2. pcb \in Pcb
  BY DEF SendInv, PcbOk
<1>3. p \in Pcb
  BY <1>1, <1>2 DEF Pcb, Flag
<1>4. /\ p.unacked = pcb.unacked /\ p.unsent = pcb.unsent /\ p.lastack = pcb.lastack
      /\ p.snd_nxt = pcb.snd_nxt /\ p.snd_lbb = pcb.snd_lbb /\ p.snd_buf = pcb.snd_buf
      /\ p.snd_queuelen = pcb.snd_queuelen /\ p.snd_wnd = pcb.snd_wnd
      /\ p.snd_wl2 = pcb.snd_wl2
  BY <1>1, <1>2 DEF Pcb
<1>5. Queue(p) = Queue(pcb)
  BY <1>4 DEF Queue
<1>6. PcbOk(p)
  BY <1>3, <1>4, <1>5 DEF SendInv, PcbOk, Numbers
<1>7. SameToNetwork(p, pcb)
  BY <1>4 DEF SameToNetwork
<1>8. pcb' = p /\ UNCHANGED <<plan, accepted, net, client, stale, torn>>
  BY <1>1 DEF WriteError
<1> QED
  BY <1>4, <1>5, <1>6, <1>7, <1>8, SamePcb

\* tcp_slowtmr gives up the connection.
LEMMA TickAbortStep == ASSUME SendInv, TickAbort PROVE SendInv'
<1>1. PICK p : p = [pcb EXCEPT !.state = "CLOSED"]
  OBVIOUS
<1>2. pcb \in Pcb
  BY DEF SendInv, PcbOk
<1>3. p \in Pcb
  BY <1>1, <1>2 DEF Pcb
<1>4. /\ p.unacked = pcb.unacked /\ p.unsent = pcb.unsent /\ p.lastack = pcb.lastack
      /\ p.snd_nxt = pcb.snd_nxt /\ p.snd_lbb = pcb.snd_lbb /\ p.snd_buf = pcb.snd_buf
      /\ p.snd_queuelen = pcb.snd_queuelen /\ p.snd_wnd = pcb.snd_wnd
      /\ p.snd_wl2 = pcb.snd_wl2
  BY <1>1, <1>2 DEF Pcb
<1>5. Queue(p) = Queue(pcb)
  BY <1>4 DEF Queue
<1>6. PcbOk(p)
  BY <1>3, <1>4, <1>5 DEF SendInv, PcbOk, Numbers
<1>7. SameToNetwork(p, pcb)
  BY <1>4 DEF SameToNetwork
<1>8. pcb' = p /\ UNCHANGED <<plan, accepted, net, client, stale, torn>>
  BY <1>1 DEF TickAbort
<1> QED
  BY <1>4, <1>5, <1>6, <1>7, <1>8, SamePcb

\* tcp_write puts its segments into the queues.
LEMMA WriteCommitStep == ASSUME SendInv, WriteCommit PROVE SendInv'
<1>1. plan # NoPlan /\ plan' = NoPlan /\ UNCHANGED <<net, client>>
  BY DEF WriteCommit
<1>2. PlanInv'
  BY <1>1 DEF PlanInv, FitsPlan
<1>3. CASE TailInPlace
  <2>1. PICK p : p = Committed
    OBVIOUS
  <2>2. /\ pcb' = p /\ accepted' = accepted + plan.n /\ torn' = torn
        /\ stale' = (stale \/ pcb.snd_queuelen # plan.before)
    BY <1>3, <2>1 DEF WriteCommit, Committed
  <2>3. /\ PcbOk(p) /\ SameToNetwork(p, pcb)
        /\ p.snd_lbb = accepted + plan.n /\ accepted + plan.n \in Nat
        /\ accepted + plan.n <= Total
    BY <1>1, <1>3, <2>1, CommitOk
  <2>4. pcb.snd_queuelen = plan.before /\ pcb.snd_queuelen = Bufs(Queue(pcb)) =>
          p.snd_queuelen = Bufs(Queue(p))
    BY <1>1, <1>3, <2>1, CommitOk
  <2>5. PcbOk(pcb)'
    BY <2>2, <2>3 DEF PcbOk, Pcb, Queue, QueueOk, Numbers, EndBy
  <2>6. CountInv'
    <3>1. stale \in BOOLEAN /\ torn \in BOOLEAN /\ (~stale => pcb.snd_queuelen = Bufs(Queue(pcb)))
      BY DEF SendInv, CountInv
    <3>2. stale' \in BOOLEAN /\ torn' \in BOOLEAN
      BY <2>2, <3>1
    <3>3. ~stale' => p.snd_queuelen = Bufs(Queue(p))
      BY <2>2, <2>4, <3>1
    <3> QED
      BY <2>2, <2>3, <3>2, <3>3 DEF CountInv, Queue
  <2>7. NetInv'
    <3>1. PICK low \in Nat, nxt \in Nat, top \in Nat, top1 \in Nat :
            /\ low = pcb.lastack /\ nxt = pcb.snd_nxt /\ top = accepted /\ low <= nxt /\ nxt <= top
            /\ top1 = accepted + plan.n /\ top <= top1
      <4>1. PICK n \in Nat : n = plan.n
        BY <1>1 DEF SendInv, PlanInv, Plan
      <4> QED
        BY <2>3, <4>1, StateIs
    <3>2. ReachOf(low, nxt, top1) \in Nat /\ ReachOf(low, nxt, top) <= ReachOf(low, nxt, top1)
      BY <3>1 DEF ReachOf, Low
    <3>3. Reach = ReachOf(low, nxt, top) /\ Reach' = ReachOf(low, nxt, top1)
      BY <2>2, <2>3, <3>1 DEF Reach, SameToNetwork
    <3>4. /\ \A d \in ToSet(data) : DataOk(d, Reach')
          /\ ClientOk(got, read, Reach')
      BY <3>2, <3>3, NetKept
    <3>5. /\ data' = data /\ acks' = acks /\ faults' = faults /\ got' = got /\ read' = read
      BY <1>1 DEF net, client
    <3> QED
      BY <2>2, <2>3, <3>4, <3>5 DEF SendInv, NetInv, SameToNetwork
  <2> QED
    BY <1>2, <2>5, <2>6, <2>7 DEF SendInv
<1>4. CASE ~TailInPlace
  <2>1. UNCHANGED <<pcb, accepted, net, client, stale>> /\ torn' \in BOOLEAN
    BY <1>1, <1>4 DEF WriteCommit
  <2>2. PcbOk(pcb)' /\ NetInv' /\ CountInv'
    BY <2>1, SameRest
  <2> QED
    BY <1>2, <2>2 DEF SendInv
<1> QED
  BY <1>3, <1>4

\* A pcb with the same queues and numbers is one that tcp_output may begin with.
LEMMA AfterIs ==
  ASSUME SendInv, NEW base, PcbOk(base), SameToNetwork(base, pcb),
         Queue(base) = Queue(pcb), base.snd_lbb = pcb.snd_lbb,
         base.snd_queuelen = pcb.snd_queuelen
  PROVE  After(base)
<1>1. Among(Queue(base), Queue(pcb))
  BY DEF Among
<1>2. AcksOk(ToSet(acks), Stored(got), read + Window, base.snd_wl2, base.snd_wnd)
  BY DEF SendInv, NetInv, SameToNetwork
<1>3. pcb.lastack \in Nat
  BY StateIs
<1>4. base.lastack = pcb.lastack /\ base.snd_nxt = pcb.snd_nxt /\ base.lastack >= pcb.lastack
  BY <1>3 DEF SameToNetwork
<1> QED
  BY <1>1, <1>2, <1>4 DEF After

\* The pcb itself is.
LEMMA AfterPcb == ASSUME SendInv PROVE After(pcb)
<1>1. PcbOk(pcb) /\ SameToNetwork(pcb, pcb)
  BY DEF SendInv, SameToNetwork
<1> QED
  BY <1>1, AfterIs

\* A step that calls tcp_output and takes no acknowledgement but those on their way.
LEMMA OutputsStep ==
  ASSUME SendInv, NEW base, After(base), NEW p, p = base \/ Moved(p, base),
         NEW cwnd \in Cwnds, Outputs(p, Low(p.snd_wnd, cwnd)),
         acks' \in Seq(Acknowledgement), ToSet(acks') \subseteq ToSet(acks), faults' \in Nat,
         UNCHANGED <<plan, accepted, got, read, stale, torn>>
  PROVE  SendInv'
<1>1. PcbOk(base) /\ base \in Pcb
  BY DEF After, PcbOk
<1>2. p.snd_wnd = base.snd_wnd
  BY <1>1 DEF Moved, Pcb
<1>3. PICK sent : sent = Sent(p, Low(base.snd_wnd, cwnd))
  OBVIOUS
<1>4. PICK f : f = [i \in 1..Len(sent) |-> [seq |-> sent[i].seq, data |-> sent[i].data]]
  OBVIOUS
<1>5. pcb' = Output(p, sent) /\ data' = data \o f
  BY <1>2, <1>3, <1>4 DEF Outputs
<1>6. Outputted(base, pcb', sent)
  <2>1. CASE p = base
    <3>1. sent = Sent(base, Low(base.snd_wnd, cwnd)) /\ pcb' = Output(base, sent)
      BY <1>3, <1>5, <2>1
    <3> QED
      BY <1>1, <3>1, OutputNormal
  <2>2. CASE Moved(p, base)
    BY <1>1, <1>3, <1>5, <2>2, OutputMoved
  <2> QED
    BY <2>1, <2>2
<1>7. PcbOk(pcb') /\ SentOk(sent, Queue(pcb'), pcb'.snd_nxt)
  BY <1>6 DEF Outputted
<1>8. f \in Seq(Datagram) /\ \A d \in ToSet(f) : d \in Datagram /\ DataOk(d, pcb'.snd_nxt)
  BY <1>4, <1>7, SentData
<1>9. Reach' \in Nat /\ pcb'.snd_nxt <= Reach' /\ pcb'.snd_nxt \in Nat
  BY <1>6, <1>7, ReachAfter, PcbIs DEF PcbOk
<1>10. \A d \in ToSet(f) : DataOk(d, Reach')
  BY <1>8, <1>9, MoreReach
<1>11. data' \in Seq(Datagram) /\ ToSet(data') \subseteq ToSet(data) \cup ToSet(f)
  <2>1. data \in Seq(Datagram)
    BY DEF SendInv, NetInv
  <2>2. data \o f \in Seq(Datagram) /\ ToSet(data \o f) \subseteq ToSet(data) \cup ToSet(f)
    BY <1>8, <2>1, ToSetConcat
  <2> QED
    BY <1>5, <2>2, Zenon
<1>12. \A d \in ToSet(data') : d \in ToSet(data) \/ DataOk(d, Reach')
  BY <1>10, <1>11
<1>13. Emits(base, sent)
  BY <1>6, <1>11, <1>12 DEF Emits
<1> QED
  BY <1>13, OutputStep

\* Acknowledgements left alone.
LEMMA SameAcks ==
  ASSUME SendInv, acks' = acks
  PROVE  acks' \in Seq(Acknowledgement) /\ ToSet(acks') \subseteq ToSet(acks)
  BY DEF SendInv, NetInv

\* The timer calls tcp_output.
LEMMA TickOutputStep == ASSUME SendInv, TickOutput PROVE SendInv'
<1>1. PICK cwnd \in Cwnds : Outputs(pcb, Low(pcb.snd_wnd, cwnd))
  BY DEF TickOutput
<1>2. acks' = acks /\ faults' = faults /\ UNCHANGED <<plan, accepted, got, read, stale, torn>>
  BY DEF TickOutput, client
<1>3. faults' \in Nat
  BY <1>2 DEF SendInv, NetInv
<1> QED
  BY <1>1, <1>2, <1>3, SameAcks, AfterPcb, OutputsStep

\* The retransmission timeout: tcp_rexmit_rto.
LEMMA TickRexmitStep == ASSUME SendInv, TickRexmit PROVE SendInv'
<1>1. PICK p : p = PutBack(pcb) /\ Outputs(p, Low(p.snd_wnd, Mss))
  BY DEF TickRexmit, PutBack
<1>2. /\ acks' = acks /\ UNCHANGED <<plan, accepted, got, read, stale, torn>>
  BY DEF TickRexmit, client
<1>3. faults' \in Nat
  BY DEF TickRexmit, SendInv, NetInv
<1>4. PcbOk(pcb)
  BY DEF SendInv
<1>5. /\ PcbOk(p) /\ SameToNetwork(p, pcb) /\ Queue(p) = Queue(pcb)
      /\ p.snd_lbb = pcb.snd_lbb /\ p.snd_queuelen = pcb.snd_queuelen
  BY <1>1, <1>4, PutBackOk
<1>6. After(p)
  BY <1>5, AfterIs
<1>7. Mss \in Cwnds
  BY DEF Cwnds
<1> QED
  BY <1>1, <1>2, <1>3, <1>6, <1>7, SameAcks, OutputsStep

\* A window probe: nothing is taken from the queues.
LEMMA ProbeOutputs ==
  ASSUME NEW base, PcbOk(base), NEW r, r = Output(base, << >>)
  PROVE  Outputted(base, r, << >>)
<1>1. PICK none \in Seq(Segment) : none = << >> /\ Len(none) = 0
  <2>1. << >> \in Seq(Segment) /\ Len(<< >>) = 0
    OBVIOUS
  <2> QED
    BY <2>1
<1>2. PICK a \in Seq(Segment), b \in Seq(Segment) : a = base.unacked /\ b = base.unsent
  BY PcbIs DEF PcbOk
<1>3. PICK l \in 0..Len(b) : l = 0
  BY LenProperties
<1>4. AllInserted(a, none) = a
  <2>1. AllInserted(a, none) = a \o none
    <3>1. \A i \in 1..Len(a), j \in 1..Len(none) : a[i].seq < none[j].seq
      BY <1>1
    <3>2. \A i, j \in 1..Len(none) : i < j => none[i].seq < none[j].seq
      BY <1>1
    <3> QED
      BY <3>1, <3>2, AllInsertedLast
  <2> QED
    BY <1>1, <2>1, ConcatEmptySeq
<1>5. SubSeq(b, 1, l) = none /\ SubSeq(b, l + 1, Len(b)) = b
  <2>1. SubSeq(b, 1, l) \in Seq(Segment) /\ Len(SubSeq(b, 1, l)) = l
    BY SubSeqTo
  <2>2. SubSeq(b, 1, l) = << >>
    BY <1>3, <2>1, EmptySeq
  <2>3. SubSeq(b, 1, Len(b)) = b
    OBVIOUS
  <2>4. l + 1 = 1
    BY <1>3
  <2> QED
    BY <1>1, <2>2, <2>3, <2>4
<1>6. AllInserted(base.unacked, none) = base.unacked \o SubSeq(base.unsent, 1, l)
  BY <1>1, <1>2, <1>4, <1>5, ConcatEmptySeq
<1>7. SubSeq(base.unsent, Len(none) + 1, Len(base.unsent)) =
        SubSeq(base.unsent, l + 1, Len(base.unsent))
  BY <1>1, <1>3
<1>8. NxtAfter(base.snd_nxt, none) = Onward(base.snd_nxt, base.unsent, l)
  BY <1>1, <1>3 DEF NxtAfter, Onward
<1>9. base = [base EXCEPT !.unacked = base.unacked, !.unsent = base.unsent]
  BY DEF PcbOk, Pcb
<1>10. Places(base, base, none, l)
  <2>1. \A i \in 1..l : End(base.unsent[i]) - base.lastack <= base.snd_wnd
    BY <1>3
  <2> QED
    BY <1>2, <1>6, <1>7, <1>8, <1>9, <2>1 DEF Places
<1>11. r = Output(base, none) /\ l \in 0..Len(base.unsent)
  BY <1>1, <1>2
<1>12. /\ PcbOk(r) /\ Queue(r) = Queue(base) /\ r.snd_nxt >= base.snd_nxt
       /\ r.state = base.state /\ r.snd_lbb = base.snd_lbb /\ r.lastack = base.lastack
       /\ r.snd_queuelen = base.snd_queuelen
       /\ r.snd_wnd = base.snd_wnd /\ r.snd_wl2 = base.snd_wl2
  BY <1>10, <1>11, Placed
<1>13. SentOk(<< >>, Queue(base), r.snd_nxt)
  BY <1>1 DEF SentOk
<1> QED
  BY <1>12, <1>13 DEF Outputted

\* The persist timer sends a window probe.
LEMMA TickProbeStep == ASSUME SendInv, TickProbe PROVE SendInv'
<1>1. PICK q : q = Queue(pcb)
  OBVIOUS
<1>2. /\ q # << >>
      /\ data' = <<[seq |-> Head(q).seq, data |-> <<Head(q).data[1]>>]>>
      /\ pcb' = Output(pcb, << >>)
      /\ acks' = acks /\ faults' = faults /\ UNCHANGED <<plan, accepted, got, read, stale, torn>>
  BY <1>1 DEF TickProbe, Queue, client
<1>3. PcbOk(pcb)
  BY DEF SendInv
<1>4. Outputted(pcb, pcb', << >>)
  BY <1>2, <1>3, ProbeOutputs
<1>5. q \in Seq(Segment) /\ Linked(q) /\ Holds(q, pcb.lastack, pcb.snd_lbb)
  BY <1>1, <1>3 DEF PcbOk, QueueOk
<1>6. PICK seg \in Segment : seg = Head(q) /\ seg = q[1] /\ 1 \in 1..Len(q)
  BY <1>2, <1>5, HeadAndTail
<1>7. PICK seq \in Nat, low \in Nat, nxt \in Nat, top \in Nat :
        /\ seq = seg.seq /\ low = pcb.lastack /\ nxt = pcb.snd_nxt /\ top = accepted
        /\ low <= nxt /\ nxt <= top /\ top = pcb.snd_lbb
  BY SegmentIs, StateIs
<1>8. seq <= low /\ low < top
  <2>1. q[1].seq <= low /\ low < End(q[1]) /\ End(q[Len(q)]) = top
    BY <1>2, <1>5, <1>7 DEF Holds
  <2>2. PICK i \in 1..Len(q) : i = 1
    BY <1>6
  <2>3. low < top
    <3>1. QueueOk(q, low, top)
      BY <1>1, <1>3, <1>7 DEF PcbOk
    <3> QED
      BY <2>2, <3>1, EndsIn
  <2> QED
    BY <1>6, <1>7, <2>1, <2>3
<1>9. seg.data[1] = seq + 1
  <2>1. Length(seg) \in 1..Mss
    BY <1>5, <1>6 DEF Linked
  <2>2. 1 \in 1..Length(seg)
    BY <2>1, SendAssumption
  <2> QED
    BY <1>5, <1>6, <1>7, <2>2 DEF Linked
<1>10. PICK d : d = [seq |-> seq, data |-> <<seq + 1>>]
  OBVIOUS
<1>11. PICK ds \in Seq(Nat) : ds = <<seq + 1>> /\ Len(ds) = 1 /\ ds[1] = seq + 1
  <2>1. <<seq + 1>> \in Seq(Nat) /\ Len(<<seq + 1>>) = 1 /\ <<seq + 1>>[1] = seq + 1
    OBVIOUS
  <2> QED
    BY <2>1
<1>12. d \in Datagram /\ d.seq = seq /\ d.data = ds
  BY <1>10, <1>11 DEF Datagram
<1>13. Length(d) = 1 /\ End(d) = seq + 1
  BY <1>11, <1>12 DEF Length, End
<1>14. Reach' \in Nat /\ Reach <= Reach' /\ Reach \in Nat
  BY <1>2, <1>4, AfterPcb, ReachAfter, StateIs
<1>15. seq + 1 <= Reach
  <2>1. seq + 1 <= ReachOf(low, nxt, top)
    BY <1>7, <1>8 DEF ReachOf, Low
  <2> QED
    BY <1>7, <2>1 DEF Reach
<1>16. DataOk(d, Reach')
  <2>1. End(d) <= Reach'
    BY <1>13, <1>14, <1>15
  <2>2. \A j \in 1..Length(d) : d.data[j] = d.seq + j
    BY <1>11, <1>12, <1>13
  <2> QED
    BY <2>1, <2>2 DEF DataOk
<1>17. data' = <<d>>
  BY <1>2, <1>6, <1>7, <1>9, <1>10
<1>18. data' \in Seq(Datagram) /\ ToSet(data') \subseteq {d}
  <2>1. PICK t \in Seq(Datagram) : t = <<d>> /\ Len(t) = 1 /\ t[1] = d
    <3>1. <<d>> \in Seq(Datagram) /\ Len(<<d>>) = 1 /\ <<d>>[1] = d
      BY <1>12
    <3> QED
      BY <3>1
  <2>2. \A i \in 1..Len(t) : t[i] \in {d}
    BY <2>1
  <2>3. ToSet(t) \subseteq {d}
    BY <2>2, ToSetWithin
  <2> QED
    BY <1>17, <2>1, <2>3
<1>19. \A x \in ToSet(data') : x \in ToSet(data) \/ DataOk(x, Reach')
  BY <1>16, <1>18
<1>20. faults' \in Nat
  BY <1>2 DEF SendInv, NetInv
<1>21. Emits(pcb, << >>)
  BY <1>2, <1>4, <1>18, <1>19, <1>20, SameAcks DEF Emits
<1> QED
  BY <1>21, AfterPcb, OutputStep

\* What an acknowledgement from the network makes of the pcb.
LEMMA AckAfter ==
  ASSUME SendInv, NEW a \in ToSet(acks), NEW base, Received(pcb, base, a)
  PROVE  After(base)
<1>1. /\ PcbOk(base)
      /\ base.snd_nxt = pcb.snd_nxt /\ base.snd_lbb = pcb.snd_lbb
      /\ base.lastack >= pcb.lastack
      /\ pcb.lastack = pcb.snd_nxt => base.lastack = pcb.lastack
      /\ Among(Queue(base), Queue(pcb))
      /\ pcb.snd_queuelen = Bufs(Queue(pcb)) => base.snd_queuelen = Bufs(Queue(base))
      /\ Updated(pcb, base, a)
  BY DEF Received
<1>2. AcksOk(ToSet(acks), Stored(got), read + Window, pcb.snd_wl2, pcb.snd_wnd)
  BY DEF SendInv, NetInv
<1>3. AcksOk(ToSet(acks), Stored(got), read + Window, a.ack, a.wnd)
  <2>1. ToSet(acks) \subseteq Acknowledgement
    BY ToSetIs DEF SendInv, NetInv
  <2> QED
    BY <1>2, <2>1, AcksTaken
<1>4. AcksOk(ToSet(acks), Stored(got), read + Window, base.snd_wl2, base.snd_wnd)
  BY <1>1, <1>2, <1>3 DEF Updated
<1> QED
  BY <1>1, <1>4 DEF After

\* An acknowledgement on its way fits the pcb.
LEMMA AckFitsPcb ==
  ASSUME SendInv, NEW a \in ToSet(acks)
  PROVE  AckFits(pcb, a)
<1>1. a \in Acknowledgement
  BY ToSetIs DEF SendInv, NetInv
<1>2. AcksOk(ToSet(acks), Stored(got), read + Window, pcb.snd_wl2, pcb.snd_wnd)
  BY DEF SendInv, NetInv
<1>3. a.ack <= Stored(got) /\ (pcb.snd_wl2 < a.ack => pcb.snd_wl2 + pcb.snd_wnd <= Edge(a))
  BY <1>2 DEF AcksOk
<1>4. Stored(got) \in Nat /\ Stored(got) <= Reach /\ Reach \in Nat /\ accepted \in Nat
  BY StateIs, StoredWithin DEF SendInv, NetInv
<1>5. a.ack \in Nat
  BY <1>1, AcknowledgementIs
<1>6. a.ack <= ReachOf(pcb.lastack, pcb.snd_nxt, accepted)
  <2>1. a.ack <= Reach
    BY <1>3, <1>4, <1>5
  <2> QED
    BY <2>1 DEF Reach
<1> QED
  BY <1>1, <1>3, <1>4, <1>6 DEF AckFits

\* tcp_input takes an acknowledgement and ends with tcp_output.
LEMMA DeliverAckStep == ASSUME SendInv, DeliverAck PROVE SendInv'
<1>1. PICK i \in 1..Low(2, Len(acks)) :
        Input(acks[i]) /\ acks' = Without(acks, i) /\ faults' = faults + (i - 1)
  BY DEF DeliverAck
<1>2. acks # << >> /\ UNCHANGED <<plan, accepted, got, read, stale, torn>>
  BY DEF DeliverAck, client
<1>3. acks \in Seq(Acknowledgement) /\ Len(acks) \in Nat /\ faults \in Nat
  BY LenProperties DEF SendInv, NetInv
<1>4. i \in 1..Len(acks)
  BY <1>1, <1>3 DEF Low
<1>5. /\ acks[i] \in ToSet(acks)
      /\ acks' \in Seq(Acknowledgement) /\ ToSet(acks') \subseteq ToSet(acks)
  BY <1>1, <1>2, <1>3, <1>4, MessagesKept
<1>6. faults' \in Nat
  BY <1>1, <1>3, <1>4
<1>7. PICK a : a = acks[i] /\ a \in ToSet(acks) /\ Input(a)
  BY <1>1, <1>5
<1>8. PICK p : /\ p = UnsentAcked(Acked(pcb, WindowUpdated(pcb, a), a), a)
               /\ \E cwnd \in Cwnds : Outputs(p, Low(p.snd_wnd, cwnd))
  <2>1. PICK q : q = WindowUpdated(pcb, a)
    OBVIOUS
  <2>2. PICK r : r = Acked(pcb, q, a)
    OBVIOUS
  <2>3. PICK p : p = UnsentAcked(r, a)
    OBVIOUS
  <2>4. \E cwnd \in Cwnds : Outputs(p, Low(p.snd_wnd, cwnd))
    BY <1>7, <2>1, <2>2, <2>3, Zenon DEF Input
  <2> QED
    BY <2>1, <2>2, <2>3, <2>4
<1>9. PcbOk(pcb) /\ AckFits(pcb, a)
  BY <1>7, AckFitsPcb DEF SendInv
<1>10. PICK base : Received(pcb, base, a) /\ (p = base \/ Moved(p, base))
  BY <1>8, <1>9, ReceivedIs
<1>11. After(base)
  BY <1>7, <1>10, AckAfter
<1> QED
  BY <1>2, <1>5, <1>6, <1>8, <1>10, <1>11, OutputsStep

\* A step of the network and the client.
LEMMA NetStep ==
  ASSUME SendInv, UNCHANGED <<pcb, plan, accepted, stale, torn>>, NetInv'
  PROVE  SendInv'
<1>1. pcb' = pcb /\ plan' = plan /\ accepted' = accepted /\ stale' = stale /\ torn' = torn
  OBVIOUS
<1>2. PcbOk(pcb)'
  BY <1>1 DEF SendInv, PcbOk, Pcb, Queue, QueueOk, Numbers, EndBy
<1>3. CountInv'
  BY <1>1 DEF SendInv, CountInv, Queue
<1>4. PlanInv'
  BY <1>1 DEF SendInv, PlanInv, FitsPlan, Queue
<1> QED
  BY <1>2, <1>3, <1>4 DEF SendInv

\* The messages are some of those that were on their way.
LEMMA FewerStep ==
  ASSUME SendInv, UNCHANGED <<pcb, plan, accepted, client, stale, torn>>,
         data' \in Seq(Datagram), ToSet(data') \subseteq ToSet(data),
         acks' \in Seq(Acknowledgement), ToSet(acks') \subseteq ToSet(acks), faults' \in Nat
  PROVE  SendInv'
<1>1. pcb' = pcb /\ accepted' = accepted /\ got' = got /\ read' = read
  BY DEF client
<1>2. Reach' = Reach
  BY <1>1 DEF Reach
<1>3. /\ \A d \in ToSet(data) : DataOk(d, Reach)
      /\ ClientOk(got, read, Reach)
      /\ AcksOk(ToSet(acks), Stored(got), read + Window, pcb.snd_wl2, pcb.snd_wnd)
  BY DEF SendInv, NetInv
<1>4. AcksOk(ToSet(acks'), Stored(got), read + Window, pcb.snd_wl2, pcb.snd_wnd)
  BY <1>3 DEF AcksOk
<1>5. NetInv'
  BY <1>1, <1>2, <1>3, <1>4 DEF NetInv
<1> QED
  BY <1>5, NetStep

\* The network loses a message.
LEMMA LoseStep == ASSUME SendInv, Lose PROVE SendInv'
<1>1. /\ data \in Seq(Datagram) /\ acks \in Seq(Acknowledgement) /\ faults' \in Nat
      /\ UNCHANGED <<pcb, plan, accepted, client, stale, torn>>
  BY DEF SendInv, NetInv, Lose
<1>2. CASE data # << >> /\ data' = Tail(data) /\ UNCHANGED acks
  BY <1>1, <1>2, MessagesKept, FewerStep
<1>3. CASE acks # << >> /\ acks' = Tail(acks) /\ UNCHANGED data
  BY <1>1, <1>3, MessagesKept, FewerStep
<1> QED
  BY <1>2, <1>3 DEF Lose

\* The network doubles a message.
LEMMA DoubleStep == ASSUME SendInv, Double PROVE SendInv'
<1>1. /\ data \in Seq(Datagram) /\ acks \in Seq(Acknowledgement) /\ faults' \in Nat
      /\ UNCHANGED <<pcb, plan, accepted, client, stale, torn>>
  BY DEF SendInv, NetInv, Double
<1>2. CASE data # << >> /\ data' = <<Head(data)>> \o data /\ UNCHANGED acks
  BY <1>1, <1>2, MessagesKept, FewerStep
<1>3. CASE acks # << >> /\ acks' = <<Head(acks)>> \o acks /\ UNCHANGED data
  BY <1>1, <1>3, MessagesKept, FewerStep
<1> QED
  BY <1>2, <1>3 DEF Double

\* The client has more or has read more, and says so.
Answers ==
  /\ UNCHANGED <<pcb, plan, accepted, stale, torn>>
  /\ ClientOk(got', read', Reach) /\ Stored(got) <= Stored(got') /\ read <= read'
  /\ acks' = Append(acks, Ack(got', read'))
  /\ data' \in Seq(Datagram) /\ ToSet(data') \subseteq ToSet(data) /\ faults' \in Nat

\* The client acknowledges.
LEMMA AnswerStep == ASSUME SendInv, Answers PROVE SendInv'
<1>1. ClientOk(got', read', Reach) /\ Stored(got) <= Stored(got') /\ read <= read'
  BY DEF Answers
<1>2. PICK stored \in Nat, old \in Nat, r \in Nat, r0 \in Nat, edge \in Nat, edge0 \in Nat :
        /\ stored = Stored(got') /\ old = Stored(got) /\ r = read' /\ r0 = read
        /\ edge = r + Window /\ edge0 = r0 + Window
        /\ stored <= edge /\ old <= stored /\ edge0 <= edge
  <2>1. ClientOk(got, read, Reach) /\ Reach \in Nat
    BY StateIs DEF SendInv, NetInv
  <2>2. Stored(got) \in Nat /\ read \in Nat
    BY <2>1, StoredWithin
  <2>3. Stored(got') \in Nat /\ read' \in Nat /\ Stored(got') <= read' + Window
    BY <1>1, <2>1, StoredWithin
  <2>4. read + Window \in Nat /\ read' + Window \in Nat /\ read + Window <= read' + Window
    <3>1. PICK size \in Nat, x \in Nat, y \in Nat :
            size = Window /\ x = read /\ y = read' /\ x <= y
      BY <1>1, <2>2, <2>3, SendAssumption
    <3>2. x + size \in Nat
      OBVIOUS
    <3>3. y + size \in Nat
      OBVIOUS
    <3>4. x <= y
      BY <3>1
    <3>5. x + size <= y + size
      BY <3>4
    <3>6. x + size \in Nat /\ y + size \in Nat /\ x + size <= y + size
      BY <3>2, <3>3, <3>5
    <3> QED
      BY <3>1, <3>6, Zenon
  <2> QED
    BY <1>1, <2>2, <2>3, <2>4
<1>3. PICK wl2 \in Nat, wnd \in Nat : wl2 = pcb.snd_wl2 /\ wnd = pcb.snd_wnd
  BY StateIs
<1>4. PICK as : as = ToSet(acks)
  OBVIOUS
<1>5. as \subseteq Acknowledgement /\ as \in SUBSET as
  BY <1>4, ToSetIs DEF SendInv, NetInv
<1>6. AcksOk(as, old, edge0, wl2, wnd)
  BY <1>2, <1>3, <1>4 DEF SendInv, NetInv
<1>7. AcksOk(as, stored, edge, wl2, wnd)
  BY <1>2, <1>5, <1>6, AcksLeft
<1>8. PICK new \in Acknowledgement : /\ new = Ack(got', read')
                                     /\ new.ack = stored /\ Edge(new) = edge
  <2>1. PICK wnd1 \in Nat : wnd1 = edge - stored
    <3>1. edge - stored \in Nat
      BY <1>2
    <3> QED
      BY <3>1
  <2>2. PICK new : new = [ack |-> stored, wnd |-> wnd1]
    OBVIOUS
  <2>3. new \in Acknowledgement /\ new.ack = stored /\ new.wnd = wnd1
    BY <2>2 DEF Acknowledgement
  <2>4. Edge(new) = edge
    BY <1>2, <2>1, <2>3 DEF Edge
  <2>5. read' + Window - Stored(got') = wnd1
    <3>1. PICK size \in Nat : size = Window /\ edge = r + size
      BY <1>2, SendAssumption
    <3>2. r + size - stored = wnd1
      BY <2>1, <3>1
    <3> QED
      BY <1>2, <3>1, <3>2, Zenon
  <2>6. Ack(got', read') = [ack |-> Stored(got'), wnd |-> read' + Window - Stored(got')]
    BY DEF Ack
  <2>7. new = Ack(got', read')
    BY <1>2, <2>2, <2>5, <2>6
  <2> QED
    BY <2>3, <2>4, <2>7
<1>9. acks' \in Seq(Acknowledgement) /\ ToSet(acks') \subseteq as \cup {new}
  <2>1. acks \in Seq(Acknowledgement)
    BY DEF SendInv, NetInv
  <2> QED
    BY <1>4, <1>8, <2>1, ToSetAppend DEF Answers
<1>10. PICK bs : bs = ToSet(acks')
  OBVIOUS
<1>11. AcksOk(bs, stored, edge, wl2, wnd)
  <2>1. bs \in SUBSET (as \cup {new})
    BY <1>9, <1>10
  <2> QED
    BY <1>5, <1>7, <1>8, <2>1, AcksMore
<1>12. AcksOk(ToSet(acks'), Stored(got'), read' + Window, pcb.snd_wl2, pcb.snd_wnd)
  BY <1>2, <1>3, <1>10, <1>11
<1>13. Reach' = Reach
  BY DEF Reach, Answers
<1>14. \A d \in ToSet(data') : DataOk(d, Reach)
  BY DEF SendInv, NetInv, Answers
<1>15. NetInv'
  BY <1>9, <1>12, <1>13, <1>14 DEF NetInv, Answers
<1> QED
  BY <1>15, NetStep DEF Answers

\* The client takes a datagram.
LEMMA DeliverDataStep == ASSUME SendInv, DeliverData PROVE SendInv'
<1>1. PICK i \in 1..Low(2, Len(data)) :
        Arrives(data[i]) /\ data' = Without(data, i) /\ faults' = faults + (i - 1)
  BY DEF DeliverData
<1>2. data # << >> /\ UNCHANGED <<pcb, plan, accepted, read, stale, torn>>
  BY DEF DeliverData
<1>3. data \in Seq(Datagram) /\ Len(data) \in Nat /\ faults \in Nat
  BY LenProperties DEF SendInv, NetInv
<1>4. i \in 1..Len(data)
  BY <1>1, <1>3 DEF Low
<1>5. /\ data[i] \in Datagram /\ data[i] \in ToSet(data)
      /\ data' \in Seq(Datagram) /\ ToSet(data') \subseteq ToSet(data)
  BY <1>1, <1>2, <1>3, <1>4, MessagesKept
<1>6. faults' \in Nat
  BY <1>1, <1>3, <1>4
<1>7. PICK seg \in Datagram : seg = data[i] /\ DataOk(seg, Reach)
  BY <1>5 DEF SendInv, NetInv
<1>8. got' = Filling(got, seg, read) /\ acks' = Append(acks, Ack(got', read))
  BY <1>1, <1>7 DEF Arrives, Filling
<1>9. ClientOk(got', read, Reach) /\ Stored(got) <= Stored(got')
  <2>1. ClientOk(got, read, Reach) /\ Reach \in Nat
    BY StateIs DEF SendInv, NetInv
  <2> QED
    BY <1>7, <1>8, <2>1, ArrivesOk
<1>10. read' = read /\ read <= read'
  <2>1. read \in Nat
    BY DEF SendInv, NetInv, ClientOk
  <2> QED
    BY <1>2, <2>1
<1>11. ClientOk(got', read', Reach) /\ acks' = Append(acks, Ack(got', read'))
  BY <1>8, <1>9, <1>10
<1> QED
  BY <1>2, <1>5, <1>6, <1>9, <1>10, <1>11, AnswerStep DEF Answers

\* The client reads.
LEMMA ReadStep == ASSUME SendInv, Read PROVE SendInv'
<1>1. /\ got' = got /\ read' = Stored(got) /\ acks' = Append(acks, Ack(got', read'))
      /\ data' = data /\ faults' = faults /\ UNCHANGED <<pcb, plan, accepted, stale, torn>>
  BY DEF Read
<1>2. ClientOk(got, read, Reach) /\ Reach \in Nat /\ data \in Seq(Datagram) /\ faults \in Nat
  BY StateIs DEF SendInv, NetInv
<1>3. PICK s \in Nat, r \in Nat : s = Stored(got) /\ r = read /\ r <= s
  BY <1>2, StoredWithin
<1>4. ClientOk(got, s, Reach)
  <2>1. got \in [0..Total - 1 -> Nat]
    BY <1>2 DEF ClientOk
  <2>2. \A i \in 0..Total - 1 : got[i] # Null => got[i] = i + 1 /\ i < Reach /\ i < r + Window
    BY <1>2, <1>3 DEF ClientOk
  <2>3. \A i \in 0..Total - 1 : i < r + Window => i < s + Window
    BY <1>3, SendAssumption
  <2>4. s <= Stored(got)
    BY <1>3
  <2> QED
    BY <2>1, <2>2, <2>3, <2>4 DEF ClientOk
<1>5. Stored(got) <= Stored(got') /\ read <= read'
  BY <1>1, <1>3
<1> QED
  BY <1>1, <1>2, <1>3, <1>4, <1>5, AnswerStep DEF Answers

\* The invariant holds of a new connection.
LEMMA SendInit == Init => SendInv
<1> SUFFICES ASSUME Init PROVE SendInv
  OBVIOUS
<1>1. PICK buf \in Nat, window \in Nat : buf = SndBuf /\ window = Window
  BY SendAssumption
<1>2. PICK none \in Seq(Segment) : none = << >> /\ Len(none) = 0
  <2>1. << >> \in Seq(Segment) /\ Len(<< >>) = 0
    OBVIOUS
  <2> QED
    BY <2>1
<1>3. pcb = [state |-> "ESTABLISHED", unsent |-> none, unacked |-> none, oversize |-> 0,
             snd_lbb |-> 0, snd_nxt |-> 0, lastack |-> 0, snd_buf |-> buf, snd_queuelen |-> 0,
             snd_wnd |-> window, snd_wl2 |-> 0, persist |-> 0, rtime |-> -1, nrtx |-> 0,
             dupacks |-> 0, infr |-> 0, memerr |-> 0]
  BY <1>1, <1>2 DEF Init
<1>4. pcb \in Pcb
  BY <1>1, <1>3 DEF Pcb, Flag
<1>5. /\ pcb.unsent = none /\ pcb.unacked = none /\ pcb.snd_lbb = 0 /\ pcb.snd_nxt = 0
      /\ pcb.lastack = 0 /\ pcb.snd_buf = buf /\ pcb.snd_queuelen = 0
      /\ pcb.snd_wnd = window /\ pcb.snd_wl2 = 0
  BY <1>3
<1>6. Queue(pcb) = none
  <2>1. none \o none = none
    BY <1>2, ConcatEmptySeq
  <2> QED
    BY <1>5, <2>1, Zenon DEF Queue
<1>7. PcbOk(pcb)
  <2>1. QueueOk(none, 0, 0)
    BY <1>2 DEF QueueOk, Linked, Holds
  <2>2. EndBy(none, 0, 0)
    BY DEF EndBy
  <2>3. Numbers(pcb)
    BY <1>1, <1>5 DEF Numbers
  <2> QED
    BY <1>2, <1>4, <1>5, <1>6, <2>1, <2>2, <2>3 DEF PcbOk
<1>8. data = << >> /\ acks = << >> /\ faults = 0 /\ read = 0
      /\ got = [i \in 0..Total - 1 |-> Null] /\ plan = NoPlan /\ accepted = 0
      /\ stale = FALSE /\ torn = FALSE
  BY DEF Init
<1>9. NetInv
  <2>1. data \in Seq(Datagram) /\ acks \in Seq(Acknowledgement) /\ faults \in Nat
    BY <1>8
  <2>2. ToSet(data) = {} /\ ToSet(acks) = {}
    BY <1>8 DEF ToSet
  <2>3. PICK s \in Nat : s = Stored(got)
    BY StoredIs, SendAssumption
  <2>4. ClientOk(got, read, Reach)
    <3>1. got \in [0..Total - 1 -> Nat] /\ \A i \in 0..Total - 1 : got[i] = Null
      BY <1>8 DEF Null
    <3>2. read <= Stored(got)
      BY <1>8, <2>3
    <3> QED
      BY <1>8, <3>1, <3>2 DEF ClientOk
  <2>5. AcksOk({}, s, window, 0, window)
    BY <1>1, <2>3 DEF AcksOk
  <2>6. read + Window = window
    BY <1>1, <1>8
  <2>7. AcksOk(ToSet(acks), Stored(got), read + Window, pcb.snd_wl2, pcb.snd_wnd)
    BY <1>5, <2>2, <2>3, <2>5, <2>6
  <2> QED
    BY <2>1, <2>2, <2>4, <2>7 DEF NetInv
<1>10. PlanInv
  BY <1>8 DEF PlanInv, FitsPlan
<1>11. CountInv
  <2>1. Bufs(none) = 0
    BY <1>2, BufsNone
  <2>2. accepted \in Nat /\ accepted = pcb.snd_lbb /\ accepted <= Total
    BY <1>5, <1>8, SendAssumption
  <2>3. stale \in BOOLEAN /\ torn \in BOOLEAN
    BY <1>8
  <2>4. pcb.snd_queuelen = Bufs(Queue(pcb))
    BY <1>5, <1>6, <2>1
  <2> QED
    BY <2>2, <2>3, <2>4 DEF CountInv
<1> QED
  BY <1>7, <1>9, <1>10, <1>11 DEF SendInv

\* Each step keeps the invariant.
LEMMA SendStep == SendInv /\ [Next]_vars => SendInv'
<1> SUFFICES ASSUME SendInv, [Next]_vars PROVE SendInv'
  OBVIOUS
<1>1. ASSUME NEW n \in 1..Total, WriteBegin(n) PROVE SendInv'
  BY <1>1, WriteBeginStep
<1>2. CASE WriteError
  BY <1>2, WriteErrorStep
<1>3. CASE WriteCommit
  BY <1>3, WriteCommitStep
<1>4. CASE TickAbort
  BY <1>4, TickAbortStep
<1>5. CASE TickProbe
  BY <1>5, TickProbeStep
<1>6. CASE TickRexmit
  BY <1>6, TickRexmitStep
<1>7. CASE TickOutput
  BY <1>7, TickOutputStep
<1>8. CASE DeliverData
  BY <1>8, DeliverDataStep
<1>9. CASE DeliverAck
  BY <1>9, DeliverAckStep
<1>10. CASE Lose
  BY <1>10, LoseStep
<1>11. CASE Double
  BY <1>11, DoubleStep
<1>12. CASE Read
  BY <1>12, ReadStep
<1>13. CASE UNCHANGED vars
  <2>1. UNCHANGED <<pcb, plan, accepted, net, client, stale, torn>>
    BY <1>13 DEF vars
  <2>2. PcbOk(pcb) /\ Queue(pcb) = Queue(pcb) /\ SameToNetwork(pcb, pcb) /\ pcb' = pcb
    BY <2>1 DEF SendInv, SameToNetwork
  <2> QED
    BY <2>1, <2>2, SamePcb
<1> QED
  BY <1>1, <1>2, <1>3, <1>4, <1>5, <1>6, <1>7, <1>8, <1>9, <1>10, <1>11, <1>12, <1>13
  DEF Next, tcp_write, tcp_slowtmr

\* So it is an invariant.
LEMMA SendInvariant == Spec => []SendInv
<1>1. SendInv /\ [Next]_vars => SendInv'
  BY SendStep
<1> QED
  BY SendInit, <1>1, PTL DEF Spec

-----------------------------------------------------------------------------
(* The queues.                                                             *)

\* A queue of which the parts follow each other is in order.
LEMMA PartsSorted ==
  ASSUME NEW a \in Seq(Segment), NEW b \in Seq(Segment), Linked(a \o b)
  PROVE  Sorted(a) /\ Sorted(b)
<1>1. PICK q : q = a \o b
  OBVIOUS
<1>2. /\ Len(a) \in Nat /\ Len(b) \in Nat /\ q \in Seq(Segment)
      /\ \A i \in 1..Len(a) : \E n \in 1..Len(q) : n = i /\ q[n] = a[i]
      /\ \A j \in 1..Len(b) : \E n \in 1..Len(q) : n = Len(a) + j /\ q[n] = b[j]
  <2>1. /\ Len(a) \in Nat /\ Len(b) \in Nat /\ a \o b \in Seq(Segment)
        /\ \A i \in 1..Len(a) : \E n \in 1..Len(a \o b) : n = i /\ (a \o b)[n] = a[i]
        /\ \A j \in 1..Len(b) :
             \E n \in 1..Len(a \o b) : n = Len(a) + j /\ (a \o b)[n] = b[j]
    BY TwoParts
  <2> QED
    BY <1>1, <2>1, Zenon
<1>3. Linked(q)
  BY <1>1
<1>4. ASSUME NEW i \in 1..Len(a) - 1 PROVE End(a[i]) <= a[i + 1].seq
  <2>1. i \in 1..Len(a) /\ i + 1 \in 1..Len(a)
    BY <1>2
  <2>2. PICK n \in 1..Len(q) : n = i /\ q[n] = a[i]
    BY <1>2, <2>1
  <2>3. PICK m \in 1..Len(q) : m = i + 1 /\ q[m] = a[i + 1]
    BY <1>2, <2>1
  <2>4. n < m
    BY <2>2, <2>3
  <2>5. End(q[n]) <= q[m].seq
    BY <1>2, <1>3, <2>4, InOrderIs
  <2> QED
    BY <2>2, <2>3, <2>5
<1>5. ASSUME NEW i \in 1..Len(b) - 1 PROVE End(b[i]) <= b[i + 1].seq
  <2>1. i \in 1..Len(b) /\ i + 1 \in 1..Len(b)
    BY <1>2
  <2>2. PICK n \in 1..Len(q) : n = Len(a) + i /\ q[n] = b[i]
    BY <1>2, <2>1
  <2>3. PICK m \in 1..Len(q) : m = Len(a) + (i + 1) /\ q[m] = b[i + 1]
    BY <1>2, <2>1
  <2>4. n < m
    BY <1>2, <2>2, <2>3
  <2>5. End(q[n]) <= q[m].seq
    BY <1>2, <1>3, <2>4, InOrderIs
  <2> QED
    BY <2>2, <2>3, <2>5
<1> QED
  BY <1>4, <1>5 DEF Sorted

\* The set Segments and the two queues name the same segments.
LEMMA SegmentsAre ==
  ASSUME PcbOk(pcb)
  PROVE  \A seg : seg \in Segments <=> \E k \in 1..Len(Queue(pcb)) : seg = Queue(pcb)[k]
<1>1. PICK a \in Seq(Segment), b \in Seq(Segment) : a = pcb.unacked /\ b = pcb.unsent
  BY PcbIs DEF PcbOk
<1>2. PICK q \in Seq(Segment) : q = a \o b
  BY BothIs
<1>3. Segments = ToSet(b) \cup ToSet(a) /\ Queue(pcb) = q
  BY <1>1, <1>2 DEF Segments, Queue
<1>4. ToSet(q) \subseteq ToSet(a) \cup ToSet(b)
  BY <1>2, ToSetConcat
<1>5. /\ \A i \in 1..Len(a) : \E n \in 1..Len(q) : q[n] = a[i]
      /\ \A j \in 1..Len(b) : \E n \in 1..Len(q) : q[n] = b[j]
  <2>1. /\ \A i \in 1..Len(a) : \E n \in 1..Len(a \o b) : n = i /\ (a \o b)[n] = a[i]
        /\ \A j \in 1..Len(b) :
             \E n \in 1..Len(a \o b) : n = Len(a) + j /\ (a \o b)[n] = b[j]
    BY TwoParts
  <2> QED
    BY <1>2, <2>1, Zenon
<1>6. \A x : x \in ToSet(a) <=> \E i \in 1..Len(a) : x = a[i]
  BY ToSetIs
<1>7. \A x : x \in ToSet(b) <=> \E i \in 1..Len(b) : x = b[i]
  BY ToSetIs
<1>8. \A x : x \in ToSet(q) <=> \E i \in 1..Len(q) : x = q[i]
  BY ToSetIs
<1>9. ASSUME NEW seg \in Segments PROVE \E k \in 1..Len(q) : seg = q[k]
  <2>1. CASE seg \in ToSet(a)
    BY <1>5, <1>6, <2>1
  <2>2. CASE seg \in ToSet(b)
    BY <1>5, <1>7, <2>2
  <2> QED
    BY <1>3, <2>1, <2>2
<1>10. ASSUME NEW k \in 1..Len(q) PROVE q[k] \in Segments
  BY <1>3, <1>4, <1>8
<1> QED
  BY <1>3, <1>9, <1>10

\* One segment of the queue covers byte i.
LEMMA CoveredOnce ==
  ASSUME NEW q, NEW low \in Nat, NEW high \in Nat, QueueOk(q, low, high),
         NEW i \in low..high - 1
  PROVE  \E k \in 1..Len(q) :
           /\ Covers(q[k], i) /\ q[k].data[i - q[k].seq + 1] = i + 1
           /\ \A j \in 1..Len(q) : Covers(q[j], i) => j = k
<1>1. q \in Seq(Segment) /\ Linked(q) /\ Holds(q, low, high)
  BY DEF QueueOk
<1>2. q # << >> /\ q[1].seq <= low /\ End(q[Len(q)]) = high
  <2>1. low # high
    OBVIOUS
  <2> QED
    BY <1>1, <2>1 DEF Holds
<1>3. Len(q) \in Nat /\ Len(q) \in 1..Len(q) /\ 1 \in 1..Len(q)
  BY <1>1, <1>2, LenProperties, EmptySeq
<1>4. \A k \in 1..Len(q) : q[k].seq \in Nat /\ End(q[k]) \in Nat
  BY <1>1, ElementOfSeq, SegmentIs
<1>5. PICK k \in 1..Len(q) : i < End(q[k]) /\ \A m \in 1..Len(q) : i < End(q[m]) => k <= m
  <2>1. PICK S : S = {m \in 1..Len(q) : i < End(q[m])}
    OBVIOUS
  <2>2. S \in SUBSET Nat /\ S # {}
    BY <1>2, <1>3, <2>1
  <2>3. PICK k \in S : \A m \in S : k <= m
    BY <2>2, Least
  <2> QED
    BY <2>1, <2>3
<1>6. q[k].seq <= i
  <2>1. CASE k = 1
    BY <1>2, <1>4, <2>1
  <2>2. CASE k # 1
    <3>1. PICK j \in 1..Len(q) : j = k - 1 /\ k = j + 1 /\ j < k
      <4>1. k - 1 \in 1..Len(q) /\ k = (k - 1) + 1 /\ k - 1 < k
        BY <1>3, <2>2
      <4> QED
        BY <4>1
    <3>2. ~(i < End(q[j]))
      BY <1>3, <1>5, <3>1
    <3>3. q[k].seq = End(q[j])
      BY <1>1, <3>1 DEF Linked
    <3> QED
      BY <1>4, <3>2, <3>3
  <2> QED
    BY <2>1, <2>2
<1>7. Covers(q[k], i)
  BY <1>4, <1>5, <1>6 DEF Covers
<1>8. q[k].data[i - q[k].seq + 1] = i + 1
  <2>1. PICK seq \in Nat, len \in Nat : seq = q[k].seq /\ len = Length(q[k]) /\ End(q[k]) = seq + len
    BY <1>1, ElementOfSeq, SegmentIs
  <2>2. PICK j \in 1..len : j = i - seq + 1
    <3>1. i - seq + 1 \in 1..len
      BY <1>5, <1>6, <2>1
    <3> QED
      BY <3>1
  <2>3. q[k].data[j] = seq + j
    BY <1>1, <2>1 DEF Linked
  <2>4. seq + j = i + 1
    BY <2>2
  <2>5. q[k].data[i - q[k].seq + 1] = q[k].data[j]
    BY <2>1, <2>2, Zenon
  <2> QED
    BY <2>3, <2>4, <2>5, Zenon
<1>9. ASSUME NEW j \in 1..Len(q), Covers(q[j], i) PROVE j = k
  <2>1. q[j].seq <= i /\ i < End(q[j])
    BY <1>4, <1>9 DEF Covers
  <2>2. k <= j
    BY <1>5, <2>1
  <2>3. CASE k < j
    <3>1. End(q[k]) <= q[j].seq
      BY <1>1, <2>3, InOrderIs
    <3> QED
      BY <1>4, <1>5, <2>1, <3>1
  <2> QED
    BY <2>2, <2>3
<1> QED
  BY <1>7, <1>8, <1>9

\* Each byte not acknowledged is in one segment, whatever has been sent, put back and sent
\* again (tcp_output, tcp_receive, tcp_rexmit_rto, tcp_rexmit): for every segment length,
\* window and number of retransmissions, over a network that loses, doubles and reorders.
THEOREM QueuesAreSound == Spec => []QueuesSound
<1>1. SendInv => QueuesSound
  <2> SUFFICES ASSUME SendInv PROVE QueuesSound
    OBVIOUS
  <2>1. PcbOk(pcb) /\ Numbers(pcb)
    BY DEF SendInv, PcbOk
  <2>2. PICK a \in Seq(Segment), b \in Seq(Segment), low \in Nat, high \in Nat :
          a = pcb.unacked /\ b = pcb.unsent /\ low = pcb.lastack /\ high = pcb.snd_lbb
    BY <2>1, PcbIs DEF PcbOk
  <2>3. PICK q : q = Queue(pcb) /\ q = a \o b
    BY <2>2 DEF Queue
  <2>4. QueueOk(q, low, high) /\ Linked(q)
    BY <2>1, <2>2, <2>3 DEF PcbOk, QueueOk
  <2>5. Sorted(pcb.unsent) /\ Sorted(pcb.unacked)
    <3>1. Linked(a \o b)
      BY <2>3, <2>4
    <3> QED
      BY <2>2, <3>1, PartsSorted
  <2>6. ASSUME NEW seg \in Segments
        PROVE  Length(seg) \in 1..Mss /\ pcb.lastack < End(seg) /\ End(seg) <= pcb.snd_lbb
    <3>1. PICK k \in 1..Len(q) : seg = q[k]
      BY <2>1, <2>3, SegmentsAre
    <3>2. Length(seg) \in 1..Mss
      BY <2>4, <3>1 DEF Linked
    <3>3. low < End(q[k]) /\ End(q[k]) <= high
      BY <2>4, EndsIn
    <3> QED
      BY <2>2, <3>1, <3>2, <3>3
  <2>7. ASSUME NEW i \in pcb.lastack..pcb.snd_lbb - 1
        PROVE  \E seg \in Segments :
                 /\ Covers(seg, i) /\ seg.data[i - seg.seq + 1] = i + 1
                 /\ \A other \in Segments : Covers(other, i) => other = seg
    <3>1. PICK n \in low..high - 1 : n = i
      BY <2>2
    <3>2. PICK k \in 1..Len(q) :
            /\ Covers(q[k], n) /\ q[k].data[n - q[k].seq + 1] = n + 1
            /\ \A j \in 1..Len(q) : Covers(q[j], n) => j = k
      BY <2>4, CoveredOnce
    <3>3. q[k] \in Segments
      BY <2>1, <2>3, SegmentsAre
    <3>4. ASSUME NEW other \in Segments, Covers(other, n) PROVE other = q[k]
      <4>1. PICK j \in 1..Len(q) : other = q[j]
        BY <2>1, <2>3, SegmentsAre
      <4> QED
        BY <3>2, <3>4, <4>1
    <3> QED
      BY <3>1, <3>2, <3>3, <3>4
  <2>8. pcb.snd_buf + (pcb.snd_lbb - pcb.lastack) = SndBuf
    BY <2>1 DEF Numbers
  <2>9. ~stale => pcb.snd_queuelen = Bufs(pcb.unacked) + Bufs(pcb.unsent)
    <3>1. ~stale => pcb.snd_queuelen = Bufs(q)
      BY <2>3 DEF SendInv, CountInv
    <3>2. Bufs(q) = Bufs(a) + Bufs(b)
      BY <2>3, BufsConcat
    <3> QED
      BY <2>2, <3>1, <3>2
  <2> QED
    BY <2>5, <2>6, <2>7, <2>8, <2>9 DEF QueuesSound
<1> QED
  BY SendInvariant, <1>1, PTL

-----------------------------------------------------------------------------
(* The timers.                                                             *)

Fields == {"state", "unsent", "unacked", "oversize", "snd_lbb", "snd_nxt", "lastack",
           "snd_buf", "snd_queuelen", "snd_wnd", "snd_wl2", "persist", "rtime", "nrtx",
           "dupacks", "infr", "memerr"}

\* What the invariant needs of a pcb between the parts of a function.
Timed(p) ==
  /\ DOMAIN p = Fields
  /\ p.rtime \in {-1, 0} /\ p.nrtx \in Nat
  /\ p.unacked # << >> => p.rtime = 0
  /\ p.nrtx > MaxRtx => p.infr = 1

\* The timers of a pcb.
LEMMA TimedIs ==
  ASSUME NEW p \in Pcb
  PROVE  Timed(p) <=> /\ p.unacked # << >> => p.rtime >= 0
                      /\ p.nrtx > MaxRtx => p.infr = 1
<1>1. p.rtime \in {-1, 0} /\ p.nrtx \in Nat
  BY PcbIs
<1>2. DOMAIN p = Fields
  BY DEF Pcb, Fields
<1>3. p.rtime >= 0 <=> p.rtime = 0
  BY <1>1
<1> QED
  BY <1>1, <1>2, <1>3 DEF Timed

\* The fields that say something of the timers are as they were.
LEMMA SameTimers ==
  ASSUME NEW p, Timed(p), NEW q, DOMAIN q = DOMAIN p, q.unacked = p.unacked,
         q.rtime = p.rtime, q.nrtx = p.nrtx, q.infr = p.infr
  PROVE  Timed(q)
  BY DEF Timed

\* tcp_output starts the timer when it sends.
LEMMA TimedOutput ==
  ASSUME NEW p, Timed(p), NEW sent, Len(sent) \in Nat, sent = << >> <=> Len(sent) = 0
  PROVE  Timed(Output(p, sent))
<1>1. PICK r : r = Output(p, sent)
  OBVIOUS
<1>2. /\ DOMAIN r = Fields
      /\ r.unacked = AllInserted(p.unacked, sent)
      /\ r.rtime = IF sent # << >> THEN High(p.rtime, 0) ELSE p.rtime
      /\ r.nrtx = p.nrtx /\ r.infr = p.infr
  BY <1>1 DEF Timed, Fields, Output
<1>3. CASE sent = << >>
  <2>1. r.unacked = p.unacked
    BY <1>2, <1>3, AllInsertedIs
  <2> QED
    BY <1>1, <1>2, <1>3, <2>1, SameTimers DEF Timed
<1>4. CASE sent # << >>
  <2>1. r.rtime = 0
    BY <1>2, <1>4 DEF Timed, High
  <2> QED
    BY <1>1, <1>2, <2>1 DEF Timed
<1> QED
  BY <1>3, <1>4

\* What is sent is a sequence of some length.
LEMMA SentLen ==
  ASSUME NEW p, p.unsent \in Seq(Segment), NEW limit
  PROVE  Len(Sent(p, limit)) \in Nat /\ (Sent(p, limit) = << >> <=> Len(Sent(p, limit)) = 0)
<1>1. PICK sent \in Seq(Segment) : sent = Sent(p, limit)
  BY SentIs, SubSeqTo
<1>2. Len(sent) \in Nat /\ (sent = << >> <=> Len(sent) = 0)
  OBVIOUS
<1> QED
  BY <1>1, <1>2

\* A window update leaves the timers.
LEMMA TimedWindow == ASSUME NEW p, Timed(p), NEW a PROVE Timed(WindowUpdated(p, a))
<1>1. PICK q : q = WindowUpdated(p, a)
  OBVIOUS
<1>2. DOMAIN q = DOMAIN p /\ q.unacked = p.unacked /\ q.rtime = p.rtime
      /\ q.nrtx = p.nrtx /\ q.infr = p.infr
  BY <1>1 DEF WindowUpdated, Timed, Fields
<1> QED
  BY <1>1, <1>2, SameTimers

\* Acknowledging what is in unsent leaves them.
LEMMA TimedUnsent == ASSUME NEW p, Timed(p), NEW a PROVE Timed(UnsentAcked(p, a))
<1>1. PICK q : q = UnsentAcked(p, a)
  OBVIOUS
<1>2. DOMAIN q = DOMAIN p /\ q.unacked = p.unacked /\ q.rtime = p.rtime
      /\ q.nrtx = p.nrtx /\ q.infr = p.infr
  BY <1>1 DEF UnsentAcked, Timed, Fields
<1> QED
  BY <1>1, <1>2, SameTimers

\* A fast retransmission counts and sets TF_INFR; it has found a segment, so the timer runs.
LEMMA TimedRexmitFast == ASSUME NEW p, Timed(p) PROVE Timed(RexmitFast(p))
<1>1. CASE p.unacked = << >> \/ p.infr = 1
  BY <1>1 DEF RexmitFast
<1>2. CASE p.unacked # << >> /\ p.infr # 1
  <2>1. PICK q : q = RexmitFast(p)
    OBVIOUS
  <2>2. PICK left, queue, oversize :
          q = [p EXCEPT !.unacked = left, !.unsent = queue, !.oversize = oversize,
                        !.nrtx = p.nrtx + 1, !.infr = 1]
    BY <1>2, <2>1 DEF RexmitFast, Timed, Fields
  <2>3. DOMAIN q = Fields /\ q.rtime = p.rtime /\ q.nrtx = p.nrtx + 1 /\ q.infr = 1
    BY <2>2 DEF Timed, Fields
  <2>4. p.rtime = 0 /\ p.nrtx + 1 \in Nat
    BY <1>2 DEF Timed
  <2> QED
    BY <2>1, <2>3, <2>4 DEF Timed
<1> QED
  BY <1>1, <1>2

\* An acknowledgement of nothing new, with a fast retransmission or without.
LEMMA TimedOldAck == ASSUME NEW p, NEW q, Timed(q), NEW a PROVE Timed(OldAck(p, q, a))
<1>1. \A n : Timed([q EXCEPT !.dupacks = n])
  <2> SUFFICES ASSUME NEW n PROVE Timed([q EXCEPT !.dupacks = n])
    OBVIOUS
  <2>1. PICK r : r = [q EXCEPT !.dupacks = n]
    OBVIOUS
  <2>2. DOMAIN r = DOMAIN q /\ r.unacked = q.unacked /\ r.rtime = q.rtime
        /\ r.nrtx = q.nrtx /\ r.infr = q.infr
    BY <2>1 DEF Timed, Fields
  <2> QED
    BY <2>1, <2>2, SameTimers
<1>2. PICK n : n = Low(q.dupacks + 1, DupAcks + 1)
  OBVIOUS
<1>3. PICK r : r = [q EXCEPT !.dupacks = n]
  OBVIOUS
<1>4. OldAck(p, q, a) \in {[q EXCEPT !.dupacks = 0], r, RexmitFast(r)}
  BY <1>2, <1>3 DEF OldAck
<1> QED
  BY <1>1, <1>3, <1>4, TimedRexmitFast

\* A new acknowledgement ends the retransmissions and stops the timer if it covers all.
LEMMA TimedNewAck == ASSUME NEW q, Timed(q), NEW a PROVE Timed(NewAck(q, a))
<1>1. PICK r : r = NewAck(q, a)
  OBVIOUS
<1>2. PICK left, buf, len, ack :
        r = [q EXCEPT !.infr = 0, !.nrtx = 0, !.dupacks = 0, !.snd_buf = buf, !.lastack = ack,
                      !.unacked = left, !.snd_queuelen = len,
                      !.rtime = IF left = << >> THEN -1 ELSE 0]
  BY <1>1 DEF NewAck, Timed, Fields
<1>3. /\ DOMAIN r = Fields /\ r.nrtx = 0 /\ r.unacked = left
      /\ r.rtime = IF left = << >> THEN -1 ELSE 0
  BY <1>2 DEF Timed, Fields
<1>4. MaxRtx \in Nat
  BY SendAssumption
<1> QED
  BY <1>1, <1>3, <1>4, SMTT(30) DEF Timed

\* Any acknowledgement.
LEMMA TimedAcked ==
  ASSUME NEW p, NEW q, Timed(q), NEW a PROVE Timed(Acked(p, q, a))
  BY TimedOldAck, TimedNewAck DEF Acked

\* pcb' is what tcp_output leaves of p.
LEMMA TimedOutputs ==
  ASSUME NEW p, Timed(p), p.unsent \in Seq(Segment), NEW limit, Outputs(p, limit)
  PROVE  Timed(pcb')
<1>1. PICK sent : sent = Sent(p, limit)
  OBVIOUS
<1>2. pcb' = Output(p, sent)
  BY <1>1 DEF Outputs
<1>3. Len(sent) \in Nat /\ (sent = << >> <=> Len(sent) = 0)
  BY <1>1, SentLen
<1> QED
  BY <1>2, <1>3, TimedOutput

\* tcp_slowtmr.
LEMMA TimedTick ==
  ASSUME SendInv, Timed(pcb), TickAbort \/ TickProbe \/ TickRexmit \/ TickOutput
  PROVE  Timed(pcb')
<1>1. pcb \in Pcb /\ pcb.unsent \in Seq(Segment) /\ pcb.unacked \in Seq(Segment)
  BY PcbIs DEF SendInv, PcbOk
<1>2. CASE TickAbort
  <2>1. pcb' = [pcb EXCEPT !.state = "CLOSED"]
    BY <1>2 DEF TickAbort
  <2>2. DOMAIN pcb' = DOMAIN pcb /\ pcb'.unacked = pcb.unacked /\ pcb'.rtime = pcb.rtime
        /\ pcb'.nrtx = pcb.nrtx /\ pcb'.infr = pcb.infr
    BY <2>1 DEF Timed, Fields
  <2> QED
    BY <2>2, SameTimers
<1>3. CASE TickProbe
  <2>1. pcb' = Output(pcb, << >>) /\ Len(<< >>) = 0
    BY <1>3 DEF TickProbe
  <2> QED
    BY <2>1, TimedOutput
<1>4. CASE TickRexmit
  <2>1. PICK p : /\ p = [pcb EXCEPT !.unsent = pcb.unacked \o pcb.unsent, !.unacked = << >>,
                                    !.rtime = 0, !.nrtx = pcb.nrtx + 1]
                 /\ Outputs(p, Low(p.snd_wnd, Mss))
    BY <1>4 DEF TickRexmit, Timed, Fields
  <2>2. DOMAIN p = Fields /\ p.rtime = 0 /\ p.nrtx = pcb.nrtx + 1 /\ p.unacked = << >>
        /\ p.infr = pcb.infr
    BY <2>1 DEF Timed, Fields
  <2>3. PICK n \in Nat : n = pcb.nrtx /\ (n > MaxRtx => pcb.infr = 1) /\ n # MaxRtx
    BY <1>4 DEF TickRexmit, Timed
  <2>4. n + 1 \in Nat /\ (n + 1 > MaxRtx => pcb.infr = 1)
    BY <2>3, SendAssumption
  <2>5. Timed(p)
    BY <2>2, <2>3, <2>4 DEF Timed
  <2>6. p.unsent \in Seq(Segment)
    <3>1. PICK u \in Seq(Segment) : u = pcb.unacked \o pcb.unsent
      BY <1>1, BothIs
    <3>2. p.unsent = u
      BY <2>1, <3>1 DEF Timed, Fields
    <3> QED
      BY <3>1, <3>2
  <2> QED
    BY <2>1, <2>5, <2>6, TimedOutputs
<1>5. CASE TickOutput
  BY <1>1, <1>5, TimedOutputs DEF TickOutput
<1> QED
  BY <1>2, <1>3, <1>4, <1>5

\* tcp_input.
LEMMA TimedInput ==
  ASSUME SendInv, Timed(pcb), DeliverAck
  PROVE  Timed(pcb')
<1>1. PICK i \in 1..Low(2, Len(acks)) : Input(acks[i])
  BY DEF DeliverAck
<1>2. acks \in Seq(Acknowledgement) /\ Len(acks) \in Nat
  BY LenProperties DEF SendInv, NetInv
<1>3. i \in 1..Len(acks)
  BY <1>1, <1>2 DEF Low
<1>4. acks[i] \in ToSet(acks)
  BY <1>2, <1>3, ToSetIs
<1>5. PICK a : a \in ToSet(acks) /\ Input(a)
  BY <1>1, <1>4
<1>6. PICK q : q = WindowUpdated(pcb, a)
  OBVIOUS
<1>7. PICK r : r = Acked(pcb, q, a)
  OBVIOUS
<1>8. PICK p : p = UnsentAcked(r, a)
  OBVIOUS
<1>9. PICK cwnd \in Cwnds : Outputs(p, Low(p.snd_wnd, cwnd))
  BY <1>5, <1>6, <1>7, <1>8, Zenon DEF Input
<1>10. Timed(p)
  BY <1>6, <1>7, <1>8, TimedWindow, TimedAcked, TimedUnsent
<1>11. p.unsent \in Seq(Segment)
  <2>1. PcbOk(pcb) /\ AckFits(pcb, a)
    BY <1>5, AckFitsPcb DEF SendInv
  <2>2. PICK base : Received(pcb, base, a) /\ (p = base \/ Moved(p, base))
    BY <1>6, <1>7, <1>8, <2>1, ReceivedIs
  <2>3. base \in Pcb
    BY <2>2 DEF Received, PcbOk
  <2>4. CASE p = base
    BY <2>3, <2>4, PcbIs
  <2>5. CASE Moved(p, base)
    <3>1. PICK s \in Segment, b \in Seq(Segment) : p.unsent = <<s>> \o b
      BY <2>3, <2>5 DEF Moved, Pcb
    <3> QED
      BY <3>1, OneIs, BothIs
  <2> QED
    BY <2>2, <2>4, <2>5
<1> QED
  BY <1>9, <1>10, <1>11, TimedOutputs

\* The second part of tcp_write.
LEMMA TimedWrite ==
  ASSUME SendInv, Timed(pcb), WriteError \/ WriteCommit
  PROVE  Timed(pcb')
<1>1. DOMAIN pcb' = DOMAIN pcb /\ pcb'.unacked = pcb.unacked /\ pcb'.rtime = pcb.rtime
      /\ pcb'.nrtx = pcb.nrtx /\ pcb'.infr = pcb.infr
  <2>1. CASE WriteError
    BY <2>1 DEF WriteError, Timed, Fields
  <2>2. CASE WriteCommit
    <3>1. pcb' = pcb \/ pcb' = Committed
      BY <2>2, Zenon DEF WriteCommit, Committed
    <3>2. CASE pcb' = Committed
      BY <3>2 DEF Committed, Timed, Fields
    <3> QED
      BY <3>1, <3>2
  <2> QED
    BY <2>1, <2>2
<1> QED
  BY <1>1, SameTimers

\* While something sent is not acknowledged the retransmission timer runs, and when the
\* count of retransmissions is past TCP_MAXRTX, which tcp_slowtmr tests with ==, a fast
\* retransmission has led there (tcp_output, tcp_receive, tcp_rexmit_fast, tcp_slowtmr):
\* for every queue length and number of retransmissions.
THEOREM TimersAreSound == Spec => []TimersSound
<1>1. ASSUME SendInv PROVE TimersSound <=> Timed(pcb)
  <2>1. pcb \in Pcb
    BY <1>1 DEF SendInv, PcbOk
  <2> QED
    BY <2>1, TimedIs DEF TimersSound
<1>2. Init => TimersSound
  <2> SUFFICES ASSUME Init PROVE TimersSound
    OBVIOUS
  <2>1. pcb.unacked = << >> /\ pcb.nrtx = 0
    BY DEF Init
  <2> QED
    BY <2>1, SendAssumption DEF TimersSound
<1>3. SendInv /\ SendInv' /\ TimersSound /\ [Next]_vars => TimersSound'
  <2> SUFFICES ASSUME SendInv, SendInv', TimersSound, [Next]_vars PROVE TimersSound'
    OBVIOUS
  <2>1. Timed(pcb)
    BY <1>1
  <2>2. Timed(pcb')
    <3>1. CASE pcb' = pcb
      BY <2>1, <3>1 DEF Timed
    <3>2. CASE WriteError \/ WriteCommit
      BY <2>1, <3>2, TimedWrite
    <3>3. CASE TickAbort \/ TickProbe \/ TickRexmit \/ TickOutput
      BY <2>1, <3>3, TimedTick
    <3>4. CASE DeliverAck
      BY <2>1, <3>4, TimedInput
    <3>5. CASE \/ \E n \in 1..Total : WriteBegin(n)
               \/ DeliverData \/ Lose \/ Double \/ Read \/ UNCHANGED vars
      BY <3>1, <3>5 DEF WriteBegin, DeliverData, Lose, Double, Read, vars
    <3> QED
      BY <3>2, <3>3, <3>4, <3>5 DEF Next, tcp_write, tcp_slowtmr
  <2>3. pcb' \in Pcb
    BY DEF SendInv, PcbOk, Pcb, Queue, QueueOk, Numbers, EndBy
  <2>4. /\ pcb'.unacked # << >> => pcb'.rtime >= 0
        /\ pcb'.nrtx > MaxRtx => pcb'.infr = 1
    BY <2>2, <2>3, TimedIs
  <2> QED
    BY <2>4 DEF TimersSound
<1> QED
  BY SendInvariant, <1>2, <1>3, PTL DEF Spec

-----------------------------------------------------------------------------
(* The byte stream.                                                        *)

FirstBytes(n) == [i \in 1..n |-> i]

\* The first n bytes of the stream are n bytes.
LEMMA FirstBytesIs ==
  ASSUME NEW n \in Nat
  PROVE  FirstBytes(n) \in Seq(Nat) /\ Len(FirstBytes(n)) = n
         /\ \A i \in 1..n : FirstBytes(n)[i] = i
<1>1. FirstBytes(n) \in [1..n -> Nat]
  BY DEF FirstBytes
<1> QED
  BY <1>1, SeqDef, LenProperties DEF FirstBytes

\* Fewer bytes are a prefix of more.
LEMMA FirstBytesPrefix ==
  ASSUME NEW m \in Nat, NEW n \in Nat, m <= n
  PROVE  /\ Len(FirstBytes(m)) <= Len(FirstBytes(n))
         /\ SubSeq(FirstBytes(m), 1, Len(FirstBytes(m))) =
              SubSeq(FirstBytes(n), 1, Len(FirstBytes(m)))
         /\ m # n => FirstBytes(m) # FirstBytes(n)
<1>1. PICK s \in Seq(Nat), t \in Seq(Nat) : s = FirstBytes(m) /\ t = FirstBytes(n)
  BY FirstBytesIs
<1>2. Len(s) = m /\ Len(t) = n /\ (\A i \in 1..m : s[i] = i) /\ (\A i \in 1..n : t[i] = i)
  BY <1>1, FirstBytesIs
<1>3. m \in 0..Len(s) /\ m \in 0..Len(t)
  BY <1>2
<1>4. /\ SubSeq(s, 1, m) \in Seq(Nat) /\ Len(SubSeq(s, 1, m)) = m
      /\ \A i \in 1..m : SubSeq(s, 1, m)[i] = s[i]
  BY <1>3, SubSeqTo, SMTT(30)
<1>5. /\ SubSeq(t, 1, m) \in Seq(Nat) /\ Len(SubSeq(t, 1, m)) = m
      /\ \A i \in 1..m : SubSeq(t, 1, m)[i] = t[i]
  BY <1>3, SubSeqTo, SMTT(30)
<1>6. \A i \in 1..m : SubSeq(s, 1, m)[i] = SubSeq(t, 1, m)[i]
  BY <1>2, <1>4, <1>5
<1>7. SubSeq(s, 1, m) = SubSeq(t, 1, m)
  BY <1>4, <1>5, <1>6, SeqEqual
<1> QED
  BY <1>1, <1>2, <1>7

\* What the client has stored are the first bytes of the stream.
LEMMA StoredBytes ==
  ASSUME NEW g, NEW r, NEW reach \in Nat, ClientOk(g, r, reach)
  PROVE  [i \in 1..Stored(g) |-> g[i - 1]] = FirstBytes(Stored(g))
<1>1. PICK n \in Nat : n = Stored(g) /\ n <= Total
  BY StoredWithin
<1>2. ASSUME NEW i \in 1..n PROVE g[i - 1] = i
  <2>1. PICK j \in 0..Total - 1 : j = i - 1 /\ j < n /\ i = j + 1
    <3>1. i - 1 \in 0..Total - 1 /\ i - 1 < n /\ i = (i - 1) + 1
      BY <1>1, SendAssumption
    <3> QED
      BY <3>1
  <2>2. g[j] # Null
    BY <1>1, <2>1, StoredIs
  <2> QED
    BY <2>1, <2>2 DEF ClientOk
<1>3. [i \in 1..n |-> g[i - 1]] = [i \in 1..n |-> i]
  BY <1>2
<1> QED
  BY <1>1, <1>3 DEF FirstBytes

\* A step adds to one end of the stream or to none.
LEMMA StreamStep ==
  ASSUME SendInv, [Next]_vars
  PROVE  \/ got' = got /\ accepted' \in Nat /\ accepted <= accepted'
         \/ accepted' = accepted /\ Stored(got) <= Stored(got')
<1>1. accepted \in Nat
  BY StateIs
<1>2. CASE WriteCommit
  <2>1. got' = got
    BY <1>2 DEF WriteCommit, client
  <2>2. accepted' = accepted \/ accepted' = accepted + plan.n
    BY <1>2 DEF WriteCommit
  <2>3. plan.n \in Nat
    BY <1>2 DEF WriteCommit, SendInv, PlanInv, Plan
  <2> QED
    BY <1>1, <2>1, <2>2, <2>3
<1>3. CASE DeliverData
  <2>1. PICK i \in 1..Low(2, Len(data)) : Arrives(data[i])
    BY <1>3 DEF DeliverData
  <2>2. data \in Seq(Datagram) /\ Len(data) \in Nat
    BY LenProperties DEF SendInv, NetInv
  <2>3. i \in 1..Len(data)
    BY <2>1, <2>2 DEF Low
  <2>4. data[i] \in Datagram /\ data[i] \in ToSet(data)
    BY <2>2, <2>3, ToSetIs
  <2>5. PICK seg \in Datagram : seg = data[i] /\ DataOk(seg, Reach)
    BY <2>4 DEF SendInv, NetInv
  <2>6. got' = Filling(got, seg, read)
    BY <2>1, <2>5 DEF Arrives, Filling
  <2>7. ClientOk(got, read, Reach) /\ Reach \in Nat
    BY StateIs DEF SendInv, NetInv
  <2>8. Stored(got) <= Stored(got')
    BY <2>5, <2>6, <2>7, ArrivesOk
  <2> QED
    BY <1>3, <2>8 DEF DeliverData
<1>4. CASE \/ \E n \in 1..Total : WriteBegin(n)
           \/ WriteError \/ tcp_slowtmr \/ DeliverAck \/ Lose \/ Double \/ Read
           \/ UNCHANGED vars
  <2>1. got' = got /\ accepted' = accepted
    BY <1>4 DEF WriteBegin, WriteError, tcp_slowtmr, TickAbort, TickProbe, TickRexmit,
                TickOutput, DeliverAck, Lose, Double, Read, vars, client
  <2> QED
    BY <1>1, <2>1
<1> QED
  BY <1>2, <1>3, <1>4 DEF Next, tcp_write

\* The two ends of the stream.
Ends(m, s) ==
  /\ m = accepted /\ s = Stored(got) /\ s <= m /\ m <= Total
  /\ [i \in 1..accepted |-> i] = FirstBytes(m)
  /\ [i \in 1..Stored(got) |-> got[i - 1]] = FirstBytes(s)
StreamOk == \E m \in Nat, s \in Nat : Ends(m, s)

\* From the invariant: the two ends of the stream.
LEMMA StreamIs == ASSUME SendInv PROVE StreamOk
<1>1. ClientOk(got, read, Reach) /\ Reach \in Nat /\ Reach <= accepted
      /\ accepted \in Nat /\ accepted <= Total
  BY StateIs DEF SendInv, NetInv
<1>2. Stored(got) \in Nat /\ Stored(got) <= Reach
  BY <1>1, StoredWithin
<1>3. [i \in 1..Stored(got) |-> got[i - 1]] = FirstBytes(Stored(got))
  BY <1>1, StoredBytes
<1>4. [i \in 1..accepted |-> i] = FirstBytes(accepted)
  BY DEF FirstBytes
<1>5. Stored(got) <= accepted
  BY <1>1, <1>2
<1> QED
  BY <1>1, <1>2, <1>3, <1>4, <1>5 DEF Ends, StreamOk

\* The client gets what tcp_write has accepted, in order, each byte once, and nothing else:
\* whatever the network loses, doubles and reorders, and also when the Ethernet interrupt
\* changes the queues in the middle of tcp_write, up to the step at which tcp_write works on a
\* queue that is no longer there (torn), after which no step of the model is left.
THEOREM BytesInOrder == Spec => RefinesByteStream
<1>1. SendInv => StreamOk
  BY StreamIs
<1>2. Init /\ StreamOk => Stream!Init
  <2> SUFFICES ASSUME Init, StreamOk PROVE Stream!Init
    OBVIOUS
  <2>1. PICK m \in Nat, s \in Nat : Ends(m, s)
    BY DEF StreamOk
  <2>2. m = 0 /\ s = 0
    BY <2>1 DEF Init, Ends
  <2>3. FirstBytes(0) = << >>
    BY FirstBytesIs
  <2> QED
    BY <2>1, <2>2, <2>3 DEF Ends, Stream!Init
<1>3. SendInv /\ StreamOk /\ StreamOk' /\ [Next]_vars => [Stream!Next]_Stream!vars
  <2> SUFFICES ASSUME SendInv, StreamOk, StreamOk', [Next]_vars
               PROVE  [Stream!Next]_Stream!vars
    OBVIOUS
  <2>1. PICK m \in Nat, s \in Nat : Ends(m, s)
    BY DEF StreamOk
  <2>2. PICK n \in Nat, t \in Nat :
          /\ n = accepted' /\ t = Stored(got)' /\ t <= n /\ n <= Total
          /\ [i \in 1..accepted |-> i]' = FirstBytes(n)
          /\ [i \in 1..Stored(got) |-> got[i - 1]]' = FirstBytes(t)
    BY DEF StreamOk, Ends
  <2>3. (s = t /\ m <= n) \/ (m = n /\ s <= t)
    BY <2>1, <2>2, StreamStep DEF Ends
  <2>4. FirstBytes(n) \in Seq(1..Total)
    <3>1. PICK u : u = FirstBytes(n)
      OBVIOUS
    <3>2. u \in [1..n -> 1..Total]
      BY <2>2, <3>1, SendAssumption DEF FirstBytes
    <3> QED
      BY <3>1, <3>2, SeqDef
  <2>5. CASE m = n /\ s = t
    BY <2>1, <2>2, <2>5 DEF Ends, Stream!vars
  <2>6. CASE s = t /\ m <= n /\ m # n
    <3>1. Stream!IsStrictPrefix(FirstBytes(m), FirstBytes(n))
      BY <2>6, FirstBytesPrefix DEF Stream!IsStrictPrefix, Stream!IsPrefix
    <3> QED
      BY <2>1, <2>2, <2>4, <2>6, <3>1 DEF Ends, Stream!Next, Stream!Write
  <2>7. CASE m = n /\ s <= t /\ s # t
    <3>1. Stream!IsStrictPrefix(FirstBytes(s), FirstBytes(t))
      BY <2>7, FirstBytesPrefix DEF Stream!IsStrictPrefix, Stream!IsPrefix
    <3>2. Stream!IsPrefix(FirstBytes(t), FirstBytes(n))
      BY <2>2, FirstBytesPrefix DEF Stream!IsPrefix
    <3> QED
      BY <2>1, <2>2, <2>7, <3>1, <3>2 DEF Ends, Stream!Next, Stream!Receive
  <2> QED
    BY <2>3, <2>5, <2>6, <2>7
<1> QED
  BY SendInvariant, <1>1, <1>2, <1>3, PTL DEF Spec, RefinesByteStream, Stream!Spec
=============================================================================
