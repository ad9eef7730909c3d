--------------------------- MODULE TcpServerProof ---------------------------
(***************************************************************************)
(* Proofs about the server and lwIP's connection blocks (TcpServer).       *)
(***************************************************************************)
EXTENDS TcpServer, SequenceTheorems, WellFoundedInduction, TLAPS

-----------------------------------------------------------------------------
(* The invariant.                                                          *)

Distinct(list) == \A i, j \in DOMAIN list : list[i] = list[j] => i = j

\* No pcb is twice on a list or on both, and with the types none is on neither.
ListsInv ==
  /\ Distinct(pool) /\ Distinct(active)
  /\ ToSet(pool) \cap ToSet(active) = {}
  /\ ToSet(pool) \cup ToSet(active) = Pcbs
  /\ Len(pool) + Len(active) = NumPcb
  /\ \A s \in Pcbs : Live(s) <=> state[s] # "CLOSED"

\* No connection is of a priority that another cannot kill.
PrioInv == \A s \in Pcbs : prio[s] <= TCP_PRIO_NORMAL

UpTo(list, r, s) == \E i, j \in DOMAIN list : i <= j /\ list[i] = r /\ list[j] = s

\* With the flag down, the established connections to the server port that no segment
\* has moved are ahead of the walk, and when it is over there are none.
FlagInv ==
  connectFlag = 0 =>
    IF pc = "walk"
      THEN /\ cpcb = Null => Established \subseteq moved
           /\ Live(cpcb) => \A s \in Established \ moved : UpTo(active, cpcb, s)
      ELSE Established \subseteq moved

\* So when the check goes on to close, none is left that it should have kept.
CloseInv == pc \in {"argument", "abort"} => steady \subseteq moved

ServerInv == /\ TypeOK /\ ListsInv /\ PrioInv /\ Admitted
             /\ IF misuse = "walk" THEN pc \in {"walk", "test"} ELSE FlagInv
             /\ CloseInv

-----------------------------------------------------------------------------
(* Lists of pcbs.                                                          *)

\* What is left of a list when a pcb is taken out: all the others, in their order.
LEMMA WithoutIs ==
  ASSUME NEW S, NEW list \in Seq(S), Distinct(list), NEW s
  PROVE  /\ Without(list, s) \in Seq(S) /\ Distinct(Without(list, s))
         /\ ToSet(Without(list, s)) = ToSet(list) \ {s}
         /\ Len(Without(list, s)) = IF s \in ToSet(list) THEN Len(list) - 1 ELSE Len(list)
         /\ \A r, t : r # s /\ t # s /\ UpTo(list, r, t) => UpTo(Without(list, s), r, t)
<1>1. CASE s \notin ToSet(list)
  BY <1>1 DEF Without
<1>2. CASE s \in ToSet(list)
  <2> DEFINE n == Len(list) - 1
             at == CHOOSE i \in DOMAIN list : list[i] = s
             W == [i \in 1..n |-> IF i < at THEN list[i] ELSE list[i + 1]]
  <2>1. Without(list, s) = W
    BY <1>2 DEF Without
  <2>2. DOMAIN list = 1..Len(list) /\ Len(list) \in Nat
    BY LenProperties
  <2>3. at \in 1..Len(list) /\ list[at] = s
    BY <1>2, <2>2 DEF ToSet
  <2>4. n \in Nat /\ n + 1 = Len(list)
    BY <2>2, <2>3
  <2> HIDE DEF n, at
  <2>5. \A i \in 1..n : i \in 1..Len(list) /\ i + 1 \in 1..Len(list)
    BY <2>2, <2>4
  <2>6. \A i \in 1..Len(list) : list[i] \in S
    BY ElementOfSeq
  <2>7. W \in [1..n -> S]
    BY <2>5, <2>6
  <2>8. W \in Seq(S) /\ Len(W) = n /\ DOMAIN W = 1..n
    BY <2>4, <2>7, SeqDef, LenProperties
  \* Where the others are now.
  <2>9. ASSUME NEW j \in 1..Len(list), list[j] # s
        PROVE  \E i \in 1..n : W[i] = list[j] /\ i = IF j < at THEN j ELSE j - 1
    <3>1. j # at
      BY <2>3, <2>9
    <3>2. CASE j < at
      <4>1. j \in 1..n
        BY <2>3, <2>4, <3>2
      <4> QED
        BY <3>2, <4>1
    <3>3. CASE ~(j < at)
      <4>1. PICK i \in 1..n : i = j - 1 /\ i + 1 = j /\ ~(i < at)
        BY <2>3, <2>4, <3>1, <3>3
      <4>2. W[i] = list[i + 1]
        BY <4>1
      <4> QED
        BY <3>3, <4>1, <4>2
    <3> QED
      BY <3>2, <3>3
  <2>10. ASSUME NEW i \in 1..n
         PROVE  \E j \in 1..Len(list) :
                  /\ W[i] = list[j] /\ j = IF i < at THEN i ELSE i + 1
                  /\ j # at
    BY <2>3, <2>4, <2>5
  <2> HIDE DEF W
  <2>11. Distinct(W)
    <3> SUFFICES ASSUME NEW i \in 1..n, NEW j \in 1..n, W[i] = W[j] PROVE i = j
      BY <2>8 DEF Distinct
    <3>1. PICK k \in 1..Len(list) : W[i] = list[k] /\ k = IF i < at THEN i ELSE i + 1
      BY <2>10
    <3>2. PICK l \in 1..Len(list) : W[j] = list[l] /\ l = IF j < at THEN j ELSE j + 1
      BY <2>10
    <3>3. k = l
      BY <2>2, <3>1, <3>2 DEF Distinct
    <3> QED
      BY <2>3, <3>1, <3>2, <3>3
  <2>12. ToSet(W) = ToSet(list) \ {s}
    <3>1. ASSUME NEW i \in 1..n PROVE W[i] \in ToSet(list) /\ W[i] # s
      <4>1. PICK j \in 1..Len(list) : W[i] = list[j] /\ j # at
        BY <2>10
      <4> QED
        BY <2>2, <2>3, <4>1 DEF Distinct, ToSet
    <3>2. ASSUME NEW t \in ToSet(list), t # s PROVE t \in ToSet(W)
      <4>1. PICK j \in 1..Len(list) : list[j] = t
        BY <2>2 DEF ToSet
      <4>2. PICK i \in 1..n : W[i] = list[j]
        BY <2>9, <3>2, <4>1
      <4> QED
        BY <2>8, <4>1, <4>2 DEF ToSet
    <3> QED
      BY <2>8, <3>1, <3>2 DEF ToSet
  <2>13. ASSUME NEW r, NEW t, r # s, t # s, UpTo(list, r, t) PROVE UpTo(W, r, t)
    <3>1. PICK i \in 1..Len(list), j \in 1..Len(list) : i <= j /\ list[i] = r /\ list[j] = t
      BY <2>2, <2>13 DEF UpTo
    <3>2. PICK k \in 1..n : W[k] = r /\ k = IF i < at THEN i ELSE i - 1
      BY <2>9, <2>13, <3>1
    <3>3. PICK l \in 1..n : W[l] = t /\ l = IF j < at THEN j ELSE j - 1
      BY <2>9, <2>13, <3>1
    <3>4. i # at
      BY <2>3, <2>13, <3>1
    <3>5. k <= l
      BY <2>3, <3>1, <3>2, <3>3, <3>4
    <3> QED
      BY <2>8, <3>2, <3>3, <3>5 DEF UpTo
  <2> QED
    BY <1>2, <2>1, <2>4, <2>8, <2>11, <2>12, <2>13 DEF n
<1> QED
  BY <1>1, <1>2

\* A list with one more pcb in front.
LEMMA InFrontIs ==
  ASSUME NEW S, NEW list \in Seq(S), Distinct(list), NEW s \in S, s \notin ToSet(list)
  PROVE  /\ <<s>> \o list \in Seq(S) /\ Distinct(<<s>> \o list)
         /\ ToSet(<<s>> \o list) = ToSet(list) \cup {s}
         /\ Len(<<s>> \o list) = Len(list) + 1
         /\ \A r, t : UpTo(list, r, t) => UpTo(<<s>> \o list, r, t)
         /\ \A t \in ToSet(<<s>> \o list) : UpTo(<<s>> \o list, s, t)
<1> DEFINE new == <<s>> \o list
<1>1. /\ <<s>> \in Seq(S) /\ Len(<<s>>) = 1 /\ <<s>>[1] = s
      /\ DOMAIN list = 1..Len(list) /\ Len(list) \in Nat
  BY LenProperties
<1>2. /\ new \in Seq(S) /\ Len(new) = Len(list) + 1
      /\ DOMAIN new = 1..Len(list) + 1
      /\ new[1] = s /\ \A i \in 1..Len(list) : new[i + 1] = list[i]
  <2>1. /\ new \in Seq(S) /\ Len(new) = 1 + Len(list)
        /\ \A i \in 1..1 + Len(list) : new[i] = IF i <= 1 THEN <<s>>[i] ELSE list[i - 1]
    BY <1>1, ConcatProperties
  <2>2. ASSUME NEW i \in 1..Len(list) PROVE new[i + 1] = list[i]
    <3>1. PICK j \in 1..1 + Len(list) : j = i + 1 /\ ~(j <= 1) /\ j - 1 = i
      BY <1>1
    <3>2. new[j] = list[j - 1]
      BY <2>1, <3>1
    <3> QED
      BY <3>1, <3>2
  <2>3. 1 \in 1..1 + Len(list)
    BY <1>1
  <2>4. DOMAIN new = 1..Len(new)
    BY <2>1, LenProperties
  <2> HIDE DEF new
  <2> QED
    BY <1>1, <2>1, <2>2, <2>3, <2>4
<1> HIDE DEF new
<1>3. \A k \in 1..Len(list) + 1 :
        (k = 1 /\ new[k] = s) \/ \E i \in 1..Len(list) : k = i + 1 /\ new[k] = list[i]
  <2> SUFFICES ASSUME NEW k \in 1..Len(list) + 1, k # 1
               PROVE  \E i \in 1..Len(list) : k = i + 1 /\ new[k] = list[i]
    BY <1>2
  <2>1. PICK i \in 1..Len(list) : k = i + 1
    BY <1>1
  <2> QED
    BY <1>2, <2>1
<1>4. \A i \in 1..Len(list) : i + 1 \in 1..Len(list) + 1 /\ list[i] # s
  BY <1>1 DEF ToSet
<1>5. Distinct(new)
  <2> SUFFICES ASSUME NEW i \in 1..Len(list) + 1, NEW j \in 1..Len(list) + 1, new[i] = new[j]
               PROVE  i = j
    BY <1>2 DEF Distinct
  <2>1. CASE i = 1 /\ j = 1
    BY <2>1
  <2>2. CASE i # 1 /\ j # 1
    <3>1. PICK k \in 1..Len(list) : i = k + 1 /\ new[i] = list[k]
      BY <1>3, <2>2
    <3>2. PICK l \in 1..Len(list) : j = l + 1 /\ new[j] = list[l]
      BY <1>3, <2>2
    <3> QED
      BY <1>1, <3>1, <3>2 DEF Distinct
  <2>3. CASE i = 1 /\ j # 1
    BY <1>2, <1>3, <1>4, <2>3
  <2>4. CASE i # 1 /\ j = 1
    BY <1>2, <1>3, <1>4, <2>4
  <2> QED
    BY <2>1, <2>2, <2>3, <2>4
<1>6. ToSet(new) = ToSet(list) \cup {s}
  <2>1. 1 \in 1..Len(list) + 1
    BY <1>1
  <2>2. ASSUME NEW t \in ToSet(list) PROVE t \in ToSet(new)
    <3>1. PICK i \in 1..Len(list) : list[i] = t
      BY <1>1 DEF ToSet
    <3> QED
      BY <1>2, <1>4, <3>1 DEF ToSet
  <2>3. ASSUME NEW t \in ToSet(new) PROVE t = s \/ t \in ToSet(list)
    <3>1. PICK k \in 1..Len(list) + 1 : new[k] = t
      BY <1>2 DEF ToSet
    <3> QED
      BY <1>1, <1>3, <3>1 DEF ToSet
  <2> QED
    BY <1>2, <2>1, <2>2, <2>3 DEF ToSet
<1>7. ASSUME NEW r, NEW t, UpTo(list, r, t) PROVE UpTo(new, r, t)
  <2>1. PICK i \in 1..Len(list), j \in 1..Len(list) : i <= j /\ list[i] = r /\ list[j] = t
    BY <1>1, <1>7 DEF UpTo
  <2>2. i + 1 <= j + 1 /\ new[i + 1] = r /\ new[j + 1] = t
    BY <1>1, <1>2, <2>1
  <2> QED
    BY <1>2, <1>4, <2>2 DEF UpTo
<1>8. ASSUME NEW t \in ToSet(new) PROVE UpTo(new, s, t)
  <2>1. PICK k \in 1..Len(list) + 1 : new[k] = t
    BY <1>2 DEF ToSet
  <2>2. 1 \in 1..Len(list) + 1 /\ 1 <= k
    BY <1>1
  <2> QED
    BY <1>2, <2>1, <2>2 DEF UpTo
<1> QED
  BY <1>2, <1>5, <1>6, <1>7, <1>8 DEF new

-----------------------------------------------------------------------------
(* tcp_alloc always finds a pcb.                                           *)

Smaller == {p \in Nat \X Nat : p[1] < p[2]}

LEMMA SmallerWF == IsWellFoundedOn(Smaller, Nat)
<1>1. IsWellFoundedOn(OpToRel(<, Nat), Nat)
  BY NatLessThanWellFounded
<1>2. OpToRel(<, Nat) = Smaller
  BY DEF OpToRel, Smaller
<1> QED
  BY <1>1, <1>2

\* A set of numbers that is not empty has a smallest one, and if it is bounded a
\* greatest one.
LEMMA Least ==
  ASSUME NEW S \in SUBSET Nat, S # {}
  PROVE  \E n \in S : \A m \in S : n <= m
<1>1. PICK n \in S : \A m \in S : ~ (<<m, n>> \in Smaller)
  BY SmallerWF, WFMin
<1>2. ASSUME NEW m \in S PROVE n <= m
  <2>1. n \in Nat /\ m \in Nat
    OBVIOUS
  <2>2. <<m, n>> \notin Smaller
    BY <1>1
  <2>3. m < n => <<m, n>> \in Smaller
    BY <2>1 DEF Smaller
  <2> QED
    BY <2>1, <2>2, <2>3
<1> QED
  BY <1>2

LEMMA MaxIs ==
  ASSUME NEW b \in Nat, NEW S \in SUBSET (0..b), S # {}
  PROVE  Max(S) \in S
<1> DEFINE T == {b - m : m \in S}
<1>1. T \in SUBSET Nat
  OBVIOUS
<1>2. T # {}
  <2>1. PICK m \in S : TRUE
    OBVIOUS
  <2>2. b - m \in T
    BY <2>1
  <2> QED
    BY <2>2
<1>3. PICK k \in T : \A j \in T : k <= j
  <2> HIDE DEF T
  <2> QED
    BY <1>1, <1>2, Least
<1>4. PICK m \in S : k = b - m
  OBVIOUS
<1>5. ASSUME NEW j \in S PROVE m >= j
  <2>1. b - j \in T
    OBVIOUS
  <2>2. k <= b - j
    BY <1>3, <2>1
  <2>3. j \in Nat /\ m \in Nat
    BY <1>4
  <2> QED
    BY <1>4, <2>2, <2>3
<1> QED
  BY <1>4, <1>5 DEF Max

\* Among the connections there is always one to kill for a new one.
LEMMA AllocatedIs == ASSUME TypeOK, ListsInv, PrioInv PROVE Allocated \in Pcbs
<1>1. CASE pool # << >>
  <2>1. Head(pool) \in Pcbs
    BY <1>1 DEF TypeOK
  <2> QED
    BY <1>1, <2>1 DEF Allocated
<1>2. CASE pool = << >>
  <2> DEFINE killable == {i \in DOMAIN active : prio[active[i]] <= TCP_PRIO_NORMAL}
             least == {i \in killable : \A j \in killable : prio[active[i]] <= prio[active[j]]}
             P == {prio[active[i]] : i \in killable}
  <2>1. Len(active) = NumPcb /\ NumPcb \in Nat /\ NumPcb # 0
    <3>1. Len(pool) = 0 /\ Len(active) \in Nat
      BY <1>2, EmptySeq, LenProperties DEF TypeOK
    <3> QED
      BY <3>1, TcpAssumption DEF ListsInv
  <2>2. \A i \in 1..NumPcb : active[i] \in Pcbs
    BY <2>1, ElementOfSeq DEF TypeOK
  <2>3. DOMAIN active = 1..NumPcb
    BY <2>1, LenProperties DEF TypeOK
  <2>4. killable = 1..NumPcb
    BY <2>2, <2>3 DEF PrioInv
  <2>5. P \in SUBSET Nat
    <3>1. \A i \in killable : active[i] \in Pcbs
      BY <2>2, <2>4
    <3>2. \A s \in Pcbs : prio[s] \in Nat
      <4>1. prio \in [Pcbs -> 0..127]
        BY DEF TypeOK, TCP_PRIO_MAX
      <4> QED
        BY <4>1
    <3> HIDE DEF killable
    <3> QED
      BY <3>1, <3>2
  <2>6. 1 \in killable
    BY <2>1, <2>4
  <2>7. P # {}
    BY <2>6
  <2>8. PICK p \in P : \A q \in P : p <= q
    <3> HIDE DEF P
    <3> QED
      BY <2>5, <2>7, Least
  <2>9. PICK i \in killable : prio[active[i]] = p
    OBVIOUS
  <2>10. i \in least
    <3> SUFFICES ASSUME NEW j \in killable PROVE prio[active[i]] <= prio[active[j]]
      BY <2>9
    <3>1. prio[active[j]] \in P
      OBVIOUS
    <3> QED
      BY <2>8, <2>9, <3>1
  <2>11. least # {} /\ least \in SUBSET (0..NumPcb)
    BY <2>1, <2>4, <2>10
  <2>12. Max(least) \in least
    <3> HIDE DEF least
    <3> QED
      BY <2>1, <2>11, MaxIs
  <2>13. active[Max(least)] \in Pcbs
    BY <2>2, <2>4, <2>12
  <2>14. Victim(TCP_PRIO_NORMAL) = active[Max(least)]
    BY <2>6 DEF Victim
  <2> QED
    BY <1>2, <2>13, <2>14 DEF Allocated
<1> QED
  BY <1>1, <1>2

-----------------------------------------------------------------------------
(* What a segment or a timeout does to the lists and to the walk.          *)

LEMMA ServerTypes ==
  ASSUME TypeOK
  PROVE  /\ pool \in Seq(Pcbs) /\ active \in Seq(Pcbs)
         /\ ToSet(active) \subseteq Pcbs /\ ToSet(pool) \subseteq Pcbs
         /\ Null \notin Pcbs /\ ~Live(Null)
<1>1. pool \in Seq(Pcbs) /\ active \in Seq(Pcbs)
  BY DEF TypeOK
<1>2. DOMAIN active = 1..Len(active) /\ DOMAIN pool = 1..Len(pool)
  BY <1>1, LenProperties
<1>3. ToSet(active) \subseteq Pcbs /\ ToSet(pool) \subseteq Pcbs
  BY <1>1, <1>2, ElementOfSeq DEF ToSet
<1>4. Null \notin Pcbs
  BY DEF Null, Pcbs
<1> QED
  BY <1>1, <1>3, <1>4 DEF Live

\* The pcb of a segment comes to the front, the others keep their order.
LEMMA ToFrontIs ==
  ASSUME TypeOK, ListsInv, NEW s \in Pcbs
  PROVE  /\ ToFront(s) \in Seq(Pcbs) /\ Distinct(ToFront(s))
         /\ ToSet(ToFront(s)) = ToSet(active) \cup {s}
         /\ Len(ToFront(s)) = IF Live(s) THEN Len(active) ELSE Len(active) + 1
         /\ \A r, t : r # s /\ t # s /\ UpTo(active, r, t) => UpTo(ToFront(s), r, t)
         /\ \A t \in ToSet(ToFront(s)) : UpTo(ToFront(s), s, t)
<1> DEFINE W == Without(active, s)
<1>1. Distinct(active) /\ active \in Seq(Pcbs) /\ Len(active) \in Nat
  BY ServerTypes, LenProperties DEF ListsInv
<1>2. /\ W \in Seq(Pcbs) /\ Distinct(W) /\ ToSet(W) = ToSet(active) \ {s}
      /\ Len(W) = IF s \in ToSet(active) THEN Len(active) - 1 ELSE Len(active)
      /\ \A r, t : r # s /\ t # s /\ UpTo(active, r, t) => UpTo(W, r, t)
  BY <1>1, WithoutIs
<1> HIDE DEF W
<1>3. /\ <<s>> \o W \in Seq(Pcbs) /\ Distinct(<<s>> \o W)
      /\ ToSet(<<s>> \o W) = ToSet(W) \cup {s}
      /\ Len(<<s>> \o W) = Len(W) + 1
      /\ \A r, t : UpTo(W, r, t) => UpTo(<<s>> \o W, r, t)
      /\ \A t \in ToSet(<<s>> \o W) : UpTo(<<s>> \o W, s, t)
  BY <1>2, InFrontIs
<1>4. ToFront(s) = <<s>> \o W
  BY DEF ToFront, W
<1>5. ToSet(W) \cup {s} = ToSet(active) \cup {s}
  BY <1>2
<1>6. Len(W) + 1 = IF Live(s) THEN Len(active) ELSE Len(active) + 1
  BY <1>1, <1>2 DEF Live
<1> QED
  BY <1>2, <1>3, <1>4, <1>5, <1>6

LEMMA TouchLists ==
  ASSUME TypeOK, ListsInv, NEW s \in ToSet(active), Touch(s), UNCHANGED pool,
         \A t \in Pcbs : state'[t] = "CLOSED" <=> state[t] = "CLOSED"
  PROVE  /\ ListsInv' /\ active' \in Seq(Pcbs) /\ ToSet(active') = ToSet(active)
         /\ \A r, t : r # s /\ t # s /\ UpTo(active, r, t) => UpTo(active', r, t)
         /\ \A t \in ToSet(active) : UpTo(active', s, t)
<1>1. s \in Pcbs /\ Live(s) /\ active' = ToFront(s)
  BY ServerTypes DEF Touch, Live
<1>2. /\ active' \in Seq(Pcbs) /\ Distinct(active')
      /\ ToSet(active') = ToSet(active) \cup {s} /\ Len(active') = Len(active)
      /\ \A r, t : r # s /\ t # s /\ UpTo(active, r, t) => UpTo(active', r, t)
      /\ \A t \in ToSet(active') : UpTo(active', s, t)
  BY <1>1, ToFrontIs
<1>3. ToSet(active') = ToSet(active)
  BY <1>2
<1>4. ListsInv'
  BY <1>2, <1>3 DEF ListsInv, Live
<1> QED
  BY <1>2, <1>3, <1>4

LEMMA FreeLists ==
  ASSUME TypeOK, ListsInv, NEW s \in ToSet(active), Free(s)
  PROVE  /\ ListsInv' /\ active' \in Seq(Pcbs) /\ pool' \in Seq(Pcbs)
         /\ ToSet(active') = ToSet(active) \ {s}
         /\ \A r, t : r # s /\ t # s /\ UpTo(active, r, t) => UpTo(active', r, t)
<1>1. /\ s \in Pcbs /\ s \notin ToSet(pool) /\ Distinct(active) /\ Distinct(pool)
      /\ active \in Seq(Pcbs) /\ pool \in Seq(Pcbs)
      /\ Len(active) \in Nat /\ Len(pool) \in Nat
  BY ServerTypes, LenProperties DEF ListsInv
<1>2. /\ active' \in Seq(Pcbs) /\ Distinct(active')
      /\ ToSet(active') = ToSet(active) \ {s} /\ Len(active') = Len(active) - 1
      /\ \A r, t : r # s /\ t # s /\ UpTo(active, r, t) => UpTo(active', r, t)
  BY <1>1, WithoutIs DEF Free
<1>3. /\ pool' \in Seq(Pcbs) /\ Distinct(pool')
      /\ ToSet(pool') = ToSet(pool) \cup {s} /\ Len(pool') = Len(pool) + 1
  BY <1>1, InFrontIs DEF Free
<1>4. \A t \in Pcbs : state'[t] = IF t = s THEN "CLOSED" ELSE state[t]
  BY DEF Free, TypeOK
<1>5. \A t \in Pcbs : Live(t)' <=> state'[t] # "CLOSED"
  BY <1>2, <1>4 DEF ListsInv, Live
<1>6. Len(pool') + Len(active') = NumPcb
  BY <1>1, <1>2, <1>3 DEF ListsInv
<1>7. ToSet(pool') \cap ToSet(active') = {} /\ ToSet(pool') \cup ToSet(active') = Pcbs
  BY <1>1, <1>2, <1>3 DEF ListsInv
<1> QED
  BY <1>2, <1>3, <1>5, <1>6, <1>7 DEF ListsInv

\* A pcb for a new connection, from the pool or from the connection that was killed.
LEMMA SynLists ==
  ASSUME TypeOK, ListsInv, NEW s \in Pcbs, pool' = Without(pool, s), active' = ToFront(s),
         state' = [state EXCEPT ![s] = "SYN_RCVD"]
  PROVE  /\ ListsInv' /\ active' \in Seq(Pcbs) /\ pool' \in Seq(Pcbs)
         /\ ToSet(active') = ToSet(active) \cup {s}
         /\ \A r, t : r # s /\ t # s /\ UpTo(active, r, t) => UpTo(active', r, t)
         /\ \A t \in ToSet(active') : UpTo(active', s, t)
<1>1. /\ Distinct(pool) /\ pool \in Seq(Pcbs) /\ Len(active) \in Nat /\ Len(pool) \in Nat
      /\ s \in ToSet(pool) <=> ~Live(s)
  BY ServerTypes, LenProperties DEF ListsInv, Live
<1>2. /\ active' \in Seq(Pcbs) /\ Distinct(active')
      /\ ToSet(active') = ToSet(active) \cup {s}
      /\ Len(active') = IF Live(s) THEN Len(active) ELSE Len(active) + 1
      /\ \A r, t : r # s /\ t # s /\ UpTo(active, r, t) => UpTo(active', r, t)
      /\ \A t \in ToSet(active') : UpTo(active', s, t)
  BY ToFrontIs
<1>3. /\ pool' \in Seq(Pcbs) /\ Distinct(pool') /\ ToSet(pool') = ToSet(pool) \ {s}
      /\ Len(pool') = IF s \in ToSet(pool) THEN Len(pool) - 1 ELSE Len(pool)
  BY <1>1, WithoutIs
<1>4. \A t \in Pcbs : state'[t] = IF t = s THEN "SYN_RCVD" ELSE state[t]
  BY DEF TypeOK
<1>5. \A t \in Pcbs : Live(t)' <=> state'[t] # "CLOSED"
  BY <1>2, <1>4 DEF ListsInv, Live
<1>6. Len(pool') + Len(active') = NumPcb
  <2>1. Len(pool) + Len(active) = NumPcb
    BY DEF ListsInv
  <2>2. CASE Live(s)
    BY <1>1, <1>2, <1>3, <2>1, <2>2
  <2>3. CASE ~Live(s)
    <3>1. Len(pool') = Len(pool) - 1 /\ Len(active') = Len(active) + 1
      BY <1>1, <1>2, <1>3, <2>3
    <3>2. Len(pool) \in Nat /\ Len(active) \in Nat
      BY <1>1
    <3>3. (Len(pool) - 1) + (Len(active) + 1) = Len(pool) + Len(active)
      BY <3>2
    <3> QED
      BY <2>1, <3>1, <3>3, Zenon
  <2> QED
    BY <2>2, <2>3
<1>7. ToSet(pool') \cap ToSet(active') = {} /\ ToSet(pool') \cup ToSet(active') = Pcbs
  BY <1>1, <1>2, <1>3 DEF ListsInv
<1> QED
  BY <1>2, <1>3, <1>5, <1>6, <1>7 DEF ListsInv

\* The pcb goes back at once.
LEMMA SynNoMemoryLists ==
  ASSUME TypeOK, ListsInv, NEW s \in Pcbs,
         pool' = <<s>> \o Without(pool, s), active' = Without(active, s),
         state' = [state EXCEPT ![s] = "CLOSED"]
  PROVE  /\ ListsInv' /\ active' \in Seq(Pcbs) /\ pool' \in Seq(Pcbs)
         /\ ToSet(active') = ToSet(active) \ {s}
         /\ \A r, t : r # s /\ t # s /\ UpTo(active, r, t) => UpTo(active', r, t)
<1> DEFINE W == Without(pool, s)
<1>1. /\ Distinct(pool) /\ pool \in Seq(Pcbs) /\ Distinct(active) /\ active \in Seq(Pcbs)
      /\ Len(active) \in Nat /\ Len(pool) \in Nat
      /\ s \in ToSet(pool) <=> s \notin ToSet(active)
  BY ServerTypes, LenProperties DEF ListsInv
<1>2. /\ active' \in Seq(Pcbs) /\ Distinct(active')
      /\ ToSet(active') = ToSet(active) \ {s}
      /\ Len(active') = IF s \in ToSet(active) THEN Len(active) - 1 ELSE Len(active)
      /\ \A r, t : r # s /\ t # s /\ UpTo(active, r, t) => UpTo(active', r, t)
  BY <1>1, WithoutIs
<1>3. /\ W \in Seq(Pcbs) /\ Distinct(W) /\ ToSet(W) = ToSet(pool) \ {s}
      /\ Len(W) = IF s \in ToSet(pool) THEN Len(pool) - 1 ELSE Len(pool)
  BY <1>1, WithoutIs
<1>4. pool' = <<s>> \o W
  BY DEF W
<1> HIDE DEF W
<1>5. /\ pool' \in Seq(Pcbs) /\ Distinct(pool') /\ ToSet(pool') = ToSet(W) \cup {s}
      /\ Len(pool') = Len(W) + 1
  <2>1. s \notin ToSet(W)
    BY <1>3
  <2>2. /\ <<s>> \o W \in Seq(Pcbs) /\ Distinct(<<s>> \o W)
        /\ ToSet(<<s>> \o W) = ToSet(W) \cup {s}
        /\ Len(<<s>> \o W) = Len(W) + 1
    BY <1>3, <2>1, InFrontIs
  <2> QED
    BY <1>4, <2>2
<1>6. \A t \in Pcbs : state'[t] = IF t = s THEN "CLOSED" ELSE state[t]
  BY DEF TypeOK
<1>7. \A t \in Pcbs : Live(t)' <=> state'[t] # "CLOSED"
  BY <1>2, <1>6 DEF ListsInv, Live
<1>8. Len(pool') + Len(active') = NumPcb
  <2>1. Len(pool) + Len(active) = NumPcb
    BY DEF ListsInv
  <2>2. CASE s \in ToSet(active)
    <3>1. Len(pool') = Len(pool) + 1 /\ Len(active') = Len(active) - 1
      BY <1>1, <1>2, <1>3, <1>5, <2>2
    <3>2. Len(pool) \in Nat /\ Len(active) \in Nat
      BY <1>1
    <3>3. (Len(pool) + 1) + (Len(active) - 1) = Len(pool) + Len(active)
      BY <3>2
    <3> QED
      BY <2>1, <3>1, <3>3, Zenon
  <2>3. CASE s \notin ToSet(active)
    <3>1. Len(pool') = Len(pool) /\ Len(active') = Len(active)
      BY <1>1, <1>2, <1>3, <1>5, <2>3
    <3> QED
      BY <2>1, <3>1, Zenon
  <2> QED
    BY <2>2, <2>3
<1>9. ToSet(pool') \cap ToSet(active') = {} /\ ToSet(pool') \cup ToSet(active') = Pcbs
  BY <1>1, <1>2, <1>3, <1>5 DEF ListsInv
<1> QED
  BY <1>2, <1>5, <1>7, <1>8, <1>9 DEF ListsInv

\* A pcb that comes to the front is behind the walk, or recorded, or the walk stands at it;
\* the walk loses none of those ahead of it.
LEMMA WalkTouched ==
  ASSUME TypeOK, ListsInv, FlagInv, NEW s \in ToSet(active), Touch(s), UNCHANGED pool,
         \A t \in Pcbs : state'[t] = "CLOSED" <=> state[t] = "CLOSED",
         Established' \subseteq Established, UNCHANGED <<connectFlag, pc, cpcb>>
  PROVE  FlagInv'
<1>1. /\ active' \in Seq(Pcbs) /\ ToSet(active') = ToSet(active)
      /\ \A r, t : r # s /\ t # s /\ UpTo(active, r, t) => UpTo(active', r, t)
      /\ \A t \in ToSet(active) : UpTo(active', s, t)
  BY TouchLists
<1>2. moved \subseteq moved' /\ (pc = "walk" /\ s # Head(active) => s \in moved')
  BY DEF Touch
<1> SUFFICES ASSUME connectFlag = 0, pc = "walk", Live(cpcb),
                    NEW t \in Established' \ moved'
             PROVE  UpTo(active', cpcb, t)
  BY <1>1, <1>2 DEF FlagInv, Live
<1>3. t \in Established \ moved /\ UpTo(active, cpcb, t)
  BY <1>2 DEF FlagInv
<1>4. t \in ToSet(active)
  BY <1>3 DEF Established
<1>5. CASE cpcb = s
  BY <1>1, <1>4, <1>5
<1>6. CASE cpcb # s /\ t # s
  BY <1>1, <1>3, <1>6
<1>7. CASE cpcb # s /\ t = s
  <2>1. s = Head(active)
    BY <1>2, <1>7
  <2>2. DOMAIN active = 1..Len(active) /\ Len(active) \in Nat /\ active \in Seq(Pcbs)
    BY ServerTypes, LenProperties
  <2>3. active # << >>
    BY <2>2, EmptySeq DEF ToSet
  <2>4. active[1] = s /\ 1 \in DOMAIN active
    BY <2>1, <2>2, <2>3, HeadTailProperties, EmptySeq
  <2>5. PICK i \in DOMAIN active, j \in DOMAIN active :
          i <= j /\ active[i] = cpcb /\ active[j] = s
    BY <1>3, <1>7 DEF UpTo
  <2>6. j = 1
    BY <2>4, <2>5 DEF ListsInv, Distinct
  <2>7. i = 1
    BY <2>2, <2>5, <2>6
  <2> QED
    BY <1>7, <2>4, <2>5, <2>7
<1> QED
  BY <1>5, <1>6, <1>7

\* The same when a pcb goes, or comes to the front for a new connection.
LEMMA WalkChanged ==
  ASSUME TypeOK, FlagInv, NEW s \in Pcbs, UNCHANGED <<connectFlag, pc, cpcb>>,
         Established' \subseteq Established \ {s}, moved' = moved \ {s},
         \A r, t : r # s /\ t # s /\ UpTo(active, r, t) => UpTo(active', r, t),
         \/ ToSet(active') = ToSet(active) \ {s}
         \/ /\ ToSet(active') = ToSet(active) \cup {s}
            /\ \A t \in ToSet(active') : UpTo(active', s, t)
  PROVE  FlagInv'
<1>1. Established' \ moved' \subseteq Established \ moved
  OBVIOUS
<1>2. Established \subseteq moved => Established' \subseteq moved'
  OBVIOUS
<1> SUFFICES ASSUME connectFlag = 0, pc = "walk", Live(cpcb)',
                    NEW t \in Established' \ moved'
             PROVE  UpTo(active', cpcb, t)
  BY <1>2 DEF FlagInv
<1>3. t \in Established \ moved /\ t # s /\ t \in ToSet(active')
  BY DEF Established
<1>4. CASE cpcb = s
  BY <1>3, <1>4 DEF Live
<1>5. CASE cpcb # s
  <2>1. Live(cpcb)
    BY <1>5 DEF Live
  <2>2. UpTo(active, cpcb, t)
    BY <1>3, <2>1 DEF FlagInv
  <2> QED
    BY <1>3, <1>5, <2>2
<1> QED
  BY <1>4, <1>5

-----------------------------------------------------------------------------
(* The invariant is kept: segments and timeouts.                           *)

LEMMA ServerInit == Init => ServerInv
<1> SUFFICES ASSUME Init PROVE ServerInv
  OBVIOUS
<1> USE TcpAssumption
<1>1. /\ NumPcb \in Nat /\ Pcbs = 1..NumPcb
      /\ pool \in [1..NumPcb -> Pcbs] /\ active = << >>
  BY DEF Init, Pcbs
<1>2. /\ pool \in Seq(Pcbs) /\ Len(pool) = NumPcb /\ DOMAIN pool = 1..NumPcb
      /\ active \in Seq(Pcbs) /\ Len(active) = 0 /\ ToSet(active) = {}
  <2>1. pool \in Seq(Pcbs)
    BY <1>1, SeqDef
  <2>2. DOMAIN pool = 1..NumPcb /\ Len(pool) = NumPcb
    BY <1>1, <2>1, LenProperties
  <2>3. active \in Seq(Pcbs) /\ Len(active) = 0 /\ DOMAIN active = {}
    BY <1>1, EmptySeq
  <2> QED
    BY <2>1, <2>2, <2>3 DEF ToSet
<1>3. \A i \in 1..NumPcb : pool[i] = NumPcb + 1 - i
  BY <1>1 DEF Init
<1>4. Established = {}
  BY <1>2 DEF Established
<1>5. TypeOK
  <2>1. /\ remote \in [Pcbs -> Clients \cup {Null}] /\ recv \in [Pcbs -> BOOLEAN]
        /\ state \in [Pcbs -> {"CLOSED", "SYN_RCVD", "ESTABLISHED", "CLOSE_WAIT", "LAST_ACK"}]
    BY DEF Init
  <2>2. prio \in [Pcbs -> 0..TCP_PRIO_MAX]
    BY DEF Init, TCP_PRIO_MAX
  <2>3. closing \in [pcb : Pcbs \cup {Null}, peer : Clients \cup {Null}]
    BY DEF Init
  <2> QED
    BY <1>2, <1>4, <2>1, <2>2, <2>3 DEF Init, TypeOK
<1>6. Distinct(pool) /\ Distinct(active)
  BY <1>1, <1>2, <1>3 DEF Distinct
<1>7. ToSet(pool) = Pcbs
  <2>1. ASSUME NEW s \in Pcbs PROVE s \in ToSet(pool)
    <3>1. NumPcb + 1 - s \in 1..NumPcb /\ NumPcb + 1 - (NumPcb + 1 - s) = s
      BY <1>1
    <3> QED
      BY <1>2, <1>3, <3>1 DEF ToSet
  <2> QED
    BY <1>2, <2>1, ServerTypes, <1>5
<1>8. ListsInv
  BY <1>1, <1>2, <1>6, <1>7 DEF ListsInv, Live, Init
<1>9. PrioInv /\ Admitted /\ FlagInv /\ CloseInv /\ misuse # "walk"
  BY <1>4 DEF Init, PrioInv, Admitted, FlagInv, CloseInv, TCP_PRIO_NORMAL
<1> QED
  BY <1>5, <1>8, <1>9 DEF ServerInv

\* A segment that opens nothing and closes nothing.
LEMMA TouchKeeps ==
  ASSUME ServerInv, misuse = "none", misuse' \in {"none", "write"},
         NEW s \in ToSet(active), Touch(s),
         state' \in [Pcbs -> {"CLOSED", "SYN_RCVD", "ESTABLISHED", "CLOSE_WAIT", "LAST_ACK"}],
         \A t \in Pcbs : state'[t] = "CLOSED" <=> state[t] = "CLOSED",
         Established' \subseteq Established,
         steady' \subseteq Established', steady' \subseteq steady,
         UNCHANGED <<pool, remote, prio, recv, app, main, refused>>
  PROVE  ServerInv'
<1>1. TypeOK /\ ListsInv /\ PrioInv /\ Admitted /\ FlagInv /\ CloseInv
  BY DEF ServerInv
<1>2. ListsInv' /\ active' \in Seq(Pcbs)
  BY <1>1, TouchLists
<1>3. UNCHANGED <<connectFlag, client, peer, pc, cpcb, closing>>
  BY DEF app, main
<1>4. FlagInv'
  BY <1>1, <1>3, WalkTouched
<1>5. moved \subseteq moved' /\ moved' \subseteq Pcbs
  BY <1>1, ServerTypes DEF Touch, TypeOK
<1>6. CloseInv'
  BY <1>1, <1>3, <1>5 DEF CloseInv
<1>7. TypeOK'
  BY <1>1, <1>2, <1>3, <1>5 DEF TypeOK
<1> QED
  BY <1>1, <1>2, <1>4, <1>6, <1>7 DEF ServerInv, PrioInv, Admitted

LEMMA DataKeeps ==
  ASSUME ServerInv, misuse = "none", NEW s \in ToSet(active), Data(s) PROVE ServerInv'
<1>1. Touch(s) /\ UNCHANGED <<pool, remote, state, prio, recv, app, main, steady, refused>>
  BY DEF Data, pcbs
<1>2. misuse' \in {"none", "write"}
  BY DEF Data, SendTcpDataToClient
<1>3. TypeOK /\ ListsInv
  BY DEF ServerInv
<1>4. ToSet(active') = ToSet(active)
  BY <1>1, <1>3, TouchLists
<1>5. Established' = Established
  BY <1>1, <1>4 DEF Established, Matches
<1> QED
  BY <1>1, <1>2, <1>3, <1>5, TouchKeeps DEF TypeOK

LEMMA AckKeeps ==
  ASSUME ServerInv, misuse = "none", NEW s \in ToSet(active), Ack(s) PROVE ServerInv'
<1>1. /\ Touch(s) /\ UNCHANGED <<pool, remote, state, prio, recv, app, main, steady, refused>>
      /\ misuse' = "none"
  BY DEF Ack, pcbs
<1>2. TypeOK /\ ListsInv
  BY DEF ServerInv
<1>3. ToSet(active') = ToSet(active)
  BY <1>1, <1>2, TouchLists
<1>4. Established' = Established
  BY <1>1, <1>3 DEF Established, Matches
<1> QED
  BY <1>1, <1>2, <1>4, TouchKeeps DEF TypeOK

LEMMA FinKeeps ==
  ASSUME ServerInv, misuse = "none", NEW s \in ToSet(active), Fin(s) PROVE ServerInv'
<1>1. /\ Touch(s) /\ UNCHANGED <<pool, remote, prio, recv, app, main, refused>>
      /\ misuse' = "none" /\ state[s] = "ESTABLISHED" /\ steady' = steady \ {s}
      /\ state' = [state EXCEPT ![s] = IF recv[s] THEN "CLOSE_WAIT" ELSE "LAST_ACK"]
  BY DEF Fin
<1>2. TypeOK /\ ListsInv /\ s \in Pcbs
  BY ServerTypes DEF ServerInv
<1>3. state' \in [Pcbs -> {"CLOSED", "SYN_RCVD", "ESTABLISHED", "CLOSE_WAIT", "LAST_ACK"}]
  BY <1>1, <1>2 DEF TypeOK
<1>4. /\ \A t \in Pcbs : t # s => state'[t] = state[t]
      /\ state'[s] \in {"CLOSE_WAIT", "LAST_ACK"}
  BY <1>1, <1>2 DEF TypeOK
<1>5. \A t \in Pcbs : state'[t] = "CLOSED" <=> state[t] = "CLOSED"
  BY <1>1, <1>4
<1>6. ToSet(active') = ToSet(active) /\ ToSet(active) \subseteq Pcbs
  BY <1>1, <1>2, <1>5, TouchLists, ServerTypes
<1>7. Established' = Established \ {s}
  BY <1>1, <1>4, <1>6 DEF Established, Matches
<1>8. steady' \subseteq Established'
  BY <1>1, <1>2, <1>7 DEF TypeOK
<1> QED
  BY <1>1, <1>3, <1>5, <1>7, <1>8, TouchKeeps

LEMMA EstablishKeeps ==
  ASSUME ServerInv, misuse = "none", NEW s \in ToSet(active), Establish(s) PROVE ServerInv'
<1>1. TypeOK /\ ListsInv /\ PrioInv /\ Admitted /\ CloseInv /\ s \in Pcbs
  BY ServerTypes DEF ServerInv
<1>2. /\ Touch(s) /\ state[s] = "SYN_RCVD" /\ connectFlag' = 1
      /\ state' = [state EXCEPT ![s] = "ESTABLISHED"]
      /\ client' = s /\ peer' = remote[s]
      /\ prio' = [prio EXCEPT ![s] = TCP_PRIO_MIN] /\ recv' = [recv EXCEPT ![s] = TRUE]
      /\ UNCHANGED <<pool, remote, pc, cpcb, closing, steady, refused, misuse>>
  BY DEF Establish, OnTcpServerAccept, main
<1>3. \A t \in Pcbs : state'[t] = IF t = s THEN "ESTABLISHED" ELSE state[t]
  BY <1>1, <1>2 DEF TypeOK
<1>4. \A t \in Pcbs : state'[t] = "CLOSED" <=> state[t] = "CLOSED"
  BY <1>2, <1>3
<1>5. ListsInv' /\ active' \in Seq(Pcbs) /\ ToSet(active') = ToSet(active)
  BY <1>1, <1>2, <1>4, TouchLists
<1>6. Established \subseteq Established'
  BY <1>1, <1>2, <1>3, <1>5, ServerTypes DEF Established, Matches
<1>7. moved \subseteq moved' /\ moved' \subseteq Pcbs
  BY <1>1, <1>2 DEF Touch, TypeOK
<1>8. PrioInv'
  <2>1. \A t \in Pcbs : prio'[t] = IF t = s THEN TCP_PRIO_MIN ELSE prio[t]
    BY <1>1, <1>2 DEF TypeOK
  <2> QED
    BY <1>1, <2>1 DEF PrioInv, TCP_PRIO_MIN, TCP_PRIO_NORMAL
<1>9. TypeOK'
  <2>1. /\ state' \in [Pcbs -> {"CLOSED", "SYN_RCVD", "ESTABLISHED", "CLOSE_WAIT", "LAST_ACK"}]
        /\ recv' \in [Pcbs -> BOOLEAN] /\ peer' \in Clients \cup {Null}
    BY <1>1, <1>2 DEF TypeOK
  <2>2. prio' \in [Pcbs -> 0..TCP_PRIO_MAX]
    BY <1>1, <1>2 DEF TypeOK, TCP_PRIO_MIN, TCP_PRIO_MAX
  <2>3. steady' \subseteq Established'
    BY <1>1, <1>2, <1>6 DEF TypeOK
  <2> QED
    BY <1>1, <1>2, <1>5, <1>7, <2>1, <2>2, <2>3 DEF TypeOK
<1>10. FlagInv' /\ CloseInv' /\ Admitted'
  BY <1>1, <1>2, <1>7 DEF FlagInv, CloseInv, Admitted
<1> QED
  BY <1>2, <1>5, <1>8, <1>9, <1>10 DEF ServerInv

\* A connection goes: by a segment, a timeout or tcp_abort.
LEMMA FreeKeeps ==
  ASSUME ServerInv, misuse = "none", NEW s \in ToSet(active), Free(s),
         pc' = pc \/ (pc = "abort" /\ pc' = "detach"),
         UNCHANGED <<remote, prio, recv, app, cpcb, closing, refused, misuse>>
  PROVE  ServerInv'
<1>1. TypeOK /\ ListsInv /\ PrioInv /\ Admitted /\ CloseInv /\ FlagInv /\ s \in Pcbs
  BY ServerTypes DEF ServerInv
<1>2. /\ ListsInv' /\ active' \in Seq(Pcbs) /\ pool' \in Seq(Pcbs)
      /\ ToSet(active') = ToSet(active) \ {s}
      /\ \A r, t : r # s /\ t # s /\ UpTo(active, r, t) => UpTo(active', r, t)
  BY <1>1, FreeLists
<1>3. /\ state' = [state EXCEPT ![s] = "CLOSED"]
      /\ steady' = steady \ {s} /\ moved' = moved \ {s}
  BY DEF Free
<1>4. \A t \in Pcbs : t # s => state'[t] = state[t]
  BY <1>1, <1>3 DEF TypeOK
<1>5. Established' = Established \ {s}
  BY <1>1, <1>2, <1>4, ServerTypes DEF Established, Matches
<1>6. UNCHANGED <<connectFlag, client, peer>>
  BY DEF app
<1>7. FlagInv'
  <2>1. CASE pc' = pc
    BY <1>1, <1>2, <1>3, <1>5, <1>6, <2>1, WalkChanged
  <2>2. CASE pc = "abort" /\ pc' = "detach"
    BY <1>1, <1>3, <1>5, <1>6, <2>2 DEF FlagInv
  <2> QED
    BY <2>1, <2>2
<1>8. CloseInv'
  BY <1>1, <1>3 DEF CloseInv
<1>9. TypeOK'
  <2>1. state' \in [Pcbs -> {"CLOSED", "SYN_RCVD", "ESTABLISHED", "CLOSE_WAIT", "LAST_ACK"}]
    BY <1>1, <1>3 DEF TypeOK
  <2>2. steady' \subseteq Established' /\ moved' \subseteq Pcbs
    BY <1>1, <1>3, <1>5 DEF TypeOK
  <2> QED
    BY <1>1, <1>2, <1>6, <2>1, <2>2 DEF TypeOK
<1> QED
  BY <1>1, <1>2, <1>7, <1>8, <1>9 DEF ServerInv, PrioInv, Admitted

LEMMA SynKeeps ==
  ASSUME ServerInv, misuse = "none", NEW c \in Clients, Syn(c) PROVE ServerInv'
<1> DEFINE s == Allocated
<1>1. /\ TypeOK /\ ListsInv /\ PrioInv /\ Admitted /\ CloseInv /\ FlagInv
      /\ s \in Pcbs /\ s # Null
  BY AllocatedIs, ServerTypes DEF ServerInv
<1> HIDE DEF s
<1>2. /\ pool' = Without(pool, s) /\ active' = ToFront(s)
      /\ remote' = [remote EXCEPT ![s] = c]
      /\ state' = [state EXCEPT ![s] = "SYN_RCVD"]
      /\ prio' = [prio EXCEPT ![s] = TCP_PRIO_NORMAL]
      /\ recv' = [recv EXCEPT ![s] = FALSE]
      /\ steady' = steady \ {s} /\ moved' = moved \ {s}
      /\ UNCHANGED <<refused, app, main, misuse>>
  BY <1>1 DEF Syn, s
<1>3. /\ ListsInv' /\ active' \in Seq(Pcbs) /\ pool' \in Seq(Pcbs)
      /\ ToSet(active') = ToSet(active) \cup {s}
      /\ \A r, t : r # s /\ t # s /\ UpTo(active, r, t) => UpTo(active', r, t)
      /\ \A t \in ToSet(active') : UpTo(active', s, t)
  BY <1>1, <1>2, SynLists
<1>4. \A t \in Pcbs : /\ state'[t] = IF t = s THEN "SYN_RCVD" ELSE state[t]
                      /\ t # s => remote'[t] = remote[t]
                      /\ prio'[t] = IF t = s THEN TCP_PRIO_NORMAL ELSE prio[t]
  BY <1>1, <1>2 DEF TypeOK
<1>5. Established' = Established \ {s}
  BY <1>1, <1>3, <1>4, ServerTypes DEF Established, Matches
<1>6. UNCHANGED <<connectFlag, client, peer, pc, cpcb, closing>>
  BY <1>2 DEF app, main
<1>7. FlagInv'
  BY <1>1, <1>2, <1>3, <1>5, <1>6, WalkChanged
<1>8. CloseInv' /\ Admitted'
  BY <1>1, <1>2, <1>6 DEF CloseInv, Admitted
<1>9. PrioInv'
  BY <1>1, <1>4 DEF PrioInv, TCP_PRIO_NORMAL
<1>10. TypeOK'
  <2>1. /\ state' \in [Pcbs -> {"CLOSED", "SYN_RCVD", "ESTABLISHED", "CLOSE_WAIT", "LAST_ACK"}]
        /\ remote' \in [Pcbs -> Clients \cup {Null}] /\ recv' \in [Pcbs -> BOOLEAN]
    BY <1>1, <1>2 DEF TypeOK
  <2>2. prio' \in [Pcbs -> 0..TCP_PRIO_MAX]
    BY <1>1, <1>2 DEF TypeOK, TCP_PRIO_NORMAL, TCP_PRIO_MAX
  <2>3. steady' \subseteq Established' /\ moved' \subseteq Pcbs
    BY <1>1, <1>2, <1>5 DEF TypeOK
  <2> QED
    BY <1>1, <1>2, <1>3, <1>6, <2>1, <2>2, <2>3 DEF TypeOK
<1> QED
  BY <1>2, <1>3, <1>7, <1>8, <1>9, <1>10 DEF ServerInv

LEMMA SynNoMemoryKeeps ==
  ASSUME ServerInv, misuse = "none", NEW c \in Clients, SynNoMemory(c) PROVE ServerInv'
<1> DEFINE s == Allocated
<1>1. /\ TypeOK /\ ListsInv /\ PrioInv /\ Admitted /\ CloseInv /\ FlagInv
      /\ s \in Pcbs
  BY AllocatedIs, ServerTypes DEF ServerInv
<1> HIDE DEF s
<1>2. /\ pool' = <<s>> \o Without(pool, s) /\ active' = Without(active, s)
      /\ remote' = [remote EXCEPT ![s] = c]
      /\ state' = [state EXCEPT ![s] = "CLOSED"]
      /\ prio' = [prio EXCEPT ![s] = TCP_PRIO_NORMAL]
      /\ recv' = [recv EXCEPT ![s] = FALSE]
      /\ steady' = steady \ {s} /\ moved' = moved \ {s}
      /\ UNCHANGED <<refused, app, main, misuse>>
  BY <1>1 DEF SynNoMemory, s
<1>3. /\ ListsInv' /\ active' \in Seq(Pcbs) /\ pool' \in Seq(Pcbs)
      /\ ToSet(active') = ToSet(active) \ {s}
      /\ \A r, t : r # s /\ t # s /\ UpTo(active, r, t) => UpTo(active', r, t)
  BY <1>1, <1>2, SynNoMemoryLists
<1>4. \A t \in Pcbs : /\ state'[t] = IF t = s THEN "CLOSED" ELSE state[t]
                      /\ t # s => remote'[t] = remote[t]
                      /\ prio'[t] = IF t = s THEN TCP_PRIO_NORMAL ELSE prio[t]
  BY <1>1, <1>2 DEF TypeOK
<1>5. Established' = Established \ {s}
  BY <1>1, <1>3, <1>4, ServerTypes DEF Established, Matches
<1>6. UNCHANGED <<connectFlag, client, peer, pc, cpcb, closing>>
  BY <1>2 DEF app, main
<1>7. FlagInv'
  BY <1>1, <1>2, <1>3, <1>5, <1>6, WalkChanged
<1>8. CloseInv' /\ Admitted'
  BY <1>1, <1>2, <1>6 DEF CloseInv, Admitted
<1>9. PrioInv'
  BY <1>1, <1>4 DEF PrioInv, TCP_PRIO_NORMAL
<1>10. TypeOK'
  <2>1. /\ state' \in [Pcbs -> {"CLOSED", "SYN_RCVD", "ESTABLISHED", "CLOSE_WAIT", "LAST_ACK"}]
        /\ remote' \in [Pcbs -> Clients \cup {Null}] /\ recv' \in [Pcbs -> BOOLEAN]
    BY <1>1, <1>2 DEF TypeOK
  <2>2. prio' \in [Pcbs -> 0..TCP_PRIO_MAX]
    BY <1>1, <1>2 DEF TypeOK, TCP_PRIO_NORMAL, TCP_PRIO_MAX
  <2>3. steady' \subseteq Established' /\ moved' \subseteq Pcbs
    BY <1>1, <1>2, <1>5 DEF TypeOK
  <2> QED
    BY <1>1, <1>2, <1>3, <1>6, <2>1, <2>2, <2>3 DEF TypeOK
<1> QED
  BY <1>2, <1>3, <1>7, <1>8, <1>9, <1>10 DEF ServerInv

-----------------------------------------------------------------------------
(* The invariant is kept: the main loop.                                   *)

\* A step of the main loop that leaves the connections alone.
LEMMA LoopKeeps ==
  ASSUME ServerInv, UNCHANGED <<lists, pcbs, client, peer, moved, refused>>,
         pc' \in {"loop", "write", "walk", "test", "argument", "abort", "detach"},
         connectFlag' \in {0, 1}, cpcb' \in Pcbs \cup {Null},
         closing' \in [pcb : Pcbs \cup {Null}, peer : Clients \cup {Null}],
         steady' \subseteq steady,
         misuse' \in {"none", "write", "walk", "abort", "detach"},
         IF misuse' = "walk" THEN pc' \in {"walk", "test"} ELSE FlagInv', CloseInv'
  PROVE  ServerInv'
<1>1. UNCHANGED <<pool, active, remote, state, prio, recv>>
  BY DEF lists, pcbs
<1>2. Established' = Established
  BY <1>1 DEF Established, Matches
<1>3. TypeOK'
  BY <1>1, <1>2 DEF ServerInv, TypeOK
<1>4. ListsInv' /\ PrioInv' /\ Admitted'
  BY <1>1 DEF ServerInv, ListsInv, Live, PrioInv, Admitted
<1> QED
  BY <1>3, <1>4 DEF ServerInv

LEMMA SendKeeps ==
  ASSUME ServerInv, misuse = "none", SendCheck \/ SendWrite PROVE ServerInv'
<1>1. /\ UNCHANGED <<lists, pcbs, app, cpcb, closing, steady, moved, refused>>
      /\ misuse' \in {"none", "write"}
      /\ pc \in {"loop", "write"} /\ pc' \in {"loop", "write"}
  BY DEF SendCheck, SendWrite, Step, ghosts
<1>2. FlagInv' /\ CloseInv'
  BY <1>1 DEF ServerInv, FlagInv, CloseInv, Established, Matches, lists, pcbs, app
<1>3. TypeOK /\ UNCHANGED <<connectFlag, client, peer>>
  BY <1>1 DEF ServerInv, app
<1> QED
  BY <1>1, <1>2, <1>3, LoopKeeps DEF TypeOK

\* The walk begins with all connections ahead of it.
LEMMA CheckStartKeeps == ASSUME ServerInv, misuse = "none", CheckStart PROVE ServerInv'
<1>1. /\ UNCHANGED <<pool, active, remote, state, prio, recv, client, peer, closing, refused,
                      misuse>>
      /\ pc' = "walk" /\ connectFlag' = 0 /\ cpcb' = Head0(active)
      /\ steady' = Established /\ moved' = {}
  BY DEF CheckStart, Step, lists, pcbs
<1>2. TypeOK /\ ListsInv /\ PrioInv /\ Admitted
  BY DEF ServerInv
<1>3. Established' = Established
  BY <1>1 DEF Established, Matches
<1>4. /\ active \in Seq(Pcbs) /\ DOMAIN active = 1..Len(active) /\ Len(active) \in Nat
      /\ ToSet(active) \subseteq Pcbs /\ Null \notin Pcbs /\ ~Live(Null)
  BY <1>2, ServerTypes, LenProperties
<1>5. CASE active = << >>
  <2>1. cpcb' = Null /\ Established = {}
    BY <1>1, <1>5, EmptySeq DEF Head0, Established, ToSet
  <2> QED
    BY <1>1, <1>2, <1>3, <1>4, <2>1 DEF ServerInv, TypeOK, ListsInv, Live, PrioInv, Admitted,
       FlagInv, CloseInv
<1>6. CASE active # << >>
  <2>1. cpcb' = active[1] /\ 1 \in DOMAIN active
    BY <1>1, <1>4, <1>6, EmptySeq, HeadTailProperties DEF Head0
  <2>2. cpcb' \in Pcbs
    BY <1>4, <2>1, ElementOfSeq
  <2>3. ASSUME NEW t \in Established PROVE UpTo(active, cpcb', t)
    <3>1. PICK j \in DOMAIN active : active[j] = t
      BY DEF Established, ToSet
    <3>2. 1 <= j
      BY <1>4, <3>1
    <3> QED
      BY <2>1, <3>1, <3>2 DEF UpTo
  <2>4. FlagInv'
    BY <1>1, <1>3, <1>4, <2>2, <2>3 DEF FlagInv
  <2>5. TypeOK'
    BY <1>1, <1>2, <1>3, <2>2 DEF TypeOK
  <2> QED
    BY <1>1, <1>2, <2>4, <2>5 DEF ServerInv, ListsInv, Live, PrioInv, Admitted, CloseInv
<1> QED
  BY <1>5, <1>6

\* The next pcb of the list is right behind, so none is passed by.
LEMMA SuccessorIs ==
  ASSUME TypeOK, ListsInv, Live(cpcb)
  PROVE  /\ Successor(cpcb) \in Pcbs \cup {Null}
         /\ Successor(cpcb) = Null => \A t : UpTo(active, cpcb, t) => t = cpcb
         /\ Successor(cpcb) # Null =>
              \A t : t # cpcb /\ UpTo(active, cpcb, t) => UpTo(active, Successor(cpcb), t)
<1> DEFINE later == {i \in DOMAIN active : i > 1 /\ active[i - 1] = cpcb}
<1>1. DOMAIN active = 1..Len(active) /\ Len(active) \in Nat /\ active \in Seq(Pcbs)
      /\ Null \notin Pcbs
  BY ServerTypes, LenProperties
<1>2. PICK k \in 1..Len(active) : active[k] = cpcb
  BY <1>1 DEF Live, ToSet
<1>3. \A j \in 1..Len(active) : active[j] = cpcb => j = k
  BY <1>1, <1>2 DEF ListsInv, Distinct
<1>4. ASSUME NEW t, UpTo(active, cpcb, t)
      PROVE  \E j \in 1..Len(active) : k <= j /\ active[j] = t
  BY <1>1, <1>3, <1>4 DEF UpTo
<1>5. CASE k = Len(active)
  <2>1. later = {}
    <3> SUFFICES ASSUME NEW i \in 1..Len(active), i > 1, active[i - 1] = cpcb PROVE FALSE
      BY <1>1
    <3>1. i - 1 \in 1..Len(active) /\ i - 1 # k
      BY <1>1, <1>5
    <3> QED
      BY <1>3, <3>1
  <2>2. Successor(cpcb) = Null
    BY <2>1 DEF Successor
  <2>3. ASSUME NEW t, UpTo(active, cpcb, t) PROVE t = cpcb
    <3>1. PICK j \in 1..Len(active) : k <= j /\ active[j] = t
      BY <1>4, <2>3
    <3>2. \A m \in Nat : \A a, b \in 1..m : a = m /\ a <= b => b = a
      OBVIOUS
    <3>3. j = k
      BY <1>1, <1>2, <1>5, <3>1, <3>2
    <3> QED
      BY <1>2, <3>1, <3>3
  <2> QED
    BY <2>2, <2>3
<1>6. CASE k # Len(active)
  <2>0. \A m \in Nat : \A a \in 1..m :
          a # m => a + 1 \in 1..m /\ (a + 1) - 1 = a /\ a + 1 > 1
    OBVIOUS
  <2>00. k + 1 \in 1..Len(active) /\ (k + 1) - 1 = k /\ k + 1 > 1
    BY <1>1, <1>2, <1>6, <2>0
  <2>1. PICK n \in 1..Len(active) : n = k + 1 /\ n - 1 = k /\ n > 1
    BY <2>00
  <2>2. later = {n}
    <3>1. n \in later
      BY <1>1, <1>2, <2>1
    <3>2. ASSUME NEW i \in later PROVE i = n
      <4>1. i \in 1..Len(active) /\ i > 1 /\ active[i - 1] = cpcb
        BY <1>1
      <4>2. i - 1 \in 1..Len(active)
        BY <1>1, <4>1
      <4>3. i - 1 = k
        BY <1>3, <4>1, <4>2
      <4> QED
        BY <2>1, <4>1, <4>3
    <3> HIDE DEF later
    <3> QED
      BY <3>1, <3>2
  <2>3. Min({n}) = n
    BY <2>1 DEF Min
  <2>4. Successor(cpcb) = active[n] /\ active[n] \in Pcbs
    BY <1>1, <2>2, <2>3, ElementOfSeq DEF Successor
  <2>5. ASSUME NEW t, t # cpcb, UpTo(active, cpcb, t) PROVE UpTo(active, active[n], t)
    <3>1. PICK j \in 1..Len(active) : k <= j /\ active[j] = t
      BY <1>4, <2>5
    <3>2. j # k
      BY <1>2, <2>5, <3>1
    <3>3. n <= j
      BY <2>1, <3>1, <3>2
    <3> QED
      BY <1>1, <3>1, <3>3 DEF UpTo
  <2> QED
    BY <1>1, <2>4, <2>5
<1> QED
  BY <1>5, <1>6

LEMMA CheckPcbKeeps == ASSUME ServerInv, misuse = "none", CheckPcb PROVE ServerInv'
<1>1. /\ UNCHANGED <<lists, pcbs, client, peer, closing, steady, moved, refused>>
      /\ pc = "walk" /\ cpcb # Null /\ cpcb \in Pcbs
      /\ misuse' = IF Live(cpcb) THEN "none" ELSE "walk"
  BY DEF CheckPcb, ServerInv, TypeOK
<1>2. TypeOK /\ ListsInv /\ FlagInv
  BY DEF ServerInv
<1>3. UNCHANGED <<pool, active, remote, state>> /\ Established' = Established
  BY <1>1 DEF lists, pcbs, Established, Matches
<1>4. CASE Matches(cpcb)
  <2>1. connectFlag' = 1 /\ pc' = "test" /\ cpcb' = cpcb
    BY <1>4 DEF CheckPcb
  <2>2. FlagInv' /\ CloseInv'
    BY <2>1 DEF FlagInv, CloseInv
  <2> QED
    BY <1>1, <1>2, <2>1, <2>2, LoopKeeps DEF TypeOK
<1>5. CASE ~Matches(cpcb)
  <2>1. connectFlag' = connectFlag /\ pc' = "walk" /\ cpcb' = Successor(cpcb)
    BY <1>1, <1>5 DEF CheckPcb
  <2>2. CloseInv'
    BY <2>1 DEF CloseInv
  <2>3. CASE Live(cpcb)
    <3>1. /\ cpcb' \in Pcbs \cup {Null}
          /\ cpcb' = Null => \A t : UpTo(active, cpcb, t) => t = cpcb
          /\ cpcb' # Null => \A t : t # cpcb /\ UpTo(active, cpcb, t) => UpTo(active, cpcb', t)
      BY <1>2, <2>1, <2>3, SuccessorIs
    <3>2. cpcb \notin Established
      BY <1>5 DEF Established
    <3>3. connectFlag = 0 => \A t \in Established \ moved : UpTo(active, cpcb, t)
      BY <1>1, <1>2, <2>3 DEF FlagInv
    <3>4. cpcb' = Null => ~Live(cpcb)'
      BY <1>2, <1>3, ServerTypes DEF Live
    <3>5. FlagInv'
      <4>1. CASE cpcb' = Null
        BY <1>1, <1>3, <2>1, <3>1, <3>2, <3>3, <3>4, <4>1 DEF FlagInv
      <4>2. CASE cpcb' # Null
        BY <1>1, <1>3, <2>1, <3>1, <3>2, <3>3, <4>2 DEF FlagInv
      <4> QED
        BY <4>1, <4>2
    <3> QED
      BY <1>1, <1>2, <2>1, <2>2, <2>3, <3>1, <3>5, LoopKeeps DEF TypeOK
  <2>4. CASE ~Live(cpcb)
    <3>1. cpcb' \in Pcbs \cup {Null}
      <4>1. DOMAIN active = 1..Len(active) /\ Len(active) \in Nat /\ active \in Seq(Pcbs)
        BY <1>2, ServerTypes, LenProperties
      <4>2. {i \in DOMAIN active : i > 1 /\ active[i - 1] = cpcb} = {}
        <5> SUFFICES ASSUME NEW i \in 1..Len(active), i > 1, active[i - 1] = cpcb PROVE FALSE
          BY <4>1
        <5>1. i - 1 \in DOMAIN active
          BY <4>1
        <5> QED
          BY <2>4, <5>1 DEF Live, ToSet
      <4> QED
        BY <2>1, <4>2 DEF Successor
    <3> QED
      BY <1>1, <1>2, <2>1, <2>2, <2>4, <3>1, LoopKeeps DEF TypeOK
  <2> QED
    BY <2>3, <2>4
<1> QED
  BY <1>4, <1>5

LEMMA CheckEndKeeps == ASSUME ServerInv, misuse = "none", CheckEnd PROVE ServerInv'
<1>1. /\ UNCHANGED <<lists, pcbs, app, cpcb, closing, steady, moved, refused, misuse>>
      /\ pc = "walk" /\ pc' = "test" /\ cpcb = Null
  BY DEF CheckEnd, Step, ghosts
<1>2. TypeOK /\ FlagInv /\ UNCHANGED <<connectFlag, client, peer>>
  BY <1>1 DEF ServerInv, app
<1>3. FlagInv' /\ CloseInv'
  BY <1>1, <1>2 DEF FlagInv, CloseInv, Established, Matches, lists, pcbs
<1> QED
  BY <1>1, <1>2, <1>3, LoopKeeps DEF TypeOK

\* The check goes on to close with the flag down: no connection is left that it has seen
\* when it began, but for those that were moved past it.
LEMMA CheckFlagKeeps == ASSUME ServerInv, misuse = "none", CheckFlag PROVE ServerInv'
<1>1. /\ UNCHANGED <<lists, pcbs, app, cpcb, closing, moved, refused, misuse>>
      /\ pc = "test"
      /\ \/ connectFlag = 1 /\ pc' = "loop" /\ steady' = {}
         \/ connectFlag # 1 /\ pc' = "argument" /\ steady' = steady
  BY DEF CheckFlag, Step
<1>2. TypeOK /\ FlagInv /\ UNCHANGED <<connectFlag, client, peer>>
  BY <1>1 DEF ServerInv, app
<1>3. FlagInv'
  BY <1>1, <1>2 DEF FlagInv, Established, Matches, lists, pcbs
<1>4. CloseInv'
  BY <1>1, <1>2 DEF FlagInv, CloseInv, TypeOK
<1>5. steady' \subseteq steady
  BY <1>1
<1> QED
  BY <1>1, <1>2, <1>3, <1>4, <1>5, LoopKeeps DEF TypeOK

LEMMA CloseArgumentKeeps ==
  ASSUME ServerInv, misuse = "none", CloseArgument PROVE ServerInv'
<1>1. /\ UNCHANGED <<lists, pcbs, app, cpcb, steady, moved, refused, misuse>>
      /\ pc = "argument" /\ pc' = "abort" /\ closing' = [pcb |-> client, peer |-> peer]
  BY DEF CloseArgument, Step, ghosts
<1>2. TypeOK /\ FlagInv /\ CloseInv /\ UNCHANGED <<connectFlag, client, peer>>
  BY <1>1 DEF ServerInv, app
<1>3. FlagInv' /\ CloseInv'
  BY <1>1, <1>2 DEF FlagInv, CloseInv, Established, Matches, lists, pcbs
<1>4. closing' \in [pcb : Pcbs \cup {Null}, peer : Clients \cup {Null}]
  BY <1>1, <1>2 DEF TypeOK
<1> QED
  BY <1>1, <1>2, <1>3, <1>4, LoopKeeps DEF TypeOK

LEMMA AbortKeeps == ASSUME ServerInv, misuse = "none", Abort PROVE ServerInv'
<1>1. /\ UNCHANGED <<remote, prio, recv, app, cpcb, closing, refused>>
      /\ pc = "abort" /\ pc' = "detach"
  BY DEF Abort, Step
<1>2. CASE LeadsTo(closing.pcb, closing.peer)
  <2>1. closing.pcb \in ToSet(active) /\ Free(closing.pcb) /\ misuse' = misuse
    BY <1>2 DEF Abort, LeadsTo, Live
  <2> QED
    BY <1>1, <2>1, FreeKeeps
<1>3. CASE ~LeadsTo(closing.pcb, closing.peer)
  <2>1. misuse' = "abort" /\ UNCHANGED <<lists, state, steady, moved>>
    BY <1>3 DEF Abort
  <2>2. TypeOK /\ FlagInv /\ UNCHANGED <<connectFlag, client, peer>>
    BY <1>1 DEF ServerInv, app
  <2>3. FlagInv' /\ CloseInv'
    BY <1>1, <2>1, <2>2 DEF FlagInv, CloseInv, Established, Matches, lists
  <2>4. TypeOK /\ ListsInv /\ PrioInv /\ Admitted
    BY DEF ServerInv
  <2>5. /\ connectFlag' \in {0, 1} /\ cpcb' \in Pcbs \cup {Null}
        /\ steady' \subseteq steady
    BY <1>1, <2>1, <2>4 DEF TypeOK, app
  <2>6. /\ closing' \in [peer : Clients \cup {Null}, pcb : Pcbs \cup {Null}]
        /\ UNCHANGED <<lists, pcbs, client, peer, moved, refused>>
    BY <1>1, <2>1, <2>4 DEF TypeOK, pcbs, app
  <2> QED
    BY <1>1, <2>1, <2>3, <2>5, <2>6, LoopKeeps
<1> QED
  BY <1>2, <1>3

LEMMA DetachKeeps == ASSUME ServerInv, misuse = "none", Detach PROVE ServerInv'
<1>1. /\ UNCHANGED <<pool, active, remote, state, prio, connectFlag, client, peer, cpcb,
                      closing, moved, refused>>
      /\ pc = "detach" /\ pc' = "loop" /\ steady' = {}
      /\ misuse' \in {"none", "detach"}
      /\ recv' = [recv EXCEPT ![closing.pcb] = FALSE]
  BY DEF Detach, Step, lists, app
<1>2. TypeOK /\ ListsInv /\ PrioInv /\ Admitted /\ FlagInv
  BY DEF ServerInv
<1>3. Established' = Established
  BY <1>1 DEF Established, Matches
<1>4. TypeOK'
  <2>1. recv' \in [Pcbs -> BOOLEAN]
    BY <1>1, <1>2 DEF TypeOK
  <2> QED
    BY <1>1, <1>2, <2>1 DEF TypeOK
<1>5. FlagInv' /\ CloseInv' /\ ListsInv' /\ PrioInv' /\ Admitted'
  BY <1>1, <1>2, <1>3 DEF FlagInv, CloseInv, ListsInv, Live, PrioInv, Admitted
<1> QED
  BY <1>1, <1>4, <1>5 DEF ServerInv

LEMMA ResetKeeps ==
  ASSUME ServerInv, misuse = "none", NEW s \in ToSet(active), Reset(s) \/ Expire(s)
  PROVE  ServerInv'
<1>1. Free(s) /\ UNCHANGED <<remote, prio, recv, app, main, refused, misuse>>
  BY DEF Reset, Expire
<1>2. UNCHANGED <<remote, prio, recv, app, cpcb, closing, refused>> /\ pc' = pc
  BY <1>1 DEF main
<1>3. UNCHANGED <<remote, prio, recv, app, cpcb, closing, refused, misuse>>
  BY <1>1, <1>2
<1>4. pc' = pc \/ (pc = "abort" /\ pc' = "detach")
  BY <1>2
<1>5. Free(s)
  BY <1>1
<1> QED
  BY <1>3, <1>4, <1>5, FreeKeeps

LEMMA ServerStep == ServerInv /\ [Next]_vars => ServerInv'
<1> SUFFICES ASSUME ServerInv, [Next]_vars PROVE ServerInv'
  OBVIOUS
<1>1. CASE misuse = "none" /\ \E c \in Clients : Syn(c) \/ SynNoMemory(c)
  BY <1>1, SynKeeps, SynNoMemoryKeeps
<1>2. ASSUME misuse = "none", NEW s \in ToSet(active),
             Establish(s) \/ Data(s) \/ Ack(s) \/ Fin(s)
      PROVE  ServerInv'
  BY <1>2, EstablishKeeps, DataKeeps, AckKeeps, FinKeeps
<1>3. ASSUME misuse = "none", NEW s \in ToSet(active), Reset(s) \/ Expire(s)
      PROVE  ServerInv'
  BY <1>3, ResetKeeps
<1>4. CASE misuse = "none" /\ (SendCheck \/ SendWrite)
  BY <1>4, SendKeeps
<1>5. CASE misuse = "none" /\ CheckForConnection
  BY <1>5, CheckStartKeeps, CheckPcbKeeps, CheckEndKeeps, CheckFlagKeeps,
     CloseArgumentKeeps, AbortKeeps, DetachKeeps DEF CheckForConnection
<1>6. CASE UNCHANGED vars
  <2>1. UNCHANGED <<pool, active, remote, state, prio, recv, connectFlag, client, peer, pc,
                     cpcb, closing, steady, moved, refused, misuse>>
    BY <1>6 DEF vars, lists, pcbs, app, main, ghosts
  <2>2. Established' = Established
    BY <2>1 DEF Established, Matches
  <2> QED
    BY <2>1, <2>2 DEF ServerInv, TypeOK, ListsInv, Live, PrioInv, Admitted, FlagInv, CloseInv
<1> QED
  BY <1>1, <1>2, <1>3, <1>4, <1>5, <1>6 DEF Next, Segment

LEMMA ServerAlways == Spec => []ServerInv
BY ServerInit, ServerStep, PTL DEF Spec

-----------------------------------------------------------------------------
(* The theorems.                                                           *)

\* Every pcb is free or active, once, and an active one is not closed, however many
\* clients there are and in whatever order their connections come and go
\* (the assertion tcp_in.c:171).
THEOREM PoolIsSound == Spec => []PoolSound
<1>1. ServerInv => PoolSound
  <2> SUFFICES ASSUME ServerInv PROVE PoolSound
    OBVIOUS
  <2> DEFINE all == pool \o active
  <2>1. /\ TypeOK /\ ListsInv /\ pool \in Seq(Pcbs) /\ active \in Seq(Pcbs)
        /\ DOMAIN pool = 1..Len(pool) /\ DOMAIN active = 1..Len(active)
        /\ Len(pool) \in Nat /\ Len(active) \in Nat
    BY ServerTypes, LenProperties DEF ServerInv
  <2>2. /\ all \in Seq(Pcbs) /\ Len(all) = Len(pool) + Len(active)
        /\ \A i \in 1..Len(pool) + Len(active) :
             all[i] = IF i <= Len(pool) THEN pool[i] ELSE active[i - Len(pool)]
    BY <2>1, ConcatProperties
  <2>3. DOMAIN all = 1..Len(pool) + Len(active)
    BY <2>2, LenProperties
  <2> HIDE DEF all
  <2>4. ASSUME NEW s \in Pcbs PROVE s \in ToSet(all)
    <3>1. CASE s \in ToSet(pool)
      <4>1. PICK i \in 1..Len(pool) : pool[i] = s
        BY <2>1, <3>1 DEF ToSet
      <4>2. i \in 1..Len(pool) + Len(active) /\ i <= Len(pool)
        BY <2>1
      <4> QED
        BY <2>2, <2>3, <4>1, <4>2 DEF ToSet
    <3>2. CASE s \in ToSet(active)
      <4>1. PICK j \in 1..Len(active) : active[j] = s
        BY <2>1, <3>2 DEF ToSet
      <4>2. PICK i \in 1..Len(pool) + Len(active) : ~(i <= Len(pool)) /\ i - Len(pool) = j
        <5>1. Len(pool) + j \in 1..Len(pool) + Len(active) /\ Len(pool) + j - Len(pool) = j
              /\ ~(Len(pool) + j <= Len(pool))
          BY <2>1
        <5> QED
          BY <5>1
      <4> QED
        BY <2>2, <2>3, <4>1, <4>2 DEF ToSet
    <3> QED
      BY <2>1, <3>1, <3>2 DEF ListsInv
  <2>5. ToSet(all) \subseteq Pcbs
    BY <2>2, <2>3, ElementOfSeq DEF ToSet
  <2> QED
    BY <2>1, <2>2, <2>4, <2>5 DEF PoolSound, ListsInv, all
<1> QED
  BY <1>1, ServerAlways, PTL

\* A SYN always gets a pcb: the connections the program has accepted are of the lowest
\* priority, and so is what it has forgotten (tcpserver.c:37, tcp_kill_prio).
THEOREM AllAdmitted == Spec => []Admitted
<1>1. ServerInv => Admitted
  BY DEF ServerInv
<1> QED
  BY <1>1, ServerAlways, PTL

\* Outside a check the flag is up over each established connection to the server
\* port, but for one that was moved past the walk (tcpserver.c:104 to 116).
THEOREM FlagCovers == Spec => []FlagCoversConnection
<1>1. ServerInv => FlagCoversConnection
  <2> SUFFICES ASSUME ServerInv, pc \notin {"walk", "test"}, Established \ moved # {}
               PROVE  connectFlag = 1
    BY DEF FlagCoversConnection
  <2>1. FlagInv /\ connectFlag \in {0, 1}
    BY DEF ServerInv, TypeOK
  <2> QED
    BY <2>1 DEF FlagInv
<1> QED
  BY <1>1, ServerAlways, PTL

\* The check closes no connection that was established when it began and still is,
\* but for one that a segment has moved past the walk (tcpserver.c:118).
THEOREM SteadyIsKept == Spec => SteadyKept
<1>1. ServerInv /\ [Next]_vars => [Aborting => closing.pcb \notin steady \ moved]_vars
  BY DEF ServerInv, CloseInv, Aborting
<1> QED
  BY <1>1, ServerAlways, PTL DEF Spec, SteadyKept
=============================================================================
