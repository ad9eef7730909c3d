----------------------------- MODULE EthRxProof -----------------------------
(***************************************************************************)
(* Proofs about reception (module EthRx).                                  *)
(***************************************************************************)
EXTENDS EthRx, SequenceTheorems, TLAPS

-----------------------------------------------------------------------------
(* The invariant.                                                          *)

\* How far d is behind b on the chain.
Pos(b, d) == IF d >= b THEN d - b ELSE d - b + RxBufs

\* With the ownership o, the driver's descriptors begin at b and end before m.
Count(o, b, m) == IF m # b THEN Pos(b, m) ELSE IF o[b] THEN 0 ELSE RxBufs
Ring(o, b, m) == \A d \in Descriptors : ~o[d] <=> Pos(b, d) < Count(o, b, m)

\* The first of them: the handler is ahead of the one it is about to give back.
Base == IF pc \in {"copy", "release"} THEN cur ELSE get
RingInv == Ring(own, Base, dma)

\* The frames in the chain are in order from the base on, behind all that was
\* taken; only the two pieces of a long frame are one frame.
OrderInv ==
  /\ \A d \in Descriptors :
       ~own[d] => held[d] > 0 /\ \A i \in 1..Len(input) : input[i] < held[d]
  /\ \A d, e \in Descriptors :
       ~own[d] /\ ~own[e] /\ Pos(Base, d) < Pos(Base, e) =>
         held[d] <= held[e] /\ (part[d] = "whole" => held[d] < held[e])
  /\ \A i, j \in 1..Len(input) : i < j => input[i] < input[j]

\* What the handler knows between its statements.
HandlerInv ==
  /\ pc = "take" => ~own[get] /\ part[get] = "whole"
  /\ pc \in {"copy", "release"} =>
       get = NextDesc(cur) /\ ~own[cur] /\ part[cur] = "whole"
  /\ pc = "release" => p = held[cur] \/ (p = 0 /\ held[cur] \in missed)
  /\ p # 0 => /\ pc \in {"release", "resume", "input"}
              /\ \A i \in 1..Len(input) : input[i] < p
  /\ p # 0 /\ pc # "release" => \A d \in Descriptors : ~own[d] => p < held[d]

\* When the handler has found nothing to take, all that is in the chain is late,
\* or behind a piece of a long frame.
LateInv ==
  pc \in {"clearR", "clearNIS"} \/ Quiet =>
    Jammed \/ \A d \in Descriptors : ~own[d] => held[d] \in late

RxInv == TypeOK /\ RingInv /\ OrderInv /\ Accounted /\ HandlerInv /\ LateInv

-----------------------------------------------------------------------------
(* The ring.                                                               *)

LEMMA NextDescIs ==
  ASSUME NEW d \in Descriptors
  PROVE  /\ NextDesc(d) = IF d = RxBufs - 1 THEN 0 ELSE d + 1
         /\ NextDesc(d) \in Descriptors
         /\ NextDesc(d) # d
<1>1. RxBufs \in Nat \ {0, 1} /\ d \in 0..RxBufs - 1
  BY RxAssumption DEF Descriptors
<1>2. RxBufs % RxBufs = 0
  BY <1>1
<1>3. d # RxBufs - 1 => (d + 1) % RxBufs = d + 1
  BY <1>1
<1> QED
  BY <1>1, <1>2, <1>3 DEF NextDesc, Descriptors

\* Distances of the code's arithmetic are positions.
LEMMA DistanceIsPos ==
  ASSUME NEW d \in Descriptors, NEW b \in Descriptors
  PROVE  (d - b) % RxBufs = Pos(b, d)
<1>1. RxBufs \in Nat \ {0} /\ d \in 0..RxBufs - 1 /\ b \in 0..RxBufs - 1
  BY RxAssumption DEF Descriptors
<1>2. CASE d >= b
  <2>1. d - b \in 0..RxBufs - 1
    BY <1>1, <1>2
  <2>2. (d - b) % RxBufs = d - b
    BY <1>1, <2>1
  <2> QED
    BY <1>2, <2>2 DEF Pos
<1>3. CASE d < b
  <2>1. d - b \in -(RxBufs - 1)..-1
    BY <1>1, <1>3
  <2>2. (d - b) % RxBufs = d - b + RxBufs
    BY <1>1, <2>1
  <2> QED
    BY <1>1, <1>3, <2>2 DEF Pos
<1> QED
  BY <1>1, <1>2, <1>3

LEMMA PosIs ==
  ASSUME NEW b \in Descriptors
  PROVE  /\ Pos(b, b) = 0
         /\ \A d \in Descriptors : Pos(b, d) \in 0..RxBufs - 1
         /\ \A d, e \in Descriptors : Pos(b, d) = Pos(b, e) => d = e
         /\ \A d \in Descriptors : NextDesc(d) # b => Pos(b, NextDesc(d)) = Pos(b, d) + 1
         /\ \A d \in Descriptors : NextDesc(d) = b => Pos(b, d) = RxBufs - 1
<1>1. RxBufs \in Nat \ {0} /\ b \in 0..RxBufs - 1
  BY RxAssumption DEF Descriptors
<1>2. \A d \in Descriptors : NextDesc(d) = IF d = RxBufs - 1 THEN 0 ELSE d + 1
  BY NextDescIs
<1> QED
  BY <1>1, <1>2 DEF Pos, Descriptors

\* From the next descriptor everything is one closer, and what was nearest is last.
LEMMA PosMoves ==
  ASSUME NEW b \in Descriptors, NEW d \in Descriptors
  PROVE  Pos(NextDesc(b), d) = IF d = b THEN RxBufs - 1 ELSE Pos(b, d) - 1
<1>1. RxBufs \in Nat \ {0} /\ d \in 0..RxBufs - 1 /\ b \in 0..RxBufs - 1
  BY RxAssumption DEF Descriptors
<1>2. NextDesc(b) = IF b = RxBufs - 1 THEN 0 ELSE b + 1
  BY NextDescIs
<1> QED
  BY <1>1, <1>2 DEF Pos

\* The DMA fills the descriptor it is at.
LEMMA Fills ==
  ASSUME NEW o \in [Descriptors -> BOOLEAN], NEW b \in Descriptors, NEW m \in Descriptors,
         Ring(o, b, m), o[m],
         NEW o2 \in [Descriptors -> BOOLEAN],
         \A d \in Descriptors : o2[d] <=> o[d] /\ d # m
  PROVE  Ring(o2, b, NextDesc(m))
<1>1. NextDesc(m) \in Descriptors /\ RxBufs \in Nat \ {0}
  BY NextDescIs, RxAssumption
<1>2. /\ Pos(b, b) = 0 /\ Pos(b, m) \in 0..RxBufs - 1
      /\ \A d \in Descriptors :
            Pos(b, d) \in 0..RxBufs - 1 /\ (Pos(b, d) = Pos(b, m) => d = m)
  BY PosIs
<1>3. Count(o, b, m) = Pos(b, m)
  BY <1>2 DEF Count
<1>4. \A d \in Descriptors : ~o[d] <=> Pos(b, d) < Pos(b, m)
  BY <1>3 DEF Ring
<1>5. Count(o2, b, NextDesc(m)) = Pos(b, m) + 1
  <2>1. CASE NextDesc(m) = b
    <3>1. Pos(b, m) = RxBufs - 1
      BY <2>1, PosIs
    <3>2. ~o2[b]
      BY <1>2, <1>4
    <3> QED
      BY <1>1, <2>1, <3>1, <3>2 DEF Count
  <2>2. CASE NextDesc(m) # b
    BY <2>2, PosIs DEF Count
  <2> QED
    BY <2>1, <2>2
<1>6. \A d \in Descriptors : ~o2[d] <=> Pos(b, d) < Pos(b, m) + 1
  BY <1>2, <1>4
<1> QED
  BY <1>5, <1>6 DEF Ring

\* The handler gives the first one back.
LEMMA Empties ==
  ASSUME NEW o \in [Descriptors -> BOOLEAN], NEW b \in Descriptors, NEW m \in Descriptors,
         Ring(o, b, m), ~o[b],
         NEW o2 \in [Descriptors -> BOOLEAN],
         \A d \in Descriptors : o2[d] <=> o[d] \/ d = b
  PROVE  Ring(o2, NextDesc(b), m)
<1> DEFINE n == NextDesc(b)
<1>1. n \in Descriptors /\ n # b /\ RxBufs \in Nat \ {0, 1}
  BY NextDescIs, RxAssumption
<1>2. Pos(b, b) = 0 /\ \A d \in Descriptors : Pos(b, d) \in 0..RxBufs - 1
  BY PosIs
<1>3. \A d \in Descriptors : Pos(n, d) = IF d = b THEN RxBufs - 1 ELSE Pos(b, d) - 1
  BY PosMoves
<1>4. \A d \in Descriptors : Pos(b, d) = 0 => d = b
  BY <1>2, PosIs
<1>5. Pos(b, n) = 1
  BY <1>1, <1>2, PosIs
<1>6. \A d \in Descriptors : ~o[d] <=> Pos(b, d) < Count(o, b, m)
  BY DEF Ring
<1>7. Count(o2, n, m) = Count(o, b, m) - 1
  <2>1. CASE m = b
    BY <1>1, <1>3, <2>1 DEF Count
  <2>2. CASE m = n
    <3>1. Count(o, b, m) = 1
      BY <1>1, <1>5, <2>2 DEF Count
    <3>2. o2[n]
      BY <1>1, <1>5, <1>6, <3>1
    <3> QED
      BY <2>2, <3>1, <3>2 DEF Count
  <2>3. CASE m # b /\ m # n
    BY <1>3, <2>3 DEF Count
  <2> QED
    BY <2>1, <2>2, <2>3
<1>8. Count(o, b, m) \in 0..RxBufs
  BY <1>1, <1>2 DEF Count
<1>9. \A d \in Descriptors : ~o2[d] <=> Pos(n, d) < Count(o2, n, m)
  <2> SUFFICES ASSUME NEW d \in Descriptors
               PROVE  ~o2[d] <=> Pos(n, d) < Count(o2, n, m)
    OBVIOUS
  <2>1. CASE d = b
    BY <1>1, <1>3, <1>7, <1>8, <2>1
  <2>2. CASE d # b
    BY <1>1, <1>2, <1>3, <1>6, <1>7, <1>8, <2>2
  <2> QED
    BY <2>1, <2>2
<1> QED
  BY <1>9 DEF Ring

-----------------------------------------------------------------------------
(* The controller keeps the invariant.                                     *)

LEMMA TypeFacts ==
  ASSUME TypeOK
  PROVE  /\ {dma, get, cur, Base} \subseteq Descriptors /\ arrived \in Nat
         /\ own \in [Descriptors -> BOOLEAN]
         /\ \A d \in Descriptors : held[d] \in 0..arrived
         /\ Len(input) \in Nat /\ DOMAIN input = 1..Len(input)
         /\ \A i \in 1..Len(input) : input[i] \in 1..arrived
<1>1. /\ {dma, get, cur, Base} \subseteq Descriptors /\ arrived \in Nat
      /\ own \in [Descriptors -> BOOLEAN]
      /\ \A d \in Descriptors : held[d] \in 0..arrived
  BY RxAssumption DEF TypeOK, Base
<1>2. input \in Seq(1..arrived)
  BY DEF TypeOK
<1> QED
  BY <1>1, <1>2, ElementOfSeq, LenProperties

LEMMA RxInit == Init => RxInv
<1> SUFFICES ASSUME Init PROVE RxInv
  OBVIOUS
<1>1. RxBufs \in Nat \ {0, 1} /\ MaxFrames \in Nat /\ 0 \in Descriptors
  BY RxAssumption DEF Descriptors
<1>2. /\ \A d \in Descriptors : own[d]
      /\ input = << >> /\ Len(input) = 0 /\ p = 0 /\ pc = "idle" /\ dma = 0 /\ get = 0
      /\ arrived = 0
  BY DEF Init
<1>3. TypeOK
  BY <1>1 DEF Init, TypeOK
<1>4. Pos(0, 0) = 0 /\ \A d \in Descriptors : Pos(0, d) \in 0..RxBufs - 1
  BY <1>1, PosIs
<1>5. RingInv
  <2>1. Base = 0 /\ Count(own, 0, 0) = 0
    BY <1>1, <1>2 DEF Base, Count
  <2> QED
    BY <1>2, <1>4, <2>1 DEF RingInv, Ring
<1>6. OrderInv /\ Accounted /\ HandlerInv /\ LateInv
  BY <1>2 DEF OrderInv, Accounted, HandlerInv, LateInv
<1> QED
  BY <1>3, <1>5, <1>6 DEF RxInv

\* A frame that comes in takes some of the DMA's descriptors.
LEMMA Stores ==
  ASSUME RxInv, Arrives,
         NEW used \in SUBSET Descriptors, \A d \in used : own[d],
         own' = [d \in Descriptors |-> own[d] /\ d \notin used],
         held' = [d \in Descriptors |-> IF d \in used THEN Frame ELSE held[d]],
         part' \in [Descriptors -> {"whole", "first", "last", "error"}],
         \A d \in Descriptors \ used : part'[d] = part[d],
         \A d, e \in used : Pos(Base, d) < Pos(Base, e) => part'[d] # "whole",
         used # {},
         dma' \in Descriptors, Ring(own', Base, dma'),
         rs' = TRUE, nis' = TRUE, rbus' \in BOOLEAN,
         UNCHANGED <<handler, missed, input>>
  PROVE  RxInv'
<1>1. TypeOK
  BY DEF RxInv
<1>2. /\ {dma, get, cur, Base} \subseteq Descriptors /\ arrived \in Nat
      /\ \A d \in Descriptors : held[d] \in 0..arrived
      /\ Len(input) \in Nat /\ \A i \in 1..Len(input) : input[i] \in 1..arrived
  BY <1>1, TypeFacts
<1>3. /\ Frame = arrived + 1 /\ arrived' = arrived + 1 /\ arrived' \in 0..MaxFrames
      /\ late' = IF pc \in {"clearR", "clearNIS"} THEN late \cup {Frame} ELSE late
      /\ UNCHANGED <<pc, get, cur, p, missed, input>>
  BY <1>2, RxAssumption DEF Arrives, Frame, handler
<1>4. /\ \A d \in Descriptors : own'[d] <=> own[d] /\ d \notin used
      /\ \A d \in used : held'[d] = arrived + 1
      /\ \A d \in Descriptors \ used : held'[d] = held[d]
      /\ Base' = Base
  BY <1>1, <1>3 DEF TypeOK, Base
<1>5. input \in Seq(1..arrived')
  <2>1. 1..arrived \subseteq 1..arrived'
    BY <1>2, <1>3
  <2>2. input \in Seq(1..arrived)
    BY <1>1 DEF TypeOK
  <2> QED
    BY <2>1, <2>2, SeqMonotonic
<1>6. TypeOK'
  <2>1. held' \in [Descriptors -> 0..arrived'] /\ own' \in [Descriptors -> BOOLEAN]
    BY <1>1, <1>2, <1>3 DEF TypeOK
  <2>2. /\ p \in 0..arrived' /\ missed \subseteq 1..arrived' /\ late' \subseteq 1..arrived'
    BY <1>1, <1>2, <1>3 DEF TypeOK
  <2> QED
    BY <1>1, <1>3, <1>5, <2>1, <2>2 DEF TypeOK
<1>7. RingInv'
  BY <1>4 DEF RingInv
<1>8. OrderInv'
  <2>1. /\ \A d \in Descriptors :
             ~own[d] => held[d] > 0 /\ \A i \in 1..Len(input) : input[i] < held[d]
        /\ \A d, e \in Descriptors :
             ~own[d] /\ ~own[e] /\ Pos(Base, d) < Pos(Base, e) =>
               held[d] <= held[e] /\ (part[d] = "whole" => held[d] < held[e])
        /\ \A i, j \in 1..Len(input) : i < j => input[i] < input[j]
    BY DEF RxInv, OrderInv
  <2>2. \A d \in Descriptors :
          ~own'[d] => held'[d] > 0 /\ \A i \in 1..Len(input) : input[i] < held'[d]
    <3> SUFFICES ASSUME NEW d \in Descriptors, ~own'[d]
                 PROVE  held'[d] > 0 /\ \A i \in 1..Len(input) : input[i] < held'[d]
      OBVIOUS
    <3>1. CASE d \in used
      <4>1. held'[d] = arrived + 1
        BY <1>4, <3>1
      <4>2. \A i \in 1..Len(input) : input[i] <= arrived
        BY <1>2
      <4> QED
        BY <1>2, <4>1, <4>2
    <3>2. CASE d \notin used
      <4>1. ~own[d] /\ held'[d] = held[d]
        BY <1>4, <3>2
      <4> QED
        BY <2>1, <4>1
    <3> QED
      BY <3>1, <3>2
  <2>3. ASSUME NEW d \in Descriptors, NEW e \in Descriptors, ~own'[d], ~own'[e],
               Pos(Base, d) < Pos(Base, e)
        PROVE  held'[d] <= held'[e] /\ (part'[d] = "whole" => held'[d] < held'[e])
    <3>1. CASE d \in used
      <4>1. e \in used
        <5>1. Pos(Base, d) \in Int /\ Pos(Base, e) \in Int /\ Count(own, Base, dma) \in Int
          BY <1>2, PosIs, RxAssumption DEF Count
        <5>2. /\ ~(Pos(Base, d) < Count(own, Base, dma))
              /\ ~own[e] => Pos(Base, e) < Count(own, Base, dma)
          BY <3>1 DEF RxInv, RingInv, Ring
        <5> QED
          BY <1>4, <2>3, <5>1, <5>2
      <4>2. held'[d] = arrived + 1 /\ held'[e] = arrived + 1
        BY <1>4, <3>1, <4>1
      <4>3. part'[d] # "whole"
        BY <2>3, <3>1, <4>1
      <4> QED
        BY <1>2, <4>2, <4>3
    <3>2. CASE d \notin used /\ e \in used
      <4>1. held'[d] = held[d] /\ held[d] \in 0..arrived /\ held'[e] = arrived + 1
        BY <1>2, <1>4, <3>2
      <4> QED
        BY <1>2, <4>1
    <3>3. CASE d \notin used /\ e \notin used
      <4>1. /\ ~own[d] /\ ~own[e] /\ part'[d] = part[d]
            /\ held'[d] = held[d] /\ held'[e] = held[e]
        BY <1>4, <2>3, <3>3
      <4> QED
        BY <2>1, <2>3, <4>1
    <3> QED
      BY <3>1, <3>2, <3>3
  <2> QED
    BY <1>3, <1>4, <2>1, <2>2, <2>3 DEF OrderInv, Pos
<1>9. \A k : InChain(k) => InChain(k)'
  BY <1>4 DEF InChain
<1>10. Accounted'
  <2> SUFFICES ASSUME NEW k \in 1..arrived'
               PROVE  (InChain(k) \/ p = k \/ Given(k) \/ k \in missed)'
    BY DEF Accounted
  <2>1. CASE k = arrived + 1
    BY <1>4, <2>1 DEF InChain
  <2>2. CASE k \in 1..arrived
    BY <1>3, <1>9, <2>2 DEF RxInv, Accounted, Given
  <2> QED
    BY <1>2, <1>3, <2>1, <2>2
<1>11. HandlerInv'
  <2>1. HandlerInv /\ p \in 0..arrived
    BY <1>1 DEF RxInv, TypeOK
  <2>2. \A d \in Descriptors :
           ~own[d] => ~own'[d] /\ held'[d] = held[d] /\ part'[d] = part[d]
    BY <1>4
  <2>3. p # 0 /\ pc # "release" => \A d \in Descriptors : ~own'[d] => p < held'[d]
    <3> SUFFICES ASSUME p # 0, pc # "release", NEW d \in Descriptors, ~own'[d]
                 PROVE  p < held'[d]
      OBVIOUS
    <3>1. CASE d \in used
      <4>1. held'[d] = arrived + 1
        BY <1>4, <3>1
      <4> QED
        BY <1>2, <2>1, <4>1
    <3>2. CASE d \notin used
      <4>1. ~own[d] /\ held'[d] = held[d]
        BY <1>4, <3>2
      <4> QED
        BY <2>1, <4>1 DEF HandlerInv
    <3> QED
      BY <3>1, <3>2
  <2> QED
    BY <1>2, <1>3, <2>1, <2>2, <2>3 DEF HandlerInv
<1>12. LateInv'
  <2>1. CASE pc \in {"clearR", "clearNIS"}
    <3>1. Jammed => Jammed'
      BY <1>2, <1>3, <1>4 DEF Jammed
    <3>2. (\A d \in Descriptors : ~own[d] => held[d] \in late)
            => \A d \in Descriptors : ~own'[d] => held'[d] \in late'
      BY <1>3, <1>4, <2>1
    <3> QED
      BY <2>1, <3>1, <3>2 DEF RxInv, LateInv
  <2>2. CASE pc \notin {"clearR", "clearNIS"}
    BY <1>3, <2>2 DEF LateInv, Quiet
  <2> QED
    BY <2>1, <2>2
<1> QED
  BY <1>6, <1>7, <1>8, <1>10, <1>11, <1>12 DEF RxInv

LEMMA ReceiveKeeps == RxInv /\ Receive => RxInv'
<1> SUFFICES ASSUME RxInv, Receive PROVE RxInv'
  OBVIOUS
<1> DEFINE used == {dma}
<1>1. TypeOK
  BY DEF RxInv
<1>2. {dma, Base} \subseteq Descriptors /\ NextDesc(dma) \in Descriptors
  BY <1>1, TypeFacts, NextDescIs
<1>3. /\ own[dma] /\ dma' = NextDesc(dma)
      /\ own' = [own EXCEPT ![dma] = FALSE]
      /\ held' = [held EXCEPT ![dma] = Frame]
      /\ part' = [part EXCEPT ![dma] = "whole"]
      /\ rs' = TRUE /\ nis' = TRUE /\ rbus' = rbus
      /\ Arrives /\ UNCHANGED <<handler, missed, input>>
  BY DEF Receive, Signal
<1>4. /\ own' = [d \in Descriptors |-> own[d] /\ d \notin used]
      /\ held' = [d \in Descriptors |-> IF d \in used THEN Frame ELSE held[d]]
      /\ part' \in [Descriptors -> {"whole", "first", "last", "error"}]
      /\ \A d \in Descriptors \ used : part'[d] = part[d]
      /\ rbus' \in BOOLEAN /\ dma' \in Descriptors
      /\ used \in SUBSET Descriptors /\ used # {} /\ \A d \in used : own[d]
  BY <1>1, <1>2, <1>3 DEF TypeOK
<1>5. Ring(own', Base, dma')
  <2>1. own \in [Descriptors -> BOOLEAN] /\ own' \in [Descriptors -> BOOLEAN]
    BY <1>1, <1>3 DEF TypeOK
  <2>2. Ring(own, Base, dma)
    BY DEF RxInv, RingInv
  <2>3. \A d \in Descriptors : own'[d] <=> own[d] /\ d # dma
    BY <1>4
  <2> QED
    BY <1>2, <1>3, <2>1, <2>2, <2>3, Fills
<1>6. \A d, e \in used : Pos(Base, d) < Pos(Base, e) => part'[d] # "whole"
  BY <1>2, PosIs
<1> HIDE DEF used
<1> QED
  BY <1>3, <1>4, <1>5, <1>6, Stores

LEMMA ReceiveLongKeeps == RxInv /\ ReceiveLong => RxInv'
<1> SUFFICES ASSUME RxInv, ReceiveLong PROVE RxInv'
  OBVIOUS
<1> DEFINE second == NextDesc(dma)
           used == IF own[second] THEN {dma, second} ELSE {dma}
           once == [own EXCEPT ![dma] = FALSE]
<1>1. TypeOK
  BY DEF RxInv
<1>2. /\ {dma, Base} \subseteq Descriptors /\ second \in Descriptors /\ second # dma
      /\ NextDesc(second) \in Descriptors
  BY <1>1, TypeFacts, NextDescIs
<1>3. /\ own[dma]
      /\ own' = [d \in Descriptors |-> own[d] /\ d \notin used]
      /\ held' = [d \in Descriptors |-> IF d \in used THEN Frame ELSE held[d]]
      /\ part' = [d \in Descriptors |->
                    IF d \notin used THEN part[d]
                    ELSE IF used = {dma} THEN "error"
                    ELSE IF d = dma THEN "first" ELSE "last"]
      /\ dma' = IF own[second] THEN NextDesc(second) ELSE second
      /\ rbus' = (rbus \/ ~own[second])
      /\ rs' = TRUE /\ nis' = TRUE
      /\ Arrives /\ UNCHANGED <<handler, missed, input>>
  BY DEF ReceiveLong, Signal
<1>4. /\ used \in SUBSET Descriptors /\ used # {} /\ \A d \in used : own[d]
      /\ dma' \in Descriptors
  BY <1>2, <1>3
<1>5. /\ part' \in [Descriptors -> {"whole", "first", "last", "error"}]
      /\ \A d \in Descriptors \ used : part'[d] = part[d]
      /\ \A d \in used : part'[d] # "whole"
  <2> HIDE DEF used
  <2> QED
    BY <1>1, <1>3, <1>4 DEF TypeOK
<1>6. rbus' \in BOOLEAN
  BY <1>3
<1>7. Ring(own', Base, dma')
  <2>1. /\ own \in [Descriptors -> BOOLEAN] /\ own' \in [Descriptors -> BOOLEAN]
        /\ once \in [Descriptors -> BOOLEAN]
        /\ \A d \in Descriptors : once[d] <=> own[d] /\ d # dma
    BY <1>1, <1>2, <1>3 DEF TypeOK
  <2>2. Ring(own, Base, dma)
    BY DEF RxInv, RingInv
  <2>3. Ring(once, Base, second)
    <3> HIDE DEF once
    <3> QED
      BY <1>2, <1>3, <2>1, <2>2, Fills
  <2>4. CASE own[second]
    <3>1. once[second]
      BY <1>2, <2>1, <2>4
    <3>2. \A d \in Descriptors : own'[d] <=> once[d] /\ d # second
      BY <1>2, <1>3, <2>1, <2>4
    <3>3. Ring(own', Base, NextDesc(second))
      <4> HIDE DEF once, second
      <4> QED
        BY <1>2, <2>1, <2>3, <3>1, <3>2, Fills
    <3> QED
      BY <1>3, <2>4, <3>3
  <2>5. CASE ~own[second]
    <3>1. own' = once
      BY <1>1, <1>2, <1>3, <2>5 DEF TypeOK
    <3> QED
      BY <1>3, <2>3, <2>5, <3>1
  <2> QED
    BY <2>4, <2>5
<1> HIDE DEF used
<1> QED
  BY <1>3, <1>4, <1>5, <1>6, <1>7, Stores

-----------------------------------------------------------------------------
(* The handler keeps the invariant.                                        *)

\* What depends on the chain, its base and what was taken only.
LEMMA RestKept ==
  ASSUME RxInv, UNCHANGED <<own, held, part, dma, input, arrived>>, Base' = Base
  PROVE  RingInv' /\ OrderInv' /\ (\A k : InChain(k)' <=> InChain(k))
<1>1. RingInv /\ OrderInv
  BY DEF RxInv
<1>2. RingInv'
  BY <1>1 DEF RingInv
<1>3. OrderInv'
  BY <1>1 DEF OrderInv, Pos
<1> QED
  BY <1>2, <1>3 DEF InChain

LEMMA EnterKeeps == RxInv /\ Enter => RxInv'
<1> SUFFICES ASSUME RxInv, Enter PROVE RxInv'
  OBVIOUS
<1>1. /\ pc = "idle" /\ pc' = "test"
      /\ UNCHANGED <<own, held, part, dma, rs, nis, rbus, get, cur, p, arrived, missed,
                     late, input>>
  BY DEF Enter, At, chain, status, ghosts
<1>2. TypeOK'
  BY <1>1 DEF RxInv, TypeOK
<1>3. Base' = Base
  BY <1>1 DEF Base
<1>4. RingInv' /\ OrderInv' /\ (\A k : InChain(k)' <=> InChain(k))
  BY <1>1, <1>3, RestKept
<1>5. Accounted'
  BY <1>1, <1>4 DEF RxInv, Accounted, Given
<1>6. HandlerInv' /\ LateInv'
  BY <1>1 DEF RxInv, HandlerInv, LateInv, Quiet
<1> QED
  BY <1>2, <1>4, <1>5, <1>6 DEF RxInv

\* Without a frame to take the chain is empty, or jammed.
LEMMA TestKeeps == RxInv /\ Test => RxInv'
<1> SUFFICES ASSUME RxInv, Test PROVE RxInv'
  OBVIOUS
<1>1. /\ pc = "test" /\ pc' = IF HaveFrame THEN "take" ELSE "clearR"
      /\ UNCHANGED <<own, held, part, dma, rs, nis, rbus, get, cur, p, arrived, missed,
                     late, input>>
  BY DEF Test, At, chain, status, ghosts
<1>2. TypeOK'
  BY <1>1 DEF RxInv, TypeOK
<1>3. Base = get /\ Base' = get
  BY <1>1 DEF Base
<1>4. RingInv' /\ OrderInv' /\ (\A k : InChain(k)' <=> InChain(k))
  BY <1>1, <1>3, RestKept
<1>5. Accounted'
  BY <1>1, <1>4 DEF RxInv, Accounted, Given
<1>6. HandlerInv'
  BY <1>1 DEF RxInv, HandlerInv, HaveFrame
<1>7. LateInv'
  <2>1. CASE HaveFrame
    BY <1>1, <2>1 DEF LateInv, Quiet
  <2>2. CASE ~own[get] /\ part[get] # "whole"
    BY <1>1, <2>2 DEF LateInv, Jammed
  <2>3. CASE own[get]
    <3>1. {dma, get} \subseteq Descriptors
      BY TypeFacts DEF RxInv
    <3>2. Pos(get, get) = 0 /\ \A d \in Descriptors : Pos(get, d) \in 0..RxBufs - 1
      BY <3>1, PosIs
    <3>3. Count(own, get, dma) \in Int /\ ~(0 < Count(own, get, dma))
      BY <1>3, <2>3, <3>1, <3>2, RxAssumption DEF RxInv, RingInv, Ring, Count
    <3>4. \A d \in Descriptors : own[d]
      BY <1>3, <3>2, <3>3 DEF RxInv, RingInv, Ring
    <3> QED
      BY <1>1, <3>4 DEF LateInv
  <2> QED
    BY <2>1, <2>2, <2>3 DEF HaveFrame
<1> QED
  BY <1>2, <1>4, <1>5, <1>6, <1>7 DEF RxInv

LEMMA TakeKeeps == RxInv /\ Take => RxInv'
<1> SUFFICES ASSUME RxInv, Take PROVE RxInv'
  OBVIOUS
<1>1. /\ pc = "take" /\ pc' = "copy" /\ cur' = get /\ get' = NextDesc(get)
      /\ UNCHANGED <<own, held, part, dma, rs, nis, rbus, p, arrived, missed, late, input>>
  BY DEF Take, At, chain, status, ghosts
<1>2. get \in Descriptors /\ get' \in Descriptors
  BY <1>1, TypeFacts, NextDescIs DEF RxInv
<1>3. TypeOK'
  BY <1>1, <1>2 DEF RxInv, TypeOK
<1>4. Base' = Base
  BY <1>1 DEF Base
<1>5. RingInv' /\ OrderInv' /\ (\A k : InChain(k)' <=> InChain(k))
  BY <1>1, <1>4, RestKept
<1>6. Accounted'
  BY <1>1, <1>5 DEF RxInv, Accounted, Given
<1>7. HandlerInv'
  BY <1>1 DEF RxInv, HandlerInv, NextDesc
<1>8. LateInv'
  BY <1>1 DEF LateInv, Quiet
<1> QED
  BY <1>3, <1>5, <1>6, <1>7, <1>8 DEF RxInv

LEMMA CopyKeeps == RxInv /\ Copy => RxInv'
<1> SUFFICES ASSUME RxInv, Copy PROVE RxInv'
  OBVIOUS
<1>1. /\ pc = "copy" /\ pc' = "release"
      /\ UNCHANGED <<own, held, part, dma, rs, nis, rbus, get, cur, arrived, late, input>>
      /\ \/ p' = held[cur] /\ missed' = missed
         \/ p' = 0 /\ missed' = missed \cup {held[cur]}
  BY DEF Copy, At, chain, status
<1>2. /\ TypeOK /\ p = 0 /\ cur \in Descriptors /\ ~own[cur] /\ part[cur] = "whole"
      /\ get = NextDesc(cur)
  BY <1>1, TypeFacts DEF RxInv, HandlerInv
<1>3. /\ held[cur] \in 1..arrived
      /\ \A i \in 1..Len(input) : input[i] < held[cur]
  BY <1>2, TypeFacts DEF RxInv, OrderInv
<1>4. TypeOK'
  BY <1>1, <1>2, <1>3 DEF TypeOK
<1>5. Base' = Base
  BY <1>1 DEF Base
<1>6. RingInv' /\ OrderInv' /\ (\A k : InChain(k)' <=> InChain(k))
  BY <1>1, <1>5, RestKept
<1>7. Accounted'
  BY <1>1, <1>2, <1>6 DEF RxInv, Accounted, Given
<1>8. HandlerInv'
  BY <1>1, <1>2, <1>3 DEF HandlerInv, NextDesc
<1>9. LateInv'
  BY <1>1 DEF LateInv, Quiet
<1> QED
  BY <1>4, <1>6, <1>7, <1>8, <1>9 DEF RxInv

\* What leaves the chain is in the pbuf or was missed.
LEMMA ReleaseKeeps == RxInv /\ Release => RxInv'
<1> SUFFICES ASSUME RxInv, Release PROVE RxInv'
  OBVIOUS
<1>1. /\ pc = "release" /\ pc' = "resume" /\ own' = [own EXCEPT ![cur] = TRUE]
      /\ UNCHANGED <<held, part, dma, rs, nis, rbus, get, cur, p, arrived, missed, late,
                     input>>
  BY DEF Release, At, status, ghosts
<1>2. /\ TypeOK /\ {cur, dma, get} \subseteq Descriptors /\ ~own[cur]
      /\ part[cur] = "whole" /\ get = NextDesc(cur)
      /\ p = held[cur] \/ (p = 0 /\ held[cur] \in missed)
      /\ own \in [Descriptors -> BOOLEAN]
  BY <1>1, TypeFacts DEF RxInv, HandlerInv
<1>3. \A d \in Descriptors : own'[d] <=> own[d] \/ d = cur
  BY <1>1, <1>2
<1>4. TypeOK'
  BY <1>1, <1>2 DEF TypeOK
<1>5. Base = cur /\ Base' = get
  BY <1>1 DEF Base
<1>6. RingInv'
  <2>1. Ring(own, cur, dma)
    BY <1>5 DEF RxInv, RingInv
  <2>2. own' \in [Descriptors -> BOOLEAN]
    BY <1>4 DEF TypeOK
  <2>3. Ring(own', NextDesc(cur), dma)
    BY <1>2, <1>3, <2>1, <2>2, Empties
  <2> QED
    BY <1>1, <1>2, <1>5, <2>3 DEF RingInv
<1>7. /\ \A d \in Descriptors :
           Pos(cur, d) \in 0..RxBufs - 1 /\ Pos(cur, cur) = 0
           /\ (Pos(cur, d) = 0 => d = cur)
      /\ \A d \in Descriptors : d # cur => Pos(get, d) = Pos(cur, d) - 1
  BY <1>2, PosIs, PosMoves
<1>8. OrderInv'
  <2>1. /\ \A d \in Descriptors :
             ~own[d] => held[d] > 0 /\ \A i \in 1..Len(input) : input[i] < held[d]
        /\ \A d, e \in Descriptors :
             ~own[d] /\ ~own[e] /\ Pos(cur, d) < Pos(cur, e) =>
               held[d] <= held[e] /\ (part[d] = "whole" => held[d] < held[e])
        /\ \A i, j \in 1..Len(input) : i < j => input[i] < input[j]
    BY <1>5 DEF RxInv, OrderInv
  <2>2. ASSUME NEW d \in Descriptors, NEW e \in Descriptors, ~own'[d], ~own'[e],
               Pos(get, d) < Pos(get, e)
        PROVE  held[d] <= held[e] /\ (part[d] = "whole" => held[d] < held[e])
    <3>1. ~own[d] /\ ~own[e] /\ d # cur /\ e # cur
      BY <1>3, <2>2
    <3>2. Pos(cur, d) < Pos(cur, e)
      BY <1>7, <2>2, <3>1
    <3> QED
      BY <2>1, <3>1, <3>2
  <2>3. \A d \in Descriptors :
          ~own'[d] => held[d] > 0 /\ \A i \in 1..Len(input) : input[i] < held[d]
    BY <1>3, <2>1
  <2> QED
    BY <1>1, <1>5, <2>1, <2>2, <2>3 DEF OrderInv, Pos
<1>9. Accounted'
  <2> SUFFICES ASSUME NEW k \in 1..arrived
               PROVE  (InChain(k) \/ p = k \/ Given(k) \/ k \in missed)'
    BY <1>1 DEF Accounted
  <2>1. CASE InChain(k)
    <3>1. PICK d \in Descriptors : ~own[d] /\ held[d] = k
      BY <2>1 DEF InChain
    <3> QED
      BY <1>1, <1>2, <1>3, <3>1 DEF InChain
  <2>2. CASE p = k \/ Given(k) \/ k \in missed
    BY <1>1, <2>2 DEF Given
  <2> QED
    BY <2>1, <2>2 DEF RxInv, Accounted
<1>10. HandlerInv'
  <2>1. p # 0 => /\ p = held[cur]
                 /\ \A i \in 1..Len(input) : input[i] < p
                 /\ \A d \in Descriptors : ~own'[d] => p < held[d]
    <3> SUFFICES ASSUME p # 0
                 PROVE  /\ p = held[cur]
                        /\ \A i \in 1..Len(input) : input[i] < p
                        /\ \A d \in Descriptors : ~own'[d] => p < held[d]
      OBVIOUS
    <3>1. p = held[cur] /\ \A i \in 1..Len(input) : input[i] < p
      BY <1>2 DEF RxInv, HandlerInv
    <3>2. ASSUME NEW d \in Descriptors, ~own'[d] PROVE held[cur] < held[d]
      <4>1. ~own[d] /\ d # cur
        BY <1>3, <3>2
      <4>2. Pos(cur, cur) < Pos(cur, d)
        BY <1>7, <4>1
      <4> QED
        BY <1>2, <1>5, <4>1, <4>2 DEF RxInv, OrderInv
    <3> QED
      BY <3>1, <3>2
  <2> QED
    BY <1>1, <2>1 DEF HandlerInv
<1>11. LateInv'
  BY <1>1 DEF LateInv, Quiet
<1> QED
  BY <1>4, <1>6, <1>8, <1>9, <1>10, <1>11 DEF RxInv

LEMMA ResumeKeeps == RxInv /\ Resume => RxInv'
<1> SUFFICES ASSUME RxInv, Resume PROVE RxInv'
  OBVIOUS
<1>1. /\ pc = "resume" /\ pc' = "input" /\ rbus' = FALSE
      /\ UNCHANGED <<own, held, part, dma, rs, nis, get, cur, p, arrived, missed, late,
                     input>>
  BY DEF Resume, At, chain, ghosts
<1>2. TypeOK'
  BY <1>1 DEF RxInv, TypeOK
<1>3. Base' = Base
  BY <1>1 DEF Base
<1>4. RingInv' /\ OrderInv' /\ (\A k : InChain(k)' <=> InChain(k))
  BY <1>1, <1>3, RestKept
<1>5. Accounted'
  BY <1>1, <1>4 DEF RxInv, Accounted, Given
<1>6. HandlerInv'
  BY <1>1 DEF RxInv, HandlerInv
<1>7. LateInv'
  BY <1>1 DEF LateInv, Quiet
<1> QED
  BY <1>2, <1>4, <1>5, <1>6, <1>7 DEF RxInv

\* lwIP gets the frame: it is behind all that it got before, and before all that
\* is in the chain.
LEMMA InputKeeps == RxInv /\ Input => RxInv'
<1> SUFFICES ASSUME RxInv, Input PROVE RxInv'
  OBVIOUS
<1>1. /\ pc = "input" /\ pc' = "test" /\ p' = 0
      /\ input' = IF p = 0 THEN input ELSE Append(input, p)
      /\ UNCHANGED <<own, held, part, dma, rs, nis, rbus, get, cur, arrived, missed, late>>
  BY DEF Input, At, chain, status
<1>2. /\ TypeOK /\ p \in 0..arrived /\ input \in Seq(1..arrived) /\ Len(input) \in Nat
      /\ arrived \in Nat /\ Base = get /\ Base' = get
  BY <1>1, TypeFacts DEF RxInv, TypeOK, Base
<1>3. p # 0 => /\ \A i \in 1..Len(input) : input[i] < p
               /\ \A d \in Descriptors : ~own[d] => p < held[d]
  BY <1>1 DEF RxInv, HandlerInv
<1>4. p # 0 => /\ input' \in Seq(1..arrived) /\ Len(input') = Len(input) + 1
               /\ \A i \in 1..Len(input) : input'[i] = input[i]
               /\ input'[Len(input) + 1] = p
  BY <1>1, <1>2, AppendProperties
<1>5. TypeOK'
  BY <1>1, <1>2, <1>4 DEF TypeOK
<1>6. RingInv'
  BY <1>1, <1>2 DEF RxInv, RingInv
<1>7. \A i \in 1..Len(input') : i \in 1..Len(input) \/ (p # 0 /\ i = Len(input) + 1)
  BY <1>1, <1>2, <1>4
<1>8. \A i \in 1..Len(input) : i \in 1..Len(input') /\ input'[i] = input[i]
  BY <1>1, <1>2, <1>4
<1>9. OrderInv'
  <2>1. /\ \A d \in Descriptors :
             ~own[d] => held[d] > 0 /\ \A i \in 1..Len(input) : input[i] < held[d]
        /\ \A d, e \in Descriptors :
             ~own[d] /\ ~own[e] /\ Pos(get, d) < Pos(get, e) =>
               held[d] <= held[e] /\ (part[d] = "whole" => held[d] < held[e])
        /\ \A i, j \in 1..Len(input) : i < j => input[i] < input[j]
    BY <1>2 DEF RxInv, OrderInv
  <2>2. ASSUME NEW d \in Descriptors, ~own[d], NEW i \in 1..Len(input')
        PROVE  input'[i] < held[d]
    BY <1>3, <1>4, <1>7, <1>8, <2>1, <2>2
  <2>3. ASSUME NEW i \in 1..Len(input'), NEW j \in 1..Len(input'), i < j
        PROVE  input'[i] < input'[j]
    <3>1. i \in 1..Len(input)
      BY <1>2, <1>7, <2>3
    <3> QED
      BY <1>3, <1>4, <1>7, <1>8, <2>1, <2>3, <3>1
  <2> QED
    BY <1>1, <1>2, <2>1, <2>2, <2>3 DEF OrderInv, Pos
<1>10. \A k : Given(k) \/ (p = k /\ k # 0) => Given(k)'
  <2>1. DOMAIN input = 1..Len(input) /\ DOMAIN input' = 1..Len(input')
    BY <1>5, TypeFacts, LenProperties DEF RxInv, TypeOK
  <2>2. ASSUME NEW k, Given(k) PROVE Given(k)'
    <3>1. PICK i \in 1..Len(input) : input[i] = k
      BY <2>1, <2>2 DEF Given
    <3>2. i \in 1..Len(input') /\ input'[i] = k
      BY <1>8, <3>1
    <3> QED
      BY <2>1, <3>2 DEF Given
  <2>3. ASSUME NEW k, p = k, k # 0 PROVE Given(k)'
    <3>1. Len(input) + 1 \in 1..Len(input') /\ input'[Len(input) + 1] = k
      BY <1>2, <1>4, <2>3
    <3> QED
      BY <2>1, <3>1 DEF Given
  <2> QED
    BY <2>2, <2>3
<1>11. Accounted'
  <2> SUFFICES ASSUME NEW k \in 1..arrived
               PROVE  (InChain(k) \/ p = k \/ Given(k) \/ k \in missed)'
    BY <1>1 DEF Accounted
  <2>1. InChain(k) \/ p = k \/ Given(k) \/ k \in missed
    BY DEF RxInv, Accounted
  <2>2. k # 0
    OBVIOUS
  <2> QED
    BY <1>1, <1>10, <2>1, <2>2 DEF InChain
<1>12. HandlerInv' /\ LateInv'
  BY <1>1 DEF HandlerInv, LateInv, Quiet
<1> QED
  BY <1>5, <1>6, <1>9, <1>11, <1>12 DEF RxInv

LEMMA ClearRKeeps == RxInv /\ ClearR => RxInv'
<1> SUFFICES ASSUME RxInv, ClearR PROVE RxInv'
  OBVIOUS
<1>1. /\ pc = "clearR" /\ pc' = "clearNIS" /\ rs' = FALSE
      /\ UNCHANGED <<own, held, part, dma, nis, rbus, get, cur, p, arrived, missed, late,
                     input>>
  BY DEF ClearR, At, chain, ghosts
<1>2. TypeOK'
  BY <1>1 DEF RxInv, TypeOK
<1>3. Base' = Base
  BY <1>1 DEF Base
<1>4. RingInv' /\ OrderInv' /\ (\A k : InChain(k)' <=> InChain(k))
  BY <1>1, <1>3, RestKept
<1>5. Accounted'
  BY <1>1, <1>4 DEF RxInv, Accounted, Given
<1>6. HandlerInv'
  BY <1>1 DEF RxInv, HandlerInv
<1>7. LateInv'
  BY <1>1 DEF RxInv, LateInv, Jammed
<1> QED
  BY <1>2, <1>4, <1>5, <1>6, <1>7 DEF RxInv

LEMMA ClearNISKeeps == RxInv /\ ClearNIS => RxInv'
<1> SUFFICES ASSUME RxInv, ClearNIS PROVE RxInv'
  OBVIOUS
<1>1. /\ pc = "clearNIS" /\ pc' = "idle" /\ nis' \in {FALSE, rs}
      /\ UNCHANGED <<own, held, part, dma, rs, rbus, get, cur, p, arrived, missed, late,
                     input>>
  BY DEF ClearNIS, At, chain, ghosts
<1>2. TypeOK'
  BY <1>1 DEF RxInv, TypeOK
<1>3. Base' = Base
  BY <1>1 DEF Base
<1>4. RingInv' /\ OrderInv' /\ (\A k : InChain(k)' <=> InChain(k))
  BY <1>1, <1>3, RestKept
<1>5. Accounted'
  BY <1>1, <1>4 DEF RxInv, Accounted, Given
<1>6. HandlerInv'
  BY <1>1 DEF RxInv, HandlerInv
<1>7. LateInv'
  BY <1>1 DEF RxInv, LateInv, Jammed
<1> QED
  BY <1>2, <1>4, <1>5, <1>6, <1>7 DEF RxInv

LEMMA MissKeeps == RxInv /\ Miss => RxInv'
<1> SUFFICES ASSUME RxInv, Miss PROVE RxInv'
  OBVIOUS
<1>1. /\ arrived' = arrived + 1 /\ arrived < MaxFrames
      /\ late' \in {late, late \cup {arrived + 1}}
      /\ missed' = missed \cup {arrived + 1} /\ rbus' = TRUE
      /\ UNCHANGED <<own, held, part, dma, rs, nis, pc, get, cur, p, input>>
  BY DEF Miss, Arrives, Frame, chain, handler
<1>2. TypeOK /\ arrived \in 0..MaxFrames /\ MaxFrames \in Nat /\ input \in Seq(1..arrived)
  BY RxAssumption DEF RxInv, TypeOK
<1>3. /\ 0..arrived \subseteq 0..arrived' /\ 1..arrived \subseteq 1..arrived'
      /\ arrived + 1 \in 1..arrived' /\ arrived' \in 0..MaxFrames
  BY <1>1, <1>2
<1>4. input \in Seq(1..arrived')
  BY <1>2, <1>3, SeqMonotonic
<1>5. held \in [Descriptors -> 0..arrived']
  BY <1>2, <1>3 DEF TypeOK
<1>6. TypeOK'
  BY <1>1, <1>2, <1>3, <1>4, <1>5 DEF TypeOK
<1>7. Base' = Base
  BY <1>1 DEF Base
<1>8. RingInv' /\ OrderInv'
  BY <1>1, <1>7 DEF RxInv, RingInv, OrderInv, Pos
<1>9. Accounted'
  <2> SUFFICES ASSUME NEW k \in 1..arrived'
               PROVE  (InChain(k) \/ p = k \/ Given(k) \/ k \in missed)'
    BY DEF Accounted
  <2>1. k \in 1..arrived \/ k = arrived + 1
    BY <1>1, <1>2
  <2> QED
    BY <1>1, <2>1 DEF RxInv, Accounted, InChain, Given
<1>10. HandlerInv'
  BY <1>1 DEF RxInv, HandlerInv
<1>11. LateInv'
  BY <1>1 DEF RxInv, LateInv, Quiet, Jammed
<1> QED
  BY <1>6, <1>8, <1>9, <1>10, <1>11 DEF RxInv

LEMMA RxStep == RxInv /\ [Next]_vars => RxInv'
<1> SUFFICES ASSUME RxInv, [Next]_vars PROVE RxInv'
  OBVIOUS
<1>1. CASE Controller
  BY <1>1, ReceiveKeeps, ReceiveLongKeeps, MissKeeps DEF Controller
<1>2. CASE ETH_IRQHandler
  BY <1>2, EnterKeeps, TestKeeps, TakeKeeps, CopyKeeps, ReleaseKeeps, ResumeKeeps,
     InputKeeps, ClearRKeeps, ClearNISKeeps DEF ETH_IRQHandler
<1>3. CASE UNCHANGED vars
  <2>1. UNCHANGED <<own, held, part, dma, rs, nis, rbus, pc, get, cur, p, arrived, missed,
                    late, input>>
    BY <1>3 DEF vars, chain, status, handler, ghosts
  <2>2. Base' = Base
    BY <2>1 DEF Base
  <2>3. RingInv' /\ OrderInv' /\ (\A k : InChain(k)' <=> InChain(k))
    BY <2>1, <2>2, RestKept
  <2>4. TypeOK' /\ HandlerInv' /\ LateInv'
    BY <2>1 DEF RxInv, TypeOK, HandlerInv, LateInv, Quiet, Jammed
  <2>5. Accounted'
    BY <2>1, <2>3 DEF RxInv, Accounted, Given
  <2> QED
    BY <2>3, <2>4, <2>5 DEF RxInv
<1> QED
  BY <1>1, <1>2, <1>3 DEF Next

LEMMA RxAlways == Spec => []RxInv
BY RxInit, RxStep, PTL DEF Spec

-----------------------------------------------------------------------------
(* The theorems.                                                           *)

\* lwIP gets what came in: whole frames, in order and once, and none is lost but for
\* want of a descriptor or a pbuf, wherever the DMA is on the chain while the handler
\* goes through its statements.
THEOREM InputIsSound == Spec => []InputSound
<1>1. RxInv => InputSound
  <2> SUFFICES ASSUME RxInv PROVE InputSound
    OBVIOUS
  <2>1. DOMAIN input = 1..Len(input)
    BY TypeFacts DEF RxInv
  <2>2. InOrder
    BY <2>1 DEF RxInv, OrderInv, InOrder
  <2>3. NeverInPieces
    BY DEF RxInv, HandlerInv, NeverInPieces
  <2> QED
    BY <2>2, <2>3 DEF RxInv, InputSound
<1> QED
  BY <1>1, RxAlways, PTL

\* The handler and the DMA agree on the chain, for any number of descriptors.
THEOREM ChainIsKept == Spec => []ChainAgrees
<1>1. RxInv => ChainAgrees
  <2> SUFFICES ASSUME RxInv, pc \notin {"copy", "release"}, dma # get,
                      NEW d \in Descriptors
               PROVE  own[d] <=> ~Between(d)
    BY DEF ChainAgrees
  <2>1. {dma, get} \subseteq Descriptors /\ own \in [Descriptors -> BOOLEAN]
    BY TypeFacts DEF RxInv
  <2>2. Base = get
    BY DEF Base
  <2>3. ~own[d] <=> Pos(get, d) < Pos(get, dma)
    BY <2>2 DEF RxInv, RingInv, Ring, Count
  <2>4. (d - get) % RxBufs = Pos(get, d) /\ (dma - get) % RxBufs = Pos(get, dma)
    BY <2>1, DistanceIsPos
  <2> QED
    BY <2>1, <2>3, <2>4 DEF Between
<1> QED
  BY <1>1, RxAlways, PTL

\* When the interrupt is over and not requested again, what is left in the chain came
\* while it was being cleared, or is behind a piece of a long frame.
THEOREM LeftOnlyIfLate == Spec => []StrandedOnlyIfLate
<1>1. RxInv => StrandedOnlyIfLate
  BY DEF RxInv, LateInv, StrandedOnlyIfLate, InChain
<1> QED
  BY <1>1, RxAlways, PTL
=============================================================================
