----------------------------- MODULE EthTxProof -----------------------------
(***************************************************************************)
(* Proofs about transmission (module EthTx) with one context that sends.   *)
(***************************************************************************)
EXTENDS EthTx, SequenceTheorems, TLAPS

-----------------------------------------------------------------------------
(* The invariant.                                                          *)

\* How far d is behind the DMA.
Pos(d) == IF d >= dma THEN d - dma ELSE d - dma + TxBufs

\* The descriptor behind those given to the DMA, and how many it still has.
Behind(c) == IF pc[c] \in {"poll", "advance"} THEN NextDesc(set) ELSE set
Count(c) == IF dma # Behind(c) THEN Pos(Behind(c)) ELSE IF own[dma] THEN TxBufs ELSE 0

RingInv(c) == \A d \in Descriptors : own[d] <=> Pos(d) < Count(c)

\* The packets given to the DMA are those up to here.
Latest(c) ==
  IF pc[c] \in {"buffer", "copy", "check", "length", "give"} THEN calls - 1 ELSE calls

\* Lengths are in order in the chain, from the DMA on, and behind those on the wire.
OrderInv(c) ==
  /\ \A d \in Descriptors : own[d] => length[d] \in 1..Latest(c)
  /\ \A i \in 1..Len(wire) : wire[i].length <= Latest(c)
  /\ \A d, e \in Descriptors :
       own[d] /\ own[e] /\ Pos(d) < Pos(e) => length[d] < length[e]
  /\ \A d \in Descriptors : own[d] => \A i \in 1..Len(wire) : wire[i].length < length[d]
  /\ \A i, j \in 1..Len(wire) : i < j => wire[i].length < wire[j].length

\* A packet is whole on the wire and in the chain, unless the chain was full.
WholeInv ==
  /\ \A i \in 1..Len(wire) : wire[i].length \notin full => wire[i].data = wire[i].length
  /\ \A d \in Descriptors : own[d] /\ length[d] \notin full => data[d] = length[d]

\* On the wire, or waiting for the DMA.
Sent(k) ==
  \/ \E i \in 1..Len(wire) : wire[i] = [data |-> k, length |-> k]
  \/ \E d \in Descriptors : own[d] /\ data[d] = k /\ length[d] = k

\* What a call knows between its statements.
CallInv(c) ==
  /\ pc[c] # "idle" => pkt[c] = calls /\ calls > 0
  /\ pc[c] \in {"copy", "check", "length", "give"} => buf[c] = set
  /\ pc[c] \in {"check", "length", "give"} => data[set] = calls
  /\ pc[c] = "check" /\ own[set] => length[set] \in full
  /\ pc[c] \in {"length", "give"} => ~own[set]
  /\ pc[c] = "give" => length[set] = calls
  /\ pc[c] \in {"poll", "advance"} /\ calls \notin full => Sent(calls)
  /\ \A k \in ok \ full : Sent(k)

TxInv(c) == TypeOK /\ RingInv(c) /\ OrderInv(c) /\ WholeInv /\ CallInv(c)

-----------------------------------------------------------------------------
(* Rings.                                                                  *)

LEMMA NextDescIs ==
  ASSUME NEW d \in Descriptors
  PROVE  /\ NextDesc(d) = IF d = TxBufs - 1 THEN 0 ELSE d + 1
         /\ NextDesc(d) \in Descriptors
<1>1. TxBufs \in Nat \ {0} /\ d \in 0..TxBufs - 1
  BY TxAssumption DEF Descriptors
<1>2. TxBufs % TxBufs = 0
  BY <1>1
<1>3. d # TxBufs - 1 => (d + 1) % TxBufs = d + 1
  BY <1>1
<1> QED
  BY <1>1, <1>2, <1>3 DEF NextDesc, Descriptors

\* Distances of the code's arithmetic are positions.
LEMMA DistanceIsPos ==
  ASSUME NEW d \in Descriptors, dma \in Descriptors
  PROVE  (d - dma) % TxBufs = Pos(d) /\ Pos(d) \in 0..TxBufs - 1
<1>1. TxBufs \in Nat \ {0} /\ d \in 0..TxBufs - 1 /\ dma \in 0..TxBufs - 1
  BY TxAssumption DEF Descriptors
<1>2. CASE d >= dma
  <2>1. d - dma \in 0..TxBufs - 1
    BY <1>1, <1>2
  <2>2. (d - dma) % TxBufs = d - dma
    BY <1>1, <2>1
  <2> QED
    BY <1>1, <1>2, <2>1, <2>2 DEF Pos
<1>3. CASE d < dma
  <2>1. d - dma \in -(TxBufs - 1)..-1
    BY <1>1, <1>3
  <2>2. (d - dma) % TxBufs = d - dma + TxBufs
    BY <1>1, <2>1
  <2> QED
    BY <1>1, <1>3, <2>1, <2>2 DEF Pos
<1> QED
  BY <1>1, <1>2, <1>3

\* The DMA goes on: everything comes one closer, and what was nearest is last.
LEMMA PosMoves ==
  ASSUME dma \in Descriptors, dma' = NextDesc(dma), NEW d \in Descriptors
  PROVE  Pos(d)' = IF d = dma THEN TxBufs - 1 ELSE Pos(d) - 1
<1>1. TxBufs \in Nat \ {0} /\ d \in 0..TxBufs - 1 /\ dma \in 0..TxBufs - 1
  BY TxAssumption DEF Descriptors
<1>2. dma' = IF dma = TxBufs - 1 THEN 0 ELSE dma + 1
  BY NextDescIs
<1> QED
  BY <1>1, <1>2 DEF Pos

LEMMA PosIs ==
  ASSUME dma \in Descriptors
  PROVE  /\ Pos(dma) = 0
         /\ \A d \in Descriptors : Pos(d) \in 0..TxBufs - 1 /\ (Pos(d) = 0 => d = dma)
         /\ \A d, e \in Descriptors : Pos(d) = Pos(e) => d = e
         /\ \A d \in Descriptors : NextDesc(d) # dma => Pos(NextDesc(d)) = Pos(d) + 1
         /\ \A d \in Descriptors : NextDesc(d) = dma => Pos(d) = TxBufs - 1
<1>1. TxBufs \in Nat \ {0} /\ dma \in 0..TxBufs - 1
  BY TxAssumption DEF Descriptors
<1>2. \A d \in Descriptors : NextDesc(d) = IF d = TxBufs - 1 THEN 0 ELSE d + 1
  BY NextDescIs
<1> QED
  BY <1>1, <1>2 DEF Pos, Descriptors

-----------------------------------------------------------------------------
(* The wire.                                                               *)

LEMMA SeqWider ==
  ASSUME NEW S, NEW T, S \subseteq T, NEW s \in Seq(S)
  PROVE  s \in Seq(T)
<1>1. Len(s) \in Nat /\ s \in [1..Len(s) -> S]
  BY LenProperties
<1>2. s \in [1..Len(s) -> T]
  BY <1>1
<1> QED
  BY <1>1, <1>2, SeqDef

LEMMA WireLengths ==
  TypeOK => \A i \in 1..Len(wire) : wire[i].length \in 0..calls
<1> SUFFICES ASSUME TypeOK, NEW i \in 1..Len(wire) PROVE wire[i].length \in 0..calls
  OBVIOUS
<1>1. wire[i] \in [data : 0..calls, length : 0..calls]
  BY ElementOfSeq DEF TypeOK
<1> QED
  BY <1>1

-----------------------------------------------------------------------------
(* The invariant is kept: the controller.                                  *)

LEMMA TxInit == ASSUME NEW c \in Contexts, Init PROVE TxInv(c)
<1>1. TxBufs \in Nat \ {0} /\ MaxPackets \in Nat
  BY TxAssumption
<1>2. pc[c] = "idle" /\ dma = 0 /\ set = 0 /\ wire = << >> /\ Len(wire) = 0 /\ ok = {}
  BY DEF Init
<1>3. \A d \in Descriptors : own[d] = FALSE
  BY DEF Init
<1>4. 0 \in Descriptors
  BY <1>1 DEF Descriptors
<1>5. TypeOK
  BY <1>1, <1>4 DEF Init, TypeOK
<1>6. RingInv(c)
  BY <1>1, <1>2, <1>3, <1>4, PosIs DEF RingInv, Count, Behind
<1>7. OrderInv(c) /\ WholeInv /\ CallInv(c)
  BY <1>2, <1>3 DEF OrderInv, WholeInv, CallInv
<1> QED
  BY <1>5, <1>6, <1>7 DEF TxInv

LEMMA TransmitKeeps ==
  ASSUME NEW c \in Contexts, TxInv(c), Transmit
  PROVE  TxInv(c)'
<1> DEFINE sent == [data |-> data[dma], length |-> length[dma]]
<1>1. /\ own[dma] /\ wire' = Append(wire, sent)
      /\ own' = [own EXCEPT ![dma] = FALSE] /\ dma' = NextDesc(dma)
      /\ UNCHANGED <<data, length, tbus, set, pc, pkt, buf, calls, ok, full>>
  BY DEF Transmit, driver
<1>2. TypeOK
  BY DEF TxInv
<1>3. /\ dma \in Descriptors /\ set \in Descriptors /\ calls \in Nat
      /\ TxBufs \in Nat \ {0} /\ dma' \in Descriptors
  BY <1>1, <1>2, NextDescIs, TxAssumption DEF TypeOK
<1>4. sent \in [data : 0..calls, length : 0..calls]
  BY <1>2, <1>3 DEF TypeOK
<1>5. /\ wire \in Seq([data : 0..calls, length : 0..calls])
      /\ wire' \in Seq([data : 0..calls, length : 0..calls])
      /\ Len(wire') = Len(wire) + 1 /\ Len(wire) \in Nat
      /\ \A i \in 1..Len(wire) : wire'[i] = wire[i]
      /\ wire'[Len(wire) + 1] = sent
  BY <1>1, <1>2, <1>4, AppendProperties, LenProperties DEF TypeOK
<1>6. \A i \in 1..Len(wire) : wire[i].length \in 0..calls
  <2> SUFFICES ASSUME NEW i \in 1..Len(wire) PROVE wire[i].length \in 0..calls
    OBVIOUS
  <2>1. wire[i] \in [data : 0..calls, length : 0..calls]
    BY <1>5, ElementOfSeq
  <2> QED
    BY <2>1
<1>7. TypeOK'
  BY <1>1, <1>2, <1>3, <1>5 DEF TypeOK
<1>8. \A d \in Descriptors : own'[d] <=> own[d] /\ d # dma
  BY <1>1, <1>2 DEF TypeOK
<1>9. RingInv(c)'
  <2>1. Behind(c)' = Behind(c) /\ Behind(c) \in Descriptors
    BY <1>1, <1>3, NextDescIs DEF Behind
  <2>2. \A d \in Descriptors : own[d] <=> Pos(d) < Count(c)
    BY DEF TxInv, RingInv
  <2>3. \A d \in Descriptors : Pos(d)' = IF d = dma THEN TxBufs - 1 ELSE Pos(d) - 1
    BY <1>1, <1>3, PosMoves
  <2>4. \A d \in Descriptors : Pos(d) \in 0..TxBufs - 1
    BY <1>3, PosIs
  <2>5. Count(c) \in 0..TxBufs
    BY <1>3, <2>1, <2>4 DEF Count
  <2>6. Count(c)' = Count(c) - 1
    <3>1. CASE dma = Behind(c)
      <4>1. Count(c) = TxBufs
        BY <1>1, <3>1 DEF Count
      <4>2. CASE dma' = dma
        <5>1. TxBufs = 1
          <6>1. dma = IF dma = TxBufs - 1 THEN 0 ELSE dma + 1
            BY <1>1, <1>3, <4>2, NextDescIs
          <6> QED
            BY <1>3, <6>1 DEF Descriptors
        <5>2. ~own'[dma']
          BY <1>3, <1>8, <4>2
        <5> QED
          BY <2>1, <3>1, <4>1, <4>2, <5>1, <5>2 DEF Count
      <4>3. CASE dma' # dma
        <5>1. Count(c)' = Pos(Behind(c))'
          BY <2>1, <3>1, <4>3 DEF Count
        <5> QED
          BY <1>3, <2>1, <2>3, <3>1, <4>1, <5>1
      <4> QED
        BY <4>2, <4>3
    <3>2. CASE dma # Behind(c)
      <4>1. Count(c) = Pos(Behind(c)) /\ Pos(Behind(c))' = Pos(Behind(c)) - 1
        BY <2>1, <2>3, <3>2 DEF Count
      <4>2. CASE dma' = Behind(c)
        <5>1. Pos(Behind(c)) = 1
          <6>1. NextDesc(dma) = Behind(c) /\ NextDesc(dma) # dma
            BY <1>1, <3>2, <4>2
          <6>2. Pos(NextDesc(dma)) = Pos(dma) + 1 /\ Pos(dma) = 0
            BY <1>3, <6>1, PosIs
          <6> QED
            BY <6>1, <6>2
        <5>2. ~own[Behind(c)]
          BY <2>1, <2>2, <2>4, <4>1
        <5>3. ~own'[dma']
          BY <1>8, <2>1, <4>2, <5>2
        <5> QED
          BY <2>1, <4>1, <4>2, <5>1, <5>3 DEF Count
      <4>3. CASE dma' # Behind(c)
        BY <2>1, <4>1, <4>3 DEF Count
      <4> QED
        BY <4>2, <4>3
    <3> QED
      BY <3>1, <3>2
  <2> HIDE DEF sent
  <2>7. \A d \in Descriptors : own'[d] <=> Pos(d)' < Count(c)'
    BY <1>1, <1>3, <1>8, <2>2, <2>3, <2>4, <2>5, <2>6, PosIs
  <2> QED
    BY <2>7 DEF RingInv
<1>10. OrderInv(c)'
  <2>1. Latest(c)' = Latest(c) /\ Latest(c) \in Int
    BY <1>1, <1>3 DEF Latest
  <2>2. sent.length = length[dma] /\ length[dma] \in 1..Latest(c)
    BY <1>1, <1>3 DEF TxInv, OrderInv
  <2> HIDE DEF sent
  <2>3. \A d \in Descriptors : own'[d] => own[d] /\ d # dma /\ Pos(d) > 0
    BY <1>3, <1>8, PosIs
  <2>4. \A d \in Descriptors : own'[d] => length[dma] < length[d]
    BY <1>1, <1>3, <2>3, PosIs DEF TxInv, OrderInv
  <2>5. \A d \in Descriptors : d # dma => Pos(d)' = Pos(d) - 1 /\ Pos(d) \in Int
    BY <1>1, <1>3, PosMoves, PosIs
  <2>6. \A d, e \in Descriptors :
          own'[d] /\ own'[e] /\ Pos(d)' < Pos(e)' => length[d] < length[e]
    BY <2>3, <2>5 DEF TxInv, OrderInv
  <2>7. \A i \in 1..Len(wire) : wire[i].length < length[dma]
    BY <1>1, <1>3 DEF TxInv, OrderInv
  <2>8. \A i \in 1..Len(wire') : i \in 1..Len(wire) \/ i = Len(wire) + 1
    BY <1>5
  <2>9. \A i \in 1..Len(wire') : wire'[i].length <= Latest(c)
    <3>1. \A i \in 1..Len(wire) : wire'[i].length <= Latest(c)
      BY <1>5 DEF TxInv, OrderInv
    <3>2. wire'[Len(wire) + 1].length <= Latest(c)
      BY <1>5, <2>1, <2>2
    <3> QED
      BY <2>8, <3>1, <3>2
  <2>10. ASSUME NEW d \in Descriptors, own'[d], NEW i \in 1..Len(wire')
         PROVE  wire'[i].length < length[d]
    BY <1>5, <2>2, <2>3, <2>4, <2>8, <2>10 DEF TxInv, OrderInv
  <2>11. ASSUME NEW i \in 1..Len(wire'), NEW j \in 1..Len(wire'), i < j
         PROVE  wire'[i].length < wire'[j].length
    <3>1. i \in 1..Len(wire)
      BY <1>5, <2>11
    <3> QED
      BY <1>5, <2>2, <2>7, <2>8, <2>11, <3>1 DEF TxInv, OrderInv
  <2> QED
    BY <1>1, <2>1, <2>3, <2>6, <2>9, <2>10, <2>11 DEF TxInv, OrderInv
<1>11. WholeInv'
  <2>1. sent.length = length[dma] /\ sent.data = data[dma]
    OBVIOUS
  <2> HIDE DEF sent
  <2>2. \A i \in 1..Len(wire') : i \in 1..Len(wire) \/ i = Len(wire) + 1
    BY <1>5
  <2>3. ASSUME NEW i \in 1..Len(wire'), wire'[i].length \notin full
        PROVE  wire'[i].data = wire'[i].length
    BY <1>1, <1>3, <1>5, <2>1, <2>2, <2>3 DEF TxInv, WholeInv
  <2>4. \A d \in Descriptors : own'[d] /\ length[d] \notin full => data[d] = length[d]
    BY <1>8 DEF TxInv, WholeInv
  <2> QED
    BY <1>1, <2>3, <2>4 DEF WholeInv
<1>12. \A k : Sent(k) => Sent(k)'
  <2> SUFFICES ASSUME NEW k, Sent(k) PROVE Sent(k)'
    OBVIOUS
  <2>1. CASE \E i \in 1..Len(wire) : wire[i] = [data |-> k, length |-> k]
    <3>1. PICK i \in 1..Len(wire) : wire[i] = [data |-> k, length |-> k]
      BY <2>1
    <3>2. i \in 1..Len(wire') /\ wire'[i] = [data |-> k, length |-> k]
      <4> HIDE DEF sent
      <4>1. wire'[i] = wire[i] /\ i \in 1..Len(wire')
        BY <1>5
      <4> QED
        BY <3>1, <4>1, Zenon
    <3> QED
      BY <3>2 DEF Sent
  <2>2. CASE \E d \in Descriptors : own[d] /\ data[d] = k /\ length[d] = k
    <3>1. PICK d \in Descriptors : own[d] /\ data[d] = k /\ length[d] = k
      BY <2>2
    <3>2. CASE d = dma
      <4>1. wire'[Len(wire) + 1] = [data |-> k, length |-> k]
        BY <1>5, <3>1, <3>2
      <4>2. Len(wire) + 1 \in 1..Len(wire')
        BY <1>5
      <4> QED
        BY <4>1, <4>2 DEF Sent
    <3>3. CASE d # dma
      BY <1>1, <1>8, <3>1, <3>3 DEF Sent
    <3> QED
      BY <3>2, <3>3
  <2> QED
    BY <2>1, <2>2 DEF Sent
<1>13. CallInv(c)'
  BY <1>1, <1>3, <1>8, <1>12 DEF TxInv, CallInv
<1> QED
  BY <1>7, <1>9, <1>10, <1>11, <1>13 DEF TxInv

\* What depends on neither the calls nor the DMA's place.
LEMMA RestKept ==
  ASSUME NEW c \in Contexts, TxInv(c), UNCHANGED <<chain, dma, set, wire>>,
         Behind(c)' = Behind(c)
  PROVE  RingInv(c)' /\ (\A k : Sent(k)' <=> Sent(k))
<1>1. /\ own' = own /\ dma' = dma /\ data' = data /\ length' = length /\ wire' = wire
      /\ set' = set
  BY DEF chain
<1>2. \A d : Pos(d)' = Pos(d)
  BY <1>1 DEF Pos
<1>3. Count(c)' = Count(c)
  BY <1>1, <1>2 DEF Count
<1>4. RingInv(c)'
  BY <1>1, <1>2, <1>3 DEF TxInv, RingInv
<1> QED
  BY <1>1, <1>4 DEF Sent

\* Nor does the order depend on more than the chain, the wire and the latest packet.
LEMMA OrderKept ==
  ASSUME NEW c \in Contexts, TxInv(c), UNCHANGED <<own, data, length, dma, wire, full>>,
         Latest(c)' = Latest(c)
  PROVE  OrderInv(c)' /\ WholeInv'
<1>1. \A d : Pos(d)' = Pos(d)
  BY DEF Pos
<1>2. OrderInv(c)'
  <2>1. OrderInv(c)
    BY DEF TxInv
  <2> QED
    BY <1>1, <2>1 DEF OrderInv
<1>3. WholeInv'
  <2>1. WholeInv
    BY DEF TxInv
  <2> QED
    BY <2>1 DEF WholeInv
<1> QED
  BY <1>2, <1>3

LEMMA SuspendKeeps ==
  ASSUME NEW c \in Contexts, TxInv(c), Suspend
  PROVE  TxInv(c)'
<1>1. /\ UNCHANGED <<chain, dma, set, wire>>
      /\ UNCHANGED <<own, data, length, pc, pkt, buf, calls, ok, full>>
      /\ tbus' = TRUE
  BY DEF Suspend, chain, driver
<1>2. TypeOK'
  BY <1>1 DEF TxInv, TypeOK
<1>3. Behind(c)' = Behind(c) /\ Latest(c)' = Latest(c)
  BY <1>1 DEF Behind, Latest
<1>4. RingInv(c)' /\ (\A k : Sent(k)' <=> Sent(k))
  BY <1>1, <1>3, RestKept
<1>5. OrderInv(c)' /\ WholeInv'
  BY <1>1, <1>3, OrderKept
<1>6. CallInv(c)'
  BY <1>1, <1>4 DEF TxInv, CallInv
<1> QED
  BY <1>2, <1>4, <1>5, <1>6 DEF TxInv

-----------------------------------------------------------------------------
(* The invariant is kept: low_level_output.                                *)

LEMMA CallKeeps ==
  ASSUME NEW c \in Contexts, Contexts = {c}, TxInv(c), Call(c)
  PROVE  TxInv(c)'
<1>1. TypeOK
  BY DEF TxInv
<1>2. /\ pc[c] = "idle" /\ pc' = [pc EXCEPT ![c] = "buffer"] /\ pc'[c] = "buffer"
      /\ calls < MaxPackets /\ calls' = calls + 1
      /\ pkt' = [pkt EXCEPT ![c] = calls + 1] /\ pkt'[c] = calls'
      /\ UNCHANGED <<chain, dma, set, wire>>
      /\ UNCHANGED <<own, data, length, tbus, buf, ok, full>>
  BY <1>1 DEF Call, At, chain, TypeOK
<1>3. calls \in Nat /\ MaxPackets \in Nat /\ calls' \in 0..MaxPackets
  BY <1>1, <1>2, TxAssumption DEF TypeOK
<1>4. wire \in Seq([data : 0..calls', length : 0..calls'])
  <2>1. [data : 0..calls, length : 0..calls]
          \subseteq [data : 0..calls', length : 0..calls']
    BY <1>2, <1>3
  <2> QED
    BY <1>1, <2>1, SeqWider DEF TypeOK
<1>5. TypeOK'
  <2>1. /\ 0..calls \subseteq 0..calls' /\ 1..calls \subseteq 1..calls'
        /\ calls + 1 \in 0..calls'
    BY <1>2, <1>3
  <2>2. pc' \in [Contexts -> {"idle", "buffer", "copy", "check", "length", "give",
                               "poll", "advance"}]
    BY <1>1, <1>2 DEF TypeOK
  <2>3. pkt' \in [Contexts -> 0..calls']
    BY <1>1, <1>2, <2>1 DEF TypeOK
  <2>4. data' \in [Descriptors -> 0..calls'] /\ length' \in [Descriptors -> 0..calls']
    BY <1>1, <1>2, <2>1 DEF TypeOK
  <2> QED
    BY <1>1, <1>2, <1>3, <1>4, <2>1, <2>2, <2>3, <2>4 DEF TypeOK
<1>6. Behind(c)' = Behind(c) /\ Latest(c)' = Latest(c)
  BY <1>2, <1>3 DEF Behind, Latest
<1>7. RingInv(c)' /\ (\A k : Sent(k)' <=> Sent(k))
  BY <1>2, <1>6, RestKept
<1>8. OrderInv(c)' /\ WholeInv'
  BY <1>2, <1>6, OrderKept
<1>9. CallInv(c)'
  BY <1>2, <1>3, <1>7 DEF TxInv, CallInv
<1> QED
  BY <1>5, <1>7, <1>8, <1>9 DEF TxInv

LEMMA GetBufferKeeps ==
  ASSUME NEW c \in Contexts, TxInv(c), GetBuffer(c)
  PROVE  TxInv(c)'
<1>1. TypeOK
  BY DEF TxInv
<1>2. /\ pc[c] = "buffer" /\ pc' = [pc EXCEPT ![c] = "copy"] /\ pc'[c] = "copy"
      /\ buf' = [buf EXCEPT ![c] = set] /\ buf'[c] = set
      /\ UNCHANGED <<chain, dma, set, wire>>
      /\ UNCHANGED <<own, data, length, tbus, pkt, calls, ok, full>>
  BY <1>1 DEF GetBuffer, At, chain, TypeOK
<1>3. TypeOK'
  BY <1>1, <1>2 DEF TypeOK
<1>4. Behind(c)' = Behind(c) /\ Latest(c)' = Latest(c)
  BY <1>2 DEF Behind, Latest
<1>5. RingInv(c)' /\ (\A k : Sent(k)' <=> Sent(k))
  BY <1>2, <1>4, RestKept
<1>6. OrderInv(c)' /\ WholeInv'
  BY <1>2, <1>4, OrderKept
<1>7. CallInv(c)'
  BY <1>2, <1>5 DEF TxInv, CallInv
<1> QED
  BY <1>3, <1>5, <1>6, <1>7 DEF TxInv

\* The packet whose buffer is overwritten is on record.
LEMMA CopyPacketKeeps ==
  ASSUME NEW c \in Contexts, TxInv(c), CopyPacket(c)
  PROVE  TxInv(c)'
<1>1. TypeOK /\ buf[c] = set /\ pkt[c] = calls /\ calls > 0
  BY DEF TxInv, CallInv, CopyPacket, At
<1>2. /\ pc[c] = "copy" /\ pc' = [pc EXCEPT ![c] = "check"] /\ pc'[c] = "check"
      /\ data' = [data EXCEPT ![set] = calls]
      /\ full' = IF own[set] THEN full \cup {length[set]} ELSE full
      /\ UNCHANGED <<own, length, dma, tbus, set, pkt, buf, calls, ok, wire>>
  BY <1>1 DEF CopyPacket, At, TypeOK
<1>3. /\ set \in Descriptors /\ calls \in Nat
      /\ data'[set] = calls /\ \A d \in Descriptors : d # set => data'[d] = data[d]
  BY <1>1, <1>2, TxAssumption DEF TypeOK
<1>4. Behind(c)' = Behind(c) /\ Latest(c)' = Latest(c) /\ Latest(c) = calls - 1
  BY <1>2, <1>3 DEF Behind, Latest
<1>5. full' \subseteq 1..calls
  <2>1. own[set] => length[set] \in 1..Latest(c)
    BY <1>3 DEF TxInv, OrderInv
  <2>2. own[set] => length[set] \in 1..calls
    BY <1>3, <1>4, <2>1
  <2>3. full \subseteq 1..calls
    BY <1>1 DEF TypeOK
  <2> QED
    BY <1>2, <2>2, <2>3
<1>6. TypeOK'
  BY <1>1, <1>2, <1>3, <1>5 DEF TypeOK
<1>7. RingInv(c)'
  BY <1>2, <1>4 DEF TxInv, RingInv, Count, Pos
<1>8. OrderInv(c)'
  <2>1. OrderInv(c) /\ \A d : Pos(d)' = Pos(d)
    BY <1>2 DEF TxInv, Pos
  <2> QED
    BY <1>2, <1>4, <2>1 DEF OrderInv
<1>9. WholeInv'
  BY <1>2, <1>3 DEF TxInv, WholeInv
<1>10. \A k : Sent(k) /\ k \notin full' => Sent(k)'
  BY <1>2, <1>3 DEF Sent
<1>11. CallInv(c)'
  BY <1>2, <1>3, <1>1, <1>10 DEF TxInv, CallInv
<1> QED
  BY <1>6, <1>7, <1>8, <1>9, <1>11 DEF TxInv

LEMMA CheckOwnKeeps ==
  ASSUME NEW c \in Contexts, TxInv(c), CheckOwn(c)
  PROVE  TxInv(c)'
<1>1. TypeOK /\ pkt[c] = calls /\ calls > 0
  BY DEF TxInv, CallInv, CheckOwn
<1>2. calls \in Nat /\ set \in Descriptors
  BY <1>1, TxAssumption DEF TypeOK
<1>3. /\ pc[c] = "check"
      /\ UNCHANGED <<chain, dma, set, wire>>
      /\ UNCHANGED <<own, data, length, tbus, pkt, buf, calls>>
  BY DEF CheckOwn, chain
<1>4. CASE own[set]
  <2>1. /\ pc' = [pc EXCEPT ![c] = "idle"] /\ pc'[c] = "idle"
        /\ ok' = ok \cup {calls} /\ full' = full \cup {calls}
    BY <1>1, <1>4 DEF CheckOwn, TypeOK
  <2>2. TypeOK'
    BY <1>1, <1>2, <1>3, <2>1 DEF TypeOK
  <2>3. Behind(c)' = Behind(c) /\ Latest(c)' = calls /\ Latest(c) = calls - 1
    BY <1>3, <2>1 DEF Behind, Latest
  <2>4. RingInv(c)' /\ (\A k : Sent(k)' <=> Sent(k))
    BY <1>3, <2>3, RestKept
  <2>5. OrderInv(c)'
    <3>1. /\ \A i \in 1..Len(wire) : wire[i].length \in 0..calls
          /\ \A d \in Descriptors : own[d] => length[d] \in 1..calls - 1
      BY <1>1, <2>3, WireLengths DEF TxInv, OrderInv
    <3>2. /\ \A d \in Descriptors : own[d] => length[d] \in 1..calls
          /\ \A i \in 1..Len(wire) : wire[i].length <= calls
      BY <1>2, <3>1
    <3>3. own' = own /\ length' = length /\ wire' = wire /\ \A d : Pos(d)' = Pos(d)
      BY <1>3 DEF Pos
    <3>4. /\ \A d, e \in Descriptors :
               own[d] /\ own[e] /\ Pos(d) < Pos(e) => length[d] < length[e]
          /\ \A d \in Descriptors :
               own[d] => \A i \in 1..Len(wire) : wire[i].length < length[d]
          /\ \A i, j \in 1..Len(wire) : i < j => wire[i].length < wire[j].length
      BY DEF TxInv, OrderInv
    <3> QED
      BY <2>3, <3>2, <3>3, <3>4 DEF OrderInv
  <2>6. WholeInv'
    BY <1>3, <2>1 DEF TxInv, WholeInv
  <2>7. CallInv(c)'
    BY <1>3, <2>1, <2>4 DEF TxInv, CallInv
  <2> QED
    BY <2>2, <2>4, <2>5, <2>6, <2>7 DEF TxInv
<1>5. CASE ~own[set]
  <2>1. /\ pc' = [pc EXCEPT ![c] = "length"] /\ pc'[c] = "length"
        /\ UNCHANGED <<ok, full>>
    BY <1>1, <1>5 DEF CheckOwn, TypeOK
  <2>2. TypeOK'
    BY <1>1, <1>3, <2>1 DEF TypeOK
  <2>3. Behind(c)' = Behind(c) /\ Latest(c)' = Latest(c)
    BY <1>3, <2>1 DEF Behind, Latest
  <2>4. RingInv(c)' /\ (\A k : Sent(k)' <=> Sent(k))
    BY <1>3, <2>3, RestKept
  <2>5. OrderInv(c)' /\ WholeInv'
    BY <1>3, <2>1, <2>3, OrderKept
  <2>6. CallInv(c)'
    BY <1>3, <1>5, <2>1, <2>4 DEF TxInv, CallInv
  <2> QED
    BY <2>2, <2>4, <2>5, <2>6 DEF TxInv
<1> QED
  BY <1>4, <1>5

LEMMA SetLengthKeeps ==
  ASSUME NEW c \in Contexts, TxInv(c), SetLength(c)
  PROVE  TxInv(c)'
<1>1. TypeOK /\ pkt[c] = calls /\ calls > 0 /\ ~own[set] /\ buf[c] = set
  BY DEF TxInv, CallInv, SetLength, At
<1>2. /\ pc[c] = "length" /\ pc' = [pc EXCEPT ![c] = "give"] /\ pc'[c] = "give"
      /\ length' = [length EXCEPT ![set] = calls]
      /\ UNCHANGED <<own, data, dma, tbus, set, pkt, buf, calls, ok, full, wire>>
  BY <1>1 DEF SetLength, At, TypeOK
<1>3. /\ set \in Descriptors /\ calls \in Nat
      /\ length'[set] = calls /\ \A d \in Descriptors : own[d] => length'[d] = length[d]
  BY <1>1, <1>2, TxAssumption DEF TypeOK
<1>4. TypeOK'
  BY <1>1, <1>2, <1>3 DEF TypeOK
<1>5. Behind(c)' = Behind(c) /\ Latest(c)' = Latest(c)
  BY <1>2 DEF Behind, Latest
<1>6. RingInv(c)'
  BY <1>2, <1>5 DEF TxInv, RingInv, Count, Pos
<1>7. OrderInv(c)'
  <2>1. OrderInv(c) /\ \A d : Pos(d)' = Pos(d)
    BY <1>2 DEF TxInv, Pos
  <2> QED
    BY <1>2, <1>3, <1>5, <2>1 DEF OrderInv
<1>8. WholeInv'
  BY <1>2, <1>3 DEF TxInv, WholeInv
<1>9. \A k : Sent(k) => Sent(k)'
  BY <1>2, <1>3 DEF Sent
<1>10. CallInv(c)'
  BY <1>1, <1>2, <1>3, <1>9 DEF TxInv, CallInv
<1> QED
  BY <1>4, <1>6, <1>7, <1>8, <1>10 DEF TxInv

\* The packet is the last in the chain and the latest.
LEMMA GiveDescriptorKeeps ==
  ASSUME NEW c \in Contexts, TxInv(c), GiveDescriptor(c)
  PROVE  TxInv(c)'
<1>1. /\ TypeOK /\ pkt[c] = calls /\ calls > 0 /\ ~own[set]
      /\ data[set] = calls /\ length[set] = calls
  BY DEF TxInv, CallInv, GiveDescriptor, At
<1>2. /\ pc[c] = "give" /\ pc' = [pc EXCEPT ![c] = "poll"] /\ pc'[c] = "poll"
      /\ own' = [own EXCEPT ![set] = TRUE]
      /\ UNCHANGED <<data, length, dma, tbus, set, pkt, buf, calls, ok, full, wire>>
  BY <1>1 DEF GiveDescriptor, At, TypeOK
<1>3. /\ set \in Descriptors /\ dma \in Descriptors /\ calls \in Nat /\ TxBufs \in Nat \ {0}
      /\ \A d \in Descriptors : own'[d] <=> own[d] \/ d = set
  BY <1>1, <1>2, TxAssumption DEF TypeOK
<1>4. TypeOK'
  BY <1>1, <1>2 DEF TypeOK
<1>5. Latest(c)' = calls /\ Latest(c) = calls - 1
  BY <1>2 DEF Latest
<1>6. Behind(c) = set /\ Behind(c)' = NextDesc(set) /\ NextDesc(set) \in Descriptors
  BY <1>2, <1>3, NextDescIs DEF Behind
<1>7. Count(c) = Pos(set)
  BY <1>1, <1>3, <1>6, PosIs DEF Count
<1>8. \A d \in Descriptors : own[d] <=> Pos(d) < Pos(set)
  BY <1>7 DEF TxInv, RingInv
<1>9. \A d : Pos(d)' = Pos(d)
  BY <1>2 DEF Pos
<1>10. Pos(set) \in 0..TxBufs - 1 /\ \A d \in Descriptors : Pos(d) \in 0..TxBufs - 1
  BY <1>3, PosIs
<1>11. Count(c)' = Pos(set) + 1
  <2>1. CASE dma = NextDesc(set)
    <3>1. Pos(set) = TxBufs - 1
      BY <1>3, <2>1, PosIs
    <3>2. own'[dma]
      <4>1. CASE dma = set
        BY <1>3, <4>1
      <4>2. CASE dma # set
        <5>1. Pos(dma) = 0 /\ Pos(set) # 0
          BY <1>3, <4>2, PosIs
        <5> QED
          BY <1>3, <1>8, <1>10, <5>1
      <4> QED
        BY <4>1, <4>2
    <3> QED
      BY <1>2, <1>3, <1>6, <2>1, <3>1, <3>2 DEF Count
  <2>2. CASE dma # NextDesc(set)
    <3>1. Pos(NextDesc(set)) = Pos(set) + 1
      BY <1>3, <2>2, PosIs
    <3>2. Count(c)' = Pos(NextDesc(set))'
      BY <1>2, <1>6, <2>2 DEF Count
    <3> QED
      BY <1>2, <1>9, <3>1, <3>2 DEF Pos, NextDesc
  <2> QED
    BY <2>1, <2>2
<1>12. RingInv(c)'
  <2>1. \A d \in Descriptors : Pos(d) = Pos(set) => d = set
    BY <1>3, PosIs
  <2>2. \A d \in Descriptors : own'[d] <=> Pos(d) < Pos(set) + 1
    BY <1>3, <1>8, <1>10, <2>1
  <2> QED
    BY <1>9, <1>11, <2>2 DEF RingInv
<1>13. OrderInv(c)'
  <2>1. \A d \in Descriptors : own[d] => length[d] \in 1..calls - 1
    BY <1>5 DEF TxInv, OrderInv
  <2>2. \A i \in 1..Len(wire) : wire[i].length \in 0..calls /\ wire[i].length <= calls - 1
    BY <1>1, <1>5, WireLengths DEF TxInv, OrderInv
  <2>3. ASSUME NEW d \in Descriptors, NEW e \in Descriptors, own'[d], own'[e],
               Pos(d) < Pos(e)
        PROVE  length[d] < length[e]
    <3>1. own[d]
      BY <1>3, <1>8, <1>10, <2>3
    <3> QED
      BY <1>1, <1>3, <2>1, <2>3, <3>1 DEF TxInv, OrderInv
  <2>4. \A d \in Descriptors : own'[d] => length[d] \in 1..calls
    BY <1>1, <1>3, <2>1
  <2>5. \A d \in Descriptors :
          own'[d] => \A i \in 1..Len(wire) : wire[i].length < length[d]
    BY <1>1, <1>3, <2>2 DEF TxInv, OrderInv
  <2>6. \A i, j \in 1..Len(wire) : i < j => wire[i].length < wire[j].length
    BY DEF TxInv, OrderInv
  <2>7. \A i \in 1..Len(wire) : wire[i].length <= calls
    BY <1>3, <2>2
  <2> QED
    BY <1>2, <1>5, <1>9, <2>3, <2>4, <2>5, <2>6, <2>7 DEF OrderInv
<1>14. WholeInv'
  BY <1>1, <1>2, <1>3 DEF TxInv, WholeInv
<1>15. \A k : Sent(k) => Sent(k)'
  BY <1>2, <1>3 DEF Sent
<1>16. Sent(calls)'
  BY <1>1, <1>2, <1>3 DEF Sent
<1>17. CallInv(c)'
  BY <1>1, <1>2, <1>15, <1>16 DEF TxInv, CallInv
<1> QED
  BY <1>4, <1>12, <1>13, <1>14, <1>17 DEF TxInv

LEMMA PollDemandKeeps ==
  ASSUME NEW c \in Contexts, TxInv(c), PollDemand(c)
  PROVE  TxInv(c)'
<1>1. TypeOK
  BY DEF TxInv
<1>2. /\ pc[c] = "poll" /\ pc' = [pc EXCEPT ![c] = "advance"] /\ pc'[c] = "advance"
      /\ tbus' = FALSE
      /\ UNCHANGED <<chain, dma, set, wire>>
      /\ UNCHANGED <<own, data, length, pkt, buf, calls, ok, full>>
  BY <1>1 DEF PollDemand, At, chain, TypeOK
<1>3. TypeOK'
  BY <1>1, <1>2 DEF TypeOK
<1>4. Behind(c)' = Behind(c) /\ Latest(c)' = Latest(c)
  BY <1>2 DEF Behind, Latest
<1>5. RingInv(c)' /\ (\A k : Sent(k)' <=> Sent(k))
  BY <1>2, <1>4, RestKept
<1>6. OrderInv(c)' /\ WholeInv'
  BY <1>2, <1>4, OrderKept
<1>7. CallInv(c)'
  BY <1>2, <1>5 DEF TxInv, CallInv
<1> QED
  BY <1>3, <1>5, <1>6, <1>7 DEF TxInv

LEMMA AdvanceKeeps ==
  ASSUME NEW c \in Contexts, TxInv(c), Advance(c)
  PROVE  TxInv(c)'
<1>1. TypeOK /\ pkt[c] = calls /\ calls > 0 /\ (calls \notin full => Sent(calls))
  BY DEF TxInv, CallInv, Advance, At
<1>2. /\ pc[c] = "advance" /\ pc' = [pc EXCEPT ![c] = "idle"] /\ pc'[c] = "idle"
      /\ set' = NextDesc(set) /\ ok' = ok \cup {calls}
      /\ UNCHANGED <<own, data, length, dma, wire, tbus, pkt, buf, calls, full>>
  BY <1>1 DEF Advance, At, chain, TypeOK
<1>3. set \in Descriptors /\ set' \in Descriptors /\ calls \in Nat
  BY <1>1, <1>2, NextDescIs, TxAssumption DEF TypeOK
<1>4. TypeOK'
  BY <1>1, <1>2, <1>3 DEF TypeOK
<1>5. Behind(c)' = Behind(c) /\ Latest(c)' = Latest(c)
  BY <1>2 DEF Behind, Latest
<1>6. RingInv(c)'
  BY <1>2, <1>5 DEF TxInv, RingInv, Count, Pos
<1>7. OrderInv(c)' /\ WholeInv'
  BY <1>2, <1>5, OrderKept
<1>8. \A k : Sent(k)' <=> Sent(k)
  BY <1>2 DEF Sent
<1>9. CallInv(c)'
  BY <1>1, <1>2, <1>8 DEF TxInv, CallInv
<1> QED
  BY <1>4, <1>6, <1>7, <1>9 DEF TxInv

-----------------------------------------------------------------------------
(* The theorems.                                                           *)

LEMMA TxStep ==
  ASSUME NEW c \in Contexts, Contexts = {c}, TxInv(c), [Next]_vars
  PROVE  TxInv(c)'
<1>1. CASE Transmit
  BY <1>1, TransmitKeeps
<1>2. CASE Suspend
  BY <1>2, SuspendKeeps
<1>3. CASE low_level_output(c)
  BY <1>3, CallKeeps, GetBufferKeeps, CopyPacketKeeps, CheckOwnKeeps, SetLengthKeeps,
     GiveDescriptorKeeps, PollDemandKeeps, AdvanceKeeps DEF low_level_output
<1>4. CASE UNCHANGED vars
  <2>1. /\ UNCHANGED <<chain, dma, set, wire>>
        /\ UNCHANGED <<own, data, length, tbus, pc, pkt, buf, calls, ok, full>>
    BY <1>4 DEF vars, chain, driver
  <2>2. Behind(c)' = Behind(c) /\ Latest(c)' = Latest(c)
    BY <2>1 DEF Behind, Latest
  <2>3. TypeOK'
    BY <2>1 DEF TxInv, TypeOK
  <2>4. RingInv(c)' /\ (\A k : Sent(k)' <=> Sent(k))
    BY <2>1, <2>2, RestKept
  <2>5. OrderInv(c)' /\ WholeInv'
    BY <2>1, <2>2, OrderKept
  <2>6. CallInv(c)'
    BY <2>1, <2>4 DEF TxInv, CallInv
  <2> QED
    BY <2>3, <2>4, <2>5, <2>6 DEF TxInv
<1> QED
  BY <1>1, <1>2, <1>3, <1>4 DEF Next

LEMMA TxAlways ==
  ASSUME NEW c \in Contexts, Contexts = {c}
  PROVE  Spec => []TxInv(c)
<1>1. Init => TxInv(c)
  BY TxInit
<1>2. TxInv(c) /\ [Next]_vars => TxInv(c)'
  BY TxStep
<1> QED
  BY <1>1, <1>2, PTL DEF Spec

\* Between calls the driver and the DMA agree on the chain, for any number of
\* descriptors and packets.
THEOREM ChainKept ==
  ASSUME NEW c \in Contexts, Contexts = {c}
  PROVE  Spec => []ChainSound
<1>1. TxInv(c) => ChainSound
  <2> SUFFICES ASSUME TxInv(c), Calling = {}
               PROVE  \/ Busy = {d \in Descriptors : Between(d)}
                      \/ dma = set /\ Busy = Descriptors
    BY DEF ChainSound, ChainAgrees, TxInv
  <2>1. pc[c] = "idle"
    BY DEF Calling
  <2>2. dma \in Descriptors /\ set \in Descriptors /\ TxBufs \in Nat \ {0}
    BY TxAssumption DEF TxInv, TypeOK
  <2>3. Behind(c) = set
    BY <2>1 DEF Behind
  <2>4. \A d \in Descriptors : own[d] <=> Pos(d) < Count(c)
    BY DEF TxInv, RingInv
  <2>5. \A d \in Descriptors : (d - dma) % TxBufs = Pos(d) /\ Pos(d) \in 0..TxBufs - 1
    BY <2>2, DistanceIsPos
  <2>6. Pos(dma) = 0
    BY <2>2, PosIs
  <2>7. CASE dma = set /\ own[dma]
    <3>1. \A d \in Descriptors : own[d]
      BY <2>2, <2>3, <2>4, <2>5, <2>7 DEF Count
    <3> QED
      BY <2>7, <3>1 DEF Busy
  <2>8. CASE ~(dma = set /\ own[dma])
    <3>1. Count(c) = Pos(set)
      BY <2>3, <2>6, <2>8 DEF Count
    <3>2. \A d \in Descriptors : own[d] <=> Between(d)
      BY <2>2, <2>4, <2>5, <3>1 DEF Between
    <3> QED
      BY <3>2 DEF Busy
  <2> QED
    BY <2>7, <2>8
<1> QED
  BY <1>1, TxAlways, PTL

\* What goes out is in the order of the calls, and whole but for what a full chain
\* has spoilt.
THEOREM InOrderAndWhole ==
  ASSUME NEW c \in Contexts, Contexts = {c}
  PROVE  Spec => []WireInOrder
<1>1. TxInv(c) => WireInOrder
  <2> SUFFICES ASSUME TxInv(c) PROVE WireInOrder
    OBVIOUS
  <2>1. DOMAIN wire = 1..Len(wire)
    BY LenProperties DEF TxInv, TypeOK
  <2> QED
    BY <2>1 DEF TxInv, OrderInv, WholeInv, WireInOrder
<1> QED
  BY <1>1, TxAlways, PTL

\* A full chain costs the packet it turns away and the one its copy overwrites, and
\* no other that was reported as sent.
THEOREM OkIsSent ==
  ASSUME NEW c \in Contexts, Contexts = {c}
  PROVE  Spec => []OkMeansSent
<1>1. TxInv(c) => OkMeansSent
  <2> SUFFICES ASSUME TxInv(c), NEW k \in ok \ full
               PROVE  \/ \E i \in DOMAIN wire : wire[i] = [data |-> k, length |-> k]
                      \/ \E d \in Busy : data[d] = k /\ length[d] = k
    BY DEF OkMeansSent
  <2>1. DOMAIN wire = 1..Len(wire)
    BY LenProperties DEF TxInv, TypeOK
  <2>2. Sent(k)
    BY DEF TxInv, CallInv
  <2> QED
    BY <2>1, <2>2 DEF Sent, Busy
<1> QED
  BY <1>1, TxAlways, PTL
=============================================================================
