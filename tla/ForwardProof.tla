---------------------------- MODULE ForwardProof ----------------------------
(***************************************************************************)
(* Proofs about the receive half of the COM2 driver (module UartRx) and    *)
(* about the main loop around it (module Forward).                         *)
(***************************************************************************)
EXTENDS Forward, SequenceTheorems, WellFoundedInduction, TLAPS

-----------------------------------------------------------------------------
(* The invariant.                                                          *)

\* The channel is off from the stop to the restart.
ChannelInv ==
  /\ en <=> pc \notin {"copy", "clear", "reload", "start"}
  /\ pc \in {"stop", "copy", "clear", "reload"} => cnt <= Filled
  /\ pc = "start" => cndtr = RecvBuf

\* Bytes stand in the buffer in their order, behind them is the one in the data
\* register, and what reads have returned is before both, or the very bytes that
\* stand in the buffer while a read is between its copy and the reload.
Copied == pc \in {"clear", "reload"}
OrderInv ==
  /\ \A i \in 0..Filled - 1 : rxBuf[i] \in 1..arrived
  /\ \A i, j \in 0..Filled - 1 : i < j => rxBuf[i] < rxBuf[j]
  /\ dr <= arrived
  /\ dr # 0 => /\ \A i \in 0..Filled - 1 : rxBuf[i] < dr
               /\ \A k \in 1..Len(delivered) : delivered[k] < dr
  /\ ~Copied => \A i \in 0..Filled - 1 :
                  \A k \in 1..Len(delivered) : delivered[k] < rxBuf[i]
  /\ \A j, k \in 1..Len(delivered) : j < k => delivered[j] < delivered[k]

\* A byte in the data register that was not exposed has its request served; a byte
\* that came in behind the count was exposed.
ExposedInv ==
  /\ dr # 0 /\ dr \notin exposed => pc = "poll" /\ cndtr > 0
  /\ pc \in {"stop", "copy", "clear", "reload"} =>
       \A i \in cnt..Filled - 1 : rxBuf[i] \in exposed
  /\ Copied => \A i \in 0..cnt - 1 : Delivered(rxBuf[i])

RxInv == TypeOK /\ ChannelInv /\ OrderInv /\ LossOnlyInWindow /\ ExposedInv

LEMMA RxInit == Init => RxInv
BY SizeAssumption DEF Init, RxInv, TypeOK, ChannelInv, OrderInv, LossOnlyInWindow,
   ExposedInv, Copied, Filled, Index, Byte

-----------------------------------------------------------------------------
(* The invariant is kept: the hardware and the handlers.                   *)

LEMMA ArriveKeeps == RxInv /\ Arrive => RxInv'
<1> SUFFICES ASSUME RxInv, Arrive PROVE RxInv'
  OBVIOUS
<1> USE SizeAssumption DEF RxInv
<1>1. TypeOK'
  BY DEF TypeOK, Arrive, channel, Index, Byte
<1>2. ChannelInv'
  BY DEF TypeOK, ChannelInv, Arrive, channel, Filled
<1>3. OrderInv'
  <2>1. \A k \in 1..Len(delivered) : delivered[k] \in 1..arrived
    BY ElementOfSeq DEF TypeOK
  <2>2. arrived' = arrived + 1 /\ arrived \in Nat
    BY DEF Arrive, TypeOK, Byte
  <2>3. UNCHANGED <<rxBuf, cndtr, delivered, pc>> /\ Filled' = Filled /\ Copied' = Copied
    BY DEF Arrive, channel, Filled, Copied
  <2>4. dr' = IF dr = 0 THEN arrived + 1 ELSE dr
    BY DEF Arrive
  <2>5. dr \in Nat /\ Filled \in Nat
    BY DEF TypeOK, Byte, Filled
  <2> QED
    BY <2>1, <2>2, <2>3, <2>4, <2>5 DEF OrderInv
<1>4. LossOnlyInWindow'
  <2> SUFFICES ASSUME NEW k \in 1..arrived', Lost(k)' PROVE k \in exposed'
    BY DEF LossOnlyInWindow
  <2>1. arrived' = arrived + 1 /\ arrived \in Nat /\ exposed \subseteq exposed'
    BY DEF Arrive, TypeOK, Byte
  <2>2. Buffered(k)' = Buffered(k) /\ Delivered(k)' = Delivered(k)
    BY DEF Arrive, channel, Filled, Buffered, Delivered
  <2>3. CASE k = arrived + 1
    <3>1. dr # 0 /\ ~Request
      BY <2>3 DEF Arrive, Lost
    <3>2. ~(pc = "poll" /\ cndtr > 0)
      BY <3>1 DEF Request, ChannelInv
    <3> QED
      BY <2>3, <3>2 DEF Arrive
  <2>4. CASE k \in 1..arrived
    <3>1. Lost(k)
      BY <2>2, <2>4 DEF Lost, Arrive, TypeOK, Byte
    <3> QED
      BY <2>1, <2>4, <3>1 DEF LossOnlyInWindow
  <2> QED
    BY <2>1, <2>3, <2>4
<1>5. ExposedInv'
  BY DEF TypeOK, ChannelInv, ExposedInv, Copied, Delivered, Arrive, channel, Request,
     Index, Byte, Filled
<1> QED
  BY <1>1, <1>2, <1>3, <1>4, <1>5

LEMMA LineIdleKeeps == RxInv /\ LineIdle => RxInv'
<1> SUFFICES ASSUME RxInv, LineIdle PROVE RxInv'
  OBVIOUS
<1> USE SizeAssumption DEF RxInv
<1>1. TypeOK'
  BY DEF TypeOK, LineIdle, channel, ghosts, Index, Byte
<1>2. ChannelInv'
  BY DEF TypeOK, ChannelInv, LineIdle, channel, ghosts, Filled
<1>3. OrderInv'
  BY DEF TypeOK, ChannelInv, OrderInv, Copied, LineIdle, channel, ghosts, Index, Byte,
     Filled
<1>4. LossOnlyInWindow'
  BY DEF LossOnlyInWindow, ExposedInv, Lost, Buffered, Delivered, LineIdle, channel,
     ghosts, Filled
<1>5. ExposedInv'
  BY DEF TypeOK, ChannelInv, ExposedInv, Copied, Delivered, LineIdle, channel, ghosts,
     Index, Byte, Filled
<1> QED
  BY <1>1, <1>2, <1>3, <1>4, <1>5

LEMMA DmaReceiveKeeps == RxInv /\ DmaReceive => RxInv'
<1> SUFFICES ASSUME RxInv, DmaReceive PROVE RxInv'
  OBVIOUS
<1> USE SizeAssumption DEF RxInv
<1>1. TypeOK'
  BY DEF TypeOK, DmaReceive, Request, ghosts, Index, Byte
<1>2. ChannelInv'
  BY DEF TypeOK, ChannelInv, DmaReceive, Request, ghosts, Filled
<1>3. OrderInv'
  BY DEF TypeOK, ChannelInv, OrderInv, Copied, DmaReceive, Request, ghosts, Index,
     Byte, Filled
<1>4. LossOnlyInWindow'
  <2> SUFFICES ASSUME NEW k \in 1..arrived, Lost(k)' PROVE k \in exposed
    BY DEF LossOnlyInWindow, DmaReceive, ghosts
  <2>1. /\ Filled \in Index /\ Filled' = Filled + 1
        /\ rxBuf' = [rxBuf EXCEPT ![Filled] = dr] /\ rxBuf \in [Index -> Byte]
    BY DEF DmaReceive, Request, TypeOK, Filled, Index
  <2>2. ~Buffered(k)
    BY <2>1 DEF Lost, Buffered, Index
  <2>3. dr # k
    BY <2>1 DEF Lost, Buffered, Index
  <2>4. ~Delivered(k)
    BY DEF Lost, Delivered, DmaReceive, ghosts
  <2> QED
    BY <2>2, <2>3, <2>4 DEF LossOnlyInWindow, Lost
<1>5. ExposedInv'
  BY DEF TypeOK, ChannelInv, ExposedInv, Copied, Delivered, DmaReceive, Request,
     ghosts, Index, Byte, Filled
<1> QED
  BY <1>1, <1>2, <1>3, <1>4, <1>5

LEMMA USART2_IRQHandlerKeeps == RxInv /\ USART2_IRQHandler => RxInv'
<1> SUFFICES ASSUME RxInv, USART2_IRQHandler PROVE RxInv'
  OBVIOUS
<1> USE SizeAssumption DEF RxInv
<1>1. TypeOK'
  BY DEF TypeOK, USART2_IRQHandler, channel, ghosts, Index, Byte
<1>2. ChannelInv'
  BY DEF TypeOK, ChannelInv, USART2_IRQHandler, channel, ghosts, Filled
<1>3. OrderInv'
  BY DEF TypeOK, ChannelInv, OrderInv, Copied, USART2_IRQHandler, channel, ghosts,
     Index, Byte, Filled
<1>4. LossOnlyInWindow'
  <2>1. dr # 0 => dr \in exposed
    BY DEF USART2_IRQHandler, Request, ExposedInv, ChannelInv
  <2> QED
    BY <2>1 DEF LossOnlyInWindow, Lost, Buffered, Delivered, USART2_IRQHandler,
       channel, ghosts, Filled, TypeOK
<1>5. ExposedInv'
  BY DEF TypeOK, ChannelInv, ExposedInv, Copied, Delivered, USART2_IRQHandler, channel,
     ghosts, Index, Byte, Filled
<1> QED
  BY <1>1, <1>2, <1>3, <1>4, <1>5

LEMMA DMA1_Channel6_IRQHandlerKeeps == RxInv /\ DMA1_Channel6_IRQHandler => RxInv'
<1> SUFFICES ASSUME RxInv, DMA1_Channel6_IRQHandler PROVE RxInv'
  OBVIOUS
<1> USE SizeAssumption DEF RxInv
<1>1. TypeOK'
  BY DEF TypeOK, DMA1_Channel6_IRQHandler, usart, ghosts, Index, Byte
<1>2. ChannelInv'
  BY DEF TypeOK, ChannelInv, DMA1_Channel6_IRQHandler, usart, ghosts, Filled
<1>3. OrderInv'
  BY DEF TypeOK, ChannelInv, OrderInv, Copied, DMA1_Channel6_IRQHandler, usart, ghosts,
     Index, Byte, Filled
<1>4. LossOnlyInWindow'
  BY DEF LossOnlyInWindow, ExposedInv, Lost, Buffered, Delivered,
     DMA1_Channel6_IRQHandler, usart, ghosts, Filled
<1>5. ExposedInv'
  BY DEF TypeOK, ChannelInv, ExposedInv, Copied, Delivered, DMA1_Channel6_IRQHandler,
     usart, ghosts, Index, Byte, Filled
<1> QED
  BY <1>1, <1>2, <1>3, <1>4, <1>5

-----------------------------------------------------------------------------
(* The invariant is kept: ReadCom2Data.                                    *)

LEMMA CheckFlagKeeps == RxInv /\ CheckFlag => RxInv'
<1> SUFFICES ASSUME RxInv, CheckFlag PROVE RxInv'
  OBVIOUS
<1> USE SizeAssumption DEF RxInv
<1>1. TypeOK'
  BY DEF TypeOK, CheckFlag, At, channel, usart, ghosts, Index, Byte
<1>2. ChannelInv'
  BY DEF TypeOK, ChannelInv, CheckFlag, At, channel, usart, ghosts, Filled
<1>3. OrderInv'
  BY DEF TypeOK, ChannelInv, OrderInv, Copied, CheckFlag, At, channel, usart, ghosts,
     Index, Byte, Filled
<1>4. LossOnlyInWindow'
  BY DEF LossOnlyInWindow, ExposedInv, Lost, Buffered, Delivered, CheckFlag, At,
     channel, usart, ghosts, Filled
<1>5. ExposedInv'
  BY DEF TypeOK, ChannelInv, ExposedInv, Copied, Delivered, CheckFlag, At, channel,
     usart, ghosts, Request, Index, Byte, Filled
<1> QED
  BY <1>1, <1>2, <1>3, <1>4, <1>5

LEMMA CountKeeps == RxInv /\ Count => RxInv'
<1> SUFFICES ASSUME RxInv, Count PROVE RxInv'
  OBVIOUS
<1> USE SizeAssumption DEF RxInv
<1>1. TypeOK'
  BY DEF TypeOK, Count, At, channel, usart, ghosts, Index, Byte, Filled
<1>2. ChannelInv'
  BY DEF TypeOK, ChannelInv, Count, At, channel, usart, ghosts, Filled
<1>3. OrderInv'
  BY DEF TypeOK, ChannelInv, OrderInv, Copied, Count, At, channel, usart, ghosts,
     Index, Byte, Filled
<1>4. LossOnlyInWindow'
  BY DEF LossOnlyInWindow, ExposedInv, Lost, Buffered, Delivered, Count, At, channel,
     usart, ghosts, Filled
<1>5. ExposedInv'
  BY DEF TypeOK, ChannelInv, ExposedInv, Copied, Delivered, Count, At, channel, usart,
     ghosts, Request, Index, Byte, Filled
<1> QED
  BY <1>1, <1>2, <1>3, <1>4, <1>5

LEMMA StopKeeps == RxInv /\ Stop => RxInv'
<1> SUFFICES ASSUME RxInv, Stop PROVE RxInv'
  OBVIOUS
<1> USE SizeAssumption DEF RxInv
<1>1. TypeOK'
  BY DEF TypeOK, Stop, At, usart, ghosts, Index, Byte
<1>2. ChannelInv'
  BY DEF TypeOK, ChannelInv, Stop, At, usart, ghosts, Filled
<1>3. OrderInv'
  BY DEF TypeOK, ChannelInv, OrderInv, Copied, Stop, At, usart, ghosts, Index, Byte, Filled
<1>4. LossOnlyInWindow'
  BY DEF LossOnlyInWindow, ExposedInv, Lost, Buffered, Delivered, Stop, At, usart,
     ghosts, Filled
<1>5. ExposedInv'
  BY DEF TypeOK, ChannelInv, ExposedInv, Copied, Delivered, Stop, At, usart, ghosts,
     Request, Index, Byte, Filled
<1> QED
  BY <1>1, <1>2, <1>3, <1>4, <1>5

\* A read returns the bytes it has counted, behind those of the reads before.
LEMMA ReadReturned ==
  ASSUME RxInv, Copy
  PROVE  /\ delivered \in Seq(1..arrived) /\ delivered' \in Seq(1..arrived)
         /\ Len(delivered') = Len(delivered) + cnt
         /\ \A k \in 1..Len(delivered') :
              delivered'[k] = IF k <= Len(delivered) THEN delivered[k]
                              ELSE rxBuf[k - Len(delivered) - 1]
         /\ Len(delivered) \in Nat /\ cnt \in 0..Filled
<1> USE SizeAssumption DEF RxInv
<1> DEFINE read == [i \in 1..cnt |-> rxBuf[i - 1]]
<1>1. cnt \in 0..Filled /\ pc = "copy"
  BY DEF Copy, At, ChannelInv, TypeOK, Filled
<1>2. \A i \in 1..cnt : rxBuf[i - 1] \in 1..arrived
  BY <1>1 DEF OrderInv, TypeOK, Filled
<1>3. read \in [1..cnt -> 1..arrived] /\ cnt \in Nat
  BY <1>1, <1>2 DEF TypeOK, Filled
<1>4. read \in Seq(1..arrived)
  BY <1>3, SeqDef
<1>5. Len(read) = cnt
  BY <1>3, <1>4, LenProperties, SizeAssumption DEF TypeOK
<1>6. delivered \in Seq(1..arrived) /\ delivered' = delivered \o read
  BY DEF TypeOK, Copy
<1>7. /\ delivered' \in Seq(1..arrived)
      /\ Len(delivered') = Len(delivered) + Len(read)
      /\ \A k \in 1..Len(delivered) + Len(read) :
           delivered'[k] = IF k <= Len(delivered) THEN delivered[k]
                           ELSE read[k - Len(delivered)]
      /\ Len(delivered) \in Nat
  <2> HIDE DEF read
  <2> QED
    BY <1>4, <1>6, ConcatProperties, LenProperties
<1>8. \A k \in 1..Len(delivered') : k > Len(delivered) =>
        read[k - Len(delivered)] = rxBuf[k - Len(delivered) - 1]
  BY <1>1, <1>3, <1>5, <1>7
<1>9. \A k \in 1..Len(delivered') :
        delivered'[k] = IF k <= Len(delivered) THEN delivered[k]
                        ELSE rxBuf[k - Len(delivered) - 1]
  <2> HIDE DEF read
  <2> SUFFICES ASSUME NEW k \in 1..Len(delivered')
               PROVE  delivered'[k] = IF k <= Len(delivered) THEN delivered[k]
                                      ELSE rxBuf[k - Len(delivered) - 1]
    OBVIOUS
  <2>1. delivered'[k] = IF k <= Len(delivered) THEN delivered[k]
                        ELSE read[k - Len(delivered)]
    BY <1>7
  <2>2. k \in Nat /\ Len(delivered) \in Nat
    BY <1>7
  <2> QED
    BY <2>1, <2>2, <1>8
<1> HIDE DEF read
<1> QED
  BY <1>1, <1>5, <1>6, <1>7, <1>9

LEMMA CopyKeeps == RxInv /\ Copy => RxInv'
<1> SUFFICES ASSUME RxInv, Copy PROVE RxInv'
  OBVIOUS
<1> USE SizeAssumption DEF RxInv
<1>frame. /\ pc = "copy" /\ pc' = "clear" /\ Copied' /\ Filled' = Filled
       /\ UNCHANGED <<rxBuf, readFlag, en, cndtr, tcif, dr, idleIrq, active, cnt, arrived,
                      exposed>>
  BY DEF Copy, At, channel, usart, Copied, Filled
<1>1. TypeOK'
  BY <1>frame, ReadReturned DEF TypeOK
<1>2. ChannelInv'
  BY <1>frame DEF ChannelInv
<1>3. OrderInv'
  <2>1. Filled \in Nat /\ dr \in Nat /\ arrived \in Nat
    BY DEF TypeOK, Filled, Byte
  <2>2. \A k \in 1..Len(delivered) : delivered[k] \in 1..arrived
    BY ReadReturned, ElementOfSeq
  <2>3. \A k \in 1..Len(delivered') :
          \/ k <= Len(delivered) /\ delivered'[k] = delivered[k]
          \/ /\ k > Len(delivered) /\ k - Len(delivered) - 1 \in 0..Filled - 1
             /\ delivered'[k] = rxBuf[k - Len(delivered) - 1]
    <3> SUFFICES ASSUME NEW k \in 1..Len(delivered')
                 PROVE  \/ k <= Len(delivered) /\ delivered'[k] = delivered[k]
                        \/ /\ k > Len(delivered) /\ k - Len(delivered) - 1 \in 0..Filled - 1
                           /\ delivered'[k] = rxBuf[k - Len(delivered) - 1]
      OBVIOUS
    <3>1. k \in Nat /\ 1 <= k /\ k <= Len(delivered) + cnt /\ cnt <= Filled /\ cnt \in Nat
      BY ReadReturned, <2>1
    <3>2. k > Len(delivered) => k - Len(delivered) - 1 \in 0..Filled - 1
      BY <3>1, ReadReturned, <2>1
    <3> QED
      BY <3>1, <3>2, ReadReturned
  <2>4. dr # 0 => \A k \in 1..Len(delivered') : delivered'[k] < dr
    <3> SUFFICES ASSUME dr # 0, NEW k \in 1..Len(delivered') PROVE delivered'[k] < dr
      OBVIOUS
    <3>1. CASE k <= Len(delivered)
      BY <3>1, ReadReturned DEF OrderInv
    <3>2. CASE k > Len(delivered)
      BY <3>2, <2>3, ReadReturned DEF OrderInv
    <3> QED
      BY <3>1, <3>2, ReadReturned
  <2>5. \A j, k \in 1..Len(delivered') : j < k => delivered'[j] < delivered'[k]
    <3> SUFFICES ASSUME NEW j \in 1..Len(delivered'), NEW k \in 1..Len(delivered'), j < k
                 PROVE  delivered'[j] < delivered'[k]
      OBVIOUS
    <3>1. CASE k <= Len(delivered)
      <4>1. j \in 1..Len(delivered) /\ k \in 1..Len(delivered)
        BY <3>1, ReadReturned
      <4> QED
        BY <4>1, ReadReturned, <3>1 DEF OrderInv
    <3>2. CASE j <= Len(delivered) /\ k > Len(delivered)
      <4> DEFINE i == k - Len(delivered) - 1
      <4>1. i \in 0..Filled - 1 /\ delivered'[k] = rxBuf[i]
        BY <3>2, <2>3, ReadReturned
      <4>2. j \in 1..Len(delivered) /\ delivered'[j] = delivered[j]
        BY <3>2, ReadReturned
      <4>3. ~Copied
        BY <1>frame DEF Copied
      <4> HIDE DEF i
      <4> QED
        BY <4>1, <4>2, <4>3 DEF OrderInv
    <3>3. CASE j > Len(delivered)
      <4> DEFINE i == k - Len(delivered) - 1
                 h == j - Len(delivered) - 1
      <4>1. i \in 0..Filled - 1 /\ delivered'[k] = rxBuf[i]
        BY <3>3, <2>3, ReadReturned
      <4>2. h \in 0..Filled - 1 /\ delivered'[j] = rxBuf[h]
        BY <3>3, <2>3, ReadReturned
      <4>3. h < i
        BY ReadReturned
      <4> HIDE DEF i, h
      <4> QED
        BY <4>1, <4>2, <4>3 DEF OrderInv
    <3> QED
      BY <3>1, <3>2, <3>3, ReadReturned
  <2> QED
    BY <1>frame, <2>4, <2>5 DEF OrderInv
<1>4. LossOnlyInWindow'
  <2> SUFFICES ASSUME NEW k \in 1..arrived, Lost(k)' PROVE k \in exposed
    BY <1>frame DEF LossOnlyInWindow
  <2>1. DOMAIN delivered = 1..Len(delivered) /\ DOMAIN delivered' = 1..Len(delivered')
    BY ReadReturned, LenProperties
  <2>2. ~Delivered(k)
    BY <2>1, ReadReturned DEF Lost, Delivered
  <2>3. ~Buffered(k) /\ dr # k
    BY <1>frame DEF Lost, Buffered
  <2> QED
    BY <2>2, <2>3 DEF LossOnlyInWindow, Lost
<1>5. ExposedInv'
  <2>1. DOMAIN delivered' = 1..Len(delivered')
    BY ReadReturned, LenProperties
  <2>2. ASSUME NEW i \in 0..cnt - 1 PROVE Delivered(rxBuf[i])'
    <3>1. i + 1 \in 1..cnt /\ Len(delivered) + (i + 1) \in DOMAIN delivered'
      BY <2>1, ReadReturned
    <3> DEFINE k == Len(delivered) + (i + 1)
    <3>2. k \in 1..Len(delivered') /\ k > Len(delivered) /\ k - Len(delivered) - 1 = i
      BY <3>1, <2>1, ReadReturned
    <3>3. delivered'[k] = rxBuf[i]
      BY <3>2, ReadReturned
    <3> QED
      BY <3>1, <3>3, <1>frame DEF Delivered
  <2> QED
    BY <2>2, <1>frame DEF ExposedInv
<1> QED
  BY <1>1, <1>2, <1>3, <1>4, <1>5

LEMMA ClearFlagKeeps == RxInv /\ ClearFlag => RxInv'
<1> SUFFICES ASSUME RxInv, ClearFlag PROVE RxInv'
  OBVIOUS
<1> USE SizeAssumption DEF RxInv
<1>1. TypeOK'
  BY DEF TypeOK, ClearFlag, At, channel, usart, ghosts, Index, Byte
<1>2. ChannelInv'
  BY DEF TypeOK, ChannelInv, ClearFlag, At, channel, usart, ghosts, Filled
<1>3. OrderInv'
  BY DEF TypeOK, ChannelInv, OrderInv, Copied, ClearFlag, At, channel, usart, ghosts,
     Index, Byte, Filled
<1>4. LossOnlyInWindow'
  BY DEF LossOnlyInWindow, ExposedInv, Lost, Buffered, Delivered, ClearFlag, At,
     channel, usart, ghosts, Filled
<1>5. ExposedInv'
  BY DEF TypeOK, ChannelInv, ExposedInv, Copied, Delivered, ClearFlag, At, channel,
     usart, ghosts, Index, Byte, Filled
<1> QED
  BY <1>1, <1>2, <1>3, <1>4, <1>5

LEMMA ReloadKeeps == RxInv /\ Reload => RxInv'
<1> SUFFICES ASSUME RxInv, Reload PROVE RxInv'
  OBVIOUS
<1> USE SizeAssumption DEF RxInv
<1>1. TypeOK'
  BY DEF TypeOK, Reload, At, usart, ghosts, Index, Byte
<1>2. ChannelInv'
  BY DEF TypeOK, ChannelInv, Reload, At, usart, ghosts, Filled
<1>3. OrderInv'
  BY DEF TypeOK, ChannelInv, OrderInv, Copied, Reload, At, usart, ghosts, Index, Byte,
     Filled
<1>4. LossOnlyInWindow'
  <2> SUFFICES ASSUME NEW k \in 1..arrived, Lost(k)' PROVE k \in exposed
    BY DEF LossOnlyInWindow, Reload, ghosts
  <2>1. ~Delivered(k) /\ dr # k
    BY DEF Lost, Delivered, Reload, ghosts, usart
  <2>2. CASE Buffered(k)
    <3>1. PICK i \in 0..Filled - 1 : rxBuf[i] = k
      BY <2>2 DEF Buffered
    <3>2. pc = "reload" /\ cnt \in 0..RecvBuf /\ Filled \in Nat
      BY DEF Reload, At, TypeOK, Filled
    <3>3. i \notin 0..cnt - 1
      BY <2>1, <3>1, <3>2 DEF ExposedInv, Copied
    <3>4. i \in cnt..Filled - 1
      BY <3>1, <3>2, <3>3
    <3> QED
      BY <3>1, <3>2, <3>4 DEF ExposedInv
  <2>3. CASE ~Buffered(k)
    BY <2>1, <2>3 DEF LossOnlyInWindow, Lost
  <2> QED
    BY <2>2, <2>3
<1>5. ExposedInv'
  BY DEF TypeOK, ChannelInv, ExposedInv, Copied, Delivered, Reload, At, usart, ghosts,
     Index, Byte, Filled
<1> QED
  BY <1>1, <1>2, <1>3, <1>4, <1>5

LEMMA StartKeeps == RxInv /\ Start => RxInv'
<1> SUFFICES ASSUME RxInv, Start PROVE RxInv'
  OBVIOUS
<1> USE SizeAssumption DEF RxInv
<1>1. TypeOK'
  BY DEF TypeOK, Start, At, usart, ghosts, Index, Byte
<1>2. ChannelInv'
  BY DEF TypeOK, ChannelInv, Start, At, usart, ghosts, Filled
<1>3. OrderInv'
  BY DEF TypeOK, ChannelInv, OrderInv, Copied, Start, At, usart, ghosts, Index, Byte, Filled
<1>4. LossOnlyInWindow'
  BY DEF LossOnlyInWindow, ExposedInv, Lost, Buffered, Delivered, Start, At, usart,
     ghosts, Filled
<1>5. ExposedInv'
  BY DEF TypeOK, ChannelInv, ExposedInv, Copied, Delivered, Start, At, usart, ghosts,
     Request, Index, Byte, Filled
<1> QED
  BY <1>1, <1>2, <1>3, <1>4, <1>5

-----------------------------------------------------------------------------
(* The theorems.                                                           *)

LEMMA RxStep == RxInv /\ [Next]_vars => RxInv'
<1> SUFFICES ASSUME RxInv, [Next]_vars PROVE RxInv'
  OBVIOUS
<1>1. CASE UNCHANGED vars
  BY <1>1 DEF RxInv, vars, channel, usart, ghosts, TypeOK, ChannelInv, OrderInv,
     LossOnlyInWindow, ExposedInv, Copied, Lost, Buffered, Delivered, Filled
<1> QED
  BY <1>1, ArriveKeeps, LineIdleKeeps, DmaReceiveKeeps, USART2_IRQHandlerKeeps,
     DMA1_Channel6_IRQHandlerKeeps, CheckFlagKeeps, CountKeeps, StopKeeps, CopyKeeps,
     ClearFlagKeeps, ReloadKeeps, StartKeeps DEF Next, ReadCom2Data

LEMMA RxInvariant == Spec => []RxInv
BY RxInit, RxStep, PTL DEF Spec

\* What reads return comes in the order of the line and without repeats, and a
\* byte is lost only if it came in while a read was in progress or while there was
\* no room: whatever the sizes, and wherever the interrupts and the channel fall
\* between the statements of ReadCom2Data.
THEOREM ReadsInOrder == Spec => [](TypeOK /\ DeliveredInOrder /\ LossOnlyInWindow)
<1>1. RxInv => TypeOK /\ DeliveredInOrder /\ LossOnlyInWindow
  <2> SUFFICES ASSUME RxInv PROVE DeliveredInOrder
    BY DEF RxInv
  <2>1. DOMAIN delivered = 1..Len(delivered)
    BY LenProperties DEF RxInv, TypeOK
  <2> QED
    BY <2>1 DEF RxInv, OrderInv, DeliveredInOrder
<1> QED
  BY <1>1, RxInvariant, PTL


-----------------------------------------------------------------------------
(* The main loop: its steps are the receiver's.                            *)

\* Each step of the loop is a step of the receiver, or leaves it alone.
LEMMA LoopStep == [ForwardNext]_allVars => [Next]_vars
<1> SUFFICES ASSUME [ForwardNext]_allVars PROVE [Next]_vars
  OBVIOUS
<1>1. CASE (Hardware \/ Handlers) /\ UNCHANGED loop
  BY <1>1 DEF Hardware, Handlers, Next
<1>2. CASE ReadUartData
  BY <1>2 DEF ReadUartData, Next
<1>3. CASE SendTcpDataToClient
  BY <1>3 DEF SendTcpDataToClient
<1>4. CASE UNCHANGED allVars
  BY <1>4 DEF allVars
<1> QED
  BY <1>1, <1>2, <1>3, <1>4 DEF ForwardNext

\* The receiver inside the main loop is the receiver of UartRx: what the loop does
\* between two reads takes nothing away from it and adds nothing.
THEOREM LoopReads == ForwardSpec => Spec
<1>1. ForwardInit => Init
  BY DEF ForwardInit
<1> QED
  BY <1>1, LoopStep, PTL DEF ForwardSpec, Spec

\* So the reads of the main loop are in the order of the line, without repeats, and
\* a byte is lost only while one is in progress or while there was no room.
THEOREM LoopReadsInOrder == ForwardSpec => [](DeliveredInOrder /\ LossOnlyInWindow)
BY LoopReads, ReadsInOrder, PTL

-----------------------------------------------------------------------------
(* The main loop: the invariant about its buffer.                          *)

\* How many bytes the read has that is not with the client yet.
Current == IF got > 0 THEN got
           ELSE IF pc \in {"clear", "reload", "start"} THEN cnt ELSE 0

\* How many bytes the reads had that are.
Given == IF messages = << >> THEN 0
         ELSE messages[Len(messages)].from + messages[Len(messages)].got

Msg == [got : 1..RecvBuf, from : Nat, bytes : Seq(Byte \cup {Junk})]

LoopTypes ==
  /\ got \in 0..RecvBuf
  /\ got > 0 => pc = "poll"
  /\ data \in [Data -> Byte \cup {Junk}]
  /\ data[RecvBuf + Behind] = 0
  /\ messages \in Seq(Msg)

\* The read at hand stands at the front of the buffer, and behind it stand junk
\* and bytes of earlier reads that were longer.
ReadInv ==
  /\ Len(delivered) = Given + Current
  /\ \A n \in DOMAIN messages : messages[n].from + messages[n].got <= Given
  /\ \A i \in 0..Current - 1 : data[i] = delivered[Given + i + 1]
OldInv ==
  \A i \in Data : i >= Current =>
    \/ data[i] \in {Junk, 0}
    \/ \E k \in DOMAIN messages : i < messages[k].got /\ data[i] = ReadFor(k)[i + 1]

LoopInv == /\ RxInv /\ LoopTypes /\ ReadInv /\ OldInv
           /\ ReadIsForwarded /\ BehindIsOld

-----------------------------------------------------------------------------
(* strlen.                                                                 *)

Smaller == {p \in Nat \X Nat : p[1] < p[2]}

LEMMA SmallerWF == IsWellFoundedOn(Smaller, Nat)
<1>1. IsWellFoundedOn(OpToRel(<, Nat), Nat)
  BY NatLessThanWellFounded
<1>2. OpToRel(<, Nat) = Smaller
  BY DEF OpToRel, Smaller
<1> QED
  BY <1>1, <1>2

\* A set of numbers that is not empty has a smallest one.
LEMMA Least ==
  ASSUME NEW S \in SUBSET Nat, S # {}
  PROVE  \E n \in S : \A m \in S : n <= m
<1>1. PICK n \in S : \A m \in S : ~ (<<m, n>> \in Smaller)
  BY SmallerWF, WFMin
<1>2. ASSUME NEW m \in S PROVE n <= m
  <2>1. n \in Nat /\ m \in Nat
    OBVIOUS
  <2>2. <<m, n>> \notin Smaller
    BY <1>1
  <2>3. m < n => <<m, n>> \in Smaller
    BY <2>1 DEF Smaller
  <2> QED
    BY <2>1, <2>2, <2>3
<1> QED
  BY <1>2

\* The 0 behind all reads is never overwritten, so strlen stops inside the buffer, at
\* the first 0.
LEMMA StrlenStops ==
  ASSUME LoopTypes
  PROVE  strlen \in Data /\ IsNul(strlen) /\ \A i \in 0..strlen - 1 : ~IsNul(i)
<1> DEFINE S == {n \in Data : IsNul(n)}
<1>1. Data = 0..RecvBuf + Behind /\ RecvBuf + Behind \in Nat
  BY SizeAssumption, BehindAssumption DEF Data
<1>2. RecvBuf + Behind \in S /\ S \in SUBSET Nat
  BY <1>1 DEF LoopTypes, IsNul
<1>3. PICK n \in S : \A m \in S : n <= m
  BY <1>2, Least
<1>4. \A i \in 0..n - 1 : ~IsNul(i)
  <2> SUFFICES ASSUME NEW i \in 0..n - 1, IsNul(i) PROVE FALSE
    OBVIOUS
  <2>1. n \in 0..RecvBuf + Behind
    BY <1>1, <1>3
  <2>2. i \in Data /\ i < n
    BY <1>1, <2>1
  <2>3. i \in S
    BY <2>2
  <2> QED
    BY <1>3, <2>1, <2>2, <2>3
<1>5. n \in Data /\ IsNul(n)
  BY <1>3
<1> QED
  BY <1>4, <1>5 DEF strlen

-----------------------------------------------------------------------------
(* The invariant of the loop is kept.                                      *)

LEMMA GivenIsNat == LoopTypes => Given \in Nat
<1> SUFFICES ASSUME LoopTypes, messages # << >> PROVE Given \in Nat
  BY DEF Given
<1>1. messages[Len(messages)] \in Msg
  <2>1. messages \in Seq(Msg)
    BY DEF LoopTypes
  <2>2. Len(messages) \in 1..Len(messages)
    BY <2>1, EmptySeq, LenProperties
  <2> QED
    BY <2>1, <2>2, ElementOfSeq
<1> QED
  BY <1>1, SizeAssumption DEF Given, Msg

LEMMA LoopInit == ForwardInit => LoopInv
<1> SUFFICES ASSUME ForwardInit PROVE LoopInv
  OBVIOUS
<1> USE SizeAssumption, BehindAssumption
<1>1. /\ RxInv /\ pc = "poll" /\ got = 0 /\ messages = << >> /\ delivered = << >>
  BY RxInit DEF ForwardInit, Init
<1>2. PICK end \in {0, RecvBuf + Behind} :
        data = [i \in Data |-> IF i < end THEN Junk ELSE 0]
  BY DEF ForwardInit
<1>3. /\ data \in [Data -> Byte \cup {Junk}]
      /\ data[RecvBuf + Behind] = 0
      /\ \A i \in Data : data[i] \in {Junk, 0}
  BY <1>2 DEF Data, Byte
<1>4. LoopTypes
  BY <1>1, <1>3 DEF LoopTypes
<1>5. Current = 0 /\ Given = 0
  BY <1>1 DEF Current, Given
<1>6. ReadInv /\ OldInv /\ ReadIsForwarded /\ BehindIsOld
  BY <1>1, <1>3, <1>5 DEF ReadInv, OldInv, ReadIsForwarded, BehindIsOld
<1> QED
  BY <1>1, <1>4, <1>6 DEF LoopInv

\* What the loop knows does not depend on the rest of the receiver.
LEMMA LoopUntouched ==
  ASSUME LoopInv, RxInv', LoopTypes', Current' = Current,
         UNCHANGED <<delivered, data, messages, nul>>
  PROVE  LoopInv'
<1>1. Given' = Given /\ \A n \in DOMAIN messages : ReadFor(n)' = ReadFor(n)
  BY DEF Given, ReadFor
<1>2. ReadInv' /\ OldInv'
  BY <1>1 DEF LoopInv, ReadInv, OldInv
<1>3. ReadIsForwarded'
  BY <1>1 DEF LoopInv, ReadIsForwarded, Follows
<1>4. BehindIsOld'
  BY DEF LoopInv, BehindIsOld, ReadFor, Rest, Fresh, Bytes
<1> QED
  BY <1>2, <1>3, <1>4 DEF LoopInv

\* Bytes are only added behind those that were read, so a message keeps its read.
LEMMA CopyReads == LoopInv /\ RxInv' /\ ReadUartData /\ Copy => LoopInv'
<1> SUFFICES ASSUME LoopInv, RxInv', ReadUartData, Copy PROVE LoopInv'
  OBVIOUS
<1> USE SizeAssumption, BehindAssumption
<1>1. /\ pc = "copy" /\ pc' = "clear" /\ got = 0 /\ got' = 0
      /\ UNCHANGED <<cnt, rxBuf, nul, messages, arrived>>
      /\ data' = [i \in Data |-> IF i < cnt THEN rxBuf[i] ELSE data[i]]
  BY DEF ReadUartData, Copy, At
<1>2. /\ Len(delivered') = Len(delivered) + cnt
      /\ \A k \in 1..Len(delivered') :
           delivered'[k] = IF k <= Len(delivered) THEN delivered[k]
                           ELSE rxBuf[k - Len(delivered) - 1]
      /\ Len(delivered) \in Nat /\ cnt \in 0..RecvBuf
  <2>1. cnt \in 0..RecvBuf
    BY DEF LoopInv, RxInv, TypeOK
  <2> QED
    BY <2>1, ReadReturned DEF LoopInv
<1>3. Current = 0 /\ Current' = cnt /\ Given' = Given /\ Given \in Nat
      /\ Len(delivered) = Given
  <2>1. Current = 0 /\ Current' = cnt
    BY <1>1 DEF Current
  <2>2. Given' = Given /\ Given \in Nat
    BY <1>1, GivenIsNat DEF Given, LoopInv
  <2> QED
    BY <2>1, <2>2 DEF LoopInv, ReadInv
<1>4. LoopTypes'
  <2>1. rxBuf \in [Index -> Byte]
    BY DEF LoopInv, RxInv, TypeOK
  <2>2. \A i \in Data : i < cnt => i \in Index
    BY <1>2 DEF Data, Index
  <2>3. data' \in [Data -> Byte \cup {Junk}]
    BY <1>1, <2>1, <2>2 DEF LoopInv, LoopTypes
  <2>4. RecvBuf + Behind \in Data /\ ~(RecvBuf + Behind < cnt)
    BY <1>2 DEF Data
  <2> QED
    BY <1>1, <2>3, <2>4 DEF LoopInv, LoopTypes
<1>5. ASSUME NEW n \in DOMAIN messages PROVE ReadFor(n)' = ReadFor(n)
  <2>1. messages[n] \in Msg
    <3>1. messages \in Seq(Msg)
      BY DEF LoopInv, LoopTypes
    <3>2. DOMAIN messages = 1..Len(messages)
      BY <3>1, LenProperties
    <3> QED
      BY <3>1, <3>2, ElementOfSeq
  <2>2. messages[n].from + messages[n].got <= Len(delivered)
    BY <1>3 DEF LoopInv, ReadInv
  <2>3. messages[n].got \in Nat /\ messages[n].from \in Nat
    BY <2>1 DEF Msg
  <2>4. \A i \in 1..messages[n].got :
          delivered'[messages[n].from + i] = delivered[messages[n].from + i]
    BY <1>2, <2>2, <2>3
  <2> QED
    BY <1>1, <2>4 DEF ReadFor
<1>6. ReadInv'
  <2>1. \A i \in 0..cnt - 1 : data'[i] = delivered'[Given + i + 1]
    <3> SUFFICES ASSUME NEW i \in 0..cnt - 1 PROVE data'[i] = delivered'[Given + i + 1]
      OBVIOUS
    <3>1. i \in Data /\ i < cnt
      BY <1>2 DEF Data
    <3>2. Given + i + 1 \in 1..Len(delivered') /\ ~(Given + i + 1 <= Len(delivered))
          /\ Given + i + 1 - Len(delivered) - 1 = i
      BY <1>2, <1>3
    <3>3. \A k \in 1..Len(delivered') : ~(k <= Len(delivered)) =>
            delivered'[k] = rxBuf[k - Len(delivered) - 1]
      BY <1>2
    <3>4. delivered'[Given + i + 1] = rxBuf[i]
      <4>1. PICK k \in 1..Len(delivered') :
              /\ k = Given + i + 1
              /\ ~(k <= Len(delivered)) /\ k - Len(delivered) - 1 = i
        BY <1>2, <1>3, <3>2
      <4>2. delivered'[k] = rxBuf[k - Len(delivered) - 1]
        BY <3>3, <4>1
      <4> QED
        BY <4>1, <4>2
    <3> QED
      BY <1>1, <3>1, <3>4
  <2> QED
    BY <1>1, <1>2, <1>3, <2>1 DEF LoopInv, ReadInv
<1>7. OldInv'
  <2> SUFFICES ASSUME NEW i \in Data, i >= cnt
               PROVE  \/ data'[i] \in {Junk, 0}
                      \/ \E k \in DOMAIN messages :
                           i < messages[k].got /\ data'[i] = ReadFor(k)'[i + 1]
    BY <1>1, <1>3 DEF OldInv
  <2>1. i \in Nat /\ i >= Current /\ data'[i] = data[i]
    BY <1>1, <1>2, <1>3 DEF Data
  <2> QED
    BY <1>5, <2>1 DEF LoopInv, OldInv
<1>8. ReadIsForwarded'
  BY <1>1, <1>5 DEF LoopInv, ReadIsForwarded, Follows
<1>9. BehindIsOld'
  <2> SUFFICES ASSUME NEW n \in DOMAIN messages, NEW b \in Rest(messages[n]) \ {Junk}
               PROVE  \E k \in 1..n - 1 :
                        messages[k].got > messages[n].got /\ b \in Range(ReadFor(k)')
    BY <1>1 DEF BehindIsOld, Rest, Fresh, Bytes
  <2>1. PICK k \in 1..n - 1 :
          messages[k].got > messages[n].got /\ b \in Range(ReadFor(k))
    BY DEF LoopInv, BehindIsOld
  <2>2. k \in DOMAIN messages
    BY LenProperties DEF LoopInv, LoopTypes
  <2> QED
    BY <1>5, <2>1, <2>2
<1> QED
  BY <1>4, <1>6, <1>7, <1>8, <1>9 DEF LoopInv

LEMMA ReadKeeps == LoopInv /\ RxInv' /\ ReadUartData => LoopInv'
<1> SUFFICES ASSUME LoopInv, RxInv', ReadUartData PROVE LoopInv'
  OBVIOUS
<1>1. CASE Copy
  BY <1>1, CopyReads
<1>2. CASE ~Copy
  <2>1. /\ got = 0 /\ UNCHANGED <<nul, messages>>
        /\ CheckFlag \/ Count \/ Stop \/ ClearFlag \/ Reload \/ Start
    BY <1>2 DEF ReadUartData, ReadCom2Data
  <2>2. UNCHANGED delivered /\ pc # "copy" /\ UNCHANGED data
    BY <2>1 DEF ReadUartData, CheckFlag, Count, Stop, ClearFlag, Reload, Start, At,
       ghosts
  <2>3. got' = IF pc = "start" THEN cnt ELSE 0
    BY DEF ReadUartData
  <2>4. cnt \in 0..RecvBuf /\ cnt' \in 0..RecvBuf
    BY DEF LoopInv, RxInv, TypeOK
  <2>5. pc = "start" <=> Start
    BY <2>1 DEF CheckFlag, Count, Stop, ClearFlag, Reload, Start, At
  <2>6. LoopTypes'
    <3>1. got' > 0 => pc' = "poll"
      BY <2>3, <2>5 DEF Start, At
    <3> QED
      BY <2>1, <2>2, <2>3, <2>4, <3>1, SizeAssumption DEF LoopInv, LoopTypes
  <2>7. Current' = Current
    BY <2>1, <2>3, <2>4, SizeAssumption DEF Current, CheckFlag, Count, Stop, ClearFlag,
       Reload, Start, At
  <2> QED
    BY <2>1, <2>2, <2>6, <2>7, LoopUntouched
<1> QED
  BY <1>1, <1>2

LEMMA HardwareKeeps ==
  LoopInv /\ RxInv' /\ (Hardware \/ Handlers) /\ UNCHANGED loop => LoopInv'
<1> SUFFICES ASSUME LoopInv, RxInv', Hardware \/ Handlers, UNCHANGED loop PROVE LoopInv'
  OBVIOUS
<1>1. UNCHANGED <<delivered, pc, cnt, data, got, messages, nul>>
  BY DEF loop, Hardware, Handlers, Arrive, LineIdle, DmaReceive, USART2_IRQHandler,
     DMA1_Channel6_IRQHandler, ghosts
<1> QED
  BY <1>1, LoopUntouched DEF Current, LoopInv, LoopTypes

\* What one message shows of the buffer.
LEMMA SendKeeps == LoopInv /\ RxInv' /\ SendTcpDataToClient => LoopInv'
<1> SUFFICES ASSUME LoopInv, RxInv', SendTcpDataToClient PROVE LoopInv'
  OBVIOUS
<1> USE SizeAssumption, BehindAssumption
<1> DEFINE m == [got |-> got, from |-> Len(delivered) - got, bytes |-> Message(strlen)]
<1>1. /\ got > 0 /\ got' = 0 /\ UNCHANGED <<vars, nul, data>>
      /\ messages' = Append(messages, m)
  BY DEF SendTcpDataToClient
<1>2. UNCHANGED <<delivered, pc, arrived, cnt>> /\ pc = "poll"
  BY <1>1 DEF vars, ghosts, LoopInv, LoopTypes
<1>3. /\ got \in 1..RecvBuf /\ Current = got /\ Current' = 0
      /\ messages \in Seq(Msg) /\ data \in [Data -> Byte \cup {Junk}]
  BY <1>1, <1>2 DEF LoopInv, LoopTypes, Current
<1>4. strlen \in Data /\ IsNul(strlen) /\ \A i \in 0..strlen - 1 : ~IsNul(i)
  BY StrlenStops DEF LoopInv
<1>5. Data = 0..RecvBuf + Behind /\ Data \subseteq Nat
  BY DEF Data
<1>6. Given \in Nat /\ Len(delivered) = Given + got
  BY <1>3, GivenIsNat DEF LoopInv, ReadInv
<1>7. /\ Message(strlen) \in Seq(Byte \cup {Junk})
      /\ DOMAIN Message(strlen) = 1..strlen
      /\ \A i \in 1..strlen : i - 1 \in Data /\ Message(strlen)[i] = data[i - 1]
  <2>1. \A i \in 1..strlen : i - 1 \in Data
    BY <1>4, <1>5
  <2>2. Message(strlen) \in [1..strlen -> Byte \cup {Junk}]
    BY <1>3, <2>1 DEF Message
  <2> QED
    BY <1>4, <1>5, <2>1, <2>2, SeqDef DEF Message
<1>8. m \in Msg /\ m.got = got /\ m.from = Given /\ m.bytes = Message(strlen)
  BY <1>3, <1>6, <1>7 DEF Msg
<1> HIDE DEF m
<1> PICK N \in Nat : N = Len(messages) + 1
  BY <1>3, LenProperties
<1>9. /\ messages' \in Seq(Msg) /\ Len(messages) \in Nat /\ Len(messages') = N
      /\ \A i \in 1..Len(messages) : messages'[i] = messages[i]
      /\ messages'[N] = m
  BY <1>1, <1>3, <1>8, LenProperties, AppendProperties
<1>10. DOMAIN messages' = 1..N /\ DOMAIN messages = 1..Len(messages)
  BY <1>3, <1>9, LenProperties
<1>11. \A n \in 1..Len(messages) : ReadFor(n)' = ReadFor(n)
  BY <1>2, <1>9 DEF ReadFor
<1>12. ReadFor(N)' = [i \in 1..got |-> delivered[Given + i]]
  BY <1>2, <1>8, <1>9 DEF ReadFor
<1>13. Given' = Given + got
  <2>1. messages' # << >>
    BY <1>9, EmptySeq
  <2> QED
    BY <1>8, <1>9, <2>1 DEF Given
<1>14. \A i \in 1..got : ReadFor(N)'[i] = data[i - 1] /\ i - 1 \in Data
  <2> SUFFICES ASSUME NEW i \in 1..got
               PROVE  ReadFor(N)'[i] = data[i - 1] /\ i - 1 \in Data
    OBVIOUS
  <2>1. i - 1 \in 0..Current - 1 /\ i - 1 \in Data /\ Given + (i - 1) + 1 = Given + i
    BY <1>3, <1>5, <1>6
  <2>2. data[i - 1] = delivered[Given + i]
    BY <2>1 DEF LoopInv, ReadInv
  <2> QED
    BY <1>12, <2>1, <2>2
<1>15. LoopTypes'
  <2>1. got' \in 0..RecvBuf /\ (got' > 0 => pc' = "poll")
    BY <1>1
  <2>2. UNCHANGED <<data, Byte, RecvBuf, Behind>>
    BY <1>1
  <2> QED
    BY <1>9, <2>1, <2>2 DEF LoopInv, LoopTypes
<1>16. ReadInv'
  <2>1. \A n \in 1..N : messages'[n].from + messages'[n].got <= Given'
    <3> SUFFICES ASSUME NEW n \in 1..N
                 PROVE  messages'[n].from + messages'[n].got <= Given'
      OBVIOUS
    <3>1. CASE n = N
      BY <1>3, <1>6, <1>8, <1>9, <1>13, <3>1
    <3>2. CASE n # N
      <4>1. n \in 1..Len(messages)
        BY <1>9, <3>2
      <4>2. messages[n].from + messages[n].got <= Given
        BY <1>10, <4>1 DEF LoopInv, ReadInv
      <4>3. messages[n] \in Msg
        BY <1>3, <4>1, ElementOfSeq
      <4>4. messages[n].from \in Nat /\ messages[n].got \in Nat
        BY <4>3 DEF Msg
      <4> QED
        BY <1>3, <1>6, <1>9, <1>13, <4>1, <4>2, <4>4
    <3> QED
      BY <3>1, <3>2
  <2>2. Len(delivered') = Given' + Current'
    BY <1>2, <1>3, <1>6, <1>13
  <2> QED
    BY <1>3, <1>10, <2>1, <2>2 DEF ReadInv
<1>17. OldInv'
  <2> SUFFICES ASSUME NEW i \in Data
               PROVE  \/ data[i] \in {Junk, 0}
                      \/ \E k \in 1..N :
                           i < messages'[k].got /\ data[i] = ReadFor(k)'[i + 1]
    BY <1>1, <1>10 DEF OldInv
  <2>1. CASE i < got
    <3>1. PICK j \in 1..got : j = i + 1 /\ j - 1 = i
      BY <1>3, <1>5, <2>1
    <3>2. ReadFor(N)'[j] = data[i]
      BY <1>14, <3>1
    <3>3. N \in 1..N /\ messages'[N].got = got
      BY <1>8, <1>9
    <3> QED
      BY <2>1, <3>1, <3>2, <3>3
  <2>2. CASE i >= got
    <3>1. \/ data[i] \in {Junk, 0}
          \/ \E k \in 1..Len(messages) : i < messages[k].got /\ data[i] = ReadFor(k)[i + 1]
      BY <1>3, <1>10, <2>2 DEF LoopInv, OldInv
    <3>2. \A k \in 1..Len(messages) : k \in 1..N
      BY <1>9
    <3> QED
      BY <1>9, <1>11, <3>1, <3>2
  <2> QED
    BY <1>3, <1>5, <2>1, <2>2
<1>18. ReadIsForwarded'
  <2> SUFFICES ASSUME NEW n \in 1..N
               PROVE  /\ Follows(n)'
                      /\ \A i \in DOMAIN ReadFor(n)' :
                           \/ /\ i \in DOMAIN messages'[n].bytes
                              /\ messages'[n].bytes[i] = ReadFor(n)'[i]
                           \/ \E j \in 1..i : ReadFor(n)'[j] \in nul
    BY <1>1, <1>10 DEF ReadIsForwarded
  <2>1. CASE n # N
    <3>1. n \in 1..Len(messages) /\ (n = 1 \/ n - 1 \in 1..Len(messages))
      BY <1>9, <2>1
    <3>2. Follows(n)'
      BY <1>9, <1>10, <3>1 DEF Follows, LoopInv, ReadIsForwarded
    <3> QED
      BY <1>9, <1>10, <1>11, <3>1, <3>2 DEF LoopInv, ReadIsForwarded
  <2>2. CASE n = N
    <3>1. Follows(n)'
      <4>1. CASE messages = << >>
        BY <1>8, <1>9, <2>2, <4>1 DEF Given, Follows
      <4>2. CASE messages # << >>
        <5>1. Len(messages) \in 1..Len(messages) /\ N - 1 = Len(messages) /\ N # 1
          BY <1>3, <1>9, <4>2, EmptySeq, LenProperties
        <5> QED
          BY <1>8, <1>9, <2>2, <4>2, <5>1 DEF Given, Follows
      <4> QED
        BY <4>1, <4>2
    <3>2. ASSUME NEW i \in 1..got
          PROVE  \/ i \in 1..strlen /\ Message(strlen)[i] = ReadFor(n)'[i]
                 \/ \E j \in 1..i : ReadFor(n)'[j] \in nul
      <4>1. CASE i <= strlen
        BY <1>4, <1>5, <1>7, <1>14, <2>2, <4>1
      <4>2. CASE i > strlen
        <5>1. strlen + 1 \in 1..i /\ strlen + 1 \in 1..got /\ strlen + 1 - 1 = strlen
          BY <1>3, <1>4, <1>5, <4>2
        <5>2. ReadFor(n)'[strlen + 1] = data[strlen]
          <6>1. PICK j \in 1..got : j = strlen + 1 /\ j - 1 = strlen
            BY <1>4, <1>5, <5>1
          <6> QED
            BY <1>14, <2>2, <6>1
        <5>3. data[strlen] # 0
          <6>1. delivered \in Seq(1..arrived) /\ arrived \in Nat
            BY DEF LoopInv, RxInv, TypeOK, Byte
          <6>2. Given + (strlen + 1) \in 1..Len(delivered)
            BY <1>3, <1>4, <1>5, <1>6, <5>1
          <6>3. delivered[Given + (strlen + 1)] \in 1..arrived
            BY <6>1, <6>2, ElementOfSeq
          <6>4. ReadFor(n)'[strlen + 1] = delivered[Given + (strlen + 1)]
            BY <1>12, <2>2, <5>1
          <6> QED
            BY <5>2, <6>1, <6>3, <6>4
        <5> QED
          BY <1>4, <5>1, <5>2, <5>3 DEF IsNul
      <4> QED
        BY <1>3, <1>4, <1>5, <4>1, <4>2
    <3>3. DOMAIN ReadFor(n)' = 1..got
      BY <1>12, <2>2
    <3> QED
      BY <1>7, <1>8, <1>9, <2>2, <3>1, <3>2, <3>3
  <2> QED
    BY <2>1, <2>2
<1>19. BehindIsOld'
  <2> SUFFICES ASSUME NEW n \in 1..N, NEW b \in Rest(messages'[n]), b # Junk
               PROVE  \E k \in 1..n - 1 : /\ messages'[k].got > messages'[n].got
                                          /\ b \in Range(ReadFor(k)')
    BY <1>10 DEF BehindIsOld, Rest, Bytes, Fresh
  <2>1. CASE n # N
    <3>1. n \in 1..Len(messages)
      BY <1>9, <2>1
    <3>2. b \in Rest(messages[n])
      BY <1>9, <3>1
    <3>3. PICK k \in 1..n - 1 :
            messages[k].got > messages[n].got /\ b \in Range(ReadFor(k))
      BY <1>10, <3>1, <3>2 DEF LoopInv, BehindIsOld
    <3>4. k \in 1..Len(messages)
      BY <1>9, <3>1
    <3> QED
      BY <1>9, <1>11, <3>1, <3>3, <3>4
  <2>2. CASE n = N
    <3>1. PICK i \in 1..strlen : b = Message(strlen)[i] /\ ~(i <= got)
      <4>1. messages'[n].bytes = Message(strlen) /\ messages'[n].got = got
        BY <1>8, <1>9, <2>2
      <4>2. b \in Bytes(messages'[n]) /\ b \notin Fresh(messages'[n])
        BY DEF Rest
      <4>3. PICK i \in 1..strlen : b = Message(strlen)[i]
        BY <1>7, <4>1, <4>2 DEF Bytes, Range
      <4>4. i <= got => b \in Fresh(messages'[n])
        BY <1>7, <4>1, <4>3 DEF Fresh
      <4> QED
        BY <4>2, <4>3, <4>4
    <3>2. /\ i - 1 \in Data /\ i - 1 >= Current /\ i \in Nat /\ i - 1 + 1 = i
          /\ b = data[i - 1] /\ i - 1 \in 0..strlen - 1
      BY <1>3, <1>4, <1>5, <1>7, <3>1
    <3>3. data[i - 1] # 0
      BY <1>4, <3>2 DEF IsNul
    <3>4. PICK k \in 1..Len(messages) :
            i - 1 < messages[k].got /\ data[i - 1] = ReadFor(k)[i - 1 + 1]
      BY <1>10, <3>2, <3>3 DEF LoopInv, OldInv
    <3>5. messages[k].got \in Nat
      <4>1. messages[k] \in Msg
        BY <1>3, <3>4, ElementOfSeq
      <4> QED
        BY <4>1 DEF Msg
    <3>6. messages[k].got > got /\ i \in 1..messages[k].got
      BY <1>3, <3>1, <3>2, <3>4, <3>5
    <3>7. DOMAIN ReadFor(k) = 1..messages[k].got
      BY DEF ReadFor
    <3>8. b \in Range(ReadFor(k))
      BY <3>2, <3>4, <3>6, <3>7 DEF Range
    <3>9. k \in 1..n - 1
      BY <1>9, <2>2, <3>4
    <3> QED
      BY <1>8, <1>9, <1>11, <2>2, <3>4, <3>6, <3>8, <3>9
  <2> QED
    BY <2>1, <2>2
<1> QED
  BY <1>15, <1>16, <1>17, <1>18, <1>19 DEF LoopInv

LEMMA LoopInvStep == LoopInv /\ RxInv' /\ [ForwardNext]_allVars => LoopInv'
<1> SUFFICES ASSUME LoopInv, RxInv', [ForwardNext]_allVars PROVE LoopInv'
  OBVIOUS
<1>1. CASE UNCHANGED allVars
  BY <1>1, LoopUntouched DEF allVars, loop, vars, ghosts, Current, LoopInv, LoopTypes
<1> QED
  BY <1>1, HardwareKeeps, ReadKeeps, SendKeeps DEF ForwardNext

LEMMA LoopInvariant == ForwardSpec => []LoopInv
<1>1. LoopInv /\ [ForwardNext]_allVars => LoopInv'
  BY LoopInvStep, RxStep, LoopStep DEF LoopInv
<1> QED
  BY <1>1, LoopInit, PTL DEF ForwardSpec

\* Each read goes to the client in one message, in its place and up to its first 0,
\* whatever stands behind it in the buffer, and no read is left out: for any
\* sizes and wherever the bytes fall on reads (main.c:28).
THEOREM ReadsAreForwarded == ForwardSpec => []ReadIsForwarded
<1>1. LoopInv => ReadIsForwarded
  BY DEF LoopInv
<1> QED
  BY <1>1, LoopInvariant, PTL

\* What a message has behind its read is what stood there before: junk, or bytes of an
\* earlier read that was longer, never a byte that was not read (main.c:32).
THEOREM RestIsOld == ForwardSpec => []BehindIsOld
<1>1. LoopInv => BehindIsOld
  BY DEF LoopInv
<1> QED
  BY <1>1, LoopInvariant, PTL
=============================================================================
