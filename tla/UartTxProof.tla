---------------------------- MODULE UartTxProof ----------------------------
(***************************************************************************)
(* Proofs about the transmit half of the COM2 driver (module UartTx).      *)
(***************************************************************************)
EXTENDS UartTx, TLAPS

-----------------------------------------------------------------------------
(* Any number of callers.                                                  *)

\* Once a message was laid out, the counts of its caller fit the buffer.
LaidOut == {"setLen", "setCndtr", "setFlag", "enable"}
CountsFit == \A c \in Callers : pc[c] \in LaidOut => len[c] + tmp[c] <= SendBuf

BoundsInv == TypeOK /\ CountsFit /\ ChannelInBounds

\* What a call accepts fits behind the bytes that are left.
LEMMA FitsInBuffer ==
  ASSUME NEW c \in Callers, TypeOK
  PROVE  /\ Fits(c) \in 0..MaxLen
         /\ Fits(c) + tmp[c] <= SendBuf
BY SizeAssumption DEF TypeOK, Fits

\* An unsigned 8-bit difference is an 8-bit number.
LEMMA U8Range == \A x \in Int : x % 256 \in 0..255
OBVIOUS

LEMMA BoundsInit == Init => BoundsInv
<1> SUFFICES ASSUME Init PROVE BoundsInv
  OBVIOUS
<1>1. TypeOK
  <2>1. buf \in [Index -> Nat \cup {Stray}]
    BY DEF Init
  <2>2. pc \in [Callers -> Pcs]
    BY DEF Init, Pcs
  <2>3. wire \in Seq(Nat \cup {Stray})
    BY DEF Init
  <2>4. en \in BOOLEAN /\ tcif \in BOOLEAN
    BY DEF Init
  <2>5. /\ len \in [Callers -> 0..MaxLen]
        /\ tmp \in [Callers -> 0..SendBuf]
        /\ cnt \in [Callers -> U8]
    BY SizeAssumption DEF Init, U8
  <2>6. /\ flag \in {0, 1} /\ sendLen \in U8
        /\ cndtr \in 0..SendBuf /\ ptr \in 0..SendBuf
        /\ calls \in 0..MaxCalls /\ accepted \in Nat
    BY SizeAssumption DEF Init, U8
  <2> QED
    BY <2>1, <2>2, <2>3, <2>4, <2>5, <2>6 DEF TypeOK
<1>2. CountsFit
  BY DEF Init, CountsFit, LaidOut
<1>3. ChannelInBounds
  BY SizeAssumption DEF Init, ChannelInBounds
<1> QED
  BY <1>1, <1>2, <1>3 DEF BoundsInv

\* The counts a caller works with, the ones the channel was given and the
\* bytes in the buffer keep their ranges in every interleaving.
LEMMA BoundsStep == BoundsInv /\ [Next]_vars => BoundsInv'
<1> SUFFICES ASSUME BoundsInv, [Next]_vars PROVE BoundsInv'
  OBVIOUS
<1> USE SizeAssumption DEF BoundsInv, TypeOK, CountsFit, ChannelInBounds,
        LaidOut, U8
<1>1. ASSUME NEW c \in Callers, Call(c) PROVE BoundsInv'
  <2>1. /\ len' \in [Callers -> 0..MaxLen]
        /\ tmp' \in [Callers -> 0..SendBuf]
        /\ cnt' \in [Callers -> U8]
    BY <1>1 DEF Call
  <2>2. calls' \in 0..MaxCalls
    BY <1>1 DEF Call
  <2>3. pc' \in [Callers -> Pcs]
    BY <1>1 DEF Call, At, Pcs
  <2>4. TypeOK'
    BY <1>1, <2>3, <2>1, <2>2 DEF Call, channel
  <2>5. CountsFit' /\ ChannelInBounds'
    BY <1>1 DEF Call, At, channel
  <2> QED
    BY <2>4, <2>5
<1>2. ASSUME NEW c \in Callers, CheckFlag(c) PROVE BoundsInv'
  <2>1. pc' \in [Callers -> Pcs]
    BY <1>2 DEF CheckFlag, At, Pcs
  <2>2. TypeOK'
    BY <1>2, <2>1 DEF CheckFlag, channel, local
  <2>3. CountsFit' /\ ChannelInBounds'
    BY <1>2 DEF CheckFlag, At, channel, local
  <2> QED
    BY <2>2, <2>3
<1>3. ASSUME NEW c \in Callers, StopIdle(c) PROVE BoundsInv'
  <2>1. /\ len' \in [Callers -> 0..MaxLen]
        /\ tmp' \in [Callers -> 0..SendBuf]
        /\ cnt' \in [Callers -> U8]
    BY <1>3 DEF StopIdle
  <2>2. pc' \in [Callers -> Pcs]
    BY <1>3 DEF StopIdle, At, Pcs
  <2>3. TypeOK'
    BY <1>3, <2>2, <2>1 DEF StopIdle, DMA_Disable
  <2>4. CountsFit' /\ ChannelInBounds'
    BY <1>3 DEF StopIdle, At, DMA_Disable
  <2> QED
    BY <2>3, <2>4
<1>4. ASSUME NEW c \in Callers, StopBusy(c) PROVE BoundsInv'
  <2>1. pc' \in [Callers -> Pcs]
    BY <1>4 DEF StopBusy, At, Pcs
  <2>2. TypeOK'
    BY <1>4, <2>1 DEF StopBusy, DMA_Disable, local
  <2>3. CountsFit' /\ ChannelInBounds'
    BY <1>4 DEF StopBusy, At, DMA_Disable, local
  <2> QED
    BY <2>2, <2>3
<1>5. ASSUME NEW c \in Callers, ReadLeft(c) PROVE BoundsInv'
  <2>1. pc' \in [Callers -> Pcs]
    BY <1>5 DEF ReadLeft, At, Pcs
  <2>2. TypeOK'
    BY <1>5, <2>1 DEF ReadLeft, channel
  <2>3. CountsFit' /\ ChannelInBounds'
    BY <1>5 DEF ReadLeft, At, channel
  <2> QED
    BY <2>2, <2>3
<1>6. ASSUME NEW c \in Callers, CountSent(c) PROVE BoundsInv'
  <2>1. sendLen - tmp[c] \in Int
    OBVIOUS
  <2>2. (sendLen - tmp[c]) % 256 \in U8
    BY <2>1, U8Range DEF U8
  <2>3. /\ len' \in [Callers -> 0..MaxLen]
        /\ tmp' \in [Callers -> 0..SendBuf]
        /\ cnt' \in [Callers -> U8]
    BY <1>6, <2>2 DEF CountSent
  <2>4. pc' \in [Callers -> Pcs]
    BY <1>6 DEF CountSent, At, Pcs
  <2>5. TypeOK'
    BY <1>6, <2>4, <2>3 DEF CountSent, channel
  <2>6. CountsFit' /\ ChannelInBounds'
    BY <1>6 DEF CountSent, At, channel
  <2> QED
    BY <2>5, <2>6
<1>7. ASSUME NEW c \in Callers, Shift(c) PROVE BoundsInv'
  <2>1. pc' \in [Callers -> Pcs]
    BY <1>7 DEF Shift, At, Pcs
  <2>2. TypeOK'
    BY <1>7, <2>1 DEF Shift, channel, local, Index, Stray
  <2>3. CountsFit' /\ ChannelInBounds'
    BY <1>7 DEF Shift, At, channel, local, Index, Stray
  <2> QED
    BY <2>2, <2>3
<1>8. ASSUME NEW c \in Callers, AppendMessage(c) PROVE BoundsInv'
  <2>1. Fits(c) \in 0..MaxLen /\ Fits(c) + tmp[c] <= SendBuf
    BY FitsInBuffer
  <2>2. buf' \in [Index -> Nat \cup {Stray}]
    BY <1>8, <2>1 DEF AppendMessage, Index
  <2>3. /\ len' \in [Callers -> 0..MaxLen]
        /\ tmp' \in [Callers -> 0..SendBuf]
        /\ cnt' \in [Callers -> U8]
    BY <1>8, <2>1, <2>2 DEF AppendMessage
  <2>4. accepted' \in Nat
    BY <1>8, <2>1 DEF AppendMessage
  <2>5. pc' \in [Callers -> Pcs]
    BY <1>8 DEF AppendMessage, At, Pcs
  <2>6. TypeOK'
    BY <1>8, <2>5, <2>1, <2>2, <2>3, <2>4 DEF AppendMessage, channel
  <2>7. CountsFit' /\ ChannelInBounds'
    BY <1>8, <2>1 DEF AppendMessage, At, channel
  <2> QED
    BY <2>6, <2>7
<1>9. ASSUME NEW c \in Callers, SetLen(c) PROVE BoundsInv'
  <2>1. len[c] + tmp[c] <= SendBuf
    BY <1>9 DEF SetLen, At
  <2>2. len[c] \in 0..MaxLen /\ tmp[c] \in 0..SendBuf
    OBVIOUS
  <2>3. sendLen' \in U8
    <3>1. sendLen' = len[c] + tmp[c]
      BY <1>9 DEF SetLen
    <3> HIDE DEF TypeOK, CountsFit, BoundsInv
    <3> QED
      BY <3>1, <2>1, <2>2
  <2>4. pc' \in [Callers -> Pcs]
    BY <1>9 DEF SetLen, At, Pcs
  <2>5. TypeOK'
    BY <1>9, <2>4, <2>3 DEF SetLen, channel, local
  <2>6. CountsFit' /\ ChannelInBounds'
    BY <1>9 DEF SetLen, At, channel, local
  <2> QED
    BY <2>5, <2>6
<1>10. ASSUME NEW c \in Callers, SetCndtr(c) PROVE BoundsInv'
  <2>1. cndtr' \in 0..SendBuf
    BY <1>10 DEF SetCndtr, At, DMA_SetCndtr, local
  <2>2. pc' \in [Callers -> Pcs]
    BY <1>10 DEF SetCndtr, At, Pcs
  <2>3. TypeOK'
    BY <1>10, <2>2, <2>1 DEF SetCndtr, DMA_SetCndtr, local
  <2>4. CountsFit' /\ ChannelInBounds'
    BY <1>10 DEF SetCndtr, At, DMA_SetCndtr, local
  <2> QED
    BY <2>3, <2>4
<1>11. ASSUME NEW c \in Callers, SetFlag(c) PROVE BoundsInv'
  <2>1. pc' \in [Callers -> Pcs]
    BY <1>11 DEF SetFlag, At, Pcs
  <2>2. TypeOK'
    BY <1>11, <2>1 DEF SetFlag, channel, local
  <2>3. CountsFit' /\ ChannelInBounds'
    BY <1>11 DEF SetFlag, At, channel, local
  <2> QED
    BY <2>2, <2>3
<1>12. ASSUME NEW c \in Callers, Enable(c) PROVE BoundsInv'
  <2>1. /\ len' \in [Callers -> 0..MaxLen]
        /\ tmp' \in [Callers -> 0..SendBuf]
        /\ cnt' \in [Callers -> U8]
    BY <1>12 DEF Enable
  <2>2. pc' \in [Callers -> Pcs]
    BY <1>12 DEF Enable, At, Pcs
  <2>3. TypeOK'
    BY <1>12, <2>2, <2>1 DEF Enable, DMA_Enable
  <2>4. CountsFit' /\ ChannelInBounds'
    BY <1>12 DEF Enable, At, DMA_Enable
  <2> QED
    BY <2>3, <2>4
<1>13. CASE DmaTransfer
  <2>1. buf[ptr] \in Nat \cup {Stray}
    BY <1>13 DEF DmaTransfer, Index
  <2>2. wire' \in Seq(Nat \cup {Stray})
    BY <1>13, <2>1 DEF DmaTransfer
  <2> QED
    BY <1>13, <2>2 DEF DmaTransfer, local
<1>14. CASE TcIrq
  BY <1>14 DEF TcIrq, local
<1>15. CASE UNCHANGED vars
  BY <1>15 DEF vars, channel, local
<1> QED
  BY <1>1, <1>2, <1>3, <1>4, <1>5, <1>6, <1>7, <1>8, <1>9, <1>10, <1>11,
     <1>12, <1>13, <1>14, <1>15 DEF Next, SendCom2Data

\* Type correctness, and the channel never reads past sCom2TxDmaBuf
\* (UartCom2.c:106, 124), whichever contexts call SendCom2Data.
THEOREM BufferBounds == Spec => [](TypeOK /\ ChannelInBounds)
<1>1. BoundsInv => TypeOK /\ ChannelInBounds
  BY DEF BoundsInv
<1> QED
  BY BoundsInit, BoundsStep, <1>1, PTL DEF Spec
-----------------------------------------------------------------------------
(* One caller: SendCom2Data is a FIFO.                                     *)

Sent == Len(wire)

\* The next n bytes to send stand in the buffer from index base on.
Holds(base, n) == \A i \in 0..n - 1 : buf[base + i] = Sent + 1 + i

\* The channel has the rest of what the last call laid out.
OnChannel == /\ ptr + cndtr = sendLen
             /\ sendLen <= SendBuf
             /\ accepted = Sent + cndtr
             /\ Holds(ptr, cndtr)

\* Nothing is left to send, but for the zeros of the boot transfer.
Quiet == /\ accepted = Sent
         /\ en => \A i \in 0..cndtr - 1 : buf[ptr + i] = 0

Stopped == {"left", "count", "shift", "append"} \cup LaidOut

FifoAt(c) ==
  /\ pc[c] \in {"idle", "check"} => IF flag = 1 THEN en /\ OnChannel ELSE Quiet
  /\ pc[c] = "stopIdle" => flag = 0 /\ Quiet
  /\ pc[c] = "stopBusy" => /\ OnChannel
                           /\ flag = 1 => en
                           /\ flag = 0 => cndtr = 0
  /\ pc[c] \in Stopped => ~en /\ ~tcif
  /\ pc[c] \in {"left", "count"} => OnChannel
  /\ pc[c] = "count" => tmp[c] = cndtr
  /\ pc[c] = "shift" => /\ tmp[c] + cnt[c] <= SendBuf
                        /\ Holds(cnt[c], tmp[c])
  /\ pc[c] = "append" => Holds(0, tmp[c])
  /\ pc[c] \in {"shift", "append"} => accepted = Sent + tmp[c]
  /\ pc[c] \in LaidOut => /\ Holds(0, len[c] + tmp[c])
                          /\ accepted = Sent + len[c] + tmp[c]
  /\ pc[c] \in LaidOut \ {"setLen"} => sendLen = len[c] + tmp[c]
  /\ pc[c] \in {"setFlag", "enable"} => cndtr = len[c] + tmp[c]
  /\ pc[c] = "enable" => flag = 1

TcAtEnd == tcif => en /\ cndtr = 0

FifoInv == /\ BoundsInv
           /\ InOrder
           /\ TcAtEnd
           /\ \A c \in Callers : FifoAt(c)

\* Reducing a number that fits eight bits changes nothing.
LEMMA SmallU8 == \A x \in 0..255 : x % 256 = x
OBVIOUS

LEMMA FifoInit == Init => FifoInv
<1> SUFFICES ASSUME Init PROVE FifoInv
  OBVIOUS
<1>1. BoundsInv
  BY BoundsInit
<1>2. InOrder /\ TcAtEnd
  BY DEF Init, InOrder, TcAtEnd
<1>3. ASSUME NEW c \in Callers PROVE FifoAt(c)
  <2>1. pc[c] = "idle" /\ flag = 0
    BY DEF Init
  <2>2. Quiet
    BY SizeAssumption DEF Init, Quiet, Sent, Index
  <2> QED
    BY <2>1, <2>2 DEF FifoAt, Stopped, LaidOut
<1> QED
  BY <1>1, <1>2, <1>3 DEF FifoInv

\* With one caller, every statement of SendCom2Data, every byte the channel
\* moves and its interrupt keep the bytes in their order.
LEMMA FifoStep ==
  ASSUME NEW c, Callers = {c}, FifoInv, [Next]_vars
  PROVE  FifoInv'
<1>1. BoundsInv'
  BY BoundsStep DEF FifoInv
<1>2. FifoAt(c) /\ InOrder /\ TcAtEnd /\ BoundsInv
  BY DEF FifoInv
<1> SUFFICES InOrder' /\ TcAtEnd' /\ FifoAt(c)'
  BY <1>1 DEF FifoInv
<1>3. /\ len[c] \in 0..MaxLen /\ tmp[c] \in 0..SendBuf /\ cnt[c] \in 0..255
      /\ pc[c] \in Pcs /\ pc'[c] \in Pcs
      /\ flag \in {0, 1} /\ flag' \in {0, 1}
      /\ sendLen \in 0..255 /\ cndtr \in 0..SendBuf /\ ptr \in 0..SendBuf
      /\ SendBuf \in 1..255 /\ accepted \in Nat /\ Sent \in Nat
  BY <1>1, <1>2, SizeAssumption DEF BoundsInv, TypeOK, U8, Sent
<1>4. CASE Call(c)
  <2>1. pc[c] = "idle" /\ pc'[c] = "check" /\ ~tcif
    BY <1>4, <1>2 DEF Call, At, Runs, BoundsInv, TypeOK
  <2>2. UNCHANGED wire /\ tcif' = FALSE
    BY <1>4, <2>1 DEF Call, channel
  <2>3. InOrder' /\ TcAtEnd' /\ Sent' = Sent
    BY <1>2, <2>2 DEF InOrder, TcAtEnd, Sent
  <2>4. UNCHANGED <<buf, flag, sendLen, en, cndtr, ptr, accepted>>
    BY <1>4 DEF Call, channel
  <2> QED
    BY <1>2, <2>1, <2>3, <2>4 DEF FifoAt, Stopped, LaidOut, OnChannel, Quiet,
       Holds
<1>5. CASE StopIdle(c)
  <2>1. pc[c] = "stopIdle" /\ pc'[c] = "append" /\ ~tcif
    BY <1>5, <1>2 DEF StopIdle, At, Runs, BoundsInv, TypeOK
  <2>2. UNCHANGED wire /\ tcif' = FALSE
    BY <1>5, <2>1 DEF StopIdle, DMA_Disable
  <2>3. InOrder' /\ TcAtEnd' /\ Sent' = Sent
    BY <1>2, <2>2 DEF InOrder, TcAtEnd, Sent
  <2>4. /\ UNCHANGED <<buf, accepted>> /\ en' = FALSE
        /\ tmp'[c] = 0
    BY <1>5, <1>2 DEF StopIdle, DMA_Disable, BoundsInv, TypeOK
  <2>5. accepted' = Sent' + tmp'[c] /\ Holds(0, tmp[c])'
    BY <1>2, <1>3, <2>1, <2>3, <2>4 DEF FifoAt, Quiet, Holds
  <2> QED
    BY <2>1, <2>2, <2>3, <2>4, <2>5 DEF FifoAt, Stopped, LaidOut
<1>6. CASE StopBusy(c)
  <2>1. pc[c] = "stopBusy" /\ pc'[c] = "left" /\ ~tcif
    BY <1>6, <1>2 DEF StopBusy, At, Runs, BoundsInv, TypeOK
  <2>2. UNCHANGED wire /\ tcif' = FALSE
    BY <1>6, <2>1 DEF StopBusy, DMA_Disable, local
  <2>3. InOrder' /\ TcAtEnd' /\ Sent' = Sent
    BY <1>2, <2>2 DEF InOrder, TcAtEnd, Sent
  <2>4. UNCHANGED <<buf, sendLen, cndtr, ptr, accepted>> /\ en' = FALSE
    BY <1>6 DEF StopBusy, DMA_Disable
  <2>5. OnChannel'
    BY <1>2, <2>1, <2>3, <2>4 DEF FifoAt, OnChannel, Holds
  <2> QED
    BY <2>1, <2>2, <2>3, <2>4, <2>5 DEF FifoAt, Stopped, LaidOut
<1>7. CASE ReadLeft(c)
  <2>1. pc[c] = "left" /\ pc'[c] = "count" /\ ~tcif
    BY <1>7, <1>2 DEF ReadLeft, At, Runs, BoundsInv, TypeOK
  <2>2. UNCHANGED wire /\ tcif' = FALSE
    BY <1>7, <2>1 DEF ReadLeft, channel
  <2>3. InOrder' /\ TcAtEnd' /\ Sent' = Sent
    BY <1>2, <2>2 DEF InOrder, TcAtEnd, Sent
  <2>4. /\ UNCHANGED <<buf, sendLen, en, cndtr, ptr, accepted>>
        /\ tmp'[c] = cndtr
    BY <1>7, <1>2 DEF ReadLeft, channel, BoundsInv, TypeOK
  <2>5. OnChannel' /\ ~en
    BY <1>2, <2>1, <2>3, <2>4 DEF FifoAt, OnChannel, Holds, Stopped
  <2> QED
    BY <2>1, <2>2, <2>3, <2>4, <2>5 DEF FifoAt, Stopped, LaidOut
<1>8. CASE CountSent(c)
  <2>1. pc[c] = "count" /\ pc'[c] = "shift" /\ ~tcif
    BY <1>8, <1>2 DEF CountSent, At, Runs, BoundsInv, TypeOK
  <2>2. UNCHANGED wire /\ tcif' = FALSE
    BY <1>8, <2>1 DEF CountSent, channel
  <2>3. InOrder' /\ TcAtEnd' /\ Sent' = Sent
    BY <1>2, <2>2 DEF InOrder, TcAtEnd, Sent
  <2>4. /\ UNCHANGED <<buf, en, accepted>>
        /\ cnt'[c] = (sendLen - tmp[c]) % 256 /\ tmp'[c] = tmp[c]
    BY <1>8, <1>2 DEF CountSent, channel, BoundsInv, TypeOK
  <2>5. OnChannel /\ tmp[c] = cndtr /\ ~en
    BY <1>2, <2>1 DEF FifoAt, Stopped
  <2>6. cnt'[c] = ptr
    <3>1. ptr + cndtr = sendLen /\ tmp[c] = cndtr
      BY <2>5 DEF OnChannel
    <3>2. ptr \in 0..255 /\ cndtr \in Nat /\ ptr + cndtr - cndtr = ptr
      BY <1>3
    <3> QED
      BY <2>4, <3>1, <3>2, SmallU8
  <2>7. /\ tmp'[c] + cnt'[c] <= SendBuf /\ accepted' = Sent' + tmp'[c]
        /\ Holds(cnt[c], tmp[c])'
    BY <1>3, <2>3, <2>4, <2>5, <2>6 DEF OnChannel, Holds
  <2> QED
    BY <2>1, <2>2, <2>3, <2>4, <2>5, <2>7 DEF FifoAt, Stopped, LaidOut
<1>9. CASE Shift(c)
  <2>1. pc[c] = "shift" /\ pc'[c] = "append" /\ ~tcif
    BY <1>9, <1>2 DEF Shift, At, Runs, BoundsInv, TypeOK
  <2>2. UNCHANGED wire /\ tcif' = FALSE
    BY <1>9, <2>1 DEF Shift, channel, local
  <2>3. InOrder' /\ TcAtEnd' /\ Sent' = Sent
    BY <1>2, <2>2 DEF InOrder, TcAtEnd, Sent
  <2>4. UNCHANGED <<en, tmp, accepted>> /\ ~en
    BY <1>9, <1>2, <2>1 DEF Shift, channel, local, FifoAt, Stopped
  <2>5. /\ tmp[c] + cnt[c] <= SendBuf /\ Holds(cnt[c], tmp[c])
        /\ accepted = Sent + tmp[c]
    BY <1>2, <2>1 DEF FifoAt
  <2>6. ASSUME NEW i \in 0..tmp[c] - 1 PROVE buf'[i] = Sent + 1 + i
    <3>1. i \in Index /\ i + cnt[c] \in Index /\ ~(i >= tmp[c])
      <4> DEFINE t == tmp[c]  n == cnt[c]
      <4>1. /\ t \in 0..SendBuf /\ n \in 0..255 /\ t + n <= SendBuf
            /\ i \in 0..t - 1
        BY <1>3, <2>5
      <4> HIDE DEF t, n
      <4>2. i \in 0..SendBuf - 1 /\ i + n \in 0..SendBuf - 1 /\ ~(i >= t)
        BY <1>3, <4>1
      <4> QED
        BY <4>2 DEF Index, t, n
    <3>2. buf'[i] = buf[i + cnt[c]]
      BY <1>9, <3>1 DEF Shift
    <3> QED
      BY <1>3, <2>5, <3>2 DEF Holds
  <2>7. Holds(0, tmp[c])'
    BY <1>3, <2>3, <2>4, <2>6 DEF Holds
  <2> QED
    BY <2>1, <2>2, <2>3, <2>4, <2>5, <2>7 DEF FifoAt, Stopped, LaidOut
<1>10. CASE AppendMessage(c)
  <2>1. pc[c] = "append" /\ pc'[c] = "setLen" /\ ~tcif
    BY <1>10, <1>2 DEF AppendMessage, At, Runs, BoundsInv, TypeOK
  <2>2. UNCHANGED wire /\ tcif' = FALSE
    BY <1>10, <2>1 DEF AppendMessage, channel
  <2>3. InOrder' /\ TcAtEnd' /\ Sent' = Sent
    BY <1>2, <2>2 DEF InOrder, TcAtEnd, Sent
  <2>4. /\ UNCHANGED <<en, tmp>> /\ ~en
        /\ len'[c] = Fits(c) /\ accepted' = accepted + Fits(c)
    BY <1>10, <1>2, <2>1 DEF AppendMessage, channel, FifoAt, Stopped,
       BoundsInv, TypeOK
  <2>5. Fits(c) \in 0..MaxLen /\ Fits(c) + tmp[c] <= SendBuf
    BY <1>2, FitsInBuffer DEF BoundsInv
  <2>6. Holds(0, tmp[c]) /\ accepted = Sent + tmp[c]
    BY <1>2, <2>1 DEF FifoAt
  <2>7. ASSUME NEW i \in 0..Fits(c) + tmp[c] - 1 PROVE buf'[i] = Sent + 1 + i
    <3>1. i \in Index
      BY <1>3, <2>5, SizeAssumption DEF Index
    <3>2. buf'[i] = IF i \in tmp[c]..(tmp[c] + Fits(c) - 1)
                    THEN accepted + 1 + i - tmp[c] ELSE buf[i]
      BY <1>10, <3>1 DEF AppendMessage
    <3> HIDE DEF Fits
    <3>3. CASE i < tmp[c]
      BY <1>3, <2>5, <2>6, <3>2, <3>3 DEF Holds
    <3>4. CASE i >= tmp[c]
      BY <1>3, <2>5, <2>6, <3>2, <3>4, SizeAssumption
    <3> QED
      BY <1>3, <2>5, <3>3, <3>4, SizeAssumption
  <2>8. /\ Holds(0, len[c] + tmp[c])'
        /\ accepted' = Sent' + len'[c] + tmp'[c]
    BY <1>3, <2>3, <2>4, <2>5, <2>6, <2>7, SizeAssumption DEF Holds
  <2> QED
    BY <2>1, <2>2, <2>3, <2>4, <2>8 DEF FifoAt, Stopped, LaidOut
<1>11. CASE SetLen(c)
  <2>1. pc[c] = "setLen" /\ pc'[c] = "setCndtr" /\ ~tcif
    BY <1>11, <1>2 DEF SetLen, At, Runs, BoundsInv, TypeOK
  <2>2. UNCHANGED wire /\ tcif' = FALSE
    BY <1>11, <2>1 DEF SetLen, channel, local
  <2>3. InOrder' /\ TcAtEnd' /\ Sent' = Sent
    BY <1>2, <2>2 DEF InOrder, TcAtEnd, Sent
  <2>4. /\ UNCHANGED <<buf, en, len, tmp, accepted>> /\ ~en
        /\ sendLen' = len[c] + tmp[c]
    BY <1>11, <1>2, <2>1 DEF SetLen, channel, local, FifoAt, Stopped, LaidOut
  <2>5. Holds(0, len[c] + tmp[c])' /\ accepted = Sent + len[c] + tmp[c]
    BY <1>2, <2>1, <2>3, <2>4 DEF FifoAt, LaidOut, Holds
  <2> QED
    BY <2>1, <2>2, <2>3, <2>4, <2>5 DEF FifoAt, Stopped, LaidOut
<1>12. CASE SetCndtr(c)
  <2>1. pc[c] = "setCndtr" /\ pc'[c] = "setFlag" /\ ~tcif
    BY <1>12, <1>2 DEF SetCndtr, At, Runs, BoundsInv, TypeOK
  <2>2. UNCHANGED wire /\ tcif' = FALSE
    BY <1>12, <2>1 DEF SetCndtr, DMA_SetCndtr, local
  <2>3. InOrder' /\ TcAtEnd' /\ Sent' = Sent
    BY <1>2, <2>2 DEF InOrder, TcAtEnd, Sent
  <2>4. /\ UNCHANGED <<buf, en, len, tmp, sendLen, accepted>> /\ ~en
        /\ cndtr' = len[c] + tmp[c]
    BY <1>12, <1>2, <2>1 DEF SetCndtr, DMA_SetCndtr, local, FifoAt, Stopped,
       LaidOut
  <2>5. /\ Holds(0, len[c] + tmp[c])' /\ accepted = Sent + len[c] + tmp[c]
        /\ sendLen = len[c] + tmp[c]
    BY <1>2, <2>1, <2>3, <2>4 DEF FifoAt, LaidOut, Holds
  <2> QED
    BY <2>1, <2>2, <2>3, <2>4, <2>5 DEF FifoAt, Stopped, LaidOut
<1>13. CASE SetFlag(c)
  <2>1. pc[c] = "setFlag" /\ pc'[c] = "enable" /\ ~tcif
    BY <1>13, <1>2 DEF SetFlag, At, Runs, BoundsInv, TypeOK
  <2>2. UNCHANGED wire /\ tcif' = FALSE
    BY <1>13, <2>1 DEF SetFlag, channel, local
  <2>3. InOrder' /\ TcAtEnd' /\ Sent' = Sent
    BY <1>2, <2>2 DEF InOrder, TcAtEnd, Sent
  <2>4. /\ UNCHANGED <<buf, en, len, tmp, sendLen, cndtr, accepted>> /\ ~en
        /\ flag' = 1
    BY <1>13, <1>2, <2>1 DEF SetFlag, channel, local, FifoAt, Stopped, LaidOut
  <2>5. /\ Holds(0, len[c] + tmp[c])' /\ accepted = Sent + len[c] + tmp[c]
        /\ sendLen = len[c] + tmp[c] /\ cndtr = len[c] + tmp[c]
    BY <1>2, <2>1, <2>3, <2>4 DEF FifoAt, LaidOut, Holds
  <2> QED
    BY <2>1, <2>2, <2>3, <2>4, <2>5 DEF FifoAt, Stopped, LaidOut
<1>14. CASE Enable(c)
  <2>1. pc[c] = "enable" /\ pc'[c] = "idle" /\ ~tcif
    BY <1>14, <1>2 DEF Enable, At, Runs, BoundsInv, TypeOK
  <2>2. UNCHANGED wire /\ tcif' = FALSE
    BY <1>14, <2>1 DEF Enable, DMA_Enable
  <2>3. InOrder' /\ TcAtEnd' /\ Sent' = Sent
    BY <1>2, <2>2 DEF InOrder, TcAtEnd, Sent
  <2>4. /\ Holds(0, len[c] + tmp[c]) /\ accepted = Sent + len[c] + tmp[c]
        /\ sendLen = len[c] + tmp[c] /\ cndtr = len[c] + tmp[c]
        /\ flag = 1 /\ ~en /\ len[c] + tmp[c] <= SendBuf
    BY <1>2, <2>1 DEF FifoAt, LaidOut, Stopped, BoundsInv, CountsFit
  <2>5. /\ UNCHANGED <<buf, flag, sendLen, cndtr, accepted>> /\ en' = TRUE
        /\ ptr' = 0
    BY <1>14, <2>4 DEF Enable, DMA_Enable
  <2>6. OnChannel'
    BY <1>3, <2>3, <2>4, <2>5 DEF OnChannel, Holds
  <2> QED
    BY <2>1, <2>3, <2>4, <2>5, <2>6 DEF FifoAt, Stopped, LaidOut
<1>15. CASE CheckFlag(c)
  <2>1. /\ pc[c] = "check" /\ ~tcif
        /\ pc'[c] = IF flag = 1 THEN "stopBusy" ELSE "stopIdle"
    BY <1>15, <1>2 DEF CheckFlag, At, Runs, BoundsInv, TypeOK
  <2>2. UNCHANGED <<buf, flag, sendLen, en, cndtr, ptr, tcif, accepted, wire>>
    BY <1>15 DEF CheckFlag, channel
  <2>3. InOrder' /\ TcAtEnd' /\ Sent' = Sent
    BY <1>2, <2>2 DEF InOrder, TcAtEnd, Sent
  <2>4. IF flag = 1 THEN en /\ OnChannel' ELSE flag = 0 /\ Quiet'
    BY <1>2, <1>3, <2>1, <2>2, <2>3 DEF FifoAt, OnChannel, Quiet, Holds
  <2>5. CASE flag = 1
    BY <2>1, <2>2, <2>3, <2>4, <2>5 DEF FifoAt, Stopped, LaidOut
  <2>6. CASE flag # 1
    BY <2>1, <2>2, <2>3, <2>4, <2>6 DEF FifoAt, Stopped, LaidOut
  <2> QED
    BY <2>5, <2>6
<1>16. CASE DmaTransfer
  <2>1. /\ en /\ cndtr > 0 /\ ~tcif
        /\ UNCHANGED <<buf, flag, sendLen, en, pc, accepted>>
        /\ ptr' = ptr + 1 /\ cndtr' = cndtr - 1 /\ tcif' = (cndtr = 1)
        /\ wire' = IF buf[ptr] = 0 THEN wire ELSE Append(wire, buf[ptr])
    BY <1>16, <1>2, <1>3 DEF DmaTransfer, TcAtEnd
  <2>2. TcAtEnd'
    <3>1. tcif' => cndtr = 1
      BY <2>1
    <3> QED
      BY <1>3, <2>1, <3>1 DEF TcAtEnd
  <2>3. pc[c] \in {"idle", "check", "stopIdle", "stopBusy"}
    BY <1>2, <1>3, <2>1 DEF FifoAt, Stopped, LaidOut, Pcs
  <2>4. wire \in Seq(Nat \cup {Stray})
    BY <1>2 DEF BoundsInv, TypeOK
  <2>5. CASE flag = 1
    <3>1. OnChannel
      BY <1>2, <2>3, <2>5 DEF FifoAt
    <3>2. buf[ptr] = Sent + 1
      <4>1. 0 \in 0..cndtr - 1
        BY <1>3, <2>1
      <4>2. buf[ptr + 0] = Sent + 1 + 0
        BY <3>1, <4>1 DEF OnChannel, Holds
      <4> QED
        BY <1>3, <4>2
    <3>3. wire' = Append(wire, Sent + 1)
      BY <1>3, <2>1, <3>2
    <3>4. Sent' = Sent + 1 /\ InOrder'
      BY <1>2, <1>3, <2>4, <3>3 DEF InOrder, Sent
    <3>5. Holds(ptr, cndtr)'
      <4> SUFFICES ASSUME NEW i \in 0..cndtr' - 1
                   PROVE  buf'[ptr' + i] = Sent' + 1 + i
        BY DEF Holds
      <4>1. i + 1 \in 0..cndtr - 1 /\ ptr' + i = ptr + (i + 1)
        BY <1>3, <2>1
      <4>2. buf[ptr + (i + 1)] = Sent + 1 + (i + 1)
        BY <3>1, <4>1 DEF OnChannel, Holds
      <4>3. buf'[ptr' + i] = Sent + 1 + (i + 1)
        BY <2>1, <4>1, <4>2
      <4>4. i \in Nat /\ Sent \in Nat /\ Sent + 1 + (i + 1) = Sent + 1 + 1 + i
        BY <1>3, <2>1
      <4> QED
        BY <3>4, <4>3, <4>4
    <3>6. OnChannel'
      BY <1>3, <2>1, <3>1, <3>4, <3>5 DEF OnChannel
    <3> QED
      BY <1>2, <1>3, <2>1, <2>2, <2>3, <2>5, <3>4, <3>6 DEF FifoAt, Stopped,
         LaidOut
  <2>6. CASE flag = 0
    <3>1. Quiet
      BY <1>2, <1>3, <2>1, <2>3, <2>6 DEF FifoAt
    <3>2. buf[ptr] = 0
      <4>1. 0 \in 0..cndtr - 1 /\ ptr + 0 = ptr
        BY <1>3, <2>1
      <4> QED
        BY <2>1, <3>1, <4>1 DEF Quiet
    <3>3. UNCHANGED wire /\ Sent' = Sent /\ InOrder'
      BY <1>2, <2>1, <3>2 DEF InOrder, Sent
    <3>4. ASSUME NEW i \in 0..cndtr' - 1 PROVE buf'[ptr' + i] = 0
      <4>1. i + 1 \in 0..cndtr - 1 /\ ptr' + i = ptr + (i + 1)
        BY <1>3, <2>1
      <4> QED
        BY <2>1, <3>1, <4>1 DEF Quiet
    <3>5. Quiet'
      BY <2>1, <3>1, <3>3, <3>4 DEF Quiet
    <3> QED
      BY <1>2, <1>3, <2>1, <2>2, <2>3, <2>6, <3>3, <3>5 DEF FifoAt, Stopped,
         LaidOut
  <2> QED
    BY <1>3, <2>5, <2>6
<1>17. CASE TcIrq
  <2>1. /\ flag' = 0 /\ tcif' = FALSE /\ en' = FALSE /\ en /\ cndtr = 0
        /\ UNCHANGED <<buf, sendLen, cndtr, ptr, pc, accepted, wire>>
    BY <1>17, <1>2 DEF TcIrq, TcAtEnd
  <2>2. InOrder' /\ TcAtEnd' /\ Sent' = Sent
    BY <1>2, <2>1 DEF InOrder, TcAtEnd, Sent
  <2>3. pc[c] \in {"idle", "check", "stopIdle", "stopBusy"}
    BY <1>2, <1>3, <2>1 DEF FifoAt, Stopped, LaidOut, Pcs
  <2>4. accepted = Sent
    BY <1>2, <1>3, <2>1, <2>3 DEF FifoAt, OnChannel, Quiet
  <2>5. Quiet'
    BY <2>1, <2>2, <2>4 DEF Quiet
  <2>6. pc[c] = "stopBusy" => OnChannel'
    BY <1>2, <2>1, <2>2 DEF FifoAt, OnChannel, Holds
  <2> QED
    BY <2>1, <2>2, <2>3, <2>5, <2>6 DEF FifoAt, Stopped, LaidOut
<1>18. CASE UNCHANGED vars
  BY <1>2, <1>18 DEF vars, channel, local, InOrder, TcAtEnd, FifoAt, OnChannel,
     Quiet, Holds, Sent
<1> QED
  BY <1>4, <1>5, <1>6, <1>7, <1>8, <1>9, <1>10, <1>11, <1>12, <1>13, <1>14,
     <1>15, <1>16, <1>17, <1>18 DEF Next, SendCom2Data

LEMMA FifoAlways == ASSUME NEW c, Callers = {c} PROVE Spec => []FifoInv
<1>1. FifoInv /\ [Next]_vars => FifoInv'
  BY FifoStep
<1> QED
  BY FifoInit, <1>1, PTL DEF Spec

\* The bytes on the serial line are the ones SendCom2Data accepted
\* (UartCom2.c:79, its result), each once and in their order, and between
\* calls sCom2SendFlag is 0 only when all were sent -- for every buffer size,
\* message length and interleaving of the channel and its interrupt, if one
\* context calls SendCom2Data.
THEOREM Fifo ==
  ASSUME NEW c, Callers = {c}
  PROVE  Spec => [](InOrder /\ FlagMeansDone)
<1>1. FifoInv => InOrder /\ FlagMeansDone
  <2> SUFFICES ASSUME FifoInv PROVE FlagMeansDone
    BY DEF FifoInv
  <2>1. FifoAt(c) /\ flag \in {0, 1} /\ Sent \in Nat
    BY DEF FifoInv, BoundsInv, TypeOK, Sent
  <2>2. AllIdle => pc[c] = "idle"
    BY DEF AllIdle
  <2> QED
    BY <2>1, <2>2 DEF FifoAt, FlagMeansDone, Quiet, Sent
<1> QED
  BY FifoAlways, <1>1, PTL

\* No byte stands in a stopped channel between calls: there is none that only the
\* next call would send (UartCom2.c:86, the stop, and :107, the restart).
THEOREM NeverStranded ==
  ASSUME NEW c, Callers = {c}
  PROVE  Spec => []NothingStranded
<1>1. FifoInv => NothingStranded
  <2> SUFFICES ASSUME FifoInv PROVE NothingStranded
    OBVIOUS
  <2>1. FifoAt(c) /\ flag \in {0, 1} /\ cndtr \in Nat /\ Sent \in Nat
    BY SizeAssumption DEF FifoInv, BoundsInv, TypeOK, Sent
  <2>2. AllIdle => pc[c] = "idle"
    BY DEF AllIdle
  <2> QED
    BY <2>1, <2>2 DEF FifoAt, NothingStranded, OnChannel, Quiet, Sent
<1> QED
  BY FifoAlways, <1>1, PTL

\* Every step of the driver adds bytes that fit to the abstract queue, takes
\* its oldest byte, or leaves it alone.
LEMMA LineStep ==
  ASSUME NEW c, Callers = {c}, FifoInv, [Next]_vars
  PROVE  [Line!Next]_(Line!vars)
<1>1. /\ FifoAt(c) /\ InOrder /\ TcAtEnd /\ BoundsInv /\ TypeOK
      /\ accepted \in Nat /\ Sent \in Nat /\ SendBuf \in 1..255
  BY SizeAssumption DEF FifoInv, BoundsInv, TypeOK, Sent
<1>2. CASE AppendMessage(c)
  <2>1. pc[c] = "append" /\ UNCHANGED wire /\ accepted' = accepted + Fits(c)
    BY <1>2 DEF AppendMessage, At
  <2>2. accepted = Sent + tmp[c] /\ tmp[c] \in 0..SendBuf
    BY <1>1, <2>1 DEF FifoAt, TypeOK
  <2>3. Fits(c) \in 0..MaxLen /\ Fits(c) + tmp[c] <= SendBuf
    BY <1>1, FitsInBuffer
  <2>4. CASE Fits(c) = 0
    BY <1>1, <2>1, <2>4 DEF Line!vars
  <2>5. CASE Fits(c) # 0
    <3>1. Fits(c) \in 1..SendBuf /\ accepted + Fits(c) - Len(wire) <= SendBuf
      <4> DEFINE n == Fits(c)  t == tmp[c]
      <4>1. /\ n \in 0..MaxLen /\ n + t <= SendBuf /\ n # 0
            /\ t \in 0..SendBuf /\ accepted = Sent + t
        BY <2>2, <2>3, <2>5
      <4> HIDE DEF n, t
      <4>2. n \in 1..SendBuf /\ accepted + n - Sent <= SendBuf
        BY <1>1, <4>1, SizeAssumption
      <4> QED
        BY <4>2 DEF n, Sent
    <3> QED
      BY <2>1, <3>1 DEF Line!Next, Line!Accept
  <2> QED
    BY <2>4, <2>5
<1>3. CASE DmaTransfer
  <2>1. /\ en /\ cndtr > 0 /\ ~tcif /\ cndtr \in 0..SendBuf /\ ptr \in Nat
        /\ flag \in {0, 1}
        /\ UNCHANGED accepted
        /\ wire' = IF buf[ptr] = 0 THEN wire ELSE Append(wire, buf[ptr])
    BY <1>1, <1>3 DEF DmaTransfer, TcAtEnd, TypeOK
  <2>2. pc[c] \in {"idle", "check", "stopIdle", "stopBusy"}
    BY <1>1, <2>1 DEF FifoAt, Stopped, LaidOut, Pcs, TypeOK
  <2>3. 0 \in 0..cndtr - 1 /\ ptr + 0 = ptr
    BY <1>1, <2>1
  <2>4. CASE flag = 1
    <3>1. OnChannel
      BY <1>1, <2>2, <2>4 DEF FifoAt
    <3>2. buf[ptr + 0] = Sent + 1 + 0
      BY <2>3, <3>1 DEF OnChannel, Holds
    <3>3. wire' = Append(wire, Len(wire) + 1)
      BY <1>1, <2>1, <2>3, <3>2 DEF Sent
    <3>4. Len(wire) < accepted
      BY <1>1, <2>1, <3>1 DEF OnChannel, Sent
    <3> QED
      BY <2>1, <3>3, <3>4 DEF Line!Next, Line!Emit
  <2>5. CASE flag = 0
    <3>1. Quiet
      BY <1>1, <2>1, <2>2, <2>5 DEF FifoAt
    <3>2. buf[ptr + 0] = 0
      BY <2>1, <2>3, <3>1 DEF Quiet
    <3> QED
      BY <2>1, <2>3, <3>2 DEF Line!vars
  <2> QED
    BY <2>1, <2>4, <2>5
<1>4. CASE UNCHANGED <<accepted, wire>>
  BY <1>4 DEF Line!vars
<1>5. [Next]_vars => \/ AppendMessage(c) \/ DmaTransfer
                     \/ UNCHANGED <<accepted, wire>>
  BY DEF Next, SendCom2Data, Call, CheckFlag, StopIdle, StopBusy, ReadLeft,
     CountSent, Shift, SetLen, SetCndtr, SetFlag, Enable, TcIrq, vars
<1> QED
  BY <1>2, <1>3, <1>4, <1>5

\* With one caller the driver implements the queue of UART_SEND_BUF bytes in
\* front of a serial line that a caller of SendCom2Data sees.
THEOREM Refinement ==
  ASSUME NEW c, Callers = {c}
  PROVE  Spec => RefinesSerialChannel
<1>1. Init => Line!Init
  BY DEF Init, Line!Init
<1>2. FifoInv /\ [Next]_vars => [Line!Next]_(Line!vars)
  BY LineStep
<1>3. FifoInv /\ [Next]_vars => FifoInv'
  BY FifoStep
<1> QED
  BY FifoInit, <1>1, <1>2, <1>3, PTL DEF Spec, Line!Spec, RefinesSerialChannel
=============================================================================
