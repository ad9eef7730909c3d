------------------------------- MODULE UartTx -------------------------------
(***************************************************************************)
(* The transmit half of the COM2 driver, User/drivers/usart/UartCom2.c:    *)
(* SendCom2Data copies a message behind the bytes that DMA1 channel 7 has  *)
(* not sent yet and restarts the channel; DMA1_Channel7_IRQHandler stops   *)
(* the channel when its count reaches zero.                                *)
(*                                                                         *)
(* SendCom2Data runs in two contexts: in the main loop (printf2) and in    *)
(* the Ethernet interrupt (OnTcpReceiveData -> SendUartData), which        *)
(* preempts the main loop between any two of its statements.  The channel  *)
(* 7 interrupt preempts both (module Nvic), so no statement of a caller    *)
(* runs while it is pending, and it never sees a caller or the channel     *)
(* move while it runs: it is one action.                                   *)
(*                                                                         *)
(* A byte is named by the order in which the driver accepted it: the k-th  *)
(* accepted byte is k, and 0 is a byte of the zero-initialised buffer,     *)
(* which the channel sends once at boot because InitCom2Dma enables it     *)
(* with a full count.                                                      *)
(***************************************************************************)
EXTENDS Integers, Sequences

CONSTANTS
  Callers,    \* the contexts that call SendCom2Data, a subset of {"main", "eth"}
  SendBuf,    \* UART_SEND_BUF
  MaxLen,     \* longest length a caller passes
  MaxCalls    \* bound: number of calls

ASSUME SizeAssumption == /\ SendBuf \in 1..255
                         /\ MaxLen \in 0..255
                         /\ MaxCalls \in Nat
ASSUME CallersAssumption == Callers \subseteq {"main", "eth"}

VARIABLES
  buf,        \* sCom2TxDmaBuf
  flag,       \* sCom2SendFlag
  sendLen,    \* sCom2SendLen
  en,         \* channel 7: the EN bit of CCR
  cndtr,      \* channel 7: bytes left
  ptr,        \* channel 7: index of the next byte it reads
  tcif,       \* channel 7: transfer complete flag, the pending interrupt
  pc, len, tmp, cnt,  \* per caller: next statement and the locals of the call
  calls,      \* number of calls so far
  accepted,   \* number of bytes SendCom2Data has accepted so far
  wire        \* the accepted bytes USART2 has sent, oldest first

local == <<len, tmp, cnt>>
channel == <<en, cndtr, ptr, tcif>>
vars == <<buf, flag, sendLen, channel, pc, local, calls, accepted, wire>>

Index == 0..SendBuf - 1
U8 == 0..255
Stray == -1     \* what a read past the end of sCom2TxDmaBuf returns
Pcs == {"idle", "check", "stopBusy", "stopIdle", "left", "count", "shift",
        "append", "setLen", "setCndtr", "setFlag", "enable"}

TypeOK == /\ buf \in [Index -> Nat \cup {Stray}]
          /\ flag \in {0, 1}
          /\ sendLen \in U8
          /\ en \in BOOLEAN
          /\ cndtr \in 0..SendBuf
          /\ ptr \in 0..SendBuf
          /\ tcif \in BOOLEAN
          /\ pc \in [Callers -> Pcs]
          /\ len \in [Callers -> 0..MaxLen]
          /\ tmp \in [Callers -> 0..SendBuf]
          /\ cnt \in [Callers -> U8]
          /\ calls \in 0..MaxCalls
          /\ accepted \in Nat
          /\ wire \in Seq(Nat \cup {Stray})

-----------------------------------------------------------------------------
\* After InitCom2Dma: the channel is enabled with a count of UART_SEND_BUF
\* over the zeroed buffer, while the send flag is still 0.
Init == /\ buf = [i \in Index |-> 0]
        /\ flag = 0
        /\ sendLen = 0
        /\ en = TRUE
        /\ cndtr = SendBuf
        /\ ptr = 0
        /\ tcif = FALSE
        /\ pc = [c \in Callers |-> "idle"]
        /\ len = [c \in Callers |-> 0]
        /\ tmp = [c \in Callers |-> 0]
        /\ cnt = [c \in Callers |-> 0]
        /\ calls = 0
        /\ accepted = 0
        /\ wire = << >>

-----------------------------------------------------------------------------
(* The CPU.  A definition named Faulty_X is X with one mistake in it; no     *)
(* specification uses it, it is there to see which property X answers for. *)

\* A channel 7 interrupt that does not preempt the callers.
Faulty_Runs(c) == c = "main" => \A d \in Callers \ {"main"} : pc[d] = "idle"

\* The main loop is suspended from the entry of ETH_IRQHandler to its return,
\* and everything is suspended while the channel 7 interrupt is pending.
Runs(c) == /\ ~tcif
           /\ c = "main" => \A d \in Callers \ {"main"} : pc[d] = "idle"

\* Caller c executes its statement `at` and goes on to the statement `to`.
At(c, at, to) == /\ Runs(c)
                 /\ pc[c] = at
                 /\ pc' = [pc EXCEPT ![c] = to]

(* The DMA controller, from how the driver programs it.                    *)

\* DMA_Cmd(..., DISABLE) leaves the count; DMA_Cmd(..., ENABLE) of a stopped
\* channel starts it again at the base address.
DMA_Disable == /\ en' = FALSE
               /\ UNCHANGED <<cndtr, ptr, tcif>>
Faulty_DMA_Enable == UNCHANGED <<en, cndtr, ptr, tcif>>
DMA_Enable == /\ en' = TRUE
              /\ ptr' = IF en THEN ptr ELSE 0
              /\ UNCHANGED <<cndtr, tcif>>
\* CNDTR is read-only while the channel is enabled.
DMA_SetCndtr(n) == /\ cndtr' = IF en THEN cndtr ELSE n
                   /\ UNCHANGED <<en, ptr, tcif>>

\* The channel moves one byte to the data register of USART2.
DmaTransfer ==
  /\ en /\ cndtr > 0
  /\ wire' = IF buf[ptr] = 0 THEN wire ELSE Append(wire, buf[ptr])
  /\ ptr' = ptr + 1
  /\ cndtr' = cndtr - 1
  /\ tcif' = (cndtr = 1)
  /\ UNCHANGED <<buf, flag, sendLen, en, pc, local, calls, accepted>>

-----------------------------------------------------------------------------
(* SendCom2Data, one action per statement that another context can see.    *)

Call(c) ==
  /\ At(c, "idle", "check")
  /\ calls < MaxCalls
  /\ calls' = calls + 1
  /\ \E n \in 0..MaxLen : len' = [len EXCEPT ![c] = n]
  /\ UNCHANGED <<buf, flag, sendLen, channel, tmp, cnt, accepted, wire>>

CheckFlag(c) ==
  /\ At(c, "check", IF flag = 1 THEN "stopBusy" ELSE "stopIdle")
  /\ UNCHANGED <<buf, flag, sendLen, channel, local, calls, accepted, wire>>

\* The branch for a finished transmission keeps nothing of the buffer: it is
\* the other branch with no byte left.
StopIdle(c) ==
  /\ At(c, "stopIdle", "append")
  /\ DMA_Disable
  /\ tmp' = [tmp EXCEPT ![c] = 0]
  /\ UNCHANGED <<buf, flag, sendLen, len, cnt, calls, accepted, wire>>

StopBusy(c) ==
  /\ At(c, "stopBusy", "left")
  /\ DMA_Disable
  /\ UNCHANGED <<buf, flag, sendLen, local, calls, accepted, wire>>

ReadLeft(c) ==
  /\ At(c, "left", "count")
  /\ tmp' = [tmp EXCEPT ![c] = cndtr]
  /\ UNCHANGED <<buf, flag, sendLen, channel, len, cnt, calls, accepted, wire>>

\* An unsigned 8-bit difference.
CountSent(c) ==
  /\ At(c, "count", "shift")
  /\ cnt' = [cnt EXCEPT ![c] = (sendLen - tmp[c]) % 256]
  /\ UNCHANGED <<buf, flag, sendLen, channel, len, tmp, calls, accepted, wire>>

\* The bytes that are left move to the front of the buffer.
Shift(c) ==
  /\ At(c, "shift", "append")
  /\ buf' = [i \in Index |->
               IF i >= tmp[c] THEN buf[i]
               ELSE IF i + cnt[c] \in Index THEN buf[i + cnt[c]] ELSE Stray]
  /\ UNCHANGED <<flag, sendLen, channel, local, calls, accepted, wire>>

\* The bytes that are left are not counted.
Faulty_Fits(c) == IF len[c] > SendBuf THEN SendBuf ELSE len[c]

\* What fits behind them is accepted, the rest of the message is cut off.
Fits(c) == IF len[c] + tmp[c] > SendBuf THEN SendBuf - tmp[c] ELSE len[c]

AppendMessage(c) ==
  /\ At(c, "append", "setLen")
  /\ len' = [len EXCEPT ![c] = Fits(c)]
  /\ buf' = [i \in Index |-> IF i \in tmp[c]..(tmp[c] + Fits(c) - 1)
                             THEN accepted + 1 + i - tmp[c] ELSE buf[i]]
  /\ accepted' = accepted + Fits(c)
  /\ UNCHANGED <<flag, sendLen, channel, tmp, cnt, calls, wire>>

SetLen(c) ==
  /\ At(c, "setLen", "setCndtr")
  /\ sendLen' = len[c] + tmp[c]
  /\ UNCHANGED <<buf, flag, channel, local, calls, accepted, wire>>

\* Only the new bytes are counted.
Faulty_SetCndtr(c) ==
  /\ At(c, "setCndtr", "setFlag")
  /\ DMA_SetCndtr(len[c])
  /\ UNCHANGED <<buf, flag, sendLen, local, calls, accepted, wire>>

SetCndtr(c) ==
  /\ At(c, "setCndtr", "setFlag")
  /\ DMA_SetCndtr(len[c] + tmp[c])
  /\ UNCHANGED <<buf, flag, sendLen, local, calls, accepted, wire>>

Faulty_SetFlag(c) ==
  /\ At(c, "setFlag", "enable")
  /\ UNCHANGED <<buf, flag, sendLen, channel, local, calls, accepted, wire>>

SetFlag(c) ==
  /\ At(c, "setFlag", "enable")
  /\ flag' = 1
  /\ UNCHANGED <<buf, sendLen, channel, local, calls, accepted, wire>>

\* The call returns; its locals end.
Enable(c) ==
  /\ At(c, "enable", "idle")
  /\ DMA_Enable
  /\ len' = [len EXCEPT ![c] = 0]
  /\ tmp' = [tmp EXCEPT ![c] = 0]
  /\ cnt' = [cnt EXCEPT ![c] = 0]
  /\ UNCHANGED <<buf, flag, sendLen, calls, accepted, wire>>

SendCom2Data(c) ==
  \/ CheckFlag(c) \/ StopIdle(c) \/ StopBusy(c) \/ ReadLeft(c) \/ CountSent(c)
  \/ Shift(c) \/ AppendMessage(c) \/ SetLen(c) \/ SetCndtr(c) \/ SetFlag(c)
  \/ Enable(c)

\* DMA1_Channel7_IRQHandler.
TcIrq ==
  /\ tcif
  /\ flag' = 0
  /\ tcif' = FALSE
  /\ en' = FALSE
  /\ UNCHANGED <<buf, sendLen, cndtr, ptr, pc, local, calls, accepted, wire>>

-----------------------------------------------------------------------------
Next == \/ \E c \in Callers : Call(c) \/ SendCom2Data(c)
        \/ DmaTransfer
        \/ TcIrq

\* A call that was started runs on; the handler is taken.  USART2 repeats its
\* request until the channel serves it, whenever the channel is enabled: the
\* callers cannot keep it from one byte by switching the channel off and on.
Fairness == /\ \A c \in Callers : WF_vars(SendCom2Data(c))
            /\ SF_vars(DmaTransfer)
            /\ WF_vars(TcIrq)

Spec == Init /\ [][Next]_vars
FairSpec == Spec /\ Fairness

-----------------------------------------------------------------------------
(* What the driver promises.                                               *)

AllIdle == \A c \in Callers : pc[c] = "idle"

\* The bytes on the line are the accepted ones, each once and in the order
\* they were accepted: shifting the rest of a message to the front while the
\* channel is stopped neither drops, repeats nor reorders a byte.
InOrder == \A k \in DOMAIN wire : wire[k] = k

\* Whatever two callers do to each other between the stop and the restart of
\* the channel (one continues with a count and a length the other has since
\* changed), the channel is never programmed to read past sCom2TxDmaBuf.
ChannelInBounds == en => ptr + cndtr <= SendBuf

\* Comment of sCom2SendFlag, UartCom2.c:24: 1 is "sending", 0 is "finished".
\* Between calls a clear flag means every accepted byte was sent.
FlagMeansDone == AllIdle /\ flag = 0 => Len(wire) = accepted

\* Between calls every accepted byte was sent or is in front of a running
\* channel: no call, and no completion racing it, leaves bytes stranded in a
\* stopped channel.
NothingStranded == AllIdle /\ Len(wire) # accepted
                     => en /\ cndtr = accepted - Len(wire)

\* Every byte for which SendCom2Data reported success goes out.
Delivered == \A k \in 1..(MaxCalls * SendBuf) :
               accepted >= k ~> Len(wire) >= k

-----------------------------------------------------------------------------
\* The serial line as its callers see it (module SerialChannel).
Line == INSTANCE SerialChannel WITH Capacity <- SendBuf
RefinesSerialChannel == Line!Spec
=============================================================================
