------------------------------- MODULE UartRx -------------------------------
(***************************************************************************)
(* The receive half of the COM2 driver, User/drivers/usart/UartCom2.c.     *)
(* DMA1 channel 6 moves each byte from the data register of USART2 to      *)
(* sCom2RxBuf; the interrupts "line idle" and "channel at its end" set     *)
(* sCom2ReadFlag; the main loop polls ReadCom2Data, which takes what the   *)
(* buffer holds and restarts the channel.                                  *)
(*                                                                         *)
(* Both interrupts preempt the main loop (module Nvic), so no statement of *)
(* ReadCom2Data runs while one is pending, and each handler is one action. *)
(* A byte is named by its place on the line: the k-th byte is k.           *)
(***************************************************************************)
EXTENDS Integers, Sequences

CONSTANTS
  RecvBuf,    \* UART_RECV_BUF
  MaxBytes    \* bound: number of bytes that arrive

ASSUME SizeAssumption == RecvBuf \in 1..255 /\ MaxBytes \in Nat

VARIABLES
  rxBuf,      \* sCom2RxBuf
  readFlag,   \* sCom2ReadFlag
  en,         \* channel 6: the EN bit of CCR
  cndtr,      \* channel 6: room left; while it runs it writes at RecvBuf - cndtr
  tcif,       \* channel 6: transfer complete, the pending interrupt
  dr,         \* USART2: unread byte in the data register, 0 if none
  idleIrq,    \* USART2: IDLE flag, the pending interrupt
  active,     \* a byte came since the line was last seen idle
  pc, cnt,    \* ReadCom2Data: next statement and the local count
  arrived,    \* number of bytes that came in
  exposed,    \* the bytes that came in while a read was in progress, or
              \* while the channel had no room
  delivered   \* the bytes ReadCom2Data has returned, oldest first

channel == <<en, cndtr, tcif>>
usart == <<dr, idleIrq, active>>
ghosts == <<arrived, exposed, delivered>>
vars == <<rxBuf, readFlag, channel, usart, pc, cnt, ghosts>>

Index == 0..RecvBuf - 1
Byte == 0..MaxBytes

TypeOK == /\ rxBuf \in [Index -> Byte]
          /\ readFlag \in {0, 1}
          /\ en \in BOOLEAN
          /\ cndtr \in 0..RecvBuf
          /\ tcif \in BOOLEAN
          /\ dr \in Byte
          /\ idleIrq \in BOOLEAN
          /\ active \in BOOLEAN
          /\ pc \in {"poll", "count", "stop", "copy", "clear", "reload", "start"}
          /\ cnt \in 0..RecvBuf
          /\ arrived \in Byte
          /\ exposed \subseteq 1..arrived
          /\ delivered \in Seq(1..arrived)

-----------------------------------------------------------------------------
\* After InitCom2Con: channel 6 runs over an empty buffer.
Init == /\ rxBuf = [i \in Index |-> 0]
        /\ readFlag = 0
        /\ en = TRUE
        /\ cndtr = RecvBuf
        /\ tcif = FALSE
        /\ dr = 0
        /\ idleIrq = FALSE
        /\ active = FALSE
        /\ pc = "poll"
        /\ cnt = 0
        /\ arrived = 0
        /\ exposed = {}
        /\ delivered = << >>

-----------------------------------------------------------------------------
(* The hardware.  A definition named Faulty_X is X with one mistake in it;  *)
(* no specification uses it, it is there to see which property X answers   *)
(* for.                                                                    *)

\* The channel serves a request within a few bus cycles: before the line
\* delivers another byte or falls idle, and before the CPU goes on.
Request == en /\ cndtr > 0 /\ dr # 0

DmaReceive ==
  /\ Request
  /\ rxBuf' = [rxBuf EXCEPT ![RecvBuf - cndtr] = dr]
  /\ cndtr' = cndtr - 1
  /\ tcif' = (cndtr = 1)
  /\ dr' = 0
  /\ UNCHANGED <<readFlag, en, idleIrq, active, pc, cnt, ghosts>>

\* A byte that comes in before the last one was read is lost (overrun).
Arrive ==
  /\ arrived < MaxBytes
  /\ ~Request
  /\ arrived' = arrived + 1
  /\ dr' = IF dr = 0 THEN arrived + 1 ELSE dr
  /\ active' = TRUE
  /\ exposed' = IF pc = "poll" /\ cndtr > 0 THEN exposed
                ELSE exposed \cup {arrived + 1}
  /\ UNCHANGED <<rxBuf, readFlag, channel, idleIrq, pc, cnt, delivered>>

\* A character time without a byte.
LineIdle ==
  /\ active
  /\ ~Request
  /\ active' = FALSE
  /\ idleIrq' = TRUE
  /\ UNCHANGED <<rxBuf, readFlag, channel, dr, pc, cnt, ghosts>>

-----------------------------------------------------------------------------
(* The interrupt handlers.                                                 *)

Faulty_USART2_IRQHandler ==
  /\ idleIrq
  /\ ~Request
  /\ idleIrq' = FALSE
  /\ dr' = 0
  /\ UNCHANGED <<rxBuf, readFlag, channel, active, pc, cnt, ghosts>>

\* Clearing IDLE means reading the data register: a byte in it is dropped.
USART2_IRQHandler ==
  /\ idleIrq
  /\ ~Request
  /\ idleIrq' = FALSE
  /\ dr' = 0
  /\ readFlag' = 1
  /\ UNCHANGED <<rxBuf, channel, active, pc, cnt, ghosts>>

DMA1_Channel6_IRQHandler ==
  /\ tcif
  /\ readFlag' = 1
  /\ tcif' = FALSE
  /\ UNCHANGED <<rxBuf, en, cndtr, usart, pc, cnt, ghosts>>

-----------------------------------------------------------------------------
(* ReadCom2Data, called over and over by the main loop.                    *)

At(at, to) == ~tcif /\ ~idleIrq /\ ~Request /\ pc = at /\ pc' = to

\* With the flag at 0 the call returns 0 and changes nothing.
CheckFlag ==
  /\ At("poll", "count")
  /\ readFlag = 1
  /\ UNCHANGED <<rxBuf, readFlag, channel, usart, cnt, ghosts>>

\* The last byte is not counted.
Faulty_Filled == IF cndtr = RecvBuf THEN 0 ELSE RecvBuf - cndtr - 1

Filled == RecvBuf - cndtr

\* With nothing in the buffer the call returns 0 and leaves the flag at 1.
Count ==
  /\ At("count", IF Filled > 0 THEN "stop" ELSE "poll")
  /\ cnt' = Filled
  /\ UNCHANGED <<rxBuf, readFlag, channel, usart, ghosts>>

Stop ==
  /\ At("stop", "copy")
  /\ en' = FALSE
  /\ UNCHANGED <<rxBuf, readFlag, cndtr, tcif, usart, cnt, ghosts>>

Copy ==
  /\ At("copy", "clear")
  /\ delivered' = delivered \o [i \in 1..cnt |-> rxBuf[i - 1]]
  /\ UNCHANGED <<rxBuf, readFlag, channel, usart, cnt, arrived, exposed>>

ClearFlag ==
  /\ At("clear", "reload")
  /\ readFlag' = 0
  /\ UNCHANGED <<rxBuf, channel, usart, cnt, ghosts>>

\* The channel goes on behind the bytes that were read.
Faulty_Reload ==
  /\ At("reload", "start")
  /\ UNCHANGED <<rxBuf, readFlag, channel, usart, cnt, ghosts>>

Reload ==
  /\ At("reload", "start")
  /\ cndtr' = RecvBuf
  /\ UNCHANGED <<rxBuf, readFlag, en, tcif, usart, cnt, ghosts>>

Start ==
  /\ At("start", "poll")
  /\ en' = TRUE
  /\ cnt' = 0
  /\ UNCHANGED <<rxBuf, readFlag, cndtr, tcif, usart, ghosts>>

ReadCom2Data == CheckFlag \/ Count \/ Stop \/ Copy \/ ClearFlag \/ Reload \/ Start

-----------------------------------------------------------------------------
Next == \/ Arrive \/ LineIdle \/ DmaReceive
        \/ USART2_IRQHandler \/ DMA1_Channel6_IRQHandler
        \/ ReadCom2Data

Spec == Init /\ [][Next]_vars

-----------------------------------------------------------------------------
Buffered(k) == \E i \in 0..Filled - 1 : rxBuf[i] = k
Delivered(k) == \E i \in DOMAIN delivered : delivered[i] = k
Lost(k) == ~Buffered(k) /\ ~Delivered(k) /\ dr # k

\* What ReadCom2Data returns is what came in, in the order it came in and
\* nothing twice: no read sees the bytes of an earlier one again, whatever
\* arrives while it counts, copies and restarts the channel.
DeliveredInOrder ==
  \A i, j \in DOMAIN delivered : i < j => delivered[i] < delivered[j]

\* A byte is lost only if it came in while a read was in progress (between
\* the count of line 148 and the restart of line 160) or while the channel
\* had no room: the program loses nothing between reads.
LossOnlyInWindow == \A k \in 1..arrived : Lost(k) => k \in exposed

\* Every byte in the buffer is read, or overwritten by a read that raced it.
BufferedIsRead == \A k \in 1..MaxBytes : Buffered(k) ~> Delivered(k) \/ Lost(k)
=============================================================================
