------------------------------- MODULE Forward -------------------------------
(***************************************************************************)
(* The main loop of main.c around the receive half of the COM2 driver: it  *)
(* reads into a buffer of its own, takes the bytes up to the first 0 for a *)
(* string, whatever the length of the read, and gives them to the TCP      *)
(* client (SendTcpDataToClient; what becomes of them is in TcpSend).       *)
(*                                                                         *)
(* The bytes of the line keep their numbers; nul says which of them is a   *)
(* 0.  The buffer is a local of main and not initialised: what is in it    *)
(* before the first read, up to the first 0, is junk.                      *)
(***************************************************************************)
EXTENDS UartRx, SequencesExt

CONSTANT Behind    \* bound: bytes of junk behind the longest read

ASSUME BehindAssumption == Behind \in Nat

VARIABLES
  nul,        \* the bytes of the line that are 0
  data,       \* main: the buffer
  got,        \* main: what ReadUartData has returned, 0 while it is polled
  messages    \* given to SendTcpDataToClient: [got, from, bytes], for the got bytes
              \* that the reads have returned behind the first from

loop == <<nul, data, got, messages>>
allVars == <<vars, loop>>

Junk == -1
Data == 0..RecvBuf + Behind

\* The junk ends at the first 0, at once or behind what reads fill.
ForwardInit ==
  /\ Init
  /\ nul \in {{}} \cup {{k} : k \in 1..MaxBytes}
  /\ \E end \in {0, RecvBuf + Behind} :
       data = [i \in Data |-> IF i < end THEN Junk ELSE 0]
  /\ got = 0
  /\ messages = << >>

-----------------------------------------------------------------------------
(* A definition named Faulty_X is X with one mistake in it; no             *)
(* specification uses it, it is there to see which property X answers for. *)

Hardware == Arrive \/ LineIdle \/ DmaReceive
Handlers == USART2_IRQHandler \/ DMA1_Channel6_IRQHandler

\* One byte too many is copied.
Faulty_ReadUartData ==
  /\ got = 0
  /\ ReadCom2Data
  /\ data' = IF pc = "copy"
               THEN [i \in Data |-> IF i <= cnt /\ i < RecvBuf THEN rxBuf[i] ELSE data[i]]
             ELSE data
  /\ got' = IF pc = "start" THEN cnt ELSE 0
  /\ UNCHANGED <<nul, messages>>

\* ReadUartData with the buffer of main: only the copy changes it.
ReadUartData ==
  /\ got = 0
  /\ ReadCom2Data
  /\ data' = IF pc = "copy" THEN [i \in Data |-> IF i < cnt THEN rxBuf[i] ELSE data[i]]
             ELSE data
  /\ got' = IF pc = "start" THEN cnt ELSE 0
  /\ UNCHANGED <<nul, messages>>

IsNul(i) == data[i] = 0 \/ data[i] \in nul

\* The first byte is skipped.
Faulty_Message(n) == [i \in 1..n - 1 |-> data[i]]

strlen == CHOOSE n \in Data : IsNul(n) /\ \A i \in 0..n - 1 : ~IsNul(i)
Message(n) == [i \in 1..n |-> data[i - 1]]

SendTcpDataToClient ==
  /\ got > 0
  /\ messages' = Append(messages, 
                 [got |-> got, from |-> Len(delivered) - got, bytes |-> Message(strlen)])
  /\ got' = 0
  /\ UNCHANGED <<vars, nul, data>>

-----------------------------------------------------------------------------
ForwardNext ==
  \/ (Hardware \/ Handlers) /\ UNCHANGED loop
  \/ ReadUartData
  \/ SendTcpDataToClient

ForwardFairness ==
  /\ WF_allVars(ReadUartData \/ SendTcpDataToClient)
  /\ WF_allVars(USART2_IRQHandler /\ UNCHANGED loop)
  /\ WF_allVars(DMA1_Channel6_IRQHandler /\ UNCHANGED loop)
  /\ WF_allVars(DmaReceive /\ UNCHANGED loop)
  /\ WF_allVars(LineIdle /\ UNCHANGED loop)

ForwardSpec == ForwardInit /\ [][ForwardNext]_allVars
FairForwardSpec == ForwardSpec /\ ForwardFairness

-----------------------------------------------------------------------------
Bytes(m) == Range(m.bytes)
\* The part of a message that is what was read, and the part behind it.
Fresh(m) == {m.bytes[i] : i \in {j \in DOMAIN m.bytes : j <= m.got}}
Rest(m) == Bytes(m) \ Fresh(m)

\* The bytes the n-th message was about.
ReadFor(n) == [i \in 1..messages[n].got |-> delivered[messages[n].from + i]]

\* No read is left out between two messages.
Follows(n) ==
  messages[n].from = IF n = 1 THEN 0 ELSE messages[n - 1].from + messages[n - 1].got

\* Each byte that was read is given to the client with its read, and in its place,
\* but for those from a 0 on.
ReadIsForwarded ==
  \A n \in DOMAIN messages :
    /\ Follows(n)
    /\ \A i \in DOMAIN ReadFor(n) :
         \/ i \in DOMAIN messages[n].bytes /\ messages[n].bytes[i] = ReadFor(n)[i]
         \/ \E j \in 1..i : ReadFor(n)[j] \in nul

\* What is sent behind it is old: junk, or bytes of an earlier read that was longer.
BehindIsOld ==
  \A n \in DOMAIN messages :
    \A b \in Rest(messages[n]) \ {Junk} :
      \E k \in 1..n - 1 : messages[k].got > messages[n].got /\ b \in Range(ReadFor(k))
=============================================================================
