-------------------------------- MODULE EthTx --------------------------------
(***************************************************************************)
(* Transmission.  low_level_output (lwip/src/netif/ethernetif.c) copies a  *)
(* packet into the buffer of the next descriptor of a chain and gives the  *)
(* descriptor to the DMA.  lwIP calls it from the main loop (its timers,   *)
(* CheckForConnection) and from the Ethernet interrupt, which preempts the *)
(* main loop (module Nvic) and is not masked; the DMA goes on all the      *)
(* time.  A packet is a number, in the order of the calls.                 *)
(***************************************************************************)
EXTENDS Integers, Sequences, FiniteSets

CONSTANTS
  Contexts,   \* who sends: a subset of {"main", "eth"}
  TxBufs,     \* ETH_TXBUFNB
  MaxPackets  \* bound: number of calls

ASSUME TxAssumption == /\ Contexts \subseteq {"main", "eth"}
                       /\ TxBufs \in Nat \ {0}
                       /\ MaxPackets \in Nat

VARIABLES
  own,        \* own[d]: descriptor d belongs to the DMA (Status, OWN)
  data,       \* data[d]: the packet in the buffer of d, 0 at first
  length,     \* length[d]: the packet whose length is in ControlBufferSize
  dma,        \* the descriptor the DMA is at
  tbus,       \* the DMA waits for a poll demand (DMASR, TBUS)
  set,        \* DMATxDescToSet
  pc, pkt, buf, \* low_level_output in each context: next statement, p, buffer
  calls,      \* number of calls so far
  ok,         \* packets whose call has returned ERR_OK
  full,       \* packets spoilt by a full chain: overwritten or turned away
  wire        \* what was sent: data and length, oldest first

chain == <<own, data, length>>
driver == <<pc, pkt, buf>>
vars == <<chain, dma, tbus, set, driver, calls, ok, full, wire>>

Descriptors == 0..TxBufs - 1
NextDesc(d) == (d + 1) % TxBufs     \* Buffer2NextDescAddr

\* After ethernetif_init: the DMA has found no packet and waits.
Init == /\ own = [d \in Descriptors |-> FALSE]
        /\ data = [d \in Descriptors |-> 0]
        /\ length = [d \in Descriptors |-> 0]
        /\ dma = 0 /\ set = 0
        /\ tbus = TRUE
        /\ pc = [c \in Contexts |-> "idle"]
        /\ pkt = [c \in Contexts |-> 0]
        /\ buf = [c \in Contexts |-> 0]
        /\ calls = 0
        /\ ok = {}
        /\ full = {}
        /\ wire = << >>

-----------------------------------------------------------------------------
(* The controller.                                                         *)

Transmit ==
  /\ ~tbus
  /\ own[dma]
  /\ wire' = Append(wire, [data |-> data[dma], length |-> length[dma]])
  /\ own' = [own EXCEPT ![dma] = FALSE]
  /\ dma' = NextDesc(dma)
  /\ UNCHANGED <<data, length, tbus, set, driver, calls, ok, full>>

Suspend ==
  /\ ~tbus
  /\ ~own[dma]
  /\ tbus' = TRUE
  /\ UNCHANGED <<chain, dma, set, driver, calls, ok, full, wire>>

-----------------------------------------------------------------------------
(* low_level_output.  A definition named Faulty_X is X with one mistake in *)
(* it; no specification uses it, it is there to see which property X       *)
(* answers for.                                                            *)

\* The interrupt handler runs to its end before the main loop goes on.
Runs(c) == c = "eth" \/ \A o \in Contexts : pc[o] = "idle" \/ o = c

At(c, at, to) == Runs(c) /\ pc[c] = at /\ pc' = [pc EXCEPT ![c] = to]

Busy == {d \in Descriptors : own[d]}
Calling == {c \in Contexts : pc[c] # "idle"}

Call(c) ==
  /\ At(c, "idle", "buffer")
  /\ calls < MaxPackets
  /\ calls' = calls + 1
  /\ pkt' = [pkt EXCEPT ![c] = calls + 1]
  /\ UNCHANGED <<chain, dma, tbus, set, buf, ok, full, wire>>

\* ETH_GetCurrentTxBuffer
GetBuffer(c) ==
  /\ At(c, "buffer", "copy")
  /\ buf' = [buf EXCEPT ![c] = set]
  /\ UNCHANGED <<chain, dma, tbus, set, pkt, calls, ok, full, wire>>

\* The copy goes to the buffer behind the one that will be sent.
Faulty_CopyPacket(c) ==
  /\ At(c, "copy", "check")
  /\ data' = [data EXCEPT ![NextDesc(buf[c])] = pkt[c]]
  /\ UNCHANGED <<own, length, dma, tbus, set, pkt, buf, calls, ok, full, wire>>

CopyPacket(c) ==
  /\ At(c, "copy", "check")
  /\ data' = [data EXCEPT ![buf[c]] = pkt[c]]
  /\ full' = IF own[buf[c]] THEN full \cup {length[buf[c]]} ELSE full
  /\ UNCHANGED <<own, length, dma, tbus, set, pkt, buf, calls, ok, wire>>

\* ETH_TxPkt_ChainMode returns ETH_ERROR if the DMA still has the descriptor;
\* low_level_output drops the result and returns ERR_OK.
CheckOwn(c) ==
  /\ Runs(c)
  /\ pc[c] = "check"
  /\ IF own[set]
       THEN /\ pc' = [pc EXCEPT ![c] = "idle"]
            /\ ok' = ok \cup {pkt[c]}
            /\ full' = full \cup {pkt[c]}
       ELSE /\ pc' = [pc EXCEPT ![c] = "length"]
            /\ UNCHANGED <<ok, full>>
  /\ UNCHANGED <<chain, dma, tbus, set, pkt, buf, calls, wire>>

SetLength(c) ==
  /\ At(c, "length", "give")
  /\ length' = [length EXCEPT ![set] = pkt[c]]
  /\ UNCHANGED <<own, data, dma, tbus, set, pkt, buf, calls, ok, full, wire>>

GiveDescriptor(c) ==
  /\ At(c, "give", "poll")
  /\ own' = [own EXCEPT ![set] = TRUE]
  /\ UNCHANGED <<data, length, dma, tbus, set, pkt, buf, calls, ok, full, wire>>

PollDemand(c) ==
  /\ At(c, "poll", "advance")
  /\ tbus' = FALSE
  /\ UNCHANGED <<chain, dma, set, pkt, buf, calls, ok, full, wire>>

\* The driver stays at its descriptor.
Faulty_Advance(c) ==
  /\ At(c, "advance", "idle")
  /\ ok' = ok \cup {pkt[c]}
  /\ UNCHANGED <<chain, dma, tbus, set, pkt, buf, calls, full, wire>>

Advance(c) ==
  /\ At(c, "advance", "idle")
  /\ set' = NextDesc(set)
  /\ ok' = ok \cup {pkt[c]}
  /\ UNCHANGED <<chain, dma, tbus, pkt, buf, calls, full, wire>>

\* The DMA is woken before the descriptor is its own.
Faulty_low_level_output(c) ==
  \/ Call(c) \/ GetBuffer(c) \/ CopyPacket(c) \/ CheckOwn(c) \/ SetLength(c)
  \/ /\ At(c, "give", "poll")
     /\ tbus' = FALSE
     /\ UNCHANGED <<chain, dma, set, pkt, buf, calls, ok, full, wire>>
  \/ /\ At(c, "poll", "advance")
     /\ own' = [own EXCEPT ![set] = TRUE]
     /\ UNCHANGED <<data, length, dma, tbus, set, pkt, buf, calls, ok, full, wire>>
  \/ Advance(c)

low_level_output(c) ==
  \/ Call(c) \/ GetBuffer(c) \/ CopyPacket(c) \/ CheckOwn(c) \/ SetLength(c)
  \/ GiveDescriptor(c) \/ PollDemand(c) \/ Advance(c)

-----------------------------------------------------------------------------
Next == Transmit \/ Suspend \/ \E c \in Contexts : low_level_output(c)
Spec == Init /\ [][Next]_vars

\* The controller works, and no caller stops in the middle of a call.
FairSpec == Spec /\ WF_vars(Transmit)
                 /\ \A c \in Contexts :
                      WF_vars(pc[c] # "idle" /\ low_level_output(c))

-----------------------------------------------------------------------------
TypeOK == /\ own \in [Descriptors -> BOOLEAN]
          /\ data \in [Descriptors -> 0..calls]
          /\ length \in [Descriptors -> 0..calls]
          /\ {dma, set} \subseteq Descriptors
          /\ tbus \in BOOLEAN
          /\ pc \in [Contexts -> {"idle", "buffer", "copy", "check", "length",
                                  "give", "poll", "advance"}]
          /\ pkt \in [Contexts -> 0..calls]
          /\ buf \in [Contexts -> Descriptors]
          /\ calls \in 0..MaxPackets
          /\ ok \subseteq 1..calls
          /\ full \subseteq 1..calls
          /\ wire \in Seq([data : 0..calls, length : 0..calls])

\* Between calls the driver and the DMA agree on the chain: the DMA has the
\* descriptors between the one it is at and the driver's, and no others.
Between(d) == (d - dma) % TxBufs < (set - dma) % TxBufs
ChainAgrees ==
  Calling = {} => \/ Busy = {d \in Descriptors : Between(d)}
                  \/ dma = set /\ Busy = Descriptors

\* Both, as the run checks them.
ChainSound == TypeOK /\ ChainAgrees

\* What goes out is in the order of the calls and whole, a packet's own data
\* under its own length, but for one whose buffer a later call has overwritten
\* because the chain was full.
WireInOrder ==
  /\ \A i \in DOMAIN wire :
       wire[i].length \notin full => wire[i].data = wire[i].length
  /\ \A i, j \in DOMAIN wire : i < j => wire[i].length < wire[j].length

\* ethernetif.c:131: "ERR_OK if the packet could be sent": a packet reported as
\* sent is on the wire, or waits in a descriptor of the DMA, unless the chain
\* was full: a full chain costs the packet that is turned away and the one its
\* copy has overwritten, and no other.
OkMeansSent ==
  \A k \in ok \ full :
    \/ \E i \in DOMAIN wire : wire[i] = [data |-> k, length |-> k]
    \/ \E d \in Busy : data[d] = k /\ length[d] = k

\* Every packet given to the DMA goes out: whenever the DMA suspends itself,
\* the poll demand for the packet comes after it.
Drained == \A d \in Descriptors : own[d] ~> ~own[d]
=============================================================================
