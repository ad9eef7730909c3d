-------------------------------- MODULE EthRx --------------------------------
(***************************************************************************)
(* Reception.  The DMA of the Ethernet controller fills a chain of         *)
(* descriptors; ETH_IRQHandler (User/drivers/eth/dp83848.c) empties it     *)
(* with ethernetif_input (lwip/src/netif/ethernetif.c), which hands each   *)
(* frame to lwIP.  Only the handler touches the chain, and the DMA goes on *)
(* between any two of its statements.  A frame is named by its place on    *)
(* the wire: the k-th frame is k.                                          *)
(***************************************************************************)
EXTENDS Integers, Sequences, FiniteSets

CONSTANTS
  RxBufs,     \* ETH_RXBUFNB
  MaxFrames   \* bound: number of frames on the wire

ASSUME RxAssumption == /\ RxBufs \in Nat \ {0, 1}
                       /\ MaxFrames \in Nat

VARIABLES
  own,        \* own[d]: descriptor d belongs to the DMA (Status, OWN)
  held,       \* held[d]: the frame in the buffer of d, 0 at first
  part,       \* part[d]: what d holds of it (Status: FS, LS, ES)
  dma,        \* the descriptor the DMA is at
  get,        \* DMARxDescToGet
  rs, nis,    \* DMASR: R and NIS; the interrupt is requested while NIS is set
  rbus,       \* DMASR: RBUS
  pc,         \* ETH_IRQHandler: its next statement
  cur,        \* frame.descriptor
  p,          \* frame in the pbuf, 0 if none
  arrived,    \* number of frames on the wire so far
  missed,     \* frames that found no room: no descriptor, or no pbuf
  late,       \* frames that came after the handler found the chain empty and
              \* before it had cleared the interrupt
  input       \* frames given to netif->input, oldest first

chain == <<own, held, part, dma>>
status == <<rs, nis, rbus>>
handler == <<pc, get, cur, p>>
ghosts == <<arrived, missed, late, input>>
vars == <<chain, status, handler, ghosts>>

Descriptors == 0..RxBufs - 1
NextDesc(d) == (d + 1) % RxBufs     \* Buffer2NextDescAddr

\* After ethernetif_init: ETH_DMARxDescChainInit and ETH_Start.
Init == /\ own = [d \in Descriptors |-> TRUE]
        /\ held = [d \in Descriptors |-> 0]
        /\ part = [d \in Descriptors |-> "whole"]
        /\ dma = 0 /\ get = 0 /\ cur = 0
        /\ rs = FALSE /\ nis = FALSE /\ rbus = FALSE
        /\ pc = "idle"
        /\ p = 0
        /\ arrived = 0
        /\ missed = {}
        /\ late = {}
        /\ input = << >>

-----------------------------------------------------------------------------
(* The controller.                                                         *)

\* The frame that comes in now.
Frame == arrived + 1

Arrives ==
  /\ arrived < MaxFrames
  /\ arrived' = Frame
  /\ late' = IF pc \in {"clearR", "clearNIS"} THEN late \cup {Frame} ELSE late

\* The end of a frame is stored.
Signal == rs' = TRUE /\ nis' = TRUE

Receive ==
  /\ Arrives
  /\ own[dma]
  /\ own' = [own EXCEPT ![dma] = FALSE]
  /\ held' = [held EXCEPT ![dma] = Frame]
  /\ part' = [part EXCEPT ![dma] = "whole"]
  /\ dma' = NextDesc(dma)
  /\ Signal
  /\ UNCHANGED <<rbus, handler, missed, input>>

\* A frame longer than ETH_MAX_PACKET_SIZE: the rest goes to the next buffer, or is cut off with an
\* error if that is not free.
ReceiveLong ==
  /\ Arrives
  /\ own[dma]
  /\ LET second == NextDesc(dma)
         used == IF own[second] THEN {dma, second} ELSE {dma}
     IN /\ own' = [d \in Descriptors |-> own[d] /\ d \notin used]
        /\ held' = [d \in Descriptors |-> IF d \in used THEN Frame ELSE held[d]]
        /\ part' = [d \in Descriptors |->
                      IF d \notin used THEN part[d]
                      ELSE IF used = {dma} THEN "error"
                      ELSE IF d = dma THEN "first" ELSE "last"]
        /\ dma' = IF own[second] THEN NextDesc(second) ELSE second
        /\ rbus' = (rbus \/ ~own[second])
  /\ Signal
  /\ UNCHANGED <<handler, missed, input>>

\* Reception is suspended, and tried again with the next frame or as soon as
\* the driver asks for it.
Miss ==
  /\ Arrives
  /\ ~own[dma]
  /\ missed' = missed \cup {Frame}
  /\ rbus' = TRUE
  /\ UNCHANGED <<chain, rs, nis, handler, input>>

Controller == Receive \/ ReceiveLong \/ Miss

-----------------------------------------------------------------------------
(* The handler.  A definition named Faulty_X is X with one mistake in it;   *)
(* no specification uses it, it is there to see which property X answers   *)
(* for.                                                                    *)

At(at, to) == pc = at /\ pc' = to

Enter ==
  /\ nis
  /\ At("idle", "test")
  /\ UNCHANGED <<chain, status, get, cur, p, ghosts>>

\* ETH_GetRxPktSize() # 0
HaveFrame == ~own[get] /\ part[get] = "whole"

Test ==
  /\ At("test", IF HaveFrame THEN "take" ELSE "clearR")
  /\ UNCHANGED <<chain, status, get, cur, p, ghosts>>

\* ETH_RxPkt_ChainMode, after ETH_GetRxPktSize has found a frame.
Take ==
  /\ At("take", "copy")
  /\ cur' = get
  /\ get' = NextDesc(get)
  /\ UNCHANGED <<chain, status, p, ghosts>>

\* The descriptor is given back with the copy, and once more after it.
Faulty_Copy ==
  /\ At("copy", "release")
  /\ own' = [own EXCEPT ![cur] = TRUE]
  /\ p' = held[cur]
  /\ UNCHANGED <<held, part, dma, status, get, cur, ghosts>>

\* pbuf_alloc and the copy loop.
Copy ==
  /\ At("copy", "release")
  /\ \/ p' = held[cur] /\ UNCHANGED missed
     \/ p' = 0 /\ missed' = missed \cup {held[cur]}
  /\ UNCHANGED <<chain, status, get, cur, arrived, late, input>>

\* The descriptor that comes next is given back.
Faulty_Release ==
  /\ At("release", "resume")
  /\ own' = [own EXCEPT ![get] = TRUE]
  /\ UNCHANGED <<held, part, dma, status, get, cur, p, ghosts>>

Release ==
  /\ At("release", "resume")
  /\ own' = [own EXCEPT ![cur] = TRUE]
  /\ UNCHANGED <<held, part, dma, status, get, cur, p, ghosts>>

Resume ==
  /\ At("resume", "input")
  /\ rbus' = FALSE
  /\ UNCHANGED <<chain, rs, nis, get, cur, p, ghosts>>

\* The handler leaves after one frame.
Faulty_Input ==
  /\ At("input", "clearR")
  /\ input' = IF p = 0 THEN input ELSE Append(input, p)
  /\ p' = 0
  /\ UNCHANGED <<chain, status, get, cur, arrived, missed, late>>

\* ethernetif_input returns ERR_MEM without a pbuf.
Input ==
  /\ At("input", "test")
  /\ input' = IF p = 0 THEN input ELSE Append(input, p)
  /\ p' = 0
  /\ UNCHANGED <<chain, status, get, cur, arrived, missed, late>>

ClearR ==
  /\ At("clearR", "clearNIS")
  /\ rs' = FALSE
  /\ UNCHANGED <<chain, nis, rbus, get, cur, p, ghosts>>

\* With R set again the summary bit may come back at once, or only with the
\* next frame.
ClearNIS ==
  /\ At("clearNIS", "idle")
  /\ nis' \in {FALSE, rs}
  /\ UNCHANGED <<chain, rs, rbus, get, cur, p, ghosts>>

ETH_IRQHandler == \/ Enter \/ Test \/ Take \/ Copy \/ Release
                  \/ Resume \/ Input \/ ClearR \/ ClearNIS

-----------------------------------------------------------------------------
Next == Controller \/ ETH_IRQHandler
Spec == Init /\ [][Next]_vars

\* The interrupt is taken while it is requested, and the handler runs on.
FairSpec == Spec /\ WF_vars(ETH_IRQHandler)

-----------------------------------------------------------------------------
TypeOK == /\ own \in [Descriptors -> BOOLEAN]
          /\ held \in [Descriptors -> 0..arrived]
          /\ part \in [Descriptors -> {"whole", "first", "last", "error"}]
          /\ {dma, get, cur} \subseteq Descriptors
          /\ {rs, nis, rbus} \subseteq BOOLEAN
          /\ pc \in {"idle", "test", "take", "copy", "release", "resume",
                     "input", "clearR", "clearNIS"}
          /\ p \in 0..arrived
          /\ arrived \in 0..MaxFrames
          /\ missed \subseteq 1..arrived
          /\ late \subseteq 1..arrived
          /\ input \in Seq(1..arrived)

InChain(k) == \E d \in Descriptors : ~own[d] /\ held[d] = k
Given(k) == \E i \in DOMAIN input : input[i] = k

\* lwIP gets the frames in the order of the wire and none twice, however the
\* DMA laps the handler on the chain.
InOrder == \A i, j \in DOMAIN input : i < j => input[i] < input[j]

\* No frame vanishes or is torn by the next one: each is still in the chain, in
\* the handler, with lwIP, or found no room.
Accounted ==
  \A k \in 1..arrived : InChain(k) \/ p = k \/ Given(k) \/ k \in missed

\* The handler and the DMA agree on the chain: the descriptors between them
\* are the driver's, all others are the DMA's.
Between(d) == (d - get) % RxBufs < (dma - get) % RxBufs
ChainAgrees ==
  pc \notin {"copy", "release"} /\ dma # get =>
    \A d \in Descriptors : own[d] <=> ~Between(d)

\* However frames fall on the descriptors, lwIP never gets a piece of a long frame for a whole one.
NeverInPieces == pc = "copy" => ~own[cur] /\ part[cur] = "whole"

\* What lwIP gets is what came in: whole, in order, once, and with nothing lost
\* but for want of room.
InputSound == TypeOK /\ InOrder /\ Accounted /\ NeverInPieces

Quiet == pc = "idle" /\ ~nis

\* The handler is at a piece of a long frame.  ETH_GetRxPktSize gives 0 for it,
\* and nothing ever moves DMARxDescToGet past it.
Jammed == ~own[get] /\ part[get] # "whole"

\* A frame is left in the chain only if it came while the handler was clearing
\* the interrupt, or if reception has ended with a long frame.
StrandedOnlyIfLate ==
  Quiet /\ ~Jammed => \A k \in 1..arrived : InChain(k) => k \in late

\* A frame that did not come in that moment is taken, and with it every frame
\* that was left in the chain before it; only a long frame stops the handler.
NextFrameTakesAll ==
  \A k, j \in 1..MaxFrames :
    k <= j /\ InChain(k) /\ InChain(j) /\ j \notin late
      ~> ~InChain(k) \/ Jammed
=============================================================================
