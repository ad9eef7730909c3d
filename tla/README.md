# Stm32TcpServer: TLA+ models, checks and proofs

The program is the firmware of an STM32F107 board: a TCP server on lwIP with no
operating system. It listens on port 5000, echoes what a client sends, copies it
to the serial port COM2, and sends what comes in on COM2 to the client. There is
one main loop and there are five interrupt handlers; lwIP runs in both, without
any lock. What is hard to get right here is what one context does between two
statements of the other, and what the DMA channels and the network do meanwhile.
That is what the modules in this directory model.

## 1. The system

| Component | State | Operations | Meets the others through |
|---|---|---|---|
| COM2 transmitter (`usart/UartCom2.c`) | DMA buffer, send flag, send length, DMA1 channel 7 | `SendCom2Data` (also through `printf2`, `SendUartData`), `DMA1_Channel7_IRQHandler` | called by the main loop and by the Ethernet interrupt |
| COM2 receiver (`usart/UartCom2.c`) | DMA buffer, read flag, DMA1 channel 6, USART2 | `ReadCom2Data`, `USART2_IRQHandler`, `DMA1_Channel6_IRQHandler` | polled by the main loop |
| Main loop (`main.c`) | an uninitialised buffer of 500 bytes | forwards COM2 data to the client | calls all of the above |
| Boot and priorities (`main.c`, `misc.c`, the `Init...Nvic` functions) | NVIC priorities, `SCB->AIRCR` | the calls of `main()` | decides who interrupts whom |
| Timer 3, periodic events (`timer/Timer3.c`, `dp83848.c`) | three counters, three flags | `TIM3_IRQHandler`, `HandleLwipPeriodicEvent` | flags; calls `tcp_tmr`, `etharp_tmr`, `CheckForConnection` |
| Ethernet reception (`dp83848.c`, `ethernetif.c`) | descriptor chain, `DMARxDescToGet`, DMA status | `ETH_IRQHandler`, `ethernetif_input` | gives frames to lwIP inside the interrupt |
| Ethernet transmission (`ethernetif.c`) | descriptor chain, `DMATxDescToSet` | `low_level_output` | called by lwIP from both contexts |
| TCP server (`tcp/tcpserver.c`) | `connectFlag`, `tcp_client_pcb` | accept, receive, send, the check every 20 s, `CloseTcp` | callbacks in the Ethernet interrupt; the check and the sending in the main loop |
| lwIP connection blocks and timers (`core/tcp.c`, `tcp_in.c`, `memp.c`) | `tcp_active_pcbs`, the pool, `tcp_timer_ctr` | passive open, removal, `tcp_fasttmr`, `tcp_slowtmr` | timers in the main loop, all else in the Ethernet interrupt |
| lwIP TCP output and input (`core/tcp_out.c`, `tcp_in.c`) | the queues, windows, counters and flags of a `tcp_pcb` | `tcp_write`, `tcp_output`, `tcp_receive`, retransmission, persist and acknowledgement timers | `tcp_write` and the timers in the main loop, `tcp_input` in the interrupt; the network |
| lwIP ARP, IP, ICMP, memory | ARP table, reassembly list, heap, pools | | below TCP |
| Network configuration (`dp83848.c`) | addresses, ports | getters; the setters have no caller | read at boot and by the server |

Correct means: the serial driver and the Ethernet driver lose, repeat and reorder
nothing they have accepted; the handlers see each other's state only where it is
consistent; no expiry of the timer is forgotten and its walks end; the server keeps
the connection that is there, notices when it has gone, and touches no connection that
was freed; and both directions of a connection are a stream of bytes, each once and
in order, that keeps moving whatever the network does.

`PROJECT.json` lists all components, the ones left out too, and every hazard with
the line where it bites and the properties that watch it.

## 2. Modules

| Module | Models | Extends / composes |
|---|---|---|
| `SerialChannel` | abstract: a bounded byte queue in front of a line | |
| `UartTx` | `SendCom2Data`, channel 7 and its handler | implements `SerialChannel` (`Line == INSTANCE ... WITH Capacity <- SendBuf`) |
| `UartTxProof` | proofs about `UartTx` | extends it |
| `UartRx` | `ReadCom2Data`, channel 6, USART2 and the two handlers | |
| `Forward` | the loop of `main()`: its buffer, `strlen`, what goes to the client | extends `UartRx`: the receiver and its reader composed |
| `ForwardProof` | proofs about `UartRx` and `Forward` | extends `Forward` |
| `NvicEncoding` | `NVIC_Init`'s arithmetic | |
| `Nvic` | the boot sequence, requests, preemption, return | extends `NvicEncoding` |
| `PeriodicEvents` | timer handler, counters and flags, the polling | |
| `EthRx` | the receive chain, the interrupt handler, the controller's DMA | |
| `EthRxProof` | proofs about `EthRx` | extends it |
| `EthTx` | `low_level_output`, the transmit chain, the controller's DMA | |
| `EthTxProof` | proofs about `EthTx` with one sender | extends it |
| `TcpServer` | `tcpserver.c` on lwIP's pcbs, pool and active list | |
| `TcpServerProof` | proofs about `TcpServer` | extends it |
| `TcpTimers` | the walks of `tcp_fasttmr` and `tcp_slowtmr` and `memp_free`, against `tcp_input` | |
| `MainProof` | proofs about `Nvic`, `PeriodicEvents` and `TcpTimers` | extends the three, so no name is in two of them (`NvicSpec`, `TimersSpec`) |
| `ByteStream` | abstract: what one end writes the other gets | |
| `TcpSend` | `tcp_write`, `tcp_output`, acknowledgements, retransmission and probes | implements `ByteStream` (`Stream == INSTANCE ... WITH ...`) |
| `TcpSendProof` | proofs about `TcpSend` | extends it |
| `TcpReceive` | `tcp_receive`, the receive callback, delayed acknowledgements, the window | |
| `TcpReceiveProof` | proofs about `TcpReceive` | extends it |
| `MC...` | values for the constants in TLC's runs | each extends its module |

How state and actions correspond to the code:

- **Grain.** A function that can be interrupted is cut into one action per statement
  that another context can observe, with a program counter `pc`. A handler that
  nothing relevant can interrupt is one action. `Nvic` is where this is checked
  (`StackSound`, `EthYieldsToDrivers`): the timer and COM2 handlers are
  innermost, the Ethernet handler preempts the main loop and yields to them.
- **Preemption.** In `UartTx` and `EthTx` the operator `Runs(c)` lets a context go
  on only when no context above it is in the middle of something. In the four TCP
  modules the whole of `tcp_input` is one action, because nothing below it interrupts
  it and nothing above it looks at its state; it comes between any two statements of
  the main loop.
- **One state, several modules.** Each TCP module takes the part of a `tcp_pcb` it is
  about and leaves the rest to nondeterminism. `TcpServer` has the life of connections
  and lets one time out at any moment; `TcpTimers` has the linked lists, link by link,
  and knows of a connection only that it is in them; `TcpSend` has the sending half of
  one connection, `TcpReceive` the receiving half, with the echo as two flags.
- **Functions of a pcb.** Where several parts of the code change a pcb one after the
  other (`tcp_receive`, the callback, `tcp_output`), each is an operator from a pcb to
  a pcb, or to the set of its outcomes, and the action composes them in the code's order.
- **Data.** A byte, a frame or a packet is the number of its place in the order of
  arrival. Order, loss and duplication are then statements about numbers. In
  `TcpTimers` the eight-bit tick counters are only compared with each other, so `seen`
  is the set of the pcbs for which they are equal.
- **History variables** (never read by a guard): `accepted`, `wire` (UartTx);
  `exposed`, `delivered` (UartRx); `messages` (Forward); `owed`, `merged`, `lag`,
  `slow` (PeriodicEvents); `missed`, `late`, `input` (EthRx); `ok`, `full`, `wire`
  (EthTx); `steady`, `moved`, `refused` (TcpServer); `unvisited`, `upset` (TcpTimers, whose
  run bounds the size of `upset`); `stale` (TcpSend); `acked`, `forgot`, `app`
  (TcpReceive).
- **Where a behaviour ends.** After the first use of a pointer to memory that was given
  back nothing is known of the program. `misuse` (TcpServer), `torn` (TcpSend) and
  `ListsInOrder` (TcpTimers) stop the behaviour there; what happens up to that point is
  what is checked.
- **Hardware and network** (DMA, USART, the Cortex-M3, the Ethernet controller, the
  client's TCP) are modelled from how the drivers program them and what the protocol
  lets them do, and marked external in the map.
- A definition named `Faulty_X` is `X` with one mistake in it. No specification
  uses it; it shows that some property would notice the mistake.

## 3. Runs

| Run | Instance | What it shows |
|---|---|---|
| `UartTx_serial` | main loop only, buffer 3, messages of 0..4 bytes, 4 calls | the driver is a lossless FIFO that cuts off what does not fit (`ChannelInBounds`, `RefinesSerialChannel`); every accepted byte goes out (`Delivered`), none is left without the flag (`FlagMeansDone`, `NothingStranded`) |
| `Forward_loop` | buffer 2, 4 bytes on the line, one of them perhaps 0, one byte behind the buffer | reads are in order and without repeats (`DeliveredInOrder`); bytes are lost only during a read or with the buffer full (`LossOnlyInWindow`); none is left unannounced (`BufferedIsRead`); each read goes to the client up to its first 0, and what follows it is old (`ReadIsForwarded`, `BehindIsOld`) |
| `Nvic_boot` | the program's calls | the driver handlers are innermost, booting included (`StackSound`); the Ethernet handler yields to them; `NVIC_Init` ranks exactly as asked once a grouping is selected, and highest of all before (`EncodingExact`) |
| `PeriodicEvents_timer` | periods 5, 6, 8 interrupts, rounds of 2 | nothing forgotten, everything served; with short rounds nothing merged |
| `EthRx_chain` | 3 descriptors, 5 frames, long ones among them | order, completeness and wholeness of what lwIP gets (`InputSound`); driver and DMA agree on the chain; when a frame can be stranded, and that the next one takes it along |
| `EthTx_chain` | one context, 3 descriptors, 6 packets | order and wholeness on the wire; the exact cost of a full chain; every packet given to the DMA goes out |
| `EthTx_reentered` (violation) | both contexts, 3 descriptors, 3 packets | an interrupted call loses a packet that was reported as sent |
| `TcpServer_clients` | 3 clients (2 from the server port), 2 pcbs | the pool is sound, every connection gets a pcb, the flag covers the client and settles, a check keeps a connection nobody moved |
| `TcpTimers_walk` | 3 pcbs, one disturbance in each walk | six disturbances of a walk may break the lists and nothing else does (`ListsKept`); no pcb is passed by (`NobodySkipped`); when a walk ends (`WalksEnd`) |
| `TcpTimers_hang` (violation) | 2 pcbs, one disturbance | one segment at the wrong moment and `tcp_fasttmr` spins for ever |
| `TcpSend_stream` | segments of 2 bytes, send buffer 5, queue 3, window 4, 5 bytes in writes of 1 to 4, 2 faults | the client gets a prefix of what was written (`RefinesByteStream`); queues and counts agree (`QueuesSound`); a timer runs for what is outstanding (`TimersSound`); everything arrives but for the stall of section 5 (`Delivered`) |
| `TcpReceive_stream` | segments of up to 3 bytes, window 6, first pbuf 2, length range 2, 2 segments on their way, 1 fault | each byte is handed up once (`HandedUp`); an acknowledgement is forgotten only in three cases (`NoAckForgotten`); the window stays open (`WindowOpen`); all is acknowledged in the end (`Answered`) |

**Bounds.** Three descriptors and five frames make the DMA lap the handler and meet
it from both sides (the code has 5 + 5). A COM2 buffer of three bytes with messages of
up to four covers "fits", "fits behind what is left", "cut off" and "empty"; four calls
fill and drain it repeatedly. The timer's periods keep the code's order and are
pairwise different, and their hyperperiod covers every phase of the polling. Two pcbs
and three clients reach "pool empty", the kill by priority and the re-use of a
freed pcb (the code has 10); three pcbs in `TcpTimers` give a walk one before it, one at
hand and one ahead. In `TcpSend` the writes are chosen so that data goes into the last
segment's pbuf, into a further pbuf behind it, or into segments of its own; two faults
are what it takes to reach a retransmission by timer and by duplicate acknowledgements,
an acknowledgement of what waits to be sent again, the give-up after `MaxRtx`, and
a lost window update. In `TcpReceive` a segment may be longer than the first pbuf and
than the eight-bit length, fit exactly, or be trimmed to either, and one fault already
brings overlapping segments and an acknowledgement lost to any of the main loop's
statements; that the properties hold for every number of them is proved. Bounds on
inputs (`MaxCalls`, `MaxBytes`, `MaxFrames`, `MaxPackets`, `Total`, `InFlight`,
`MaxFaults`, `MaxUpsets`) are guards of the environment's actions and nothing else;
where they let a system come to rest, the cfg says `CHECK_DEADLOCK FALSE`.

**Fairness.** Pending interrupts are taken, a call that has begun runs on, the main loop
runs on, the DMA serves a channel that is enabled: weak fairness on each. Strong
fairness is needed in two places. Channel 7 (`SF(DmaTransfer)`): callers switch the
channel off and on, but the USART keeps its request up and the time between two calls is
long compared to a bus cycle. The check of `TcpServer` (`SF(Started)`): it is disabled
while the main loop sends, and comes round again because the timer raises its flag
(`Served` in `PeriodicEvents`). Of the network it is assumed in `TcpSend` and
`TcpReceive` that what is not lost arrives, and of the client that it reads
(`TcpSend`) and repeats what is not acknowledged (`TcpReceive`); faults are bounded in
number, so something is not lost in the end. `TcpReceive` needs no fairness of the main
loop: an acknowledgement it forgets is given when the client repeats its segment.
Nothing is assumed of the serial line or of frames, except that a line that has stopped
is noticed to be idle.

## 4. Proofs

All proofs are for arbitrary constants under the named assumptions of the modules
(`SizeAssumption`, `CallersAssumption`, `PeriodAssumption`, `LagAssumption`,
`TimersAssumption`, `BehindAssumption`, `RxAssumption`, `TxAssumption`, `ReceiveAssumption`,
`TcpAssumption`, `SendAssumption`).

- `UartTxProof!BufferBounds`: `Spec => [](TypeOK /\ ChannelInBounds)`, for both
  callers and their interleavings, any buffer size up to 255 and any length. The
  inductive invariant `BoundsInv` says that the two values a caller carries from
  one statement to the next (the bytes left and the length) together never exceed the
  buffer, whatever the other caller does in between: the sum is bounded locally, and
  that is why the channel stays in bounds although its contents may be wrong.
- `UartTxProof!Fifo`, `NeverStranded`: with one caller, `InOrder`, `FlagMeansDone` and
  `NothingStranded`. `FifoInv` relates the buffer, the channel and the line at
  every statement: which accepted bytes the buffer holds and at which offset.
  None of the three properties is inductive alone, since between the stop and the
  restart the bytes are known only through the caller's locals.
- `UartTxProof!Refinement`: with one caller `Spec => Line!Spec`. `AppendMessage`
  maps to `Accept`, `DmaTransfer` of an accepted byte to `Emit`, all else to a stutter.
- `ForwardProof!ReadsInOrder`: `DeliveredInOrder` and `LossOnlyInWindow` for any buffer
  size. `RxInv` adds where the bytes are: those in the buffer stand in their
  order, the one in the data register is behind them, and what reads have returned is
  before both but for the moment between the copy and the reload, when the buffer still
  holds what was just returned (`OrderInv`); and a byte that came in behind the count of
  a read is known to be exposed (`ExposedInv`), which is what makes the loss at the
  reload one that the property allows.
- `ForwardProof!LoopReads`, `LoopReadsInOrder`: every step of the main loop is a step of
  the receiver or leaves it alone, so what is proved of the receiver holds of the
  composition.
- `ForwardProof!ReadsAreForwarded`, `RestIsOld`: `ReadIsForwarded` and `BehindIsOld` for any
  sizes. `LoopInv` says what each byte of the buffer of `main` is: the front is the read
  at hand (`ReadInv`), and each byte behind it is junk, 0 or the byte that the
  last read which reached that far has put there (`OldInv`); the 0 behind the longest read
  is never overwritten, so `strlen` stops in the buffer (`StrlenStops`, from the fact that a
  set of numbers has a smallest one, `Least`). A message records how much was read before
  its own read (`from`), and `Follows` says that those are the reads of the messages
  before it.
- `MainProof!NothingForgotten`: `TypeOK` and `NoneForgotten` for any
  periods and any delay of the main loop.
- `MainProof!ServedOnce`: `NothingMerged`. It rests on `FlagAge`: while a
  flag is up the counter of its event is the age of the flag, which the length of a
  round bounds.
- `MainProof!ListsAreKept`, `NobodyIsSkipped`: `ListsKept` and `NobodySkipped` for any
  number of pcbs and of disturbances. `WalkInv` says where the walk stands, which the
  properties do not. `StandInv`: what it has still to visit is in the list from the pcb it
  stands at on, as long as no segment took that pcb; this is claimed even after a stale
  `prev` was written, if only the lists came out in order (`UnlinkTakesOne`: then `prev` was
  the one before after all). `SoundInv`: left alone, `prev` is the one before and nothing
  ahead has been visited. A linked list is reasoned about by numbers that its entries are
  sorted by (`Sorted`): taking an entry out leaves the numbers of the others (`TakenOut`),
  one that comes to the front gets a smaller number (`InFront`), and what follows an entry
  are those with higher ones (`TailIs`). `SortedByPlace` and `SortedIs` lead from the links
  to the numbers and back; that a list has an end within `NumPcb` steps is a pigeonhole. What
  each kind of segment does to the walk is one relation (`Disturbs`), and every statement
  of the walks is then shown to keep the invariant against it.
- `EthTxProof!ChainKept`, `InOrderAndWhole`, `OkIsSent`: `ChainSound`, `WireInOrder` and
  `OkMeansSent` with one context that sends, for any number of descriptors and packets
  (with two contexts the third is false: `EthTx_reentered`). `TxInv` describes the chain
  from the DMA on: the descriptors it owns are the nearest `Count` ones, up to the
  driver's (`RingInv`; the driver's and the DMA's being equal means none or all, and
  the ownership of that descriptor tells which); their lengths are in the order of
  the calls and behind what is on the wire (`OrderInv`); and `CallInv` says what a call
  knows between its statements. That a copy comes before the check is why a full
  chain spoils a packet, and why `data` and `length` are kept apart. The lemmas
  `NextDescIs`, `DistanceIsPos`, `PosMoves` and `PosIs` turn the arithmetic modulo
  `TxBufs` into positions.
- `EthRxProof!InputIsSound`, `ChainIsKept`, `LeftOnlyIfLate`: `InputSound`, `ChainAgrees` and
  `StrandedOnlyIfLate` for any number of descriptors and frames. `RxInv` describes the chain
  from `Base` on, the descriptor that the handler gives back next (`RingInv`); the frames
  in it are in order and behind all that was taken, only the two pieces of a long
  frame being one frame (`OrderInv`); `HandlerInv` says that the handler, once it has found
  a frame, still has it whatever the DMA does; and `LateInv` that from the handler's
  last look at the chain on all that is in it came after that look, or is behind a piece of
  a long frame.
- `TcpReceiveProof!BytesOnce`, `AckRemembered`, `StaysOpen`: `HandedUp`,
  `NoAckForgotten` and `WindowOpen` for any sizes, any number of segments and faults.
  `ReceiveInv` has two parts that the properties do not show. `EdgeInv`: the right edge
  that was announced is never beyond the window, although the main loop computes it from
  two reads with segments between them, because what it has read is older than the
  pcb and `rcv_nxt` only grows. `DueInv`: at each statement from which the main loop
  goes on to clear the flags, the acknowledgement of all that was received has been sent,
  or is in the header, or one of the three reasons is on record. The lemmas follow the
  operators: what `tcp_output` may do to a pcb (`OutputResult`), what taking
  data does (`InSequenceResult`), and both together (`ResultsOfInput`).
- `MainProof!DriversAreAtomic`, `RanksAreExact`, `EthYields`: `StackSound`, `EncodingExact` and
  `EthYieldsToDrivers`. `Nvic` has no constants and its run is exhaustive; the proof adds
  why. `NvicInv`: as long as the driver interrupts are set up the grouping is the reset
  one, so their bytes are 0, and 0 is the highest level in every grouping; the Ethernet
  interrupt is enabled last and has level 2. A handler interrupts only a lower level, so
  none interrupts a driver. `EveryRowExact` is about all five groupings of `misc.h:78-99`, of
  which the run reaches one.
- `TcpServerProof!PoolIsSound`, `AllAdmitted`, `FlagCovers`, `SteadyIsKept`: `PoolSound`,
  `Admitted`, `FlagCoversConnection` and `SteadyKept` for any clients, ports and number of
  pcbs. `ServerInv` says in `ListsInv` that no pcb is twice on a list or on both lists,
  with `PrioInv` that the accepted connections have a priority a new one may
  kill, and in `FlagInv` what the walk of `CheckForConnection` has done so far: with the
  flag down, every established connection to the server port that no segment has moved
  is at `cpcb` or behind it in the list. Segments change the list under the walk, so
  each operation has a lemma about what it does to the order of the others (`WithoutIs`,
  `InFrontIs`, `ToFrontIs`, `SuccessorIs`). `FlagInv` is not claimed once the walk
  stands on a freed pcb (`misuse = "walk"`), where the behaviour ends. That a pcb with the
  lowest priority is found when the pool is empty (`AllocatedIs`) takes the least
  element of a set of priorities, by well-founded induction.
- `TcpSendProof!QueuesAreSound`, `TimersAreSound`: `QueuesSound` and `TimersSound` for any
  segment length, buffers, window, number of retransmissions and faults. `SendInv` takes the
  two queues as one (`Queue(p)`, unacked before unsent): it runs without a gap
  from `lastack`, or from before it in the first segment, to `snd_lbb`, each segment with its
  own bytes (`QueueOk`), and what is in unacked ends by `snd_nxt` (`EndBy`). What moves
  segments between the two, a retransmission timeout or `tcp_output`, then leaves the one
  queue as it is. Only a fast retransmission disturbs it: it puts the head of unacked in
  front of unsent (`Moved`). The `tcp_output` at the end of the same `tcp_input` mends it
  (`OutputMoved`): the head is within the window, it goes out, and is put back where it
  was. `PlanInv` says what `tcp_write` has seen and what of it stays true while the
  interrupt sends and acknowledges: the last segment still has room for the bytes it is to
  get. `CountInv` counts the pbufs. `NetInv` is about the messages: data on its way holds
  the right bytes, and of two acknowledgements the higher has the further window edge, which
  is why a late one never takes a window back. For the timers, `Timed` is followed
  through the functions an acknowledgement goes through.
- `TcpSendProof!BytesInOrder`: `Spec => RefinesByteStream`. `StreamIs` takes from `SendInv`
  that what the client has stored are the first bytes of the stream and no more than
  `tcp_write` has accepted; `WriteCommit` maps to `Write`, `DeliverData` to `Receive` if it
  closes a gap, all else to a stutter. `torn`, the step at which `tcp_write` would work
  on a freed segment, is a stutter too and ends the behaviour.
  Two facts of this module are about recursion over a queue of any length: what `AllInserted`
  makes of segments in order, and that `Bufs` adds over two queues. They are proved by
  induction over the numbers (`Induction`, from the well-founded order of `Nat`, stated
  for a set so that no operator is a parameter), for the set of the lengths at which the
  fact holds.

Liveness (`Delivered`, `BufferedIsRead`, `Served`, `NextFrameTakesAll`, `Drained`,
`FlagSettles`, `WalksEnd`, `Answered`) depends on fairness and `ENABLED` and is
model-checked only. Every invariant and every action property that a passing run checks is
proved.
No module uses a RECURSIVE operator.

## 5. Where the code departs from what is said of it

Shown by a run (see `findings`):

- `EthTx_reentered`: `low_level_output` returns `ERR_OK` for a packet that a nested call
  overwrites (`ethernetif.c:131`).
- `TcpTimers_hang`: `tcp_fasttmr` "is called every 250 ms" (`tcp.c:1040`) until a segment
  moves the pcb it stands at, or a SYN comes just before it reads the head of the list:
  then it meets a pcb it has visited, for which its loop has no branch, and never returns.

Met while modelling, part of the models, and stated by a property as an exception or
ended by it:

- `UartTx`: with both callers a `SendCom2Data` that is interrupted by another loses
  accepted bytes; the comment at `UartCom2.c:24` has every caller use one buffer and one
  flag. `RefinesSerialChannel` holds for one caller only; `BufferBounds` holds for two.
- `Nvic`: the timer and COM2 interrupts do not have the levels their set-up asks for
  (`Timer3.c:132`): the grouping is selected after them, and until then `NVIC_Init`
  encodes everything as 0. The driver handlers owe their atomicity to this.
- `EthRx`: `ETH_IRQHandler` clears the interrupt after its last look at the chain, so a
  frame that comes in that moment waits for the next one (`StrandedOnlyIfLate`, `late`).
- `EthRx`: a frame longer than a buffer (1520 bytes, for instance a full one with a VLAN
  tag) jams reception for ever (`Jammed`).
- `EthTx`: with the chain full `low_level_output` returns `ERR_OK` for a packet it does
  not send and has overwritten one that waits (`OkMeansSent`, `full`).
- `TcpServer`: the walk of the check (`tcpserver.c:108`) passes by a connection that is
  moved to the front under it, and closes a live connection (`SteadyKept` excludes
  `moved`).
- `TcpServer`: when no connection is found, `CloseTcp` (`tcpserver.c:118`) aborts
  `tcp_client_pcb` though it is NULL or was freed long ago (`misuse = "abort"`);
  `connectFlag` and `tcp_client_pcb` outlive a connection that lwIP drops, and COM2 data
  is written to a freed pcb (`"write"`); `CloseTcp` uses the pcb after `tcp_abort`, when
  a SYN may have got it (`"detach"`); the walk may stand on a pcb that is freed under it
  (`"walk"`).
- `TcpServer`: a client from a port other than `getServerPort()` is closed by the next
  check; a client that closes its side stays in CLOSE_WAIT until a shortage of pcbs.
- `TcpTimers`: a walk is harmed when `tcp_input` moves or frees the pcb it stands at or
  the one before it, takes away the head of the list that the walk is about to replace,
  adds a pcb before the walk reads the head, restarts the walk, or takes from the pool
  between the two halves of `memp_free`.
- `TcpSend`: `tcp_write` builds on a tail and a queue length it has read; if the
  interrupt sends or frees that tail the queue length is outdated (`stale`) or the
  data is hung onto a freed segment (`torn`).
- `TcpSend`: with nothing outstanding and a window that is open but smaller than the next
  segment no timer runs (`tcp_in.c:881` starts the persist timer only for a window of 0);
  a lost window update then stops the stream for ever (`Stalled`).
- `TcpReceive`: the three cases of `NoAckForgotten`. `tcp_fasttmr` clears the flags once
  more after `tcp_output` (`tcp.c:1064`): it forgets a segment that came in after the header
  was built, and an acknowledgement that Nagle's algorithm or a lack of memory kept back.
- `TcpReceive`: what is behind the first pbuf of a segment reaches the program as other
  bytes (`HandedUp`: `longest <= FirstPbuf`), because `OnTcpReceiveData` reads
  `tot_len` bytes from one payload pointer; of 256 bytes none goes to COM2, of 300
  only 44, because the length has eight bits (`longest < ByteRange`).
- `Forward`: `main()` sends `strlen` bytes of a buffer that nobody terminates: a 0
  cuts a read off, and behind a short read goes what an earlier one left
  (`ReadIsForwarded`, `BehindIsOld`).

Seen, and no property about it: the echo goes to the client accepted last; `printf2`
ignores how many bytes `SendCom2Data` took; `main()` calls `tcp_write` and never
`tcp_output`, so data waits for the slow timer or for the client's next segment; nothing
calls `ip_reass_tmr`. The subnet mask is 192.168.0.1 and the gateway 255.255.255.0
(`dp83848.c:79`), exchanged: with this mask only
those hosts of 192.168.0.x are taken for neighbours whose address ends in an even number,
and packets to the others wait for an ARP answer from 255.255.255.0.

## 6. Not modelled, and why

- **lwIP ARP.** The table is aged in the main loop and used in the interrupt, as the lists of
  `TcpTimers` are. An entry holds one waiting packet; TCP recovers from its loss as
  from any other (`TcpSend`), so the models take it that packets reach
  `low_level_output` or are lost.
- **lwIP IP, ICMP, reassembly, netif.** Functions of a packet with next to no state. Nothing
  ages the reassembly list; its size is bounded by removing the oldest datagram.
- **Heap, pbufs and their reference counts.** Wherever memory is asked for, `ERR_MEM` is one
  of the outcomes. The free list of one pool is modelled (`TcpTimers`); the others are
  of the same code.
- **Within TCP**: congestion window and round-trip estimate (`TcpSend` takes any window
  from one segment on and lets timeouts come at any time), options, sequence numbers that
  wrap, urgent data, active opens, TIME_WAIT, and FIN together with data. The opening and
  closing of connections is in `TcpServer`, with no data.
- **Network configuration**: constants; see section 5 for what they mean.
- **LED and delay drivers, clock set-up, fault handlers**: no state another part reads.
- **The firmware libraries**: only the register accesses the drivers make, where they make
  them. **Unused lwIP parts** (DHCP, DNS, UDP, sequential API, SNMP, IPv6, PPP, slip): not
  called. They are most of the lines of the repository, together with register headers.
- **Within the drivers**: formatting, frame contents and checksums; framing errors of the
  serial line; a torn copy while the DMA reads the same buffer (the copy is one step;
  such a packet counts as spoilt already).

## 7. What is left

In the order of what it would add: both halves of a
connection in one module, so that acknowledgements ride on data with real sequence numbers,
and with FIN; the ARP table against its ageing; timer, check and server composed over the
real period flags.
