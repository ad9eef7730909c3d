----------------------------- MODULE TcpReceive -----------------------------
(***************************************************************************)
(* How lwIP and tcpserver.c receive what a client sends: tcp_receive, the  *)
(* callback OnTcpServerRecv and the acknowledgement (Ethernet interrupt),  *)
(* the delayed acknowledgements of tcp_fasttmr and the tcp_output of       *)
(* tcp_slowtmr (main loop), over a network that loses, doubles and         *)
(* reorders.                                                               *)
(*                                                                         *)
(* tcp_input is one action: nothing that runs in the main loop interrupts  *)
(* it.  An empty acknowledgement that the main loop builds is several, as  *)
(* tcp_input may run between any two of its statements.  Of the echo only  *)
(* is modelled what an acknowledgement depends on: whether data waits in   *)
(* unsent and in unacked.  Byte i of the client's stream has the value i;  *)
(* sequence numbers count from 0, do not wrap, and there is no FIN.  The   *)
(* client may always send: WindowOpen is about why.                        *)
(***************************************************************************)
EXTENDS Integers, Sequences, FiniteSets

CONSTANTS
  Mss,          \* the longest segment
  Wnd,          \* TCP_WND: 2 * TCP_MSS
  FirstPbuf,    \* data bytes that fit in the first pbuf of a segment
  ByteRange,    \* what an 8-bit length counts to: 256
  Total,        \* bound: bytes the client sends
  InFlight,     \* bound: segments on their way to the board
  MaxFaults     \* bound: messages lost or doubled, early resending, empty
                \* acknowledgements without memory

ASSUME ReceiveAssumption ==
  /\ {Mss, FirstPbuf, ByteRange} \subseteq Nat \ {0}
  /\ Wnd = 2 * Mss
  /\ Total \in 0..Wnd    \* so the window never limits the client
  /\ {InFlight, MaxFaults} \subseteq Nat

VARIABLES
  pcb,          \* the fields of the connection's tcp_pcb
  pc,           \* main loop: next statement of tcp_fasttmr or tcp_slowtmr
  timer,        \* "fast" or "slow", the timer it is in
  hdr,          \* main loop: what it has read for the header of an empty
                \* acknowledgement
  data,         \* the segments on their way to the board: [seq, len]
  acks,         \* the acknowledgements on their way to the client
  una, nxt,     \* the client: acknowledged, sent
  faults,
  app,          \* what OnTcpReceiveData has been handed: how many bytes, the
                \* longest segment, and whether all were as the client sent
                \* them, and all went on to SendCom2Data
  acked,        \* the highest acknowledgement sent
  forgot        \* why no flag asks for the acknowledgement that is due, or Null

main == <<pc, timer, hdr>>
net == <<data, acks>>
client == <<una, nxt>>
ghosts == <<acked, forgot>>
vars == <<pcb, main, net, client, faults, app, ghosts>>

Low(a, b) == IF a <= b THEN a ELSE b
High(a, b) == IF a >= b THEN a ELSE b

Null == ""
NoHeader == [ack |-> 0, nxt |-> 0, ann |-> 0]

Init ==
  /\ pcb = [rcv_nxt |-> 0, rcv_wnd |-> Wnd, ann_wnd |-> Wnd, right_edge |-> Wnd,
            delay |-> 0, now |-> 0, unsent |-> 0, unacked |-> 0]
  /\ pc = "idle" /\ timer = "fast" /\ hdr = NoHeader
  /\ data = {} /\ acks = {}
  /\ una = 0 /\ nxt = 0
  /\ faults = 0
  /\ app = [bytes |-> 0, longest |-> 0, right |-> 1, com2 |-> 1]
  /\ acked = 0 /\ forgot = Null

-----------------------------------------------------------------------------
(* Acknowledgements.  A result is [pcb, out, bad]: the pcb, the            *)
(* acknowledgements sent, and the times there was no memory for one.       *)
(*                                                                         *)
(* A definition named Faulty_X is X with one mistake in it; no             *)
(* specification uses it, it is there to see which property X answers for. *)

Unchanged(p) == [pcb |-> p, out |-> {}, bad |-> 0]

\* tcp_update_rcv_ann_wnd.
Faulty_Announce(p) ==
  LET right == p.rcv_nxt + p.rcv_wnd
  IN [p EXCEPT !.ann_wnd =
        IF right >= p.right_edge + Wnd THEN p.rcv_wnd
        ELSE High(p.right_edge - p.rcv_nxt, 0)]

Inflation(p) ==
  LET right == p.rcv_nxt + p.rcv_wnd
  IN IF right >= p.right_edge + Low(Wnd \div 2, Mss) THEN right - p.right_edge ELSE 0

Announce(p) ==
  [p EXCEPT !.ann_wnd =
     IF p.rcv_nxt + p.rcv_wnd >= p.right_edge + Low(Wnd \div 2, Mss) THEN p.rcv_wnd
     ELSE High(p.right_edge - p.rcv_nxt, 0)]

\* A header with these is built and sent; the flags ask for no other one.
Acknowledged(p) ==
  [pcb |-> [p EXCEPT !.right_edge = p.rcv_nxt + p.ann_wnd, !.delay = 0, !.now = 0],
   out |-> {p.rcv_nxt},
   bad |-> 0]

\* tcp_send_empty_ack.
EmptyAck(p) == {Acknowledged(p), [Unchanged(p) EXCEPT !.bad = 1]}

\* tcp_output with the echo in unsent: it goes out and carries the
\* acknowledgement, or waits for the window or by Nagle's algorithm.
Piggybacked(p) == {Acknowledged([p EXCEPT !.unsent = 0, !.unacked = 1])}
FitsNot(p) == IF p.now = 1 THEN EmptyAck(p) ELSE {Unchanged(p)}
Nagle(p) == IF p.unacked = 1 THEN {Unchanged(p)} ELSE {}

tcp_output(p) ==
  IF p.unsent = 0 THEN FitsNot(p) ELSE FitsNot(p) \cup Piggybacked(p) \cup Nagle(p)

\* Results of tcp_output after a result.
Then(r) ==
  {[pcb |-> s.pcb, out |-> r.out \cup s.out, bad |-> r.bad + s.bad] :
     s \in tcp_output(r.pcb)}

-----------------------------------------------------------------------------
(* tcp_input, in the Ethernet interrupt.                                   *)

\* tcp_ack: every other segment is acknowledged at once.
Faulty_Ack(p) ==
  IF p.delay = 1 THEN [p EXCEPT !.delay = 0] ELSE [p EXCEPT !.delay = 1]

Ack(p) ==
  IF p.delay = 1 THEN [p EXCEPT !.delay = 0, !.now = 1] ELSE [p EXCEPT !.delay = 1]

\* How much of a segment is behind rcv_nxt and within the window.
Accepted(p, seg) ==
  IF seg.seq <= p.rcv_nxt
    THEN Low(High(seg.seq + seg.len - p.rcv_nxt, 0), p.rcv_wnd) ELSE 0

\* tcp_receive for the next data in sequence.
Taken(p, n) ==
  {Ack(q) : q \in {Announce([p EXCEPT !.rcv_nxt = @ + n, !.rcv_wnd = @ - n])}}

\* The callback: tcp_recved, and the echo, if tcp_write takes it and the
\* connection is the one accepted last.  Its tcp_output does nothing in here.
Recved(p, n) ==
  LET q == [p EXCEPT !.rcv_wnd = Low(@ + n, Wnd)]
  IN [Announce(q) EXCEPT !.now = IF Inflation(q) >= Wnd \div 4 THEN 1 ELSE @]

OnTcpServerRecv(p, n) ==
  {[q EXCEPT !.unsent = High(@, echo)] : q \in {Recved(p, n)}, echo \in {0, 1}}

InSequence(p, n) ==
  {Unchanged(r) : r \in UNION {OnTcpServerRecv(q, n) : q \in Taken(p, n)}}

\* Nothing is sent for what has been received before.
Faulty_Results(p, seg) ==
  IF Accepted(p, seg) > 0
    THEN UNION {Then(r) : r \in InSequence(p, Accepted(p, seg))}
    ELSE tcp_output(p)

\* In sequence; a duplicate or a segment out of sequence is only acknowledged.
Results(p, seg) ==
  IF Accepted(p, seg) > 0
    THEN UNION {Then(r) : r \in InSequence(p, Accepted(p, seg))}
    ELSE UNION {Then(r) :
                  r \in EmptyAck([p EXCEPT !.now = IF seg.seq < p.rcv_nxt THEN 1 ELSE @])}

\* What the callback reads from the payload pointer on.  tcp_receive moves the
\* pointer past old bytes only within the first pbuf, and what is behind it is not
\* the next pbuf: the bytes are old ones or other memory.
Junk == 0

\* The trim does not move the pointer.
Faulty_Payload(p, seg) ==
  [k \in 1..Accepted(p, seg) |-> IF k <= FirstPbuf THEN seg.seq + k ELSE Junk]

Payload(p, seg) ==
  LET old == p.rcv_nxt - seg.seq
  IN [k \in 1..Accepted(p, seg) |->
        IF old + k <= FirstPbuf THEN p.rcv_nxt + k ELSE Junk]

\* OnTcpReceiveData; the length of SendUartData has 8 bits.
Hand(p, seg) ==
  \E bytes \in {Payload(p, seg)} :
    app' = [bytes |-> app.bytes + Len(bytes),
            longest |-> IF bytes = << >> THEN app.longest ELSE High(app.longest, seg.len),
            right |-> IF \A k \in 1..Len(bytes) : bytes[k] = app.bytes + k
                        THEN app.right ELSE 0,
            com2 |-> IF Len(bytes) < ByteRange THEN app.com2 ELSE 0]

\* The main loop is about to clear the flags.
InHeader ==
  \/ pc \in {"read", "store", "send", "clear"}
  \/ pc = "output" /\ timer = "fast"

\* What result r says of the acknowledgement that is due.
Recorded(r) ==
  IF r.out # {}
    THEN acked' = r.pcb.rcv_nxt /\ forgot' = Null
    ELSE /\ acked' = acked
         /\ forgot' = IF r.pcb.rcv_nxt # pcb.rcv_nxt /\ InHeader
                        THEN "raced" ELSE forgot

Becomes(r) ==
  /\ pcb' = r.pcb
  /\ acks' = acks \cup {ack \in r.out : ack > una}
  /\ Recorded(r)

\* A segment of data.  It may come once more.
Segment ==
  /\ UNCHANGED <<main, client>>
  /\ \E seg \in data, again \in 0..Low(1, MaxFaults - faults) :
       /\ data' = IF again = 1 THEN data ELSE data \ {seg}
       /\ Hand(pcb, seg)
       /\ \E r \in Results(pcb, seg) :
            Becomes(r) /\ faults' = faults + r.bad + again

\* The acknowledgement of the echo, with or ahead of a segment.
EchoAcked ==
  /\ pcb.unacked = 1
  /\ \E r \in tcp_output([pcb EXCEPT !.unacked = 0]) :
       Becomes(r) /\ faults' = faults + r.bad
  /\ UNCHANGED <<main, data, client, app>>

-----------------------------------------------------------------------------
(* The main loop.                                                          *)

At(at, to) == pc = at /\ pc' = to
Elsewhere == UNCHANGED <<data, client, app>>

FastStart ==
  /\ At("idle", "now")
  /\ pcb.delay = 1
  /\ timer' = "fast"
  /\ UNCHANGED <<pcb, hdr, acks, faults, ghosts>> /\ Elsewhere

FastNow ==
  /\ At("now", "output")
  /\ pcb' = [pcb EXCEPT !.now = 1]
  /\ UNCHANGED <<timer, hdr, acks, faults, ghosts>> /\ Elsewhere

\* tcp_slowtmr calls tcp_output for every connection; here only if there is need.
SlowStart ==
  /\ At("idle", "output")
  /\ pcb.now = 1 \/ pcb.unsent = 1
  /\ timer' = "slow"
  /\ UNCHANGED <<pcb, hdr, acks, faults, ghosts>> /\ Elsewhere

\* tcp_fasttmr will clear the flags all the same.
Forgotten(why) == IF timer = "fast" /\ acked < pcb.rcv_nxt THEN why ELSE forgot

After == IF timer = "fast" THEN "clear" ELSE "idle"

\* tcp_output sends nothing: there is no need, or Nagle's algorithm keeps the
\* echo back, or there is no memory for a header.
OutputNothing ==
  /\ At("output", After)
  /\ \/ pcb.now = 0 /\ UNCHANGED <<faults, forgot>>
     \/ Nagle(pcb) # {} /\ pcb.unsent = 1
        /\ forgot' = Forgotten("nagle") /\ UNCHANGED faults
     \/ pcb.now = 1
        /\ forgot' = Forgotten("memory") /\ faults' = faults + 1
  /\ timer' = "fast"
  /\ UNCHANGED <<pcb, hdr, acks, acked>> /\ Elsewhere

OutputEcho ==
  /\ At("output", After)
  /\ pcb.unsent = 1
  /\ \E r \in Piggybacked(pcb) : Becomes(r)
  /\ timer' = "fast"
  /\ UNCHANGED <<hdr, faults>> /\ Elsewhere

\* tcp_send_empty_ack: the header, statement by statement.
HeaderAck ==
  /\ At("output", "read")
  /\ pcb.now = 1
  /\ hdr' = [hdr EXCEPT !.ack = pcb.rcv_nxt]
  /\ UNCHANGED <<pcb, timer, acks, faults, ghosts>> /\ Elsewhere

\* rcv_ann_right_edge = rcv_nxt + rcv_ann_wnd: two reads, in either order.
HeaderRead ==
  /\ At("read", "store")
  /\ hdr' = [hdr EXCEPT !.nxt = pcb.rcv_nxt, !.ann = pcb.ann_wnd]
  /\ UNCHANGED <<pcb, timer, acks, faults, ghosts>> /\ Elsewhere

HeaderStore ==
  /\ At("store", "send")
  /\ \E edgeRead \in {hdr.nxt + pcb.ann_wnd, pcb.rcv_nxt + hdr.ann} :
       pcb' = [pcb EXCEPT !.right_edge = edgeRead]
  /\ hdr' = [NoHeader EXCEPT !.ack = hdr.ack]
  /\ UNCHANGED <<timer, acks, faults, ghosts>> /\ Elsewhere

\* The flags are cleared and the acknowledgement is sent.
HeaderSend ==
  /\ At("send", After)
  /\ pcb' = [pcb EXCEPT !.delay = 0, !.now = 0]
  /\ acks' = acks \cup {ack \in {hdr.ack} : ack > una}
  /\ acked' = High(acked, hdr.ack)
  /\ forgot' = IF hdr.ack = pcb.rcv_nxt THEN Null ELSE forgot
  /\ hdr' = NoHeader /\ timer' = "fast"
  /\ UNCHANGED faults /\ Elsewhere

\* tcp_fasttmr clears them once more, whatever became of tcp_output.
FastClear ==
  /\ At("clear", "idle")
  /\ pcb' = [pcb EXCEPT !.delay = 0, !.now = 0]
  /\ UNCHANGED <<timer, hdr, acks, faults, ghosts>> /\ Elsewhere

tcp_send_empty_ack == HeaderAck \/ HeaderRead \/ HeaderStore \/ HeaderSend
tcp_fasttmr == FastStart \/ FastNow \/ FastClear
tcp_slowtmr == SlowStart
MainLoop == tcp_fasttmr \/ tcp_slowtmr \/ OutputNothing \/ OutputEcho \/ tcp_send_empty_ack

-----------------------------------------------------------------------------
(* The client and the network.                                             *)

Board == UNCHANGED <<pcb, main, app, ghosts>>

Send ==
  /\ Board
  /\ Cardinality(data) < InFlight
  /\ \E len \in 1..Low(Mss, Total - nxt) :
       /\ data' = data \cup {[seq |-> nxt, len |-> len]}
       /\ nxt' = nxt + len
  /\ UNCHANGED <<acks, una, faults>>

\* What was not acknowledged in time is sent again, cut up anew.
Resend ==
  /\ Board
  /\ \E len \in 1..Low(Mss, nxt - una) :
       data' = data \cup {[seq |-> una, len |-> len]}
  /\ faults' = IF data = {} /\ acks = {} THEN faults ELSE faults + 1
  /\ UNCHANGED <<acks, client>>

\* Those that are behind it and come later say nothing new.
AckArrives ==
  /\ Board
  /\ \E ack \in acks :
       /\ una' = High(una, ack)
       /\ acks' = {a \in acks : a > ack}
  /\ UNCHANGED <<data, nxt, faults>>

Lose ==
  /\ Board
  /\ \/ \E seg \in data : data' = data \ {seg} /\ UNCHANGED acks
     \/ \E ack \in acks : acks' = acks \ {ack} /\ UNCHANGED data
  /\ faults' = faults + 1
  /\ UNCHANGED client

-----------------------------------------------------------------------------
Within(A) == A /\ faults' <= MaxFaults

Next ==
  /\ \/ Segment \/ EchoAcked
     \/ MainLoop
     \/ Send \/ Resend \/ AckArrives \/ Lose
  /\ faults' <= MaxFaults

Spec == Init /\ [][Next]_vars

\* The main loop runs on, what is not lost arrives, and the client repeats what
\* is not acknowledged.
FairSpec ==
  /\ Spec
  /\ WF_vars(Within(Segment)) /\ WF_vars(Within(AckArrives))
  /\ WF_vars(Within(Resend))

-----------------------------------------------------------------------------
\* Each byte the client sends is handed to the program once.  As long as no
\* segment is longer than the first pbuf it is the right one, however segments
\* are lost, doubled, reordered, cut up anew and trimmed; and as long as none has
\* 256 bytes or more COM2 gets what the program got.
HandedUp ==
  /\ app.bytes = pcb.rcv_nxt
  /\ app.longest <= FirstPbuf => app.right = 1
  /\ app.longest < ByteRange => app.com2 = 1

\* While bytes are not acknowledged a flag asks for it, whatever comes in between
\* the statements of the main loop, but for three cases: they came between the
\* header and the last clearing of the flags, or tcp_fasttmr cleared them although
\* Nagle's algorithm or a lack of memory had kept the acknowledgement back.
NoAckForgotten ==
  acked < pcb.rcv_nxt /\ pcb.delay = 0 /\ pcb.now = 0 => forgot # Null

\* The window announced never falls to one segment, so that no client waits for
\* it to open: whatever the sizes of the segments, and though the main loop may
\* store a right edge of two moments.
WindowOpen == pcb.rcv_wnd = Wnd /\ pcb.ann_wnd \in Wnd - Mss + 1..Wnd

\* All that the client sends is acknowledged, also when the board has forgotten
\* to: what the client then repeats is answered at once.
Answered == []<>(una = nxt)
=============================================================================
