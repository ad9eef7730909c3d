------------------------------- MODULE TcpSend -------------------------------
(***************************************************************************)
(* How lwIP sends what the program writes to a client: tcp_write in the    *)
(* main loop, tcp_output, the acknowledgements in tcp_receive (Ethernet    *)
(* interrupt) and the retransmission and persist timers of tcp_slowtmr     *)
(* (main loop), over a network that loses, doubles and reorders.           *)
(*                                                                         *)
(* tcp_write first looks at the queues and copies the data, and at its end *)
(* changes the queues according to what it saw: the interrupt may come in  *)
(* between.  The other functions are taken as a whole.  Nothing of the     *)
(* connection but the data from the board to the client is modelled: the   *)
(* client acknowledges and sends no data.  Sequence numbers count from 0   *)
(* and do not wrap.  The congestion window is any value from one segment   *)
(* on, the timeouts come at any time.                                      *)
(***************************************************************************)
EXTENDS Integers, Sequences, SequencesExt, FiniteSetsExt

CONSTANTS
  Mss,          \* pcb->mss, the longest segment
  SndBuf,       \* TCP_SND_BUF
  QueueLen,     \* TCP_SND_QUEUELEN
  MaxRtx,       \* TCP_MAXRTX
  DupAcks,      \* duplicate acknowledgements before a fast retransmission: 3
  Window,       \* the client's receive buffer
  Writes,       \* bound: <<k, n>>, after k bytes the program may write n
  Total,        \* bound: bytes it writes
  MaxFaults     \* bound: messages lost, doubled, overtaken; early timeouts

ASSUME SendAssumption ==
  /\ {Mss, SndBuf, QueueLen, MaxRtx, DupAcks, Window} \subseteq Nat \ {0}
  /\ Window >= 2 * Mss    \* else tcp_write makes smaller segments
  /\ Writes \subseteq (0..Total) \X (1..Total) /\ Total \in Nat /\ MaxFaults \in Nat

VARIABLES
  pcb,          \* the fields of the connection's tcp_pcb
  plan,         \* what tcp_write has seen, NoPlan outside of it
  accepted,     \* bytes tcp_write has taken: the i-th has the value i
  data,         \* segments on their way to the client
  acks,         \* acknowledgements on their way back
  got,          \* got[i]: byte of the stream the client has at i, or Null
  read,         \* how much of it the client's program has read
  faults,
  stale,        \* tcp_write has stored an outdated queue length
  torn          \* tcp_write has changed a queue that was no longer there

net == <<data, acks, faults>>
client == <<got, read>>
vars == <<pcb, plan, accepted, net, client, stale, torn>>

Null == 0
NoPlan == [n |-> 0]

Init ==
  /\ pcb = [state |-> "ESTABLISHED",
            unsent |-> << >>, unacked |-> << >>, oversize |-> 0,
            snd_lbb |-> 0, snd_nxt |-> 0, lastack |-> 0,
            snd_buf |-> SndBuf, snd_queuelen |-> 0,
            snd_wnd |-> Window, snd_wl2 |-> 0, persist |-> 0,
            rtime |-> -1, nrtx |-> 0, dupacks |-> 0,
            infr |-> 0, memerr |-> 0]
  /\ plan = NoPlan
  /\ accepted = 0
  /\ data = << >> /\ acks = << >>
  /\ got = [i \in 0..Total - 1 |-> Null] /\ read = 0
  /\ faults = 0
  /\ stale = FALSE /\ torn = FALSE

-----------------------------------------------------------------------------
(* Segments: [seq, data, bufs], bufs the number of pbufs.                  *)

Low(a, b) == IF a <= b THEN a ELSE b
High(a, b) == IF a >= b THEN a ELSE b
Length(seg) == Len(seg.data)
End(seg) == seg.seq + Length(seg)
Bufs(segs) ==
  LET sum[n \in 0..Len(segs)] == IF n = 0 THEN 0 ELSE sum[n - 1] + segs[n].bufs
  IN sum[Len(segs)]

\* Segment seg in its place in a queue in the order of the sequence numbers.
Inserted(segs, seg) ==
  LET k == Max({0} \cup {k \in 1..Len(segs) : \A i \in 1..k : segs[i].seq < seg.seq})
  IN SubSeq(segs, 1, k) \o <<seg>> \o SubSeq(segs, k + 1, Len(segs))

\* The same of the segments new, one after the other.
AllInserted(segs, new) ==
  LET queue[n \in 0..Len(new)] ==
        IF n = 0 THEN segs ELSE Inserted(queue[n - 1], new[n])
  IN queue[Len(new)]

\* The segments at the head of a queue that ack covers.
Covered(segs, ack) ==
  Max({0} \cup {k \in 1..Len(segs) : \A i \in 1..k : End(segs[i]) <= ack})

-----------------------------------------------------------------------------
(* A definition named Faulty_X is X with one mistake in it; no             *)
(* specification uses it, it is there to see which property X answers for. *)

(* tcp_write.                                                              *)

\* Phases 1 and 2: room behind the last segment of unsent, in its pbuf or with
\* a further one.
Appended(p, n) ==
  IF p.unsent = << >> THEN 0 ELSE Low(n, Mss - Length(Last(p.unsent)))
InPlace(p, n) == IF p.unsent = << >> THEN 0 ELSE Low(n, p.oversize)

\* Phase 3: the lengths of the new segments.
NewSegments(n) == (n + Mss - 1) \div Mss

\* The unused end of the pbuf that holds the last of the n bytes.
OversizeAfter(p, n) ==
  LET rest == n - Appended(p, n)
      last == rest - Mss * (NewSegments(rest) - 1)
  IN IF rest = 0
       THEN IF InPlace(p, n) = n THEN p.oversize - n
            ELSE Mss - Length(Last(p.unsent)) - n
       ELSE IF rest > Mss \/ p.unsent # << >> \/ p.unacked # << >>
              THEN Mss - last ELSE 0

QueuelenAfter(p, n) ==
  p.snd_queuelen + (IF Appended(p, n) > InPlace(p, n) THEN 1 ELSE 0)
                 + NewSegments(n - Appended(p, n))

\* tcp_write_checks, and the check behind each new segment.
Refused(p, n) ==
  \/ n > p.snd_buf
  \/ p.snd_queuelen >= QueueLen
  \/ n > Appended(p, n) /\ QueuelenAfter(p, n) > QueueLen

WriteBegin(n) ==
  /\ plan = NoPlan
  /\ pcb.state = "ESTABLISHED"
  /\ <<accepted, n>> \in Writes /\ accepted + n <= Total
  /\ ~Refused(pcb, n)
  /\ plan' = [n |-> n,
              tail |-> IF pcb.unsent = << >> THEN Null ELSE Last(pcb.unsent).seq + 1,
              appended |-> Appended(pcb, n),
              bufs |-> IF Appended(pcb, n) > InPlace(pcb, n) THEN 1 ELSE 0,
              oversize |-> OversizeAfter(pcb, n),
              before |-> pcb.snd_queuelen,
              queuelen |-> QueuelenAfter(pcb, n)]
  /\ UNCHANGED <<pcb, accepted, net, client, stale, torn>>

\* ERR_MEM: refused, or no memory for a pbuf or a segment.
WriteError ==
  /\ plan = NoPlan
  /\ pcb.state = "ESTABLISHED"
  /\ pcb' = [pcb EXCEPT !.memerr = 1]
  /\ UNCHANGED <<plan, accepted, net, client, stale, torn>>

\* The queue tcp_write works on: its last segment is the one it has seen.
TailInPlace ==
  IF plan.tail = Null THEN pcb.unsent = << >>
  ELSE pcb.unsent # << >> /\ Last(pcb.unsent).seq + 1 = plan.tail

\* Bytes i to j of what is being written.
Bytes(i, j) == [k \in 1..(j - i + 1) |-> accepted + i + k - 1]

\* The data is taken from the front, though some went into the last segment.
Faulty_NewSegment(k) ==
  LET from == plan.appended + Mss * (k - 1)
  IN [seq |-> pcb.snd_lbb + from,
      data |-> Bytes(Mss * (k - 1) + 1, Low(Mss * k, plan.n - plan.appended)),
      bufs |-> 1]

NewSegment(k) ==
  LET from == plan.appended + Mss * (k - 1)
  IN [seq |-> pcb.snd_lbb + from,
      data |-> Bytes(from + 1, Low(from + Mss, plan.n)),
      bufs |-> 1]

\* pcb->unsent after the commit.
Extended ==
  LET old == pcb.unsent
      tail == [Last(old) EXCEPT !.data = @ \o Bytes(1, plan.appended),
                                !.bufs = @ + plan.bufs]
  IN (IF old = << >> THEN << >> ELSE Append(Front(old), tail))
     \o [k \in 1..NewSegments(plan.n - plan.appended) |-> NewSegment(k)]

WriteCommit ==
  /\ plan # NoPlan
  /\ IF TailInPlace
       THEN /\ pcb' = [pcb EXCEPT !.unsent = Extended,
                                  !.oversize = plan.oversize,
                                  !.snd_lbb = @ + plan.n,
                                  !.snd_buf = @ - plan.n,
                                  !.snd_queuelen = plan.queuelen]
            /\ accepted' = accepted + plan.n
            /\ stale' = (stale \/ pcb.snd_queuelen # plan.before)
            /\ UNCHANGED torn
       ELSE torn' = TRUE /\ UNCHANGED <<pcb, accepted, stale>>
  /\ plan' = NoPlan
  /\ UNCHANGED <<net, client>>

-----------------------------------------------------------------------------
(* tcp_output, as a function of the pcb; limit is the effective window.    *)

Nagle(p, i) ==
  \/ i = 1 /\ p.unacked = << >>
  \/ p.infr = 1
  \/ i < Len(p.unsent)
  \/ Length(p.unsent[i]) >= Mss
  \/ p.snd_buf = 0 \/ p.snd_queuelen >= QueueLen

Sendable(p, limit, i) ==
  /\ End(p.unsent[i]) - p.lastack <= limit
  /\ Nagle(p, i) \/ p.memerr = 1

Sent(p, limit) ==
  LET ks == {k \in 1..Len(p.unsent) : \A i \in 1..k : Sendable(p, limit, i)}
  IN SubSeq(p.unsent, 1, Max({0} \cup ks))

\* The pcb after these have been sent.
Output(p, sent) ==
  LET rest == SubSeq(p.unsent, Len(sent) + 1, Len(p.unsent))
  IN [p EXCEPT !.unsent = rest,
               !.unacked = AllInserted(p.unacked, sent),
               !.snd_nxt = IF sent = << >> THEN @ ELSE High(@, End(Last(sent))),
               !.rtime = IF sent # << >> THEN High(@, 0) ELSE @,
               !.oversize = IF rest = << >> THEN 0 ELSE @,
               !.memerr = 0]

\* The congestion window: one segment, or no limit to what a test sends.
Cwnds == {Mss, Total + Mss}

\* The pcb becomes what tcp_output leaves of p.
Outputs(p, limit) ==
  \E sent \in {Sent(p, limit)} :
    /\ pcb' = Output(p, sent)
    /\ data' = data \o [i \in 1..Len(sent) |->
                          [seq |-> sent[i].seq, data |-> sent[i].data]]

-----------------------------------------------------------------------------
(* tcp_receive, as a function of the pcb and the acknowledgement.          *)

\* The persist timer is not started for a window of 0.
Faulty_WindowUpdated(p, a) ==
  IF p.snd_wl2 < a.ack \/ (p.snd_wl2 = a.ack /\ a.wnd > p.snd_wnd)
    THEN [p EXCEPT !.snd_wnd = a.wnd, !.snd_wl2 = a.ack, !.persist = 0]
    ELSE p

WindowUpdated(p, a) ==
  IF p.snd_wl2 < a.ack \/ (p.snd_wl2 = a.ack /\ a.wnd > p.snd_wnd)
    THEN [p EXCEPT !.snd_wnd = a.wnd, !.snd_wl2 = a.ack,
                   !.persist = IF a.wnd = 0 THEN 1 ELSE 0]
    ELSE p

\* tcp_rexmit_fast
RexmitFast(p) ==
  IF p.unacked = << >> \/ p.infr = 1 THEN p
  ELSE LET seg == Head(p.unacked)
       IN [p EXCEPT !.unacked = Tail(@),
                    !.unsent = Inserted(@, seg),
                    !.oversize = IF \A s \in ToSet(p.unsent) : s.seq < seg.seq
                                   THEN 0 ELSE @,
                    !.nrtx = @ + 1,
                    !.infr = 1]

\* q is p with its window updated.
IsDupAck(p, q, a) ==
  /\ q.snd_wl2 + q.snd_wnd = p.snd_wl2 + p.snd_wnd
  /\ p.rtime >= 0
  /\ a.ack = p.lastack

OldAck(p, q, a) ==
  IF ~IsDupAck(p, q, a) THEN [q EXCEPT !.dupacks = 0]
  ELSE LET r == [q EXCEPT !.dupacks = Low(@ + 1, DupAcks + 1)]
       IN IF r.dupacks = DupAcks THEN RexmitFast(r) ELSE r

\* The timer is stopped though segments are left.
Faulty_NewAck(q, a) ==
  LET k == Covered(q.unacked, a.ack)
  IN [q EXCEPT !.infr = 0, !.nrtx = 0, !.dupacks = 0,
               !.snd_buf = @ + (a.ack - q.lastack),
               !.lastack = a.ack,
               !.unacked = SubSeq(@, k + 1, Len(@)),
               !.snd_queuelen = @ - Bufs(SubSeq(q.unacked, 1, k)),
               !.rtime = -1]

NewAck(q, a) ==
  LET k == Covered(q.unacked, a.ack)
      left == SubSeq(q.unacked, k + 1, Len(q.unacked))
  IN [q EXCEPT !.infr = 0, !.nrtx = 0, !.dupacks = 0,
               !.snd_buf = @ + (a.ack - q.lastack),
               !.lastack = a.ack,
               !.unacked = left,
               !.snd_queuelen = @ - Bufs(SubSeq(q.unacked, 1, k)),
               !.rtime = IF left = << >> THEN -1 ELSE 0]

\* The pbufs are freed and not counted.
Faulty_UnsentAcked(q, a) ==
  LET k == IF a.ack <= q.snd_nxt THEN Covered(q.unsent, a.ack) ELSE 0
  IN [q EXCEPT !.unsent = SubSeq(@, k + 1, Len(@)),
               !.oversize = IF k = Len(q.unsent) THEN 0 ELSE @]

\* After a retransmission segments wait in unsent that were sent before.
UnsentAcked(q, a) ==
  LET k == IF a.ack <= q.snd_nxt THEN Covered(q.unsent, a.ack) ELSE 0
  IN [q EXCEPT !.unsent = SubSeq(@, k + 1, Len(@)),
               !.oversize = IF k = Len(q.unsent) THEN 0 ELSE @,
               !.snd_queuelen = @ - Bufs(SubSeq(q.unsent, 1, k))]

Acked(p, q, a) ==
  IF a.ack <= p.lastack THEN OldAck(p, q, a)
  ELSE IF a.ack <= p.snd_nxt THEN NewAck(q, a) ELSE q

\* tcp_input: tcp_receive in its three parts, and tcp_output.
Input(a) ==
  \E q \in {WindowUpdated(pcb, a)} :
    \E r \in {Acked(pcb, q, a)} :
      \E p \in {UnsentAcked(r, a)}, cwnd \in Cwnds : Outputs(p, Low(p.snd_wnd, cwnd))

-----------------------------------------------------------------------------
(* tcp_slowtmr.  Each call does one of these, and then tcp_output.         *)

Tick == plan = NoPlan /\ pcb.state = "ESTABLISHED"

\* Too many retransmissions: the connection is removed.
TickAbort ==
  /\ Tick
  /\ pcb.nrtx = MaxRtx
  /\ pcb' = [pcb EXCEPT !.state = "CLOSED"]
  /\ UNCHANGED <<plan, accepted, net, client, stale, torn>>

\* The persist timer runs out: one byte, of what is not acknowledged or else
\* not sent.  (Once the last one has been answered: a bound.)
TickProbe ==
  /\ Tick
  /\ pcb.nrtx # MaxRtx
  /\ pcb.persist = 1
  /\ data = << >> /\ acks = << >>
  /\ LET queue == pcb.unacked \o pcb.unsent
     IN /\ queue # << >>
        /\ data' = <<[seq |-> Head(queue).seq, data |-> <<Head(queue).data[1]>>]>>
  /\ pcb' = Output(pcb, << >>)
  /\ UNCHANGED <<plan, accepted, acks, faults, client, stale, torn>>

\* The retransmission timer runs out.  With messages on their way it is early.
TickRexmit ==
  /\ Tick
  /\ pcb.nrtx # MaxRtx
  /\ pcb.persist = 0 /\ pcb.rtime >= 0 /\ pcb.unacked # << >>
  /\ faults' = IF data = << >> /\ acks = << >> THEN faults ELSE faults + 1
  /\ \E p \in {[pcb EXCEPT !.unsent = pcb.unacked \o @, !.unacked = << >>,
                            !.rtime = 0, !.nrtx = @ + 1]} :
       Outputs(p, Low(p.snd_wnd, Mss))
  /\ UNCHANGED <<plan, accepted, acks, client, stale, torn>>

\* Only tcp_output: no poll function is set, and pollinterval is 0.
TickOutput ==
  /\ Tick
  /\ pcb.nrtx # MaxRtx
  /\ \E cwnd \in Cwnds : Outputs(pcb, Low(pcb.snd_wnd, cwnd))
  /\ UNCHANGED <<plan, accepted, acks, faults, client, stale, torn>>

-----------------------------------------------------------------------------
(* The client and the network.                                             *)

Stored(g) == Min({i \in 0..Total : i = Total \/ g[i] = Null})
Ack(g, r) == [ack |-> Stored(g), wnd |-> r + Window - Stored(g)]

\* A segment arrives; what fits the window is kept, and an ACK is sent.
Arrives(seg) ==
  LET g == [i \in 0..Total - 1 |->
              IF /\ got[i] = Null /\ i < read + Window
                 /\ i \in seg.seq..(End(seg) - 1)
                THEN seg.data[i - seg.seq + 1] ELSE got[i]]
  IN /\ got' = g
     /\ acks' = Append(acks, Ack(g, read))

\* Messages arrive in order, but one may overtake the one before it.
Without(s, i) == SubSeq(s, 1, i - 1) \o SubSeq(s, i + 1, Len(s))

DeliverData ==
  /\ data # << >>
  /\ \E i \in 1..Low(2, Len(data)) :
       /\ Arrives(data[i])
       /\ data' = Without(data, i)
       /\ faults' = faults + (i - 1)
  /\ UNCHANGED <<pcb, plan, accepted, read, stale, torn>>

DeliverAck ==
  /\ acks # << >>
  /\ pcb.state = "ESTABLISHED"
  /\ \E i \in 1..Low(2, Len(acks)) :
       /\ Input(acks[i])
       /\ acks' = Without(acks, i)
       /\ faults' = faults + (i - 1)
  /\ UNCHANGED <<plan, accepted, client, stale, torn>>

Lose ==
  /\ \/ data # << >> /\ data' = Tail(data) /\ UNCHANGED acks
     \/ acks # << >> /\ acks' = Tail(acks) /\ UNCHANGED data
  /\ faults' = faults + 1
  /\ UNCHANGED <<pcb, plan, accepted, client, stale, torn>>

Double ==
  /\ \/ data # << >> /\ data' = <<Head(data)>> \o data /\ UNCHANGED acks
     \/ acks # << >> /\ acks' = <<Head(acks)>> \o acks /\ UNCHANGED data
  /\ faults' = faults + 1
  /\ UNCHANGED <<pcb, plan, accepted, client, stale, torn>>

\* The client's program reads; the new window is announced once.
Read ==
  /\ read < Stored(got)
  /\ read' = Stored(got)
  /\ acks' = Append(acks, Ack(got, read'))
  /\ UNCHANGED <<pcb, plan, accepted, data, faults, got, stale, torn>>

-----------------------------------------------------------------------------
tcp_write == (\E n \in 1..Total : WriteBegin(n)) \/ WriteError \/ WriteCommit
tcp_slowtmr == TickAbort \/ TickProbe \/ TickRexmit \/ TickOutput

\* Within the bound, and as long as the queues are queues.
Within(A) == ~torn /\ A /\ faults' <= MaxFaults

Next ==
  /\ ~torn
  /\ \/ tcp_write \/ tcp_slowtmr
     \/ DeliverData \/ DeliverAck \/ Lose \/ Double
     \/ Read
  /\ faults' <= MaxFaults

Spec == Init /\ [][Next]_vars

\* tcp_write comes to its end, the slow timer ticks on, what is not lost arrives
\* and the client's program reads.
FairSpec ==
  /\ Spec
  /\ WF_vars(Within(WriteCommit)) /\ WF_vars(Within(TickAbort))
  /\ WF_vars(Within(TickProbe)) /\ WF_vars(Within(TickRexmit))
  /\ WF_vars(Within(TickOutput))
  /\ WF_vars(Within(DeliverData)) /\ WF_vars(Within(DeliverAck))
  /\ WF_vars(Within(Read))

-----------------------------------------------------------------------------
Segments == ToSet(pcb.unsent) \cup ToSet(pcb.unacked)
Covers(seg, i) == i \in seg.seq..(End(seg) - 1)

Sorted(segs) == \A i \in 1..Len(segs) - 1 : End(segs[i]) <= segs[i + 1].seq

\* Each byte not acknowledged is in one segment, with its own value, whatever has
\* been sent, put back and sent again; snd_buf and, unless tcp_write has stored
\* an outdated one, snd_queuelen say what the queues hold.
QueuesSound ==
  ~torn =>
  /\ Sorted(pcb.unsent) /\ Sorted(pcb.unacked)
  /\ \A seg \in Segments :
       Length(seg) \in 1..Mss /\ pcb.lastack < End(seg) /\ End(seg) <= pcb.snd_lbb
  /\ \A i \in pcb.lastack..pcb.snd_lbb - 1 :
       \E seg \in Segments :
         /\ Covers(seg, i) /\ seg.data[i - seg.seq + 1] = i + 1
         /\ \A other \in Segments : Covers(other, i) => other = seg
  /\ pcb.snd_buf + (pcb.snd_lbb - pcb.lastack) = SndBuf
  /\ ~stale => pcb.snd_queuelen = Bufs(pcb.unacked) + Bufs(pcb.unsent)

\* While something sent is not acknowledged the retransmission timer runs, and
\* it gives up in time: past MaxRtx only a fast retransmission can have led.
TimersSound ==
  /\ pcb.unacked # << >> => pcb.rtime >= 0
  /\ pcb.nrtx > MaxRtx => pcb.infr = 1

\* The client gets what tcp_write has accepted, in order, once, and nothing else.
Stream == INSTANCE ByteStream WITH
  Byte <- 1..Total,
  written <- [i \in 1..accepted |-> i],
  received <- [i \in 1..Stored(got) |-> got[i - 1]]
RefinesByteStream == Stream!Spec

\* No timer runs, and what is left does not fit a window that is not closed: only
\* an acknowledgement would move it.
Stalled ==
  /\ pcb.unacked = << >> /\ pcb.unsent # << >>
  /\ pcb.snd_wnd > 0
  /\ End(Head(pcb.unsent)) - pcb.lastack > pcb.snd_wnd

Settled ==
  Stored(got) = accepted \/ pcb.state = "CLOSED" \/ torn

\* What tcp_write has accepted arrives, whatever the network does, unless the
\* connection is given up or tcp_write was interrupted at the wrong moment, or
\* the connection stalls.
Delivered == []<>(Settled \/ Stalled)
=============================================================================
