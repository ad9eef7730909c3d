-------------------------- MODULE TcpReceiveProof --------------------------
(***************************************************************************)
(* Proofs about how the board receives a TCP stream (module TcpReceive).   *)
(***************************************************************************)
EXTENDS TcpReceive, SequenceTheorems, TLAPS

-----------------------------------------------------------------------------
(* The invariant.                                                          *)

Flag == {0, 1}
Seg == [seq : Nat, len : Nat]
Pcb == [rcv_nxt : Nat, rcv_wnd : Int, ann_wnd : Int, right_edge : Int,
        delay : Flag, now : Flag, unsent : Flag, unacked : Flag]

TypeOK ==
  /\ pcb \in Pcb
  /\ pc \in {"idle", "now", "output", "read", "store", "send", "clear"}
  /\ timer \in {"fast", "slow"}
  /\ hdr \in [ack : Nat, nxt : Nat, ann : Int]
  /\ data \subseteq Seg
  /\ acks \subseteq Nat
  /\ una \in Nat /\ nxt \in Nat
  /\ faults \in Nat
  /\ app \in [bytes : Nat, longest : Nat, right : Flag, com2 : Flag]
  /\ acked \in Nat
  /\ forgot \in {Null, "raced", "nagle", "memory"}

\* The right edge is never beyond the window: what the main loop has read for the
\* header is older than the pcb, but rcv_nxt only grows.
EdgeOf(p) == p.rcv_wnd = Wnd /\ p.right_edge <= p.rcv_nxt + Wnd
EdgeInv ==
  /\ EdgeOf(pcb)
  /\ hdr.ack <= pcb.rcv_nxt /\ hdr.nxt <= pcb.rcv_nxt /\ hdr.ann <= Wnd

\* Whatever is about to clear the flags has had the acknowledgement sent, or it is
\* known why not.
Excused == acked = pcb.rcv_nxt \/ forgot # Null
DueInv ==
  /\ acked <= pcb.rcv_nxt
  /\ pcb.delay = 0 /\ pcb.now = 0 => Excused
  /\ pc = "output" /\ timer = "fast" => pcb.now = 1 \/ Excused
  /\ pc \in {"read", "store", "send"} => hdr.ack = pcb.rcv_nxt \/ Excused
  /\ pc = "clear" => Excused

ReceiveInv == TypeOK /\ HandedUp /\ WindowOpen /\ EdgeInv /\ DueInv

LEMMA ReceiveInit == Init => ReceiveInv
<1> SUFFICES ASSUME Init PROVE ReceiveInv
  OBVIOUS
<1>1. Wnd \in Nat /\ Mss \in Nat \ {0} /\ Wnd - Mss + 1 <= Wnd
  BY ReceiveAssumption
<1>2. TypeOK
  BY <1>1 DEF Init, TypeOK, Pcb, Flag, NoHeader
<1>3. HandedUp /\ EdgeInv /\ DueInv
  BY <1>1 DEF Init, HandedUp, EdgeInv, EdgeOf, DueInv, Excused, NoHeader
<1>4. WindowOpen
  BY <1>1 DEF Init, WindowOpen
<1> QED
  BY <1>2, <1>3, <1>4 DEF ReceiveInv

LEMMA InvImpliesNoAckForgotten == ReceiveInv => NoAckForgotten
BY DEF ReceiveInv, TypeOK, DueInv, Excused, NoAckForgotten, Pcb

-----------------------------------------------------------------------------
(* What acknowledging does to a pcb.                                       *)

\* A result without an acknowledgement leaves the flags and the right edge alone.
OutputOf(p, r) ==
  /\ r.pcb \in Pcb /\ r.out \subseteq Nat /\ r.bad \in Nat
  /\ r.pcb.rcv_nxt = p.rcv_nxt /\ r.pcb.rcv_wnd = p.rcv_wnd /\ r.pcb.ann_wnd = p.ann_wnd
  /\ r.out = {} => /\ r.pcb.right_edge = p.right_edge
                   /\ r.pcb.delay = p.delay /\ r.pcb.now = p.now
  /\ r.out # {} => r.pcb.right_edge = p.rcv_nxt + p.ann_wnd

LEMMA AcknowledgedResult ==
  ASSUME NEW p \in Pcb PROVE OutputOf(p, Acknowledged(p))
<1> DEFINE e == p.rcv_nxt + p.ann_wnd
           q == [p EXCEPT !.right_edge = e, !.delay = 0, !.now = 0]
<1>1. e \in Int /\ p.rcv_nxt \in Nat
  BY DEF Pcb
<1>2. Acknowledged(p) = [pcb |-> q, out |-> {p.rcv_nxt}, bad |-> 0]
  BY Zenon DEF Acknowledged
<1> HIDE DEF e
<1>3. /\ q \in Pcb /\ q.rcv_nxt = p.rcv_nxt /\ q.rcv_wnd = p.rcv_wnd
      /\ q.ann_wnd = p.ann_wnd /\ q.right_edge = e
  BY <1>1 DEF Pcb, Flag
<1> USE DEF e
<1> HIDE DEF q
<1> QED
  BY <1>1, <1>2, <1>3 DEF OutputOf

LEMMA UnchangedResult ==
  ASSUME NEW p \in Pcb PROVE OutputOf(p, Unchanged(p))
BY DEF OutputOf, Unchanged

LEMMA EmptyAckResult ==
  ASSUME NEW p \in Pcb, NEW r \in EmptyAck(p) PROVE OutputOf(p, r)
<1>1. CASE r = Acknowledged(p)
  BY <1>1, AcknowledgedResult
<1>2. CASE r = [Unchanged(p) EXCEPT !.bad = 1]
  BY <1>2 DEF Unchanged, OutputOf
<1> QED
  BY <1>1, <1>2 DEF EmptyAck

LEMMA PiggybackedResult ==
  ASSUME NEW p \in Pcb, NEW r \in Piggybacked(p) PROVE OutputOf(p, r)
<1> DEFINE q == [p EXCEPT !.unsent = 0, !.unacked = 1]
<1>1. /\ q \in Pcb /\ q.rcv_nxt = p.rcv_nxt /\ q.rcv_wnd = p.rcv_wnd
      /\ q.ann_wnd = p.ann_wnd
  BY DEF Pcb, Flag
<1>2. r = Acknowledged(q)
  BY DEF Piggybacked
<1>3. OutputOf(q, r)
  BY <1>1, <1>2, AcknowledgedResult
<1>4. r.out # {}
  BY <1>2 DEF Acknowledged
<1> HIDE DEF q
<1> QED
  BY <1>1, <1>3, <1>4 DEF OutputOf

LEMMA OutputResult ==
  ASSUME NEW p \in Pcb, NEW r \in tcp_output(p) PROVE OutputOf(p, r)
BY EmptyAckResult, PiggybackedResult, UnchangedResult DEF tcp_output, FitsNot, Nagle

LEMMA ThenResult ==
  ASSUME NEW p \in Pcb, NEW r, OutputOf(p, r), NEW t \in Then(r) PROVE OutputOf(p, t)
<1>1. PICK s \in tcp_output(r.pcb) :
        t = [pcb |-> s.pcb, out |-> r.out \cup s.out, bad |-> r.bad + s.bad]
  BY DEF Then
<1>2. t.pcb = s.pcb /\ t.out = r.out \cup s.out /\ t.bad = r.bad + s.bad
  BY <1>1
<1>3. r.pcb \in Pcb
  BY DEF OutputOf
<1>4. OutputOf(r.pcb, s)
  BY <1>3, OutputResult
<1> QED
  BY <1>2, <1>4 DEF OutputOf

-----------------------------------------------------------------------------
(* What receiving does to a pcb.                                           *)

OpenOf(p) == EdgeOf(p) /\ p.ann_wnd \in Wnd - Mss + 1..Wnd

LEMMA AnnounceKeeps ==
  ASSUME NEW p \in Pcb
  PROVE  /\ Announce(p) \in Pcb
         /\ Announce(p).rcv_nxt = p.rcv_nxt /\ Announce(p).rcv_wnd = p.rcv_wnd
         /\ Announce(p).right_edge = p.right_edge
         /\ Announce(p).delay = p.delay /\ Announce(p).now = p.now
<1> DEFINE w == IF p.rcv_nxt + p.rcv_wnd >= p.right_edge + Low(Wnd \div 2, Mss)
                  THEN p.rcv_wnd ELSE High(p.right_edge - p.rcv_nxt, 0)
<1>1. w \in Int
  BY DEF High, Pcb
<1>2. Announce(p) = [p EXCEPT !.ann_wnd = w]
  BY DEF Announce
<1> HIDE DEF w
<1> QED
  BY <1>1, <1>2 DEF Pcb

\* The window to announce is the whole one, or what the client knows of it, which
\* is less than one segment short.
LEMMA AnnounceOpens ==
  ASSUME NEW p \in Pcb, EdgeOf(p)
  PROVE  /\ Announce(p) \in Pcb /\ OpenOf(Announce(p))
         /\ Announce(p) = [p EXCEPT !.ann_wnd = Announce(p).ann_wnd]
<1>1. Wnd \in Nat /\ Mss \in Nat \ {0} /\ Low(Wnd \div 2, Mss) = Mss
  BY ReceiveAssumption DEF Low
<1> DEFINE w == IF p.rcv_nxt + p.rcv_wnd >= p.right_edge + Low(Wnd \div 2, Mss)
                  THEN p.rcv_wnd ELSE High(p.right_edge - p.rcv_nxt, 0)
<1>2. w \in Wnd - Mss + 1..Wnd /\ w \in Int
  <2>1. /\ p.rcv_wnd = Wnd /\ p.right_edge \in Int /\ p.rcv_nxt \in Nat
        /\ p.right_edge <= p.rcv_nxt + Wnd
    BY DEF EdgeOf, Pcb
  <2>2. Wnd = 2 * Mss
    BY ReceiveAssumption
  <2> QED
    BY <1>1, <2>1, <2>2 DEF High
<1>3. Announce(p) = [p EXCEPT !.ann_wnd = w]
  BY DEF Announce
<1> HIDE DEF w
<1> QED
  BY <1>1, <1>2, <1>3 DEF OpenOf, EdgeOf, Pcb

\* The data that is taken leaves the window as open as it was, and sets a flag.
LEMMA InSequenceResult ==
  ASSUME NEW p \in Pcb, EdgeOf(p), NEW n \in 1..Wnd, NEW r \in InSequence(p, n)
  PROVE  /\ r.pcb \in Pcb /\ r.out = {} /\ r.bad = 0
         /\ r.pcb.rcv_nxt = p.rcv_nxt + n /\ OpenOf(r.pcb)
         /\ r.pcb.delay = 1 \/ r.pcb.now = 1
         /\ p.now = 1 => r.pcb.now = 1
<1>1. Wnd \in Nat
  BY ReceiveAssumption
<1> DEFINE next == p.rcv_nxt + n
           left == p.rcv_wnd - n
           moved == [p EXCEPT !.rcv_nxt = next, !.rcv_wnd = left]
           announced == Announce(moved)
           flagged == Ack(announced)
           opened == [flagged EXCEPT !.rcv_wnd = Low(@ + n, Wnd)]
           again == Announce(opened)
           recved == Recved(flagged, n)
<1>2. PICK echo \in {0, 1} : r = Unchanged([recved EXCEPT !.unsent = High(@, echo)])
  BY DEF InSequence, Taken, OnTcpServerRecv
<1>3. /\ moved \in Pcb /\ moved.rcv_nxt = p.rcv_nxt + n /\ moved.rcv_wnd = Wnd - n
      /\ moved.right_edge = p.right_edge /\ moved.now = p.now /\ moved.delay = p.delay
  <2>1. next \in Nat /\ left \in Int /\ left = Wnd - n
    BY <1>1 DEF EdgeOf, Pcb
  <2> HIDE DEF next, left
  <2>2. /\ moved \in Pcb /\ moved.rcv_nxt = next /\ moved.rcv_wnd = left
        /\ moved.right_edge = p.right_edge /\ moved.now = p.now /\ moved.delay = p.delay
    BY <2>1 DEF Pcb
  <2> QED
    BY <2>1, <2>2 DEF next
<1> HIDE DEF moved
<1>4. /\ announced \in Pcb /\ announced.rcv_nxt = p.rcv_nxt + n
      /\ announced.rcv_wnd = Wnd - n /\ announced.right_edge = p.right_edge
      /\ announced.now = p.now
  BY <1>3, AnnounceKeeps
<1> HIDE DEF announced
<1>5. /\ flagged \in Pcb /\ flagged.rcv_nxt = p.rcv_nxt + n
      /\ flagged.rcv_wnd = Wnd - n /\ flagged.right_edge = p.right_edge
      /\ p.now = 1 => flagged.now = 1
      /\ flagged.delay = 1 \/ flagged.now = 1
  BY <1>4 DEF Ack, Pcb, Flag
<1> HIDE DEF flagged
<1>6. /\ opened \in Pcb /\ opened.rcv_nxt = p.rcv_nxt + n
      /\ opened.now = flagged.now /\ opened.delay = flagged.delay /\ EdgeOf(opened)
  BY <1>1, <1>5 DEF EdgeOf, Low, Pcb
<1>7. recved = [again EXCEPT !.now = IF Inflation(opened) >= Wnd \div 4 THEN 1 ELSE @]
  BY DEF Recved
<1> HIDE DEF opened, recved
<1>8. again \in Pcb /\ OpenOf(again) /\ again = [opened EXCEPT !.ann_wnd = again.ann_wnd]
  BY <1>6, AnnounceOpens
<1>9. /\ again.rcv_nxt = p.rcv_nxt + n
      /\ again.now = flagged.now /\ again.delay = flagged.delay
  BY <1>6, <1>8 DEF Pcb
<1> HIDE DEF again
<1>10. /\ recved \in Pcb /\ recved.rcv_nxt = p.rcv_nxt + n /\ OpenOf(recved)
       /\ p.now = 1 => recved.now = 1
       /\ recved.delay = 1 \/ recved.now = 1
  BY <1>5, <1>7, <1>8, <1>9 DEF OpenOf, EdgeOf, Pcb, Flag
<1> QED
  BY <1>2, <1>10 DEF Unchanged, OpenOf, EdgeOf, High, Pcb, Flag

-----------------------------------------------------------------------------
(* tcp_input.                                                              *)

\* What tcp_input may make of a pcb that has been advanced by n.
InputOf(p, n, r) ==
  /\ r.pcb \in Pcb /\ r.out \subseteq Nat /\ r.bad \in Nat
  /\ r.pcb.rcv_nxt = p.rcv_nxt + n /\ OpenOf(r.pcb)
  /\ r.out = {} =>
       /\ p.now = 1 => r.pcb.now = 1
       /\ n # 0 \/ p.delay = 1 => r.pcb.delay = 1 \/ r.pcb.now = 1

LEMMA OutputIsInput ==
  ASSUME NEW p \in Pcb, NEW q \in Pcb, NEW n \in Nat, NEW r,
         OpenOf(q), q.rcv_nxt = p.rcv_nxt + n, OutputOf(q, r),
         p.now = 1 => q.now = 1,
         n # 0 \/ p.delay = 1 => q.delay = 1 \/ q.now = 1
  PROVE  InputOf(p, n, r)
<1>1. r.out # {} => r.pcb.right_edge = q.rcv_nxt + q.ann_wnd
  BY DEF OutputOf
<1>2. q.ann_wnd <= Wnd /\ q.rcv_nxt \in Nat /\ Wnd \in Nat /\ q.ann_wnd \in Int
  BY ReceiveAssumption DEF OpenOf, Pcb
<1>3. OpenOf(r.pcb)
  BY <1>1, <1>2 DEF OutputOf, OpenOf, EdgeOf
<1> QED
  BY <1>3 DEF OutputOf, InputOf

LEMMA AcceptedBounds ==
  ASSUME NEW p \in Pcb, NEW seg \in Seg, EdgeOf(p)
  PROVE  /\ Accepted(p, seg) \in 0..Wnd
         /\ Accepted(p, seg) # 0 =>
              p.rcv_nxt - seg.seq \in Nat
              /\ p.rcv_nxt - seg.seq + Accepted(p, seg) <= seg.len
BY ReceiveAssumption DEF Accepted, Low, High, EdgeOf, Pcb, Seg

LEMMA ResultsOfInput ==
  ASSUME NEW p \in Pcb, OpenOf(p), NEW seg \in Seg, NEW r \in Results(p, seg)
  PROVE  InputOf(p, Accepted(p, seg), r)
<1> DEFINE n == Accepted(p, seg)
<1>1. n \in 0..Wnd /\ Wnd \in Nat
  BY AcceptedBounds, ReceiveAssumption DEF OpenOf
<1>2. CASE n > 0
  <2>1. PICK s \in InSequence(p, n) : r \in Then(s)
    BY <1>2 DEF Results
  <2> HIDE DEF n
  <2>2. n \in 1..Wnd
    BY <1>1, <1>2
  <2>3. /\ s.pcb \in Pcb /\ s.out = {} /\ s.bad = 0
        /\ s.pcb.rcv_nxt = p.rcv_nxt + n /\ OpenOf(s.pcb)
        /\ s.pcb.delay = 1 \/ s.pcb.now = 1
        /\ p.now = 1 => s.pcb.now = 1
    BY <2>2, InSequenceResult DEF OpenOf
  <2>4. OutputOf(s.pcb, s)
    BY <2>3 DEF OutputOf
  <2>5. OutputOf(s.pcb, r)
    BY <2>1, <2>3, <2>4, ThenResult
  <2> QED
    BY <1>1, <2>3, <2>5, OutputIsInput DEF n
<1>3. CASE n = 0
  <2> DEFINE q == [p EXCEPT !.now = IF seg.seq < p.rcv_nxt THEN 1 ELSE @]
  <2>1. PICK s \in EmptyAck(q) : r \in Then(s)
    BY <1>3 DEF Results
  <2>2. /\ q \in Pcb /\ OpenOf(q) /\ q.rcv_nxt = p.rcv_nxt + 0
        /\ q.delay = p.delay
        /\ p.now = 1 => q.now = 1
    BY DEF OpenOf, EdgeOf, Pcb, Flag
  <2> HIDE DEF q
  <2>3. OutputOf(q, s)
    BY <2>1, <2>2, EmptyAckResult
  <2>4. OutputOf(q, r)
    BY <2>1, <2>2, <2>3, ThenResult
  <2>5. InputOf(p, 0, r)
    BY <2>2, <2>4, OutputIsInput
  <2> QED
    BY <1>3, <2>5
<1> QED
  BY <1>1, <1>2, <1>3

\* The bytes handed up are the next ones, and the right ones while the segment
\* fits in the first pbuf.
LEMMA HandKeeps ==
  ASSUME TypeOK, HandedUp, EdgeOf(pcb), NEW seg \in Seg, Hand(pcb, seg),
         pcb'.rcv_nxt = pcb.rcv_nxt + Accepted(pcb, seg)
  PROVE  /\ app' \in [bytes : Nat, longest : Nat, right : Flag, com2 : Flag]
         /\ HandedUp'
<1> DEFINE n == Accepted(pcb, seg)
           bytes == Payload(pcb, seg)
<1>1. pcb \in Pcb /\ app \in [bytes : Nat, longest : Nat, right : Flag, com2 : Flag]
  BY DEF TypeOK
<1>2. /\ n \in Nat
      /\ n # 0 => pcb.rcv_nxt - seg.seq \in Nat /\ pcb.rcv_nxt - seg.seq + n <= seg.len
  BY <1>1, AcceptedBounds, ReceiveAssumption
<1>3. /\ bytes \in Seq(Nat) /\ Len(bytes) = n
      /\ \A k \in 1..n : seg.len <= FirstPbuf => bytes[k] = pcb.rcv_nxt + k
  <2>1. bytes = [k \in 1..n |-> IF pcb.rcv_nxt - seg.seq + k <= FirstPbuf
                                  THEN pcb.rcv_nxt + k ELSE Junk]
    BY DEF Payload
  <2>2. pcb.rcv_nxt \in Nat /\ seg.seq \in Nat /\ seg.len \in Nat /\ FirstPbuf \in Nat
    BY <1>1, ReceiveAssumption DEF Pcb, Seg
  <2> HIDE DEF n, bytes
  <2>3. bytes \in [1..n -> Nat]
    BY <1>2, <2>1, <2>2 DEF Junk
  <2>4. bytes \in Seq(Nat) /\ Len(bytes) = n
    BY <1>2, <2>3, SeqDef, LenProperties
  <2>5. ASSUME NEW k \in 1..n, seg.len <= FirstPbuf
        PROVE  bytes[k] = pcb.rcv_nxt + k
    BY <1>2, <2>1, <2>2, <2>5
  <2> QED
    BY <2>4, <2>5
<1>4. /\ app'.bytes = app.bytes + n
      /\ app'.longest = IF bytes = << >> THEN app.longest ELSE High(app.longest, seg.len)
      /\ app'.right = IF \A k \in 1..n : bytes[k] = app.bytes + k THEN app.right ELSE 0
      /\ app'.com2 = IF n < ByteRange THEN app.com2 ELSE 0
      /\ app' \in [bytes : Nat, longest : Nat, right : Flag, com2 : Flag]
  <2>1. app' = [bytes |-> app.bytes + Len(bytes),
                longest |-> IF bytes = << >> THEN app.longest
                            ELSE High(app.longest, seg.len),
                right |-> IF \A k \in 1..Len(bytes) : bytes[k] = app.bytes + k
                            THEN app.right ELSE 0,
                com2 |-> IF Len(bytes) < ByteRange THEN app.com2 ELSE 0]
    BY DEF Hand
  <2> DEFINE l == IF bytes = << >> THEN app.longest ELSE High(app.longest, seg.len)
             w == IF \A k \in 1..n : bytes[k] = app.bytes + k THEN app.right ELSE 0
             c == IF n < ByteRange THEN app.com2 ELSE 0
  <2>2. app' = [bytes |-> app.bytes + n, longest |-> l, right |-> w, com2 |-> c]
    BY <1>3, <2>1
  <2> HIDE DEF n, bytes
  <2>3. l \in Nat /\ w \in Flag /\ c \in Flag /\ app.bytes + n \in Nat
    BY <1>1, <1>2 DEF High, Seg, Flag
  <2> HIDE DEF l, w, c
  <2>4. /\ app'.bytes = app.bytes + n /\ app'.longest = l /\ app'.right = w /\ app'.com2 = c
        /\ app' \in [bytes : Nat, longest : Nat, right : Flag, com2 : Flag]
    BY <2>2, <2>3
  <2> QED
    BY <2>4 DEF l, w, c
<1>5. n = 0 => bytes = << >>
  <2> HIDE DEF n, bytes
  <2> QED
    BY <1>3, EmptySeq
<1>6. n # 0 => app'.longest >= seg.len /\ app'.longest >= app.longest /\ n <= seg.len
  <2>1. n # 0 => bytes # << >>
    <3> HIDE DEF n, bytes
    <3> QED
      BY <1>3, EmptySeq
  <2>2. app.longest \in Nat /\ seg.len \in Nat
    BY <1>1 DEF Seg
  <2> HIDE DEF n, bytes
  <2> QED
    BY <1>2, <1>4, <2>1, <2>2 DEF High
<1>7. app'.bytes = pcb'.rcv_nxt
  BY <1>4 DEF HandedUp
<1> HIDE DEF n, bytes
<1>8. app.bytes = pcb.rcv_nxt /\ ByteRange \in Nat \ {0} /\ FirstPbuf \in Nat
      /\ app.longest \in Nat /\ app'.longest \in Nat /\ seg.len \in Nat
  BY <1>1, <1>4, ReceiveAssumption DEF HandedUp, Seg
<1>9. CASE n = 0
  <2>1. app'.longest = app.longest /\ app'.right = app.right /\ app'.com2 = app.com2
    BY <1>4, <1>5, <1>8, <1>9
  <2> QED
    BY <1>4, <1>7, <2>1 DEF HandedUp
<1>10. CASE n # 0
  <2>1. app'.longest <= FirstPbuf => app'.right = 1
    BY <1>3, <1>4, <1>6, <1>8, <1>10 DEF HandedUp
  <2>2. app'.longest < ByteRange => app'.com2 = 1
    BY <1>2, <1>4, <1>6, <1>8, <1>10 DEF HandedUp
  <2> QED
    BY <1>4, <1>7, <2>1, <2>2 DEF HandedUp
<1> QED
  BY <1>9, <1>10

\* A result of tcp_input keeps what is known of the pcb, the flags and the header.
LEMMA BecomesKeeps ==
  ASSUME ReceiveInv, NEW n \in Nat, NEW r, InputOf(pcb, n, r), Becomes(r),
         UNCHANGED main
  PROVE  /\ pcb' \in Pcb /\ acks' \subseteq Nat /\ acked' \in Nat
         /\ forgot' \in {Null, "raced", "nagle", "memory"}
         /\ pcb'.rcv_nxt = pcb.rcv_nxt + n
         /\ WindowOpen' /\ EdgeInv' /\ DueInv'
<1>1. /\ pcb' = r.pcb /\ r.pcb \in Pcb /\ r.out \subseteq Nat
      /\ pcb'.rcv_nxt = pcb.rcv_nxt + n /\ OpenOf(pcb')
  BY DEF Becomes, InputOf
<1>2. pcb \in Pcb /\ pcb.rcv_nxt \in Nat /\ acked \in Nat /\ pcb'.rcv_nxt \in Nat
  BY <1>1 DEF ReceiveInv, TypeOK, Pcb
<1>3. acks' \subseteq Nat
  BY <1>1 DEF Becomes, ReceiveInv, TypeOK
<1>4. acked' \in Nat /\ forgot' \in {Null, "raced", "nagle", "memory"}
  BY <1>1, <1>2 DEF Becomes, Recorded, ReceiveInv, TypeOK
<1>5. WindowOpen' /\ EdgeInv'
  <2>1. hdr' = hdr /\ hdr.ack \in Nat /\ hdr.nxt \in Nat
    BY DEF main, ReceiveInv, TypeOK
  <2> QED
    BY <1>1, <1>2, <2>1 DEF OpenOf, EdgeOf, WindowOpen, EdgeInv, ReceiveInv
<1>6. DueInv'
  <2>1. CASE r.out # {}
    BY <1>1, <1>2, <2>1 DEF Becomes, Recorded, DueInv, Excused
  <2>2. CASE r.out = {} /\ n = 0
    <3>1. pcb'.rcv_nxt = pcb.rcv_nxt /\ acked' = acked /\ forgot' = forgot
      BY <1>1, <1>2, <2>2 DEF Becomes, Recorded
    <3>2. /\ pcb.now = 1 => pcb'.now = 1
          /\ pcb.delay = 1 => pcb'.delay = 1 \/ pcb'.now = 1
      BY <1>1, <2>2 DEF InputOf
    <3>3. pcb.now \in {0, 1} /\ pcb.delay \in {0, 1}
      BY <1>2 DEF Pcb, Flag
    <3> QED
      BY <3>1, <3>2, <3>3 DEF ReceiveInv, DueInv, Excused, main
  <2>3. CASE r.out = {} /\ n # 0
    <3>1. /\ pcb'.rcv_nxt # pcb.rcv_nxt /\ acked' = acked
          /\ forgot' = IF InHeader THEN "raced" ELSE forgot
      BY <1>1, <1>2, <2>3 DEF Becomes, Recorded
    <3>2. pcb'.delay = 1 \/ pcb'.now = 1
      BY <1>1, <2>3 DEF InputOf
    <3>3. acked' <= pcb'.rcv_nxt
      BY <1>1, <1>2, <3>1 DEF ReceiveInv, DueInv
    <3>4. InHeader => forgot' # Null
      BY <3>1 DEF Null
    <3>5. pc' = pc /\ timer' = timer
      BY DEF main
    <3> QED
      BY <3>2, <3>3, <3>4, <3>5 DEF DueInv, Excused, InHeader
  <2> QED
    BY <2>1, <2>2, <2>3
<1> QED
  BY <1>1, <1>3, <1>4, <1>5, <1>6

-----------------------------------------------------------------------------
(* The invariant is kept: tcp_input.                                       *)

LEMMA SegmentKeeps == ReceiveInv /\ Segment => ReceiveInv'
<1> SUFFICES ASSUME ReceiveInv, Segment PROVE ReceiveInv'
  OBVIOUS
<1>1. PICK seg \in data, again \in 0..Low(1, MaxFaults - faults) :
        /\ data' = IF again = 1 THEN data ELSE data \ {seg}
        /\ Hand(pcb, seg)
        /\ \E r \in Results(pcb, seg) : Becomes(r) /\ faults' = faults + r.bad + again
  BY DEF Segment
<1>2. PICK r \in Results(pcb, seg) : Becomes(r) /\ faults' = faults + r.bad + again
  BY <1>1
<1>3. UNCHANGED <<main, client>>
  BY DEF Segment
<1>4. seg \in Seg /\ pcb \in Pcb /\ OpenOf(pcb)
  BY DEF ReceiveInv, TypeOK, EdgeInv, OpenOf, WindowOpen
<1>5. InputOf(pcb, Accepted(pcb, seg), r)
  BY <1>2, <1>4, ResultsOfInput
<1>6. Accepted(pcb, seg) \in Nat
  BY <1>4, AcceptedBounds, ReceiveAssumption DEF OpenOf
<1>7. /\ pcb' \in Pcb /\ acks' \subseteq Nat /\ acked' \in Nat
      /\ forgot' \in {Null, "raced", "nagle", "memory"}
      /\ pcb'.rcv_nxt = pcb.rcv_nxt + Accepted(pcb, seg)
      /\ WindowOpen' /\ EdgeInv' /\ DueInv'
  BY <1>2, <1>3, <1>5, <1>6, BecomesKeeps
<1>8. /\ app' \in [bytes : Nat, longest : Nat, right : Flag, com2 : Flag]
      /\ HandedUp'
  BY <1>1, <1>4, <1>7, HandKeeps DEF ReceiveInv, OpenOf
<1>9. faults' \in Nat /\ data' \subseteq Seg
  <2>1. r.bad \in Nat
    BY <1>5 DEF InputOf
  <2>2. again \in Nat
    BY ReceiveAssumption DEF Low, ReceiveInv, TypeOK
  <2> QED
    BY <1>1, <1>2, <2>1, <2>2 DEF ReceiveInv, TypeOK
<1>10. TypeOK'
  BY <1>3, <1>7, <1>8, <1>9 DEF ReceiveInv, TypeOK, main, client
<1> QED
  BY <1>7, <1>8, <1>10 DEF ReceiveInv

LEMMA EchoAckedKeeps == ReceiveInv /\ EchoAcked => ReceiveInv'
<1> SUFFICES ASSUME ReceiveInv, EchoAcked PROVE ReceiveInv'
  OBVIOUS
<1> DEFINE q == [pcb EXCEPT !.unacked = 0]
<1>1. PICK r \in tcp_output(q) : Becomes(r) /\ faults' = faults + r.bad
  BY DEF EchoAcked
<1>2. UNCHANGED <<main, data, client, app>>
  BY DEF EchoAcked
<1>3. pcb \in Pcb /\ OpenOf(pcb)
  BY DEF ReceiveInv, TypeOK, EdgeInv, OpenOf, WindowOpen
<1>4. /\ q \in Pcb /\ q.rcv_nxt = pcb.rcv_nxt + 0 /\ OpenOf(q)
      /\ q.now = pcb.now /\ q.delay = pcb.delay
  BY <1>3 DEF OpenOf, EdgeOf, Pcb, Flag
<1> HIDE DEF q
<1>5. OutputOf(q, r)
  BY <1>1, <1>4, OutputResult
<1>6. InputOf(pcb, 0, r)
  BY <1>3, <1>4, <1>5, OutputIsInput
<1>7. /\ pcb' \in Pcb /\ acks' \subseteq Nat /\ acked' \in Nat
      /\ forgot' \in {Null, "raced", "nagle", "memory"}
      /\ pcb'.rcv_nxt = pcb.rcv_nxt + 0
      /\ WindowOpen' /\ EdgeInv' /\ DueInv'
  BY <1>1, <1>2, <1>6, BecomesKeeps
<1>8. r.bad \in Nat /\ pcb.rcv_nxt \in Nat
  BY <1>3, <1>6 DEF InputOf, Pcb
<1>9. HandedUp'
  BY <1>2, <1>7, <1>8 DEF HandedUp, ReceiveInv
<1>10. TypeOK'
  BY <1>1, <1>2, <1>7, <1>8 DEF ReceiveInv, TypeOK, main, client
<1> QED
  BY <1>7, <1>9, <1>10 DEF ReceiveInv

-----------------------------------------------------------------------------
(* The invariant is kept: the main loop.                                   *)

LEMMA FastStartKeeps == ReceiveInv /\ FastStart => ReceiveInv'
BY DEF ReceiveInv, TypeOK, HandedUp, WindowOpen, EdgeInv, EdgeOf, DueInv, Excused,
   FastStart, At, Elsewhere, client, ghosts

LEMMA FastNowKeeps == ReceiveInv /\ FastNow => ReceiveInv'
<1> SUFFICES ASSUME ReceiveInv, FastNow PROVE ReceiveInv'
  OBVIOUS
<1>1. /\ pcb' \in Pcb /\ pcb'.now = 1 /\ pcb'.rcv_nxt = pcb.rcv_nxt
      /\ pcb'.rcv_wnd = pcb.rcv_wnd /\ pcb'.ann_wnd = pcb.ann_wnd
      /\ pcb'.right_edge = pcb.right_edge
  BY DEF ReceiveInv, TypeOK, FastNow, Pcb, Flag
<1> QED
  BY <1>1 DEF ReceiveInv, TypeOK, HandedUp, WindowOpen, EdgeInv, EdgeOf, DueInv,
     Excused, FastNow, At, Elsewhere, client, ghosts

LEMMA SlowStartKeeps == ReceiveInv /\ SlowStart => ReceiveInv'
BY DEF ReceiveInv, TypeOK, HandedUp, WindowOpen, EdgeInv, EdgeOf, DueInv, Excused,
   SlowStart, At, Elsewhere, client, ghosts

LEMMA OutputNothingKeeps == ReceiveInv /\ OutputNothing => ReceiveInv'
<1> SUFFICES ASSUME ReceiveInv, OutputNothing PROVE ReceiveInv'
  OBVIOUS
<1>1. UNCHANGED <<pcb, hdr, acks, acked, data, client, app>> /\ timer' = "fast"
  BY DEF OutputNothing, Elsewhere
<1>2. /\ forgot' \in {forgot, Forgotten("nagle"), Forgotten("memory")}
      /\ faults' \in {faults, faults + 1}
      /\ pc = "output" /\ pc' = After
  BY DEF OutputNothing, At
<1>3. TypeOK'
  BY <1>1, <1>2 DEF ReceiveInv, TypeOK, Forgotten, After, client
<1>4. HandedUp' /\ WindowOpen' /\ EdgeInv'
  BY <1>1 DEF ReceiveInv, HandedUp, WindowOpen, EdgeInv, EdgeOf
<1>5. pcb.rcv_nxt \in Nat /\ acked \in Nat /\ acked <= pcb.rcv_nxt
  BY DEF ReceiveInv, TypeOK, DueInv, Pcb
<1>6. Excused => Excused'
  BY <1>1, <1>2 DEF Excused, Forgotten, Null
<1>7. timer = "fast" => Excused'
  <2>1. CASE pcb.now = 0 /\ forgot' = forgot
    BY <1>1, <1>2, <1>6, <2>1 DEF ReceiveInv, DueInv
  <2>2. CASE forgot' \in {Forgotten("nagle"), Forgotten("memory")}
    <3>1. CASE acked < pcb.rcv_nxt
      BY <2>2, <3>1 DEF Excused, Forgotten, Null
    <3>2. CASE acked = pcb.rcv_nxt
      BY <1>1, <3>2 DEF Excused
    <3> QED
      BY <1>5, <3>1, <3>2
  <2> QED
    BY <2>1, <2>2 DEF OutputNothing
<1>8. DueInv'
  BY <1>1, <1>2, <1>5, <1>6, <1>7 DEF ReceiveInv, TypeOK, DueInv, After
<1> QED
  BY <1>3, <1>4, <1>8 DEF ReceiveInv

LEMMA OutputEchoKeeps == ReceiveInv /\ OutputEcho => ReceiveInv'
<1> SUFFICES ASSUME ReceiveInv, OutputEcho PROVE ReceiveInv'
  OBVIOUS
<1>1. PICK r \in Piggybacked(pcb) : Becomes(r)
  BY DEF OutputEcho
<1>2. /\ UNCHANGED <<hdr, faults, data, client, app>>
      /\ timer' = "fast" /\ pc' = After
  BY DEF OutputEcho, Elsewhere, At
<1>3. pcb \in Pcb /\ pcb.rcv_nxt \in Nat
  BY DEF ReceiveInv, TypeOK, Pcb
<1>4. OutputOf(pcb, r)
  BY <1>1, <1>3, PiggybackedResult
<1>5. r.out # {}
  BY <1>1 DEF Piggybacked, Acknowledged
<1>6. /\ pcb' = r.pcb /\ pcb' \in Pcb /\ pcb'.rcv_nxt = pcb.rcv_nxt
      /\ pcb'.rcv_wnd = pcb.rcv_wnd /\ pcb'.ann_wnd = pcb.ann_wnd
      /\ pcb'.right_edge = pcb.rcv_nxt + pcb.ann_wnd
      /\ acked' = pcb.rcv_nxt /\ forgot' = Null /\ acks' \subseteq Nat
  BY <1>1, <1>4, <1>5 DEF OutputOf, Becomes, Recorded, ReceiveInv, TypeOK
<1>7. TypeOK'
  BY <1>2, <1>3, <1>6 DEF ReceiveInv, TypeOK, After, client
<1>8. HandedUp' /\ DueInv'
  BY <1>2, <1>3, <1>6 DEF ReceiveInv, HandedUp, DueInv, Excused
<1>9. WindowOpen' /\ EdgeInv'
  BY <1>2, <1>3, <1>6, ReceiveAssumption DEF ReceiveInv, WindowOpen, EdgeInv, EdgeOf
<1> QED
  BY <1>7, <1>8, <1>9 DEF ReceiveInv

LEMMA HeaderAckKeeps == ReceiveInv /\ HeaderAck => ReceiveInv'
<1> SUFFICES ASSUME ReceiveInv, HeaderAck PROVE ReceiveInv'
  OBVIOUS
<1>1. pcb \in Pcb /\ pcb.rcv_nxt \in Nat /\ hdr \in [ack : Nat, nxt : Nat, ann : Int]
  BY DEF ReceiveInv, TypeOK, Pcb
<1>2. /\ hdr' \in [ack : Nat, nxt : Nat, ann : Int] /\ hdr'.ack = pcb.rcv_nxt
      /\ hdr'.nxt = hdr.nxt /\ hdr'.ann = hdr.ann
  BY <1>1 DEF HeaderAck
<1>3. /\ UNCHANGED <<pcb, timer, acks, faults, ghosts, data, client, app>>
      /\ pc' = "read"
  BY DEF HeaderAck, Elsewhere, At
<1> QED
  BY <1>1, <1>2, <1>3 DEF ReceiveInv, TypeOK, HandedUp, WindowOpen, EdgeInv, EdgeOf,
     DueInv, Excused, client, ghosts

LEMMA HeaderReadKeeps == ReceiveInv /\ HeaderRead => ReceiveInv'
<1> SUFFICES ASSUME ReceiveInv, HeaderRead PROVE ReceiveInv'
  OBVIOUS
<1>1. /\ pcb \in Pcb /\ pcb.rcv_nxt \in Nat /\ pcb.ann_wnd \in Int /\ pcb.ann_wnd <= Wnd
      /\ hdr \in [ack : Nat, nxt : Nat, ann : Int]
  BY ReceiveAssumption DEF ReceiveInv, TypeOK, WindowOpen, Pcb
<1>2. /\ hdr' \in [ack : Nat, nxt : Nat, ann : Int] /\ hdr'.ack = hdr.ack
      /\ hdr'.nxt = pcb.rcv_nxt /\ hdr'.ann = pcb.ann_wnd
  BY <1>1 DEF HeaderRead
<1>3. /\ UNCHANGED <<pcb, timer, acks, faults, ghosts, data, client, app>>
      /\ pc = "read" /\ pc' = "store"
  BY DEF HeaderRead, Elsewhere, At
<1> QED
  BY <1>1, <1>2, <1>3 DEF ReceiveInv, TypeOK, HandedUp, WindowOpen, EdgeInv, EdgeOf,
     DueInv, Excused, client, ghosts

\* The edge is of two moments, and is still within the window.
LEMMA HeaderStoreKeeps == ReceiveInv /\ HeaderStore => ReceiveInv'
<1> SUFFICES ASSUME ReceiveInv, HeaderStore PROVE ReceiveInv'
  OBVIOUS
<1>1. PICK edgeRead \in {hdr.nxt + pcb.ann_wnd, pcb.rcv_nxt + hdr.ann} :
        pcb' = [pcb EXCEPT !.right_edge = edgeRead]
  BY DEF HeaderStore
<1>2. /\ pcb \in Pcb /\ pcb.rcv_nxt \in Nat /\ pcb.ann_wnd \in Int /\ pcb.ann_wnd <= Wnd
      /\ hdr \in [ack : Nat, nxt : Nat, ann : Int] /\ Wnd \in Nat
  BY ReceiveAssumption DEF ReceiveInv, TypeOK, WindowOpen, Pcb
<1>3. edgeRead \in Int /\ edgeRead <= pcb.rcv_nxt + Wnd
  BY <1>2 DEF ReceiveInv, EdgeInv
<1>4. /\ pcb' \in Pcb /\ pcb'.rcv_nxt = pcb.rcv_nxt /\ pcb'.rcv_wnd = pcb.rcv_wnd
      /\ pcb'.ann_wnd = pcb.ann_wnd /\ pcb'.right_edge = edgeRead
      /\ pcb'.delay = pcb.delay /\ pcb'.now = pcb.now
  BY <1>1, <1>2, <1>3 DEF Pcb
<1>5. /\ hdr' \in [ack : Nat, nxt : Nat, ann : Int] /\ hdr'.ack = hdr.ack
      /\ hdr'.nxt = 0 /\ hdr'.ann = 0
  BY <1>2 DEF HeaderStore, NoHeader
<1>6. /\ UNCHANGED <<timer, acks, faults, ghosts, data, client, app>>
      /\ pc = "store" /\ pc' = "send"
  BY DEF HeaderStore, Elsewhere, At
<1> QED
  BY <1>2, <1>3, <1>4, <1>5, <1>6 DEF ReceiveInv, TypeOK, HandedUp, WindowOpen, EdgeInv,
     EdgeOf, DueInv, Excused, client, ghosts

LEMMA HeaderSendKeeps == ReceiveInv /\ HeaderSend => ReceiveInv'
<1> SUFFICES ASSUME ReceiveInv, HeaderSend PROVE ReceiveInv'
  OBVIOUS
<1>1. /\ pcb \in Pcb /\ pcb.rcv_nxt \in Nat /\ acked \in Nat
      /\ hdr \in [ack : Nat, nxt : Nat, ann : Int]
  BY DEF ReceiveInv, TypeOK, Pcb
<1>2. /\ pcb' \in Pcb /\ pcb'.rcv_nxt = pcb.rcv_nxt /\ pcb'.rcv_wnd = pcb.rcv_wnd
      /\ pcb'.ann_wnd = pcb.ann_wnd /\ pcb'.right_edge = pcb.right_edge
  BY <1>1 DEF HeaderSend, Pcb, Flag
<1>3. /\ UNCHANGED <<faults, data, client, app>>
      /\ pc = "send" /\ pc' = After /\ timer' = "fast" /\ hdr' = NoHeader
      /\ acked' = High(acked, hdr.ack)
      /\ forgot' = IF hdr.ack = pcb.rcv_nxt THEN Null ELSE forgot
      /\ acks' \subseteq Nat
  BY <1>1 DEF HeaderSend, Elsewhere, At, ReceiveInv, TypeOK
<1>4. TypeOK'
  BY <1>1, <1>2, <1>3 DEF ReceiveInv, TypeOK, NoHeader, After, High, client
<1>5. HandedUp' /\ WindowOpen' /\ EdgeInv'
  BY <1>1, <1>2, <1>3, ReceiveAssumption DEF ReceiveInv, HandedUp, WindowOpen, EdgeInv,
     EdgeOf, NoHeader
<1>6. acked' <= pcb'.rcv_nxt /\ Excused'
  BY <1>1, <1>2, <1>3 DEF ReceiveInv, EdgeInv, DueInv, Excused, High
<1>7. DueInv'
  BY <1>3, <1>6 DEF DueInv, After
<1> QED
  BY <1>4, <1>5, <1>7 DEF ReceiveInv

LEMMA FastClearKeeps == ReceiveInv /\ FastClear => ReceiveInv'
<1> SUFFICES ASSUME ReceiveInv, FastClear PROVE ReceiveInv'
  OBVIOUS
<1>1. /\ pcb' \in Pcb /\ pcb'.rcv_nxt = pcb.rcv_nxt /\ pcb'.rcv_wnd = pcb.rcv_wnd
      /\ pcb'.ann_wnd = pcb.ann_wnd /\ pcb'.right_edge = pcb.right_edge
  BY DEF ReceiveInv, TypeOK, FastClear, Pcb, Flag
<1> QED
  BY <1>1 DEF ReceiveInv, TypeOK, HandedUp, WindowOpen, EdgeInv, EdgeOf, DueInv,
     Excused, FastClear, At, Elsewhere, client, ghosts

-----------------------------------------------------------------------------
(* The invariant is kept: the client and the network.                      *)

\* They change neither the pcb nor what is known of it.
LEMMA BoardKeeps ==
  ReceiveInv /\ Board => HandedUp' /\ WindowOpen' /\ EdgeInv' /\ DueInv'
BY DEF ReceiveInv, HandedUp, WindowOpen, EdgeInv, EdgeOf, DueInv, Excused, Board, main,
   ghosts

LEMMA NetworkKeeps ==
  ReceiveInv /\ (Send \/ Resend \/ AckArrives \/ Lose) => ReceiveInv'
<1> SUFFICES ASSUME ReceiveInv, Send \/ Resend \/ AckArrives \/ Lose PROVE ReceiveInv'
  OBVIOUS
<1>1. Board
  BY DEF Send, Resend, AckArrives, Lose
<1>2. /\ nxt \in Nat /\ una \in Nat /\ faults \in Nat
      /\ data \subseteq Seg /\ acks \subseteq Nat
  BY DEF ReceiveInv, TypeOK
<1>3. /\ data' \subseteq Seg /\ acks' \subseteq Nat /\ una' \in Nat /\ nxt' \in Nat
      /\ faults' \in Nat
  <2>1. CASE Send
    <3>1. PICK len \in 1..Low(Mss, Total - nxt) :
            /\ data' = data \cup {[seq |-> nxt, len |-> len]}
            /\ nxt' = nxt + len
      BY <2>1 DEF Send
    <3>2. len \in Nat
      BY <1>2, ReceiveAssumption DEF Low
    <3> QED
      BY <1>2, <2>1, <3>1, <3>2 DEF Send, Seg
  <2>2. CASE Resend
    <3>1. PICK len \in 1..Low(Mss, nxt - una) :
            data' = data \cup {[seq |-> una, len |-> len]}
      BY <2>2 DEF Resend
    <3>2. len \in Nat
      BY <1>2, ReceiveAssumption DEF Low
    <3> QED
      BY <1>2, <2>2, <3>1, <3>2 DEF Resend, client, Seg
  <2>3. CASE AckArrives
    BY <1>2, <2>3 DEF AckArrives, High
  <2>4. CASE Lose
    <3>1. data' \subseteq data /\ acks' \subseteq acks
      BY <2>4 DEF Lose
    <3>2. faults' = faults + 1 /\ UNCHANGED client
      BY <2>4 DEF Lose
    <3> QED
      BY <1>2, <3>1, <3>2 DEF client
  <2> QED
    BY <2>1, <2>2, <2>3, <2>4
<1>4. TypeOK'
  BY <1>1, <1>3 DEF ReceiveInv, TypeOK, Board, main, ghosts
<1> QED
  BY <1>1, <1>4, BoardKeeps DEF ReceiveInv

-----------------------------------------------------------------------------
(* The theorems.                                                           *)

LEMMA ReceiveStep == ReceiveInv /\ [Next]_vars => ReceiveInv'
<1> SUFFICES ASSUME ReceiveInv, [Next]_vars PROVE ReceiveInv'
  OBVIOUS
<1>1. CASE Segment
  BY <1>1, SegmentKeeps
<1>2. CASE EchoAcked
  BY <1>2, EchoAckedKeeps
<1>3. CASE MainLoop
  BY <1>3, FastStartKeeps, FastNowKeeps, SlowStartKeeps, OutputNothingKeeps,
     OutputEchoKeeps, HeaderAckKeeps, HeaderReadKeeps, HeaderStoreKeeps,
     HeaderSendKeeps, FastClearKeeps
     DEF MainLoop, tcp_fasttmr, tcp_slowtmr, tcp_send_empty_ack
<1>4. CASE Send \/ Resend \/ AckArrives \/ Lose
  BY <1>4, NetworkKeeps
<1>5. CASE UNCHANGED vars
  BY <1>5 DEF ReceiveInv, TypeOK, HandedUp, WindowOpen, EdgeInv, EdgeOf, DueInv,
     Excused, vars, main, net, client, ghosts
<1> QED
  BY <1>1, <1>2, <1>3, <1>4, <1>5 DEF Next

\* Each byte is handed to the program once and in its place, the right one up to the
\* first pbuf, and to COM2 up to the 8 bits of a length: for any sizes of segments,
\* pbufs and messages, any number of faults and any interruption.
THEOREM BytesOnce == Spec => []HandedUp
<1>1. ReceiveInv => HandedUp
  BY DEF ReceiveInv
<1> QED
  BY <1>1, ReceiveInit, ReceiveStep, PTL DEF Spec

\* No acknowledgement is forgotten but in the three cases: a segment between the
\* header and the last clearing of the flags, Nagle's algorithm, no memory.
THEOREM AckRemembered == Spec => []NoAckForgotten
BY ReceiveInit, ReceiveStep, InvImpliesNoAckForgotten, PTL DEF Spec

\* The window stays open by more than Wnd - Mss, whatever the right edge is made of.
THEOREM StaysOpen == Spec => []WindowOpen
<1>1. ReceiveInv => WindowOpen
  BY DEF ReceiveInv
<1> QED
  BY <1>1, ReceiveInit, ReceiveStep, PTL DEF Spec
=============================================================================
