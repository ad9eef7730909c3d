------------------------------ MODULE TcpServer ------------------------------
(***************************************************************************)
(* The application, User/drivers/tcp/tcpserver.c, on lwIP's protocol       *)
(* control blocks (core/tcp.c, core/tcp_in.c, core/memp.c).  Segments of   *)
(* the clients are processed in the Ethernet interrupt, and the callbacks  *)
(* with them; the main loop sends to the client, lets lwIP's timers drop   *)
(* dead connections and checks the connection every 20 s.  The interrupt   *)
(* comes between any two statements of the main loop and finishes before   *)
(* it goes on, so a segment is one action.                                 *)
(*                                                                         *)
(* A pcb that is freed keeps its memory, and anyone may still point to it. *)
(* The first use of a pointer to no connection, or to another one than was *)
(* meant, is recorded in misuse and ends the behaviour: nothing is known   *)
(* of what comes after it.                                                 *)
(***************************************************************************)
EXTENDS Integers, Sequences, SequencesExt, FiniteSetsExt

CONSTANTS
  Clients,      \* remote ends, one connection each
  AtServerPort, \* those whose port is getServerPort()
  NumPcb        \* MEMP_NUM_TCP_PCB

ASSUME TcpAssumption == AtServerPort \subseteq Clients /\ NumPcb \in Nat \ {0}

Pcbs == 1..NumPcb
Null == 0

TCP_PRIO_MIN == 1
TCP_PRIO_NORMAL == 64
TCP_PRIO_MAX == 127

VARIABLES
  pool,         \* memp_tab[MEMP_TCP_PCB]: the free pcbs, next one first
  active,       \* tcp_active_pcbs, first one first
  remote,       \* remote[s]: remote end of pcb s
  state, prio,  \* pcb->state and pcb->prio
  recv,         \* recv[s]: pcb->recv is OnTcpServerRecv, not lwIP's default
  connectFlag,
  client, peer, \* tcp_client_pcb, and the remote end it was accepted with
  pc, cpcb,     \* main loop: next statement, and cpcb of CheckForConnection
  closing,      \* CloseTcp: its argument, and the peer of that
  steady,       \* CheckForConnection: the connections to the server port that
                \* were established when it began and still are
  moved,        \* those a segment has moved to the front during the last walk
  refused,      \* some SYN found no pcb
  misuse        \* the first use of a wrong pointer, "none" so far

pcbs == <<remote, state, prio, recv>>
lists == <<pool, active>>
app == <<connectFlag, client, peer>>
main == <<pc, cpcb, closing>>
ghosts == <<steady, moved, refused, misuse>>
vars == <<lists, pcbs, app, main, ghosts>>

\* After InitTcpServer: the listening pcb comes from a pool of its own, and
\* tcp_listen has given back the pcb of tcp_new.
Init == /\ pool = [i \in Pcbs |-> NumPcb + 1 - i]
        /\ active = << >>
        /\ remote \in [Pcbs -> {Null}]
        /\ state = [s \in Pcbs |-> "CLOSED"]
        /\ prio = [s \in Pcbs |-> 0]
        /\ recv = [s \in Pcbs |-> FALSE]
        /\ connectFlag = 0
        /\ client = Null /\ peer = Null
        /\ pc = "loop" /\ cpcb = Null
        /\ closing = [pcb |-> Null, peer |-> Null]
        /\ steady = {} /\ moved = {}
        /\ refused = FALSE
        /\ misuse = "none"

Live(s) == s \in ToSet(active)
\* Pointer s still leads to the connection with c.
LeadsTo(s, c) == Live(s) /\ remote[s] = c
PcbsOf(c) == {s \in ToSet(active) : remote[s] = c}
Successor(s) ==
  LET later == {i \in DOMAIN active : i > 1 /\ active[i - 1] = s}
  IN IF later = {} THEN Null ELSE active[Min(later)]
Head0(list) == IF list = << >> THEN Null ELSE Head(list)

\* TCP_RMV: what is before s in the list is linked to what is behind it.
Without(list, s) ==
  LET at == CHOOSE i \in DOMAIN list : list[i] = s
  IN IF s \in ToSet(list)
       THEN [i \in 1..Len(list) - 1 |-> IF i < at THEN list[i] ELSE list[i + 1]]
       ELSE list
ToFront(s) == <<s>> \o Without(active, s)

\* A segment came for pcb s.
Touch(s) ==
  /\ active' = ToFront(s)
  /\ moved' = IF pc = "walk" /\ s # Head(active) THEN moved \cup {s} ELSE moved

-----------------------------------------------------------------------------
(* A definition named Faulty_X is X with one mistake in it; no             *)
(* specification uses it, it is there to see which property X answers for. *)

\* The pcb is given back, and stays on the list.
Faulty_Free(s) ==
  /\ pool' = <<s>> \o pool
  /\ state' = [state EXCEPT ![s] = "CLOSED"]
  /\ steady' = steady \ {s} /\ moved' = moved \ {s}
  /\ UNCHANGED active

\* tcp_pcb_remove and memp_free
Free(s) ==
  /\ active' = Without(active, s)
  /\ pool' = <<s>> \o pool
  /\ state' = [state EXCEPT ![s] = "CLOSED"]
  /\ steady' = steady \ {s} /\ moved' = moved \ {s}

-----------------------------------------------------------------------------
(* Segments.                                                               *)

\* tcp_kill_prio: the list is in the order of the last segments, newest first,
\* so the scan ends at the last of the least important ones.
Victim(p) ==
  LET killable == {i \in DOMAIN active : prio[active[i]] <= p}
      least == {i \in killable : \A j \in killable :
                                   prio[active[i]] <= prio[active[j]]}
  IN IF killable = {} THEN Null ELSE active[Max(least)]

\* The pcb that tcp_alloc gives a new connection, freed by a kill or not.
Allocated == IF pool # << >> THEN Head(pool) ELSE Victim(TCP_PRIO_NORMAL)

\* tcp_listen_input.
Syn(c) ==
  /\ PcbsOf(c) = {}
  /\ LET s == Allocated
     IN IF s = Null
          THEN refused' = TRUE /\ UNCHANGED <<lists, pcbs, steady, moved>>
          ELSE /\ pool' = Without(pool, s)
               /\ active' = ToFront(s)
               /\ remote' = [remote EXCEPT ![s] = c]
               /\ state' = [state EXCEPT ![s] = "SYN_RCVD"]
               /\ prio' = [prio EXCEPT ![s] = TCP_PRIO_NORMAL]
               /\ recv' = [recv EXCEPT ![s] = FALSE]
               /\ steady' = steady \ {s} /\ moved' = moved \ {s}
               /\ UNCHANGED refused
  /\ UNCHANGED <<app, main, misuse>>

\* Without memory for the SYN|ACK the new pcb is abandoned at once; one that
\* was killed for it stays dead.
SynNoMemory(c) ==
  /\ PcbsOf(c) = {}
  /\ LET s == Allocated
     IN /\ s # Null
        /\ pool' = <<s>> \o Without(pool, s)
        /\ active' = Without(active, s)
        /\ remote' = [remote EXCEPT ![s] = c]
        /\ state' = [state EXCEPT ![s] = "CLOSED"]
        /\ prio' = [prio EXCEPT ![s] = TCP_PRIO_NORMAL]
        /\ recv' = [recv EXCEPT ![s] = FALSE]
        /\ steady' = steady \ {s} /\ moved' = moved \ {s}
  /\ UNCHANGED <<app, main, refused, misuse>>

\* OnTcpServerAccept with the highest priority.
Faulty_OnTcpServerAccept(s) ==
  /\ connectFlag' = 1
  /\ client' = s /\ peer' = remote[s]
  /\ prio' = [prio EXCEPT ![s] = TCP_PRIO_MAX]
  /\ recv' = [recv EXCEPT ![s] = TRUE]

\* OnTcpServerAccept leaves the flag to the check.
Faulty_OnTcpServerAccept_Flag(s) ==
  /\ client' = s /\ peer' = remote[s]
  /\ prio' = [prio EXCEPT ![s] = TCP_PRIO_MIN]
  /\ recv' = [recv EXCEPT ![s] = TRUE]
  /\ UNCHANGED connectFlag

OnTcpServerAccept(s) ==
  /\ connectFlag' = 1
  /\ client' = s /\ peer' = remote[s]
  /\ prio' = [prio EXCEPT ![s] = TCP_PRIO_MIN]
  /\ recv' = [recv EXCEPT ![s] = TRUE]

\* The ACK of the SYN|ACK.
Establish(s) ==
  /\ state[s] = "SYN_RCVD"
  /\ state' = [state EXCEPT ![s] = "ESTABLISHED"]
  /\ Touch(s)
  /\ OnTcpServerAccept(s)
  /\ UNCHANGED <<pool, remote, main, steady, refused, misuse>>

\* SendTcpDataToClient; what tcp_write queues is not modelled.
SendTcpDataToClient ==
  misuse' = IF connectFlag = 1 /\ ~LeadsTo(client, peer) THEN "write" ELSE misuse

\* Data: OnTcpServerRecv echoes it, lwIP's default callback drops it.
Data(s) ==
  /\ state[s] = "ESTABLISHED"
  /\ Touch(s)
  /\ IF recv[s] THEN SendTcpDataToClient ELSE UNCHANGED misuse
  /\ UNCHANGED <<pool, pcbs, app, main, steady, refused>>

\* Nothing new: a duplicate, an acknowledgement.
Ack(s) ==
  /\ Touch(s)
  /\ UNCHANGED <<pool, pcbs, app, main, steady, refused, misuse>>

\* FIN: OnTcpServerRecv does not close, lwIP's default callback does.
Fin(s) ==
  /\ state[s] = "ESTABLISHED"
  /\ Touch(s)
  /\ state' = [state EXCEPT ![s] = IF recv[s] THEN "CLOSE_WAIT" ELSE "LAST_ACK"]
  /\ steady' = steady \ {s}
  /\ UNCHANGED <<pool, remote, prio, recv, app, main, refused, misuse>>

\* RST, or the ACK of our FIN.  No error callback is registered.
Reset(s) ==
  /\ Free(s)
  /\ UNCHANGED <<remote, prio, recv, app, main, refused, misuse>>

Segment ==
  \/ \E c \in Clients : Syn(c) \/ SynNoMemory(c)
  \/ \E s \in ToSet(active) : 
          Establish(s) \/ Data(s) \/ Ack(s) \/ Fin(s) \/ Reset(s)

-----------------------------------------------------------------------------
(* The main loop.                                                          *)

Step(at, to) == pc = at /\ pc' = to

\* tcp_slowtmr drops a connection: too many retries, or a state that timed out.
Expire(s) ==
  /\ pc = "loop"
  /\ Free(s)
  /\ UNCHANGED <<remote, prio, recv, app, main, refused, misuse>>

\* COM2 had data: SendTcpDataToClient returns ERR_CONN, or goes on to tcp_write.
SendCheck ==
  /\ connectFlag = 1
  /\ Step("loop", "write")
  /\ UNCHANGED <<lists, pcbs, app, cpcb, closing, ghosts>>

SendWrite ==
  /\ Step("write", "loop")
  /\ misuse' = IF LeadsTo(client, peer) THEN misuse ELSE "write"
  /\ UNCHANGED <<lists, pcbs, app, cpcb, closing, steady, moved, refused>>

Matches(s) == remote[s] \in AtServerPort

Established ==
  {s \in ToSet(active) : Matches(s) /\ state[s] = "ESTABLISHED"}

\* CheckForConnection leaves the flag as it was.
Faulty_CheckStart ==
  /\ Step("loop", "walk")
  /\ cpcb' = Head0(active)
  /\ steady' = Established /\ moved' = {}
  /\ UNCHANGED <<lists, pcbs, app, closing, refused, misuse>>

CheckStart ==
  /\ Step("loop", "walk")
  /\ connectFlag' = 0
  /\ cpcb' = Head0(active)
  /\ steady' = Established /\ moved' = {}
  /\ UNCHANGED <<lists, pcbs, client, peer, closing, refused, misuse>>

\* The walk stops at the connection and does not raise the flag.
Faulty_CheckPcb ==
  /\ pc = "walk"
  /\ cpcb # Null
  /\ IF Matches(cpcb)
       THEN pc' = "test" /\ UNCHANGED cpcb
       ELSE UNCHANGED pc /\ cpcb' = Successor(cpcb)
  /\ UNCHANGED <<lists, pcbs, app, closing, ghosts>>

\* One pcb of the list.  If it was freed meanwhile, its next is anyone's.
CheckPcb ==
  /\ pc = "walk"
  /\ cpcb # Null
  /\ misuse' = IF Live(cpcb) THEN misuse ELSE "walk"
  /\ IF Matches(cpcb)
       THEN connectFlag' = 1 /\ pc' = "test" /\ UNCHANGED cpcb
       ELSE UNCHANGED <<connectFlag, pc>> /\ cpcb' = Successor(cpcb)
  /\ UNCHANGED <<lists, pcbs, client, peer, closing, steady, moved, refused>>

CheckEnd ==
  /\ cpcb = Null
  /\ Step("walk", "test")
  /\ UNCHANGED <<lists, pcbs, app, cpcb, closing, ghosts>>

\* if (!connectFlag) CloseTcp(tcp_client_pcb)
CheckFlag ==
  /\ IF connectFlag = 1
       THEN Step("test", "loop") /\ steady' = {}
       ELSE Step("test", "argument") /\ UNCHANGED steady
  /\ UNCHANGED <<lists, pcbs, app, cpcb, closing, moved, refused, misuse>>

CloseArgument ==
  /\ Step("argument", "abort")
  /\ closing' = [pcb |-> client, peer |-> peer]
  /\ UNCHANGED <<lists, pcbs, app, cpcb, ghosts>>

\* tcp_abort
Abort ==
  /\ Step("abort", "detach")
  /\ IF LeadsTo(closing.pcb, closing.peer)
       THEN Free(closing.pcb) /\ UNCHANGED misuse
       ELSE misuse' = "abort" /\ UNCHANGED <<lists, state, steady, moved>>
  /\ UNCHANGED <<remote, prio, recv, app, cpcb, closing, refused>>

\* tcp_arg ... tcp_poll on the pcb that was just freed; harmless, unless a new
\* connection has got it.
Detach ==
  /\ Step("detach", "loop")
  /\ recv' = [recv EXCEPT ![closing.pcb] = FALSE]
  /\ misuse' = IF Live(closing.pcb) THEN "detach" ELSE misuse
  /\ steady' = {}
  /\ UNCHANGED <<lists, remote, state, prio, app, cpcb, closing, moved, refused>>

CheckForConnection ==
  \/ CheckStart \/ CheckPcb \/ CheckEnd \/ CheckFlag
  \/ CloseArgument \/ Abort \/ Detach

-----------------------------------------------------------------------------
Next ==
  /\ misuse = "none"
  /\ \/ Segment
     \/ \E s \in ToSet(active) : Expire(s)
     \/ SendCheck \/ SendWrite
     \/ CheckForConnection

Spec == Init /\ [][Next]_vars

\* The main loop runs on, and comes to the check again and again (Served of
\* PeriodicEvents), whatever it sends.
Started == misuse = "none" /\ CheckStart
GoesOn == misuse = "none" /\ pc # "loop" /\ (CheckForConnection \/ SendWrite)
FairSpec == Spec /\ SF_vars(Started) /\ WF_vars(GoesOn)

-----------------------------------------------------------------------------
TypeOK ==
  /\ pool \in Seq(Pcbs) /\ active \in Seq(Pcbs)
  /\ remote \in [Pcbs -> Clients \cup {Null}]
  /\ state \in [Pcbs -> {"CLOSED", "SYN_RCVD", "ESTABLISHED", "CLOSE_WAIT",
                         "LAST_ACK"}]
  /\ prio \in [Pcbs -> 0..TCP_PRIO_MAX]
  /\ recv \in [Pcbs -> BOOLEAN]
  /\ connectFlag \in {0, 1}
  /\ client \in Pcbs \cup {Null}
  /\ peer \in Clients \cup {Null}
  /\ pc \in {"loop", "write", "walk", "test", "argument", "abort", "detach"}
  /\ cpcb \in Pcbs \cup {Null}
  /\ closing \in [pcb : Pcbs \cup {Null}, peer : Clients \cup {Null}]
  /\ steady \subseteq Established
  /\ moved \subseteq Pcbs
  /\ refused \in BOOLEAN
  /\ misuse \in {"none", "write", "walk", "abort", "detach"}

\* Every pcb is free or active, once, and the active ones are not closed (the
\* assertion tcp_in.c:171): whatever order connections come, are killed for
\* others and go in, none leaks its pcb and no two share one.
PoolSound ==
  LET all == pool \o active
  IN /\ TypeOK
     /\ Len(all) = NumPcb /\ ToSet(all) = Pcbs
     /\ \A s \in Pcbs : Live(s) <=> state[s] # "CLOSED"

\* A new connection always gets a pcb, however many there are: the accepted
\* ones are of the lowest priority and give way.  Nothing ever times out a
\* client that went away in CLOSE_WAIT; this is what reclaims its pcb.
Admitted == ~refused

\* SendTcpDataToClient turns away no connection to the server port, but one the
\* last walk has missed: if the check lowers the flag under one that is being
\* accepted, the accept raises it again.
FlagCoversConnection ==
  pc \notin {"walk", "test"} /\ Established \ moved # {} => connectFlag = 1

\* The connections the check looks for, whatever their state.
Matching == {s \in ToSet(active) : Matches(s)}

\* When the network falls silent, the flag comes to say what it is meant to: it
\* does not stay up over a connection that is gone, nor down under one that is
\* there.  (With no such connection the second check misuses a pointer.)
Silence == <>[][~Segment]_vars
FlagSettles ==
  Silence => \/ <>(misuse # "none")
             \/ <>[](pc = "loop" => (connectFlag = 1 <=> Matching # {}))

Aborting == pc = "abort" /\ pc' = "detach" /\ misuse' = "none"

\* The check does not close a connection to the server port that was
\* established when it began, whatever segments do to the others meanwhile,
\* unless one moves that very connection past the walk.
SteadyKept == [][Aborting => closing.pcb \notin steady \ moved]_vars
=============================================================================
