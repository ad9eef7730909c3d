------------------------------ MODULE TcpTimers ------------------------------
(***************************************************************************)
(* tcp_tmr (core/tcp.c): the main loop walks tcp_active_pcbs in            *)
(* tcp_fasttmr and tcp_slowtmr, and gives the pcbs that timed out back to  *)
(* their pool, while the Ethernet interrupt moves the pcb of each segment  *)
(* to the front of the same list, adds and removes others and takes from   *)
(* the same pool.  Nothing is protected (SYS_LIGHTWEIGHT_PROT 0).          *)
(*                                                                         *)
(* The list and the pool are the linked lists of the code.  The interrupt  *)
(* comes between any two statements of the walks and finishes before they  *)
(* go on.  tcp_timer_ctr and pcb->last_timer have eight bits and are only  *)
(* compared with each other: seen is the set of the pcbs for which they    *)
(* are equal.  (That a pcb is missed 255 times in a row is left out.)      *)
(*                                                                         *)
(* In upset the model records what the interrupt did to the walk that is   *)
(* going on.  A list that is out of order ends the behaviour.              *)
(*                                                                         *)
(* No definition has the name of one of PeriodicEvents or Nvic: MainProof  *)
(* extends the three.                                                      *)
(***************************************************************************)
EXTENDS Integers, FiniteSets

CONSTANTS
  NumPcb,     \* MEMP_NUM_TCP_PCB
  MaxUpsets   \* bound: what the interrupt does to one walk

ASSUME TimersAssumption == NumPcb \in Nat \ {0}

Pcbs == 1..NumPcb
Null == 0

VARIABLES
  active,     \* tcp_active_pcbs
  next,       \* next[s]: pcb->next
  pool,       \* memp_tab[MEMP_TCP_PCB]
  memp,       \* memp[s]: the link of a free pcb
  seen,       \* the pcbs with last_timer = tcp_timer_ctr
  changed,    \* tcp_active_pcbs_changed
  tick,       \* the low bit of tcp_timer
  stmt,       \* next statement of the main loop
  pcb, prev,  \* variables of the walks; pcb2 while it is given back
  pcb2,
  unvisited,  \* the pcbs the walk has found and not yet visited
  upset       \* what the interrupt did to this walk

lists == <<active, next>>
pools == <<pool, memp>>
walk == <<stmt, pcb, prev, pcb2, tick>>
ghosts == <<unvisited, upset>>
timersVars == <<lists, pools, seen, changed, walk, ghosts>>

TimersInit ==
  /\ active = Null
  /\ next = [s \in Pcbs |-> Null]
  /\ pool = NumPcb
  /\ memp = [s \in Pcbs |-> s - 1]
  /\ seen = {}
  /\ changed = 0
  /\ tick = 0
  /\ stmt = "loop"
  /\ pcb = Null /\ prev = Null /\ pcb2 = Null
  /\ unvisited = {} /\ upset = {}

\* Entry k of the list that begins at head, Null behind its end.
Nth(head, link) ==
  LET at[k \in 0..NumPcb] ==
        IF k = 0 THEN head
        ELSE IF at[k - 1] = Null THEN Null ELSE link[at[k - 1]]
  IN at

EntriesOf(head, link) == {Nth(head, link)[k] : k \in 0..NumPcb} \ {Null}
Ends(head, link) == Nth(head, link)[NumPcb] = Null

Active == EntriesOf(active, next)
Pool == EntriesOf(pool, memp)

\* Unlinked by tcp_slowtmr, and not yet in the pool.
InTransit == IF stmt = "release" THEN {pcb} ELSE IF stmt = "give" THEN {pcb2} ELSE {}

\* tcp_impl.h:325: "Every TCP PCB that is not CLOSED is in one of the lists.
\* A PCB is only in one of the lists", and the pool has the others.
ListsInOrder ==
  /\ Ends(active, next) /\ Ends(pool, memp)
  /\ Active \cup Pool \cup InTransit = Pcbs
  /\ Active \cap Pool = {} /\ (Active \cup Pool) \cap InTransit = {}

-----------------------------------------------------------------------------
(* A definition named Faulty_X is X with one mistake in it; no             *)
(* specification uses it, it is there to see which property X answers for. *)

(* The interrupt.                                                          *)

Unlinking == {"slow", "unlink", "release", "give", "advance", "clear", "test"}
InHand == {pcb} \cup (IF stmt = "release" THEN {next[pcb]} ELSE {})

\* What the interrupt does to the walk when it moves or removes s: the walk has
\* s in a variable, or takes the first pcb for the one before it.
Upsets(s) == (IF stmt # "loop" /\ s \in InHand THEN {"current"} ELSE {})
        \cup (IF stmt # "loop" /\ s = prev THEN {"previous"} ELSE {})
        \cup (IF stmt \in Unlinking /\ prev = Null /\ active' # active
               THEN {"first"} ELSE {})
        \cup (IF stmt = "give" /\ pool' # pool THEN {"pool"} ELSE {})

\* What it does when it registers a pcb.
UpsetsNew == IF stmt \in {"fasthead", "slowhead"} THEN {"new"} ELSE {}

\* The list without s (TCP_RMV), which keeps its own link.
Unlinked(s) ==
  [q \in Pcbs |-> IF q \in Active /\ next[q] = s THEN next[s] ELSE next[q]]

\* tcp_input moves the pcb of a segment to the front.
MoveToFront(s) ==
  /\ s # active /\ UNCHANGED pools
  /\ next' = [Unlinked(s) EXCEPT ![s] = active]
  /\ active' = s
  /\ unvisited' = unvisited \ {s}
  /\ upset' = upset \cup Upsets(s)
  /\ UNCHANGED <<seen, changed, walk>>

\* RST, or the last ACK: tcp_pcb_remove and memp_free.
Reset(s) ==
  /\ active' = IF s = active THEN next[s] ELSE active
  /\ next' = [Unlinked(s) EXCEPT ![s] = Null]
  /\ pool' = s
  /\ memp' = [memp EXCEPT ![s] = pool]
  /\ unvisited' = unvisited \ {s}
  /\ upset' = upset \cup Upsets(s)
  /\ UNCHANGED <<seen, changed, walk>>

\* tcp_listen_input: a pcb from the pool becomes the first of the list.
Syn ==
  /\ pool # Null
  /\ pool' = memp[pool]
  /\ memp' = [memp EXCEPT ![pool] = Null]
  /\ active' = pool
  /\ next' = [next EXCEPT ![pool] = active]
  /\ seen' = seen \cup {pool}
  /\ changed' = 1
  /\ upset' = upset \cup Upsets(pool) \cup UpsetsNew
  /\ UNCHANGED <<walk, unvisited>>

\* tcp_listen_input when the pool is empty: tcp_kill_prio aborts a connection,
\* and the new one gets its pcb.  (Which one it is: Victim of TcpServer.)
SynKills(s) ==
  /\ pool = Null
  /\ active' = s /\ UNCHANGED pool
  /\ next' = [Unlinked(s) EXCEPT ![s] = IF s = active THEN next[s] ELSE active]
  /\ memp' = [memp EXCEPT ![s] = Null]
  /\ seen' = seen \cup {s}
  /\ changed' = 1
  /\ unvisited' = unvisited \ {s}
  /\ upset' = upset \cup Upsets(s) \cup UpsetsNew
  /\ UNCHANGED walk

Segment ==
  \/ Syn
  \/ \E s \in Active : MoveToFront(s) \/ Reset(s) \/ SynKills(s)

-----------------------------------------------------------------------------
(* The main loop.                                                          *)

Step(at, to) == stmt = at /\ stmt' = to

\* ++tcp_timer_ctr: no pcb has been visited yet.
FastStart ==
  /\ Step("loop", "fasthead")
  /\ seen' = {}
  /\ upset' = {}
  /\ UNCHANGED <<lists, pools, changed, pcb, prev, pcb2, tick, unvisited>>

FastHead ==
  /\ Step("fasthead", "fast")
  /\ pcb' = active
  /\ unvisited' = Active \ seen
  /\ UNCHANGED <<lists, pools, seen, changed, prev, pcb2, tick, upset>>

\* The delayed ACK of one pcb.  A pcb that was visited is not passed by: the
\* loop has no branch for it.
FastVisit ==
  /\ pcb # Null /\ pcb \notin seen
  /\ Step("fast", "fastnext")
  /\ seen' = seen \cup {pcb}
  /\ unvisited' = unvisited \ {pcb}
  /\ UNCHANGED <<lists, pools, changed, pcb, prev, pcb2, tick, upset>>

FastNext ==
  /\ Step("fastnext", "fast")
  /\ pcb' = next[pcb]
  /\ UNCHANGED <<lists, pools, seen, changed, prev, pcb2, tick, ghosts>>

\* Every other time tcp_slowtmr follows, with another ++tcp_timer_ctr.
FastEnd ==
  /\ pcb = Null
  /\ stmt = "fast"
  /\ tick' = 1 - tick
  /\ IF tick = 0 THEN stmt' = "slowhead" /\ seen' = {} /\ upset' = {}
                 ELSE stmt' = "loop" /\ UNCHANGED <<seen, upset>>
  /\ UNCHANGED <<lists, pools, changed, pcb, prev, pcb2, unvisited>>

\* tcp_slowtmr_start
SlowHead ==
  /\ Step("slowhead", "slow")
  /\ pcb' = active /\ prev' = Null
  /\ unvisited' = Active \ seen
  /\ UNCHANGED <<lists, pools, seen, changed, pcb2, tick, upset>>

\* Without pcb = pcb->next.
Faulty_SlowSkip ==
  /\ pcb \in seen
  /\ stmt = "slow"
  /\ UNCHANGED timersVars

\* prev stays where it is.
SlowSkip ==
  /\ pcb \in seen
  /\ stmt = "slow"
  /\ pcb' = next[pcb]
  /\ UNCHANGED <<lists, pools, seen, changed, stmt, prev, pcb2, tick, ghosts>>

\* The timers of one pcb; some run out.
SlowVisit ==
  /\ pcb # Null /\ pcb \notin seen
  /\ \/ Step("slow", "unlink")
     \/ Step("slow", "advance")
  /\ seen' = seen \cup {pcb}
  /\ unvisited' = unvisited \ {pcb}
  /\ UNCHANGED <<lists, pools, changed, pcb, prev, pcb2, tick, upset>>

Unlink ==
  /\ Step("unlink", "release")
  /\ IF prev # Null
       THEN next' = [next EXCEPT ![prev] = next[pcb]] /\ UNCHANGED active
       ELSE active' = next[pcb] /\ UNCHANGED next
  /\ UNCHANGED <<pools, seen, changed, pcb, prev, pcb2, tick, ghosts>>

\* The link is read after the pcb was cleared.
Faulty_Release ==
  /\ Step("release", "give")
  /\ pcb2' = pcb
  /\ pcb' = Null
  /\ memp' = [memp EXCEPT ![pcb] = pool]
  /\ UNCHANGED <<lists, pool, seen, changed, prev, tick, ghosts>>

\* pcb2 = pcb; pcb = pcb->next; and memp_free links it before the pool ...
Release ==
  /\ Step("release", "give")
  /\ pcb2' = pcb
  /\ pcb' = next[pcb]
  /\ memp' = [memp EXCEPT ![pcb] = pool]
  /\ UNCHANGED <<lists, pool, seen, changed, prev, tick, ghosts>>

\* ... and makes it the first.
Give ==
  /\ Step("give", "clear")
  /\ pool' = pcb2
  /\ pcb2' = Null
  /\ UNCHANGED <<lists, memp, seen, changed, pcb, prev, tick, ghosts>>

\* prev = pcb is missing.
Faulty_Advance ==
  /\ Step("advance", "clear")
  /\ pcb' = next[pcb]
  /\ UNCHANGED <<lists, pools, seen, changed, prev, pcb2, tick, ghosts>>

Advance ==
  /\ Step("advance", "clear")
  /\ prev' = pcb
  /\ pcb' = next[pcb]
  /\ UNCHANGED <<lists, pools, seen, changed, pcb2, tick, ghosts>>

\* tcp_active_pcbs_changed = 0, and the callback, of which there is none.
Clear ==
  /\ Step("clear", "test")
  /\ changed' = 0
  /\ UNCHANGED <<lists, pools, seen, pcb, prev, pcb2, tick, ghosts>>

\* Set by the interrupt, it restarts the walk.
Test ==
  /\ stmt = "test"
  /\ IF changed = 1 THEN stmt' = "slowhead" /\ upset' = upset \cup {"restart"}
                    ELSE stmt' = "slow" /\ UNCHANGED upset
  /\ UNCHANGED <<lists, pools, seen, changed, pcb, prev, pcb2, tick, unvisited>>

SlowEnd ==
  /\ pcb = Null
  /\ Step("slow", "loop")
  /\ prev' = Null
  /\ UNCHANGED <<lists, pools, seen, changed, pcb, pcb2, tick, ghosts>>

tcp_fasttmr == FastStart \/ FastHead \/ FastVisit \/ FastNext \/ FastEnd
tcp_slowtmr ==
  \/ SlowHead \/ SlowSkip \/ SlowVisit \/ Unlink \/ Release \/ Give
  \/ Advance \/ Clear \/ Test \/ SlowEnd

-----------------------------------------------------------------------------
TimersNext ==
  /\ ListsInOrder
  /\ \/ Segment /\ Cardinality(upset') <= MaxUpsets
     \/ tcp_fasttmr \/ tcp_slowtmr

TimersSpec == TimersInit /\ [][TimersNext]_timersVars

\* The main loop runs on whenever the interrupt lets it.
TimersFairSpec == TimersSpec /\ WF_timersVars(ListsInOrder /\ (tcp_fasttmr \/ tcp_slowtmr))

-----------------------------------------------------------------------------
PcbOrNull == Pcbs \cup {Null}

TimersTypeOK ==
  /\ active \in PcbOrNull /\ next \in [Pcbs -> PcbOrNull]
  /\ pool \in PcbOrNull /\ memp \in [Pcbs -> PcbOrNull]
  /\ seen \subseteq Pcbs
  /\ changed \in {0, 1} /\ tick \in {0, 1}
  /\ stmt \in {"loop", "fasthead", "fast", "fastnext", "slowhead", "slow",
             "unlink", "release", "give", "advance", "clear", "test"}
  /\ {pcb, prev, pcb2} \subseteq PcbOrNull
  /\ unvisited \subseteq Pcbs
  /\ upset \subseteq {"current", "previous", "first", "new", "restart", "pool"}

\* Left alone, the walks keep "Every TCP PCB that is not CLOSED is in one of the
\* lists. A PCB is only in one of the lists" (tcp_impl.h:325) and lose no pcb to
\* the pool or from it.  It takes one of the six disturbances in upset to break
\* the list; segments at any other moment do not.
ListsKept == TimersTypeOK /\ (upset = {} => ListsInOrder)

\* A walk serves every pcb it has found, however the interrupt reorders the
\* list, but those it removes or moves, and unless it takes the very pcb the
\* walk stands at.
NobodySkipped ==
  stmt \in {"fast", "slow"} /\ pcb = Null /\ "current" \notin upset => unvisited = {}

\* The walks come to their end, restarts of tcp_slowtmr included, unless the pcb
\* the walk stands at is moved or freed or one is added just before the head is
\* read: then the fast one may be caught at a pcb it has visited.
WalksEnd ==
  stmt # "loop" ~> \/ stmt = "loop"
                 \/ upset \cap {"current", "new"} # {}
                 \/ ~ListsInOrder

\* tcp.c:1040: tcp_fasttmr "Is called every TCP_FAST_INTERVAL (250 ms)": so the
\* main loop comes back to call it, as long as the lists are in order.
CalledAgain == stmt # "loop" ~> (stmt = "loop" \/ ~ListsInOrder)
=============================================================================
