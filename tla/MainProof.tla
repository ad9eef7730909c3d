------------------------------ MODULE MainProof ------------------------------
(***************************************************************************)
(* Proofs about what main() sets up and runs, for all constants.           *)
(* PeriodicEvents: no expiry is forgotten, and as long as the rounds of    *)
(* the main loop take less than half a period every expiry is served on    *)
(* its own.  TcpTimers: how tcp_tmr, one of the events it serves, walks    *)
(* the list of the pcbs while the Ethernet interrupt changes it.  Nvic:    *)
(* the priorities that main() gives the interrupts.                        *)
(***************************************************************************)
EXTENDS PeriodicEvents, TcpTimers, Nvic,
        WellFoundedInduction, FiniteSetTheorems, SequenceTheorems, TLAPS

-----------------------------------------------------------------------------
(* Least elements and induction, from the well-founded order of Nat.       *)

Smaller == {p \in Nat \X Nat : p[1] < p[2]}

\* The naturals are well-founded under <.
LEMMA SmallerWF == IsWellFoundedOn(Smaller, Nat)
<1>1. IsWellFoundedOn(OpToRel(<, Nat), Nat)
  BY NatLessThanWellFounded
<1>2. OpToRel(<, Nat) = Smaller
  BY DEF OpToRel, Smaller
<1> QED
  BY <1>1, <1>2

\* A set of naturals with an element has a least one.
LEMMA Least ==
  ASSUME NEW S \in SUBSET Nat, S # {}
  PROVE  \E n \in S : \A m \in S : n <= m
<1>1. PICK n \in S : \A m \in S : ~ (<<m, n>> \in Smaller)
  BY SmallerWF, WFMin
<1>2. ASSUME NEW m \in S PROVE n <= m
  <2>1. n \in Nat /\ m \in Nat
    OBVIOUS
  <2>2. <<m, n>> \notin Smaller
    BY <1>1
  <2>3. m < n => <<m, n>> \in Smaller
    BY <2>1 DEF Smaller
  <2> QED
    BY <2>1, <2>2, <2>3
<1> QED
  BY <1>2

\* Induction over the naturals, for a set.
LEMMA Induction ==
  ASSUME NEW S, 0 \in S, \A n \in Nat : n \in S => n + 1 \in S
  PROVE  Nat \subseteq S
<1> SUFFICES ASSUME Nat \ S # {} PROVE FALSE
  OBVIOUS
<1>1. PICK n \in Nat \ S : \A m \in Nat \ S : n <= m
  BY Least
<1>2. n # 0 /\ n - 1 \in Nat /\ n - 1 \in S
  BY <1>1
<1> QED
  BY <1>1, <1>2

-----------------------------------------------------------------------------
(* PeriodicEvents.                                                         *)

\* The event the main loop looks at is the one at its position.
LEMMA EventAtPosition ==
  ASSUME TypeOK
  PROVE  /\ Event \in Events
         /\ \A e \in Events : Event = e <=> turn = Position[e]
PROOF BY DEF TypeOK, Event, Order, Events, Position

\* The round of the main loop goes from position to position and wraps at the
\* end.
LEMMA NextPosition ==
  ASSUME TypeOK
  PROVE  After(turn) = (IF turn = 3 THEN 1 ELSE turn + 1)
PROOF
<1>1. turn = 1 \/ turn = 2 \/ turn = 3
  BY DEF TypeOK, Order
<1> QED BY <1>1 DEF After, Order

LEMMA InitTypeOK == Init => TypeOK
PROOF BY PeriodAssumption, LagAssumption DEF Init, TypeOK, Order

LEMMA StepTypeOK ==
  ASSUME TypeOK, [Next]_vars
  PROVE  TypeOK'
PROOF
<1> USE PeriodAssumption, LagAssumption
<1>1. CASE TIM3_IRQHandler
  BY <1>1 DEF TIM3_IRQHandler, TypeOK, Due, main
<1>2. CASE CheckFlag
  <2>1. turn' \in 1..Len(Order)
    BY <1>2, NextPosition DEF CheckFlag, NextFlag, TypeOK, Order
  <2> QED BY <1>2, <2>1 DEF CheckFlag, NextFlag, TypeOK
<1>3. CASE ClearFlag
  BY <1>3 DEF ClearFlag, TypeOK
<1>4. CASE Call
  BY <1>4 DEF Call, TypeOK
<1>5. CASE Return
  <2>1. turn' \in 1..Len(Order)
    BY <1>5, NextPosition DEF Return, NextFlag, TypeOK, Order
  <2> QED BY <1>5, <2>1 DEF Return, NextFlag, TypeOK
<1>6. CASE UNCHANGED vars
  BY <1>6 DEF vars, main, TypeOK
<1> QED
  BY <1>1, <1>2, <1>3, <1>4, <1>5, <1>6 DEF Next, HandleLwipPeriodicEvent

-----------------------------------------------------------------------------
LEMMA StepNoneForgotten ==
  ASSUME TypeOK, NoneForgotten, [Next]_vars
  PROVE  NoneForgotten'
PROOF
<1> USE DEF NoneForgotten, TypeOK
<1>1. CASE TIM3_IRQHandler
  BY <1>1 DEF TIM3_IRQHandler, main, Event
<1>2. CASE CheckFlag
  \* pc is "check" before the step: the flags speak for themselves.
  BY <1>2 DEF CheckFlag, NextFlag
<1>3. CASE ClearFlag
  \* The flag that is cleared is the one the main loop is about to serve.
  BY <1>3 DEF ClearFlag, Event
<1>4. CASE Call
  BY <1>4, EventAtPosition DEF Call
<1>5. CASE Return
  BY <1>5 DEF Return, NextFlag
<1>6. CASE UNCHANGED vars
  BY <1>6 DEF vars, main, Event
<1> QED
  BY <1>1, <1>2, <1>3, <1>4, <1>5, <1>6 DEF Next, HandleLwipPeriodicEvent

\* Whatever the periods are and however late the main loop is, every variable
\* keeps its type and no expiry is forgotten.
THEOREM NothingForgotten == Spec => [](TypeOK /\ NoneForgotten)
PROOF
<1>1. Init => NoneForgotten
  BY DEF Init, NoneForgotten
<1> QED
  BY <1>1, InitTypeOK, StepTypeOK, StepNoneForgotten, PTL DEF Spec

-----------------------------------------------------------------------------
\* A round that is not slow: the timer finds room for one more interrupt in it.
LEMMA NotSlow ==
  ASSUME TypeOK, [Next]_vars, slow' = 0
  PROVE  slow = 0 /\ (TIM3_IRQHandler => lag < MaxLag)
PROOF
<1>1. lag \in 0..MaxLag /\ MaxLag \in Nat
  BY LagAssumption DEF TypeOK
<1>2. TIM3_IRQHandler => slow = 0 /\ lag < MaxLag
  BY <1>1 DEF TIM3_IRQHandler
<1>3. HandleLwipPeriodicEvent => slow = 0
  <2>1. HandleLwipPeriodicEvent => slow' = slow
    BY DEF HandleLwipPeriodicEvent, CheckFlag, ClearFlag, Call, Return
  <2> QED BY <2>1
<1>4. UNCHANGED vars => slow = 0
  BY DEF vars
<1> QED BY <1>2, <1>3, <1>4 DEF Next

LEMMA StepFlagAge ==
  ASSUME TypeOK, FlagAge, [Next]_vars
  PROVE  FlagAge'
PROOF
<1> SUFFICES ASSUME slow' = 0, NEW e \in Events, flag'[e] = 1
             PROVE  index'[e] <= lag' + (IF Passed(e)' THEN 0 ELSE MaxLag)
  BY DEF FlagAge
<1> USE LagAssumption
<1>1. /\ index[e] \in Nat /\ lag \in 0..MaxLag /\ turn \in 1..3
      /\ Position[e] \in 1..3
  BY DEF TypeOK, Order, Position, Events
<1>2. flag[e] = 1 => index[e] <= lag + (IF Passed(e) THEN 0 ELSE MaxLag)
  BY NotSlow DEF FlagAge
<1>3. CASE TIM3_IRQHandler
  \* The flag and the round grow older together, unless the flag is new.
  <2>1. lag' = lag + 1 /\ (Passed(e)' <=> Passed(e))
    BY <1>3, <1>1, NotSlow DEF TIM3_IRQHandler, main, Passed
  <2>2. CASE Due(e)
    BY <2>2, <2>1, <1>3, <1>1 DEF TIM3_IRQHandler
  <2>3. CASE ~Due(e)
    BY <2>3, <2>1, <1>3, <1>1, <1>2 DEF TIM3_IRQHandler
  <2> QED BY <2>2, <2>3
<1>4. ASSUME NextFlag, UNCHANGED <<index, flag>>, flag[e] = 1, Event = e => Passed(e)
      PROVE  index'[e] <= lag' + (IF Passed(e)' THEN 0 ELSE MaxLag)
  \* The loop goes on to the next flag.  At the end of the round every flag
  \* that is set was passed, so it is no older than the round.
  <2>1. turn' = (IF turn = 3 THEN 1 ELSE turn + 1) /\ pc' = "check"
    BY <1>4, NextPosition DEF NextFlag
  <2>2. lag' = IF turn = 3 THEN 0 ELSE lag
    BY <1>4, <1>1, NextPosition DEF NextFlag
  <2>3. turn = Position[e] => Passed(e)
    BY <1>4, EventAtPosition
  <2>4. CASE turn = 3
    <3>1. Passed(e)
      BY <2>4, <2>3, <1>1 DEF Passed
    <3> QED BY <3>1, <2>4, <2>1, <2>2, <1>1, <1>2, <1>4 DEF Passed
  <2>5. CASE turn # 3
    <3>1. Passed(e)' <=> Passed(e)
      BY <2>5, <2>1, <2>3, <1>1 DEF Passed
    <3> QED BY <3>1, <2>5, <2>2, <1>1, <1>2, <1>4
  <2> QED BY <2>4, <2>5
<1>5. CASE CheckFlag
  <2>1. CASE flag[Event] = 1
    <3>1. (Passed(e)' <=> Passed(e)) /\ UNCHANGED <<index, flag, lag>>
      BY <1>5, <2>1 DEF CheckFlag, Passed
    <3> QED BY <3>1, <1>1, <1>2
  <2>2. CASE flag[Event] # 1
    BY <1>5, <2>2, <1>4 DEF CheckFlag
  <2> QED BY <2>1, <2>2
<1>6. CASE ClearFlag
  <2>1. e # Event
    BY <1>6, EventAtPosition DEF ClearFlag, TypeOK
  <2>2. flag[e] = 1 /\ UNCHANGED <<index, lag>>
    BY <1>6, <2>1 DEF ClearFlag, TypeOK
  <2>3. Passed(e)' <=> Passed(e)
    BY <1>6, <2>1, EventAtPosition DEF ClearFlag, Passed
  <2> QED BY <2>2, <2>3, <1>1, <1>2
<1>7. CASE Call
  <2>1. (Passed(e)' <=> Passed(e)) /\ UNCHANGED <<index, flag, lag>>
    BY <1>7 DEF Call, Passed
  <2> QED BY <2>1, <1>1, <1>2
<1>8. CASE Return
  <2>1. Event = e => Passed(e)
    BY <1>8, EventAtPosition DEF Return, Passed
  <2> QED BY <2>1, <1>8, <1>4 DEF Return
<1>9. CASE UNCHANGED vars
  BY <1>9, <1>1, <1>2 DEF vars, main, Passed
<1> QED
  BY <1>3, <1>5, <1>6, <1>7, <1>8, <1>9 DEF Next, HandleLwipPeriodicEvent

\* A flag that is two rounds old has been seen: none is found set at an expiry.
LEMMA StepNothingMerged ==
  ASSUME TypeOK, FlagAge, NothingMerged, [Next]_vars
  PROVE  NothingMerged'
PROOF
<1> SUFFICES ASSUME ShortRounds', NEW e \in Events
             PROVE  ~merged'[e]
  BY DEF NothingMerged
<1>0. ShortRounds /\ slow' = 0 /\ slow = 0
  BY NotSlow DEF ShortRounds
<1>1. ~merged[e]
  BY <1>0 DEF NothingMerged
<1>2. CASE TIM3_IRQHandler
  <2>1. ~(Due(e) /\ flag[e] = 1)
    <3> SUFFICES ASSUME flag[e] = 1 PROVE ~Due(e)
      OBVIOUS
    <3>1. index[e] <= lag + MaxLag
      BY <1>0, LagAssumption DEF FlagAge, TypeOK
    <3>2. 2 * MaxLag < Period[e]
      BY <1>0 DEF ShortRounds
    <3> QED BY <1>0, <1>2, <3>1, <3>2, NotSlow, LagAssumption, PeriodAssumption DEF Due, TypeOK
  <2>2. merged'[e] = (merged[e] \/ (Due(e) /\ flag[e] = 1))
    BY <1>2 DEF TIM3_IRQHandler
  <2> QED BY <2>1, <2>2, <1>1
<1>3. CASE HandleLwipPeriodicEvent
  BY <1>3, <1>1 DEF HandleLwipPeriodicEvent, CheckFlag, ClearFlag, Call, Return
<1>4. CASE UNCHANGED vars
  BY <1>4, <1>1 DEF vars
<1> QED BY <1>2, <1>3, <1>4 DEF Next

\* As long as no round takes half of a period, no expiry is merged with the one
\* before it: tcp_tmr() is called once every TcpTimeIndex period.
THEOREM ServedOnce == Spec => []NothingMerged
PROOF
<1>1. Init => FlagAge /\ NothingMerged
  BY DEF Init, FlagAge, NothingMerged
<1> QED
  BY <1>1, InitTypeOK, StepTypeOK, StepFlagAge, StepNothingMerged, PTL DEF Spec

-----------------------------------------------------------------------------
(* TcpTimers.  A list is sorted by a number for each of its entries:       *)
(* what is taken out leaves the numbers of the others as they are, and     *)
(* what comes to the front gets a smaller one than the head had.           *)

\* What Nth is: the head, and then the link of the entry before.
LEMMA NthIs ==
  ASSUME NEW head, NEW link
  PROVE  /\ Nth(head, link)[0] = head
         /\ \A k \in 1..NumPcb :
              Nth(head, link)[k] = IF Nth(head, link)[k - 1] = Null THEN Null
                                   ELSE link[Nth(head, link)[k - 1]]
<1> DEFINE entry(f, n) == IF n = 0 THEN head
                         ELSE IF f[n - 1] = Null THEN Null ELSE link[f[n - 1]]
           solves(f, m) == f = [n \in 0..m |-> entry(f, n)]
           M == {m \in Nat : \E f : solves(f, m)}
<1>1. Nat \subseteq M
  <2>1. 0 \in M
    <3> DEFINE f == [n \in 0..0 |-> head]
    <3>1. f = [n \in 0..0 |-> entry(f, n)]
      OBVIOUS
    <3>2. solves(f, 0)
      BY <3>1
    <3> HIDE DEF f, solves
    <3> QED
      BY <3>2
  <2>2. ASSUME NEW m \in Nat, m \in M PROVE m + 1 \in M
    <3>1. PICK f : f = [n \in 0..m |-> entry(f, n)]
      BY <2>2
    <3> DEFINE last == IF f[m] = Null THEN Null ELSE link[f[m]]
               g == [n \in 0..m + 1 |-> IF n = m + 1 THEN last ELSE f[n]]
    <3>2. ASSUME NEW n \in 0..m + 1 PROVE g[n] = entry(g, n)
      <4>1. CASE n = m + 1
        <5>1. n # 0 /\ n - 1 = m /\ g[m] = f[m] /\ g[n] = last
          BY <4>1
        <5> QED
          BY <4>1, <5>1
      <4>2. CASE n # m + 1 /\ n # 0
        <5>1. PICK k \in 0..m : k = n - 1
          BY <4>2
        <5>2. n \in 0..m /\ g[n] = f[n] /\ g[k] = f[k]
          BY <4>2, <5>1
        <5> HIDE DEF g
        <5>3. f[n] = entry(f, n)
          BY <3>1, <5>2
        <5> QED
          BY <4>2, <5>1, <5>2, <5>3
      <4>3. CASE n = 0
        <5>1. n \in 0..m /\ g[n] = f[n]
          BY <4>3
        <5> HIDE DEF g
        <5>2. f[n] = entry(f, n)
          BY <3>1, <5>1
        <5> QED
          BY <4>3, <5>1, <5>2
      <4> QED
        BY <4>1, <4>2, <4>3
    <3>3. g = [n \in 0..m + 1 |-> g[n]]
      OBVIOUS
    <3> HIDE DEF g
    <3>4. g = [n \in 0..m + 1 |-> entry(g, n)]
      BY <3>2, <3>3
    <3> QED
      BY <3>4
  <2> HIDE DEF M
  <2> QED
    BY <2>1, <2>2, Induction
<1>2. NumPcb \in Nat
  BY TimersAssumption
<1>3. \E f : solves(f, NumPcb)
  BY <1>1, <1>2
<1> DEFINE at == CHOOSE f : solves(f, NumPcb)
<1>4. solves(at, NumPcb)
  <2> HIDE DEF solves
  <2> QED
    BY <1>3
<1>5. Nth(head, link) = at
  BY DEF Nth
<1> HIDE DEF at
<1>6. at[0] = head
  BY <1>2, <1>4
<1>7. ASSUME NEW k \in 1..NumPcb
      PROVE  at[k] = IF at[k - 1] = Null THEN Null ELSE link[at[k - 1]]
  <2>1. k \in 0..NumPcb /\ k # 0
    BY <1>2
  <2> QED
    BY <1>4, <2>1
<1> QED
  BY <1>5, <1>6, <1>7

\* An induction along a list.
LEMMA AlongList ==
  ASSUME NEW head, NEW link, NEW T, head \in T, Null \in T,
         \A x \in T : x # Null => link[x] \in T
  PROVE  \A k \in 0..NumPcb : Nth(head, link)[k] \in T
<1> DEFINE K == {k \in Nat : k \in 0..NumPcb => Nth(head, link)[k] \in T}
<1>0. NumPcb \in Nat
  BY TimersAssumption
<1>1. 0 \in K
  BY NthIs
<1>2. ASSUME NEW n \in Nat, n \in K PROVE n + 1 \in K
  <2> SUFFICES ASSUME n + 1 \in 0..NumPcb PROVE Nth(head, link)[n + 1] \in T
    OBVIOUS
  <2>1. Nth(head, link)[n] \in T
    BY <1>0, <1>2
  <2>2. n + 1 \in 1..NumPcb /\ (n + 1) - 1 = n
    BY <1>0
  <2>3. Nth(head, link)[n + 1] = IF Nth(head, link)[n] = Null THEN Null
                                 ELSE link[Nth(head, link)[n]]
    BY <2>2, NthIs
  <2> QED
    BY <2>1, <2>3
<1>3. Nat \subseteq K
  <2> HIDE DEF K
  <2> QED
    BY <1>1, <1>2, Induction
<1> QED
  BY <1>0, <1>3

Sorted(head, link, S, pos) ==
  /\ S \subseteq Pcbs /\ pos \in [Pcbs -> Int]
  /\ \A x, y \in S : pos[x] = pos[y] => x = y
  /\ IF head = Null THEN S = {} ELSE head \in S /\ \A x \in S : pos[head] <= pos[x]
  /\ \A s \in S : IF link[s] = Null THEN \A x \in S : pos[x] <= pos[s]
                  ELSE /\ link[s] \in S /\ pos[s] < pos[link[s]]
                       /\ \A x \in S : pos[x] <= pos[s] \/ pos[link[s]] <= pos[x]

\* A pcb is not Null.
LEMMA PcbIs == Null \notin Pcbs /\ Pcbs \subseteq Nat
  BY TimersAssumption DEF Null, Pcbs

\* A sorted list has an end: it has no room for more entries than there are pcbs.
LEMMA SortedEnds ==
  ASSUME NEW head, NEW link, NEW S, NEW pos, Sorted(head, link, S, pos)
  PROVE  Ends(head, link)
<1> DEFINE at == Nth(head, link)
<1>0. NumPcb \in Nat \ {0}
  BY TimersAssumption
<1> SUFFICES ASSUME at[NumPcb] # Null PROVE FALSE
  BY DEF Ends
<1>1. \A k \in 0..NumPcb : at[k] \in S \cup {Null}
  <2>1. head \in S \cup {Null} /\ Null \in S \cup {Null}
    BY DEF Sorted
  <2>2. \A x \in S \cup {Null} : x # Null => link[x] \in S \cup {Null}
    BY DEF Sorted
  <2> QED
    BY <2>1, <2>2, AlongList
<1>2. ASSUME NEW k \in 1..NumPcb
      PROVE  at[k] = IF at[k - 1] = Null THEN Null ELSE link[at[k - 1]]
  BY NthIs
<1> HIDE DEF at
<1>3. \A k \in 0..NumPcb : at[k] \in S
  <2> DEFINE K == {d \in Nat : d \in 0..NumPcb => at[NumPcb - d] \in S}
  <2>1. 0 \in K
    BY <1>0, <1>1
  <2>2. ASSUME NEW d \in Nat, d \in K PROVE d + 1 \in K
    <3> SUFFICES ASSUME d + 1 \in 0..NumPcb PROVE at[NumPcb - (d + 1)] \in S
      OBVIOUS
    <3>1. PICK k \in 1..NumPcb : k = NumPcb - d
      BY <1>0
    <3>2. at[k] \in S /\ Null \notin S
      <4>1. d \in 0..NumPcb
        BY <1>0, <3>1
      <4>2. at[k] \in S
        BY <2>2, <3>1, <4>1
      <4> QED
        BY <4>2, PcbIs DEF Sorted
    <3>3. at[k - 1] # Null
      BY <1>2, <3>2
    <3>4. k - 1 \in 0..NumPcb /\ NumPcb - (d + 1) = k - 1
      BY <1>0, <3>1
    <3> QED
      BY <1>1, <3>3, <3>4
  <2>3. Nat \subseteq K
    <3> HIDE DEF K
    <3> QED
      BY <2>1, <2>2, Induction
  <2>4. ASSUME NEW k \in 0..NumPcb PROVE at[k] \in S
    <3>1. NumPcb - k \in K /\ NumPcb - k \in 0..NumPcb /\ NumPcb - (NumPcb - k) = k
      BY <1>0, <2>3
    <3> QED
      BY <3>1
  <2> QED
    BY <2>4
<1>4. \A k \in 0..NumPcb : pos[at[k]] \in Int
  BY <1>3 DEF Sorted
<1>5. ASSUME NEW i \in 0..NumPcb, NEW j \in 0..NumPcb, i < j
      PROVE  pos[at[i]] < pos[at[j]]
  <2> DEFINE K == {d \in Nat : i + 1 + d \in 0..NumPcb => pos[at[i]] < pos[at[i + 1 + d]]}
  <2>1. ASSUME NEW k \in 1..NumPcb PROVE pos[at[k - 1]] < pos[at[k]]
    <3>1. k - 1 \in 0..NumPcb /\ k \in 0..NumPcb
      BY <1>0
    <3>2. at[k - 1] \in S /\ at[k] \in S /\ Null \notin S
      BY <1>3, <3>1, PcbIs DEF Sorted
    <3>3. link[at[k - 1]] = at[k] /\ at[k] # Null
      BY <1>2, <3>2
    <3> QED
      BY <3>2, <3>3 DEF Sorted
  <2>2. 0 \in K
    <3>1. i + 1 \in 0..NumPcb => i + 1 \in 1..NumPcb /\ (i + 1) - 1 = i /\ i + 1 + 0 = i + 1
      BY <1>0
    <3> QED
      BY <2>1, <3>1
  <2>3. ASSUME NEW d \in Nat, d \in K PROVE d + 1 \in K
    <3> SUFFICES ASSUME i + 1 + (d + 1) \in 0..NumPcb
                 PROVE  pos[at[i]] < pos[at[i + 1 + (d + 1)]]
      OBVIOUS
    <3>1. PICK k \in 1..NumPcb : k = i + 1 + (d + 1)
      BY <1>0
    <3>2. k - 1 = i + 1 + d /\ k - 1 \in 0..NumPcb /\ k \in 0..NumPcb
      BY <1>0, <3>1
    <3>3. pos[at[i]] < pos[at[k - 1]]
      BY <2>3, <3>2
    <3>4. pos[at[k - 1]] < pos[at[k]]
      BY <2>1
    <3>5. pos[at[i]] \in Int /\ pos[at[k - 1]] \in Int /\ pos[at[k]] \in Int
      BY <1>4, <3>2
    <3>6. pos[at[i]] < pos[at[k]]
      BY <3>3, <3>4, <3>5
    <3> QED
      BY <3>1, <3>6
  <2>4. Nat \subseteq K
    <3> HIDE DEF K
    <3> QED
      BY <2>2, <2>3, Induction
  <2>5. PICK d \in Nat : d = j - i - 1 /\ i + 1 + d = j
    BY <1>0, <1>5
  <2> QED
    BY <2>4, <2>5
<1>6. IsFiniteSet(0..NumPcb) /\ Cardinality(0..NumPcb) = NumPcb + 1
  BY <1>0, FS_Interval
<1>7. IsFiniteSet(Pcbs) /\ Cardinality(Pcbs) = NumPcb
  BY <1>0, FS_Interval DEF Pcbs
<1> DEFINE f == [k \in 0..NumPcb |-> at[k]]
<1>8. f \in [0..NumPcb -> Pcbs]
  BY <1>3 DEF Sorted
<1>9. NumPcb < NumPcb + 1
  BY <1>0
<1>10. \E x, y \in 0..NumPcb : x # y /\ f[x] = f[y]
  <2>1. PICK A : A = 0..NumPcb
    OBVIOUS
  <2>2. PICK h \in [A -> Pcbs] : h = f
    BY <1>8, <2>1
  <2>3. IsFiniteSet(A) /\ IsFiniteSet(Pcbs) /\ Cardinality(Pcbs) < Cardinality(A)
    BY <1>6, <1>7, <1>9, <2>1
  <2>4. \E x, y \in A : x # y /\ h[x] = h[y]
    BY <2>3, FS_PigeonHole, Zenon
  <2> QED
    BY <2>1, <2>2, <2>4
<1>11. PICK x \in 0..NumPcb, y \in 0..NumPcb : x # y /\ at[x] = at[y]
  BY <1>10
<1>12. x < y \/ y < x
  BY <1>11
<1> QED
  BY <1>4, <1>5, <1>11, <1>12

\* What holds of the head, and goes from each entry before a to the next one,
\* holds of a.
LEMMA Reached ==
  ASSUME NEW head, NEW link, NEW S, NEW pos, Sorted(head, link, S, pos),
         NEW a \in S, NEW T, head \in T,
         \A x \in S \cap T : pos[x] < pos[a] => link[x] \in T
  PROVE  a \in T
<1> SUFFICES ASSUME a \notin T PROVE FALSE
  OBVIOUS
<1> DEFINE B == {x \in S \cap T : pos[x] < pos[a]}
           K == {k \in Nat : k \in 0..NumPcb => Nth(head, link)[k] \in B}
<1>0. NumPcb \in Nat /\ Null \notin S /\ \A x \in S : pos[x] \in Int
  BY TimersAssumption, PcbIs DEF Sorted
<1>1. head \in B
  BY <1>0 DEF Sorted
<1>2. ASSUME NEW x \in B PROVE link[x] \in B
  <2>1. x \in S /\ pos[x] < pos[a] /\ link[x] \in T
    OBVIOUS
  <2>2. link[x] # Null
    BY <1>0, <2>1 DEF Sorted
  <2>3. link[x] \in S /\ (pos[a] <= pos[x] \/ pos[link[x]] <= pos[a])
    BY <2>1, <2>2 DEF Sorted
  <2>4. link[x] # a
    BY <2>1
  <2>5. pos[link[x]] # pos[a]
    BY <2>3, <2>4 DEF Sorted
  <2>6. pos[link[x]] < pos[a]
    BY <1>0, <2>1, <2>3, <2>5
  <2> QED
    BY <2>1, <2>3, <2>6
<1>3. 0 \in K
  BY <1>1, NthIs
<1>4. ASSUME NEW n \in Nat, n \in K PROVE n + 1 \in K
  <2> SUFFICES ASSUME n + 1 \in 0..NumPcb PROVE Nth(head, link)[n + 1] \in B
    OBVIOUS
  <2>1. Nth(head, link)[n] \in B
    BY <1>0, <1>4
  <2>2. n + 1 \in 1..NumPcb /\ (n + 1) - 1 = n
    BY <1>0
  <2>3. Nth(head, link)[n] # Null
    BY <1>0, <2>1
  <2>4. Nth(head, link)[n + 1] = link[Nth(head, link)[n]]
    BY <2>2, <2>3, NthIs
  <2> HIDE DEF B
  <2> QED
    BY <2>1, <2>4, <1>2
<1>5. Nat \subseteq K
  <2> HIDE DEF K
  <2> QED
    BY <1>3, <1>4, Induction
<1>6. NumPcb \in K /\ NumPcb \in 0..NumPcb
  BY <1>0, <1>5
<1>7. Nth(head, link)[NumPcb] \in S
  BY <1>6
<1> QED
  BY <1>0, <1>7, SortedEnds DEF Ends

\* The entries of a sorted list.
LEMMA SortedIs ==
  ASSUME NEW head, NEW link, NEW S, NEW pos, Sorted(head, link, S, pos)
  PROVE  Ends(head, link) /\ EntriesOf(head, link) = S
<1> DEFINE E == EntriesOf(head, link)
<1>0. NumPcb \in Nat /\ Null \notin S
  BY TimersAssumption, PcbIs DEF Sorted
<1>1. Ends(head, link)
  BY SortedEnds
<1>2. E \subseteq S
  <2>1. head \in S \cup {Null} /\ Null \in S \cup {Null}
    BY DEF Sorted
  <2>2. \A x \in S \cup {Null} : x # Null => link[x] \in S \cup {Null}
    BY DEF Sorted
  <2>3. \A k \in 0..NumPcb : Nth(head, link)[k] \in S \cup {Null}
    BY <2>1, <2>2, AlongList
  <2> QED
    BY <2>3 DEF EntriesOf
<1>3. ASSUME NEW a \in S PROVE a \in E
  <2>1. head \in E
    <3>1. head # Null
      BY DEF Sorted
    <3> QED
      BY <3>1, <1>0, NthIs DEF EntriesOf
  <2>2. ASSUME NEW x \in S \cap E, pos[x] < pos[a] PROVE link[x] \in E
    <3>1. PICK k \in 0..NumPcb : x = Nth(head, link)[k]
      BY DEF EntriesOf
    <3>2. k # NumPcb
      BY <3>1, <1>0, <1>1 DEF Ends
    <3>3. k + 1 \in 1..NumPcb /\ (k + 1) - 1 = k /\ k + 1 \in 0..NumPcb
      BY <3>2, <1>0
    <3>4. Nth(head, link)[k + 1] = link[x]
      BY <3>1, <3>3, <1>0, NthIs
    <3>5. link[x] # Null
      <4>1. pos[x] \in Int /\ pos[a] \in Int
        BY DEF Sorted
      <4> QED
        BY <4>1, <2>2 DEF Sorted
    <3> QED
      BY <3>3, <3>4, <3>5 DEF EntriesOf
  <2> HIDE DEF E
  <2> QED
    BY <2>1, <2>2, Reached
<1> QED
  BY <1>1, <1>2, <1>3

\* What follows a in a sorted list.
LEMMA TailIs ==
  ASSUME NEW head, NEW link, NEW S, NEW pos, Sorted(head, link, S, pos), NEW a \in S
  PROVE  EntriesOf(a, link) = {x \in S : pos[a] <= pos[x]}
<1>0. Null \notin S /\ \A x \in S : pos[x] \in Int
  BY PcbIs DEF Sorted
<1> DEFINE T == {x \in S : pos[a] <= pos[x]}
<1>1. a # Null /\ a \in T /\ \A x \in T : pos[a] <= pos[x]
  BY <1>0
<1>2. T \subseteq S
  OBVIOUS
<1>3. ASSUME NEW s \in T
      PROVE  IF link[s] = Null THEN \A x \in T : pos[x] <= pos[s]
             ELSE /\ link[s] \in T /\ pos[s] < pos[link[s]]
                  /\ \A x \in T : pos[x] <= pos[s] \/ pos[link[s]] <= pos[x]
  <2>1. CASE link[s] = Null
    BY <2>1, <1>2 DEF Sorted
  <2>2. CASE link[s] # Null
    <3>1. /\ link[s] \in S /\ pos[s] < pos[link[s]]
          /\ \A x \in S : pos[x] <= pos[s] \/ pos[link[s]] <= pos[x]
      BY <2>2, <1>2 DEF Sorted
    <3>2. pos[a] <= pos[link[s]]
      BY <3>1, <1>0
    <3> QED
      BY <2>2, <3>1, <3>2
  <2> QED
    BY <2>1, <2>2
<1>4. Sorted(a, link, T, pos)
  <2>1. T \subseteq Pcbs /\ pos \in [Pcbs -> Int] /\ \A x, y \in T : pos[x] = pos[y] => x = y
    BY <1>2 DEF Sorted
  <2> HIDE DEF T
  <2> QED
    BY <1>1, <1>3, <2>1 DEF Sorted
<1> QED
  BY <1>4, SortedIs

\* Nothing follows the end of a list.
LEMMA NothingBehindNull ==
  ASSUME NEW link
  PROVE  EntriesOf(Null, link) = {} /\ Ends(Null, link)
<1>1. \A k \in 0..NumPcb : Nth(Null, link)[k] \in {Null}
  <2>1. \A x \in {Null} : x # Null => link[x] \in {Null}
    OBVIOUS
  <2> QED
    BY <2>1, AlongList
<1> QED
  BY <1>1, TimersAssumption DEF EntriesOf, Ends

\* Behind an end there is nothing.
LEMMA NothingBehindEnd ==
  ASSUME NEW head, NEW link, NEW k \in 0..NumPcb, NEW m \in 0..NumPcb, k <= m,
         Nth(head, link)[k] = Null
  PROVE  Nth(head, link)[m] = Null
<1> DEFINE at == Nth(head, link)
           N == {d \in Nat : k + d \in 0..NumPcb => at[k + d] = Null}
<1>0. NumPcb \in Nat
  BY TimersAssumption
<1>1. 0 \in N
  OBVIOUS
<1>2. ASSUME NEW d \in Nat, d \in N PROVE d + 1 \in N
  <2> SUFFICES ASSUME k + (d + 1) \in 0..NumPcb PROVE at[k + (d + 1)] = Null
    OBVIOUS
  <2>1. PICK i \in 1..NumPcb : i = k + (d + 1) /\ i - 1 = k + d /\ k + d \in 0..NumPcb
    BY <1>0
  <2>2. at[i - 1] = Null
    BY <1>2, <2>1
  <2>3. at[i] = Null
    BY <2>2, NthIs
  <2> QED
    BY <2>1, <2>3
<1>3. Nat \subseteq N
  <2> HIDE DEF N
  <2> QED
    BY <1>1, <1>2, Induction
<1>4. PICK d \in Nat : k + d = m
  BY <1>0
<1> QED
  BY <1>3, <1>4

\* A list that ends is sorted, by the places of its entries.
LEMMA SortedByPlace ==
  ASSUME NEW head \in PcbOrNull, NEW link \in [Pcbs -> PcbOrNull], Ends(head, link)
  PROVE  \E pos : Sorted(head, link, EntriesOf(head, link), pos)
<1> DEFINE at == Nth(head, link)
           S == EntriesOf(head, link)
<1>0. NumPcb \in Nat /\ Null \notin Pcbs
  BY TimersAssumption, PcbIs
<1>1. at[0] = head /\ at[NumPcb] = Null
  BY NthIs DEF Ends
<1>2. ASSUME NEW k \in 1..NumPcb
      PROVE  at[k] = IF at[k - 1] = Null THEN Null ELSE link[at[k - 1]]
  BY NthIs
<1>3. \A k \in 0..NumPcb : at[k] \in PcbOrNull
  <2>1. Null \in PcbOrNull /\ \A x \in PcbOrNull : x # Null => link[x] \in PcbOrNull
    BY DEF PcbOrNull
  <2> QED
    BY <2>1, AlongList
<1>4. S = {at[k] : k \in 0..NumPcb} \ {Null}
  BY DEF EntriesOf
<1> HIDE DEF at, S
<1>5. PICK end \in 0..NumPcb : at[end] = Null /\ \A k \in 0..NumPcb : at[k] = Null => end <= k
  <2> DEFINE K == {k \in Nat : k \in 0..NumPcb /\ at[k] = Null}
  <2>1. NumPcb \in K
    BY <1>0, <1>1
  <2>2. PICK n \in K : \A m \in K : n <= m
    <3>1. K \in SUBSET Nat /\ K # {}
      BY <2>1
    <3> HIDE DEF K
    <3> QED
      BY <3>1, Least
  <2>3. \A k \in 0..NumPcb : at[k] = Null => k \in K
    OBVIOUS
  <2> QED
    BY <2>2, <2>3
<1>6. ASSUME NEW i \in 0..NumPcb, NEW j \in 0..NumPcb, i < j, at[i] = at[j], at[i] # Null
      PROVE  FALSE
  <2> DEFINE K == {d \in Nat : j + d \in 0..NumPcb => at[i + d] = at[j + d]}
  <2>1. 0 \in K
    BY <1>6
  <2>2. ASSUME NEW d \in Nat, d \in K PROVE d + 1 \in K
    <3> SUFFICES ASSUME j + (d + 1) \in 0..NumPcb PROVE at[i + (d + 1)] = at[j + (d + 1)]
      OBVIOUS
    <3>1. at[i + d] = at[j + d]
      BY <2>2, <1>0
    <3>2. PICK k \in 1..NumPcb, l \in 1..NumPcb :
             k = i + (d + 1) /\ l = j + (d + 1) /\ k - 1 = i + d /\ l - 1 = j + d
      BY <1>0, <1>6
    <3>3. at[k] = at[l]
      BY <1>2, <3>1, <3>2
    <3> QED
      BY <3>2, <3>3
  <2>3. Nat \subseteq K
    <3> HIDE DEF K
    <3> QED
      BY <2>1, <2>2, Induction
  <2>4. ASSUME NEW k \in 0..NumPcb, end <= k PROVE at[k] = Null
    BY <1>5, <2>4, NothingBehindEnd DEF at
  <2>5. j < end
    BY <1>6, <2>4
  <2>6. PICK d \in Nat : j + d = end /\ i + d \in 0..NumPcb /\ i + d < end
    BY <2>5, <1>0, <1>6
  <2>7. at[i + d] = Null
    BY <2>3, <2>6, <1>5
  <2> QED
    BY <1>5, <2>6, <2>7
<1> DEFINE pos == [s \in Pcbs |-> IF s \in S THEN CHOOSE k \in 0..NumPcb : at[k] = s ELSE 0]
<1>7. \A x \in S : pos[x] \in 0..NumPcb /\ at[pos[x]] = x /\ x # Null /\ x \in Pcbs
  BY <1>3, <1>4 DEF PcbOrNull
<1>8. \A k \in 0..NumPcb : at[k] # Null => at[k] \in S /\ pos[at[k]] = k
  <2> TAKE k \in 0..NumPcb
  <2> HAVE at[k] # Null
  <2>1. at[k] \in S
    BY <1>4
  <2>2. pos[at[k]] \in 0..NumPcb /\ at[pos[at[k]]] = at[k]
    BY <1>7, <2>1
  <2> HIDE DEF pos
  <2> QED
    BY <1>6, <2>1, <2>2
<1>9. S \subseteq Pcbs /\ pos \in [Pcbs -> Int]
  <2>1. S \subseteq Pcbs
    BY <1>7
  <2>2. \A s \in Pcbs : (IF s \in S THEN CHOOSE k \in 0..NumPcb : at[k] = s ELSE 0) \in Int
    <3> SUFFICES ASSUME NEW s \in S PROVE (CHOOSE k \in 0..NumPcb : at[k] = s) \in Int
      OBVIOUS
    <3>1. \E k \in 0..NumPcb : at[k] = s
      BY <1>4
    <3> QED
      BY <3>1
  <2> QED
    BY <2>1, <2>2
<1> HIDE DEF pos
<1>10. \A x, y \in S : pos[x] = pos[y] => x = y
  BY <1>7
<1>11. IF head = Null THEN S = {} ELSE head \in S /\ \A x \in S : pos[head] <= pos[x]
  <2>1. CASE head = Null
    <3>1. S = {}
      BY <2>1, NothingBehindNull DEF S
    <3> QED
      BY <2>1, <3>1
  <2>2. CASE head # Null
    <3>1. head \in S /\ pos[head] = 0
      BY <1>0, <1>1, <1>8, <2>2
    <3> QED
      BY <1>7, <2>2, <3>1
  <2> QED
    BY <2>1, <2>2
<1>12. ASSUME NEW s \in S
       PROVE  IF link[s] = Null THEN \A x \in S : pos[x] <= pos[s]
              ELSE /\ link[s] \in S /\ pos[s] < pos[link[s]]
                   /\ \A x \in S : pos[x] <= pos[s] \/ pos[link[s]] <= pos[x]
  <2>1. PICK k \in 1..NumPcb : k - 1 = pos[s] /\ at[k - 1] = s /\ s # Null
    <3>1. pos[s] # NumPcb
      BY <1>1, <1>7
    <3>2. pos[s] \in 0..NumPcb /\ at[pos[s]] = s /\ s # Null
      BY <1>7
    <3>3. pos[s] + 1 \in 1..NumPcb /\ (pos[s] + 1) - 1 = pos[s]
      BY <1>0, <3>1, <3>2
    <3> QED
      BY <3>2, <3>3
  <2>2. at[k] = link[s]
    BY <1>2, <2>1
  <2>3. k \in 0..NumPcb
    BY <1>0
  <2>4. CASE link[s] = Null
    <3>1. ASSUME NEW x \in S, pos[s] < pos[x] PROVE FALSE
      <4>4. pos[x] \in 0..NumPcb /\ at[pos[x]] = x /\ x # Null
        BY <1>7
      <4>5. k <= pos[x] /\ at[k] = Null
        BY <1>0, <2>1, <2>2, <2>4, <3>1, <4>4
      <4>6. at[pos[x]] = Null
        BY <2>3, <4>4, <4>5, NothingBehindEnd DEF at
      <4> QED
        BY <4>4, <4>6
    <3>2. \A x \in S : pos[x] <= pos[s]
      BY <1>7, <3>1
    <3> QED
      BY <2>4, <3>2
  <2>5. CASE link[s] # Null
    <3>1. link[s] \in S /\ pos[link[s]] = k
      BY <1>8, <2>2, <2>3, <2>5
    <3>2. pos[s] = k - 1
      BY <2>1
    <3> QED
      BY <1>7, <2>5, <3>1, <3>2
  <2> QED
    BY <2>4, <2>5
<1>13. Sorted(head, link, S, pos)
  BY <1>9, <1>10, <1>11, <1>12 DEF Sorted
<1> QED
  BY <1>13 DEF S

\* TCP_RMV: what takes an entry out of a list leaves the others in their order.
LEMMA TakenOut ==
  ASSUME NEW head, NEW link, NEW S, NEW pos, Sorted(head, link, S, pos),
         NEW s \in S, NEW head2, NEW link2,
         head2 = IF s = head THEN link[s] ELSE head,
         \A x \in S \ {s} : link2[x] = IF link[x] = s THEN link[s] ELSE link[x]
  PROVE  Sorted(head2, link2, S \ {s}, pos)
<1> DEFINE R == S \ {s}
<1>0. Null \notin S /\ \A x \in S : pos[x] \in Int
  BY PcbIs DEF Sorted
<1>1. R \subseteq Pcbs /\ pos \in [Pcbs -> Int] /\ \A x, y \in R : pos[x] = pos[y] => x = y
  BY DEF Sorted
<1>2. \A x \in S : x # s => pos[x] # pos[s]
  BY DEF Sorted
<1>3. IF link[s] = Null THEN \A x \in S : pos[x] <= pos[s]
      ELSE /\ link[s] \in S /\ pos[s] < pos[link[s]]
           /\ \A x \in S : pos[x] <= pos[s] \/ pos[link[s]] <= pos[x]
  BY DEF Sorted
<1>4. IF head2 = Null THEN R = {} ELSE head2 \in R /\ \A x \in R : pos[head2] <= pos[x]
  <2>1. head \in S /\ head # Null /\ \A x \in S : pos[head] <= pos[x]
    BY DEF Sorted
  <2>2. CASE s = head
    <3>1. \A x \in R : pos[s] < pos[x]
      BY <1>0, <1>2, <2>1, <2>2
    <3>2. CASE link[s] = Null
      BY <1>0, <1>3, <2>2, <3>1, <3>2
    <3>3. CASE link[s] # Null
      <4>1. link[s] \in R
        BY <1>0, <1>3, <3>3
      <4>2. \A x \in R : pos[link[s]] <= pos[x]
        BY <1>0, <1>3, <3>1, <3>3
      <4> QED
        BY <2>2, <3>3, <4>1, <4>2
    <3> QED
      BY <3>2, <3>3
  <2>3. CASE s # head
    BY <2>1, <2>3
  <2> QED
    BY <2>2, <2>3
<1>5. ASSUME NEW t \in R
      PROVE  IF link2[t] = Null THEN \A x \in R : pos[x] <= pos[t]
             ELSE /\ link2[t] \in R /\ pos[t] < pos[link2[t]]
                  /\ \A x \in R : pos[x] <= pos[t] \/ pos[link2[t]] <= pos[x]
  <2>1. IF link[t] = Null THEN \A x \in S : pos[x] <= pos[t]
        ELSE /\ link[t] \in S /\ pos[t] < pos[link[t]]
             /\ \A x \in S : pos[x] <= pos[t] \/ pos[link[t]] <= pos[x]
    BY DEF Sorted
  <2>2. CASE link[t] = s
    <3>1. s # Null /\ pos[t] < pos[s] /\ link2[t] = link[s]
      BY <1>0, <2>1, <2>2
    <3>2. \A x \in R : pos[x] <= pos[t] \/ pos[s] < pos[x]
      BY <1>0, <1>2, <2>1, <2>2, <3>1
    <3>3. CASE link[s] = Null
      BY <1>0, <1>3, <3>1, <3>2, <3>3
    <3>4. CASE link[s] # Null
      <4>1. link[s] \in R /\ pos[t] < pos[link[s]]
        BY <1>0, <1>3, <3>1, <3>4
      <4>2. \A x \in R : pos[x] <= pos[t] \/ pos[link[s]] <= pos[x]
        BY <1>0, <1>3, <3>2, <3>4
      <4> QED
        BY <3>1, <3>4, <4>1, <4>2
    <3> QED
      BY <3>3, <3>4
  <2>3. CASE link[t] # s
    BY <2>1, <2>3
  <2> QED
    BY <2>2, <2>3
<1> HIDE DEF R
<1>6. Sorted(head2, link2, R, pos)
  BY <1>1, <1>4, <1>5 DEF Sorted
<1> QED
  BY <1>6 DEF R

\* TCP_REG and memp_free: what comes to the front of a list leaves the others in
\* their order.
LEMMA InFront ==
  ASSUME NEW head, NEW link, NEW S, NEW pos, Sorted(head, link, S, pos),
         NEW s \in Pcbs \ S, NEW link2,
         link2[s] = head, \A x \in S : link2[x] = link[x]
  PROVE  \E pos2 : /\ Sorted(s, link2, S \cup {s}, pos2)
                   /\ \A x \in S : pos2[x] = pos[x]
<1> DEFINE R == S \cup {s}
           least == IF head = Null THEN 0 ELSE pos[head] - 1
           pos2 == [pos EXCEPT ![s] = least]
<1>0. Null \notin Pcbs /\ S \subseteq Pcbs /\ \A x \in S : pos[x] \in Int
  BY PcbIs DEF Sorted
<1>1. least \in Int /\ \A x \in S : least < pos[x]
  BY <1>0 DEF Sorted
<1>2. pos2 \in [Pcbs -> Int] /\ pos2[s] = least /\ \A x \in S : pos2[x] = pos[x]
  BY <1>1 DEF Sorted
<1> HIDE DEF pos2, least
<1>3. R \subseteq Pcbs
  BY <1>0
<1>4. \A x, y \in R : pos2[x] = pos2[y] => x = y
  <2> SUFFICES ASSUME NEW x \in R, NEW y \in R, pos2[x] = pos2[y] PROVE x = y
    OBVIOUS
  <2>1. CASE x \in S /\ y \in S
    BY <1>2, <2>1 DEF Sorted
  <2>2. CASE x = s /\ y \in S
    BY <1>0, <1>1, <1>2, <2>2
  <2>3. CASE x \in S /\ y = s
    BY <1>0, <1>1, <1>2, <2>3
  <2> QED
    BY <2>1, <2>2, <2>3
<1>5. s # Null /\ s \in R /\ \A x \in R : pos2[s] <= pos2[x]
  BY <1>0, <1>1, <1>2
<1>6. ASSUME NEW t \in R
      PROVE  IF link2[t] = Null THEN \A x \in R : pos2[x] <= pos2[t]
             ELSE /\ link2[t] \in R /\ pos2[t] < pos2[link2[t]]
                  /\ \A x \in R : pos2[x] <= pos2[t] \/ pos2[link2[t]] <= pos2[x]
  <2>1. CASE t = s
    <3>1. CASE head = Null
      <4>1. R = {s} /\ link2[s] = Null
        BY <3>1 DEF Sorted
      <4> QED
        BY <2>1, <4>1, <1>1, <1>2
    <3>2. CASE head # Null
      <4>1. head \in S /\ \A x \in S : pos[head] <= pos[x]
        BY <3>2 DEF Sorted
      <4>2. link2[t] = head /\ pos2[t] < pos2[head]
        BY <1>1, <1>2, <2>1, <4>1
      <4>3. \A x \in R : pos2[x] <= pos2[s] \/ pos2[head] <= pos2[x]
        BY <1>1, <1>2, <4>1
      <4> QED
        BY <2>1, <3>2, <4>1, <4>2, <4>3
    <3> QED
      BY <3>1, <3>2
  <2>2. CASE t \in S
    <3>1. IF link[t] = Null THEN \A x \in S : pos[x] <= pos[t]
          ELSE /\ link[t] \in S /\ pos[t] < pos[link[t]]
               /\ \A x \in S : pos[x] <= pos[t] \/ pos[link[t]] <= pos[x]
      BY <2>2 DEF Sorted
    <3>2. link2[t] = link[t] /\ pos2[t] = pos[t] /\ pos2[s] <= pos2[t]
      BY <1>0, <1>1, <1>2, <2>2
    <3>3. CASE link[t] = Null
      BY <1>2, <3>1, <3>2, <3>3
    <3>4. CASE link[t] # Null
      <4>1. link2[t] \in S /\ pos2[link2[t]] = pos[link[t]]
        BY <1>2, <3>1, <3>2, <3>4
      <4>2. \A x \in S : pos2[x] <= pos2[t] \/ pos2[link2[t]] <= pos2[x]
        BY <1>2, <3>1, <3>2, <3>4, <4>1
      <4>3. pos2[t] < pos2[link2[t]]
        BY <3>1, <3>2, <3>4, <4>1
      <4>4. \A x \in R : pos2[x] <= pos2[t] \/ pos2[link2[t]] <= pos2[x]
        BY <3>2, <4>2
      <4> QED
        BY <3>2, <3>4, <4>1, <4>3, <4>4
    <3> QED
      BY <3>3, <3>4
  <2> QED
    BY <2>1, <2>2
<1> HIDE DEF R
<1>7. Sorted(s, link2, R, pos2)
  BY <1>2, <1>3, <1>4, <1>5, <1>6 DEF Sorted
<1> QED
  BY <1>2, <1>7 DEF R

\* Two lists that have the same entries in the same order but for s, which the
\* second one has in front, if at all: what follows an entry.
LEMMA TailsKept ==
  ASSUME NEW head, NEW link, NEW S, NEW pos, Sorted(head, link, S, pos),
         NEW head2, NEW link2, NEW S2, NEW pos2, Sorted(head2, link2, S2, pos2),
         NEW s, S \ {s} \subseteq S2, S2 \subseteq S \cup {s}, s \in S2 => head2 = s,
         \A x \in S \ {s} : pos2[x] = pos[x]
  PROVE  \A a \in S \cup {Null} : a # s =>
           /\ a \in S2 \cup {Null}
           /\ EntriesOf(a, link2) = EntriesOf(a, link) \ {s}
<1> SUFFICES ASSUME NEW a \in S, a # s
             PROVE  a \in S2 /\ EntriesOf(a, link2) = EntriesOf(a, link) \ {s}
  BY NothingBehindNull
<1>1. a \in S2 /\ pos2[a] = pos[a]
  OBVIOUS
<1>2. EntriesOf(a, link) = {x \in S : pos[a] <= pos[x]}
  BY TailIs
<1>3. EntriesOf(a, link2) = {x \in S2 : pos2[a] <= pos2[x]}
  BY <1>1, TailIs
<1>4. s \in S2 => ~ (pos2[a] <= pos2[s])
  <2> SUFFICES ASSUME s \in S2, pos2[a] <= pos2[s] PROVE FALSE
    OBVIOUS
  <2>1. pos2[a] \in Int /\ pos2[s] \in Int /\ pos2[a] # pos2[s] /\ Null \notin S2
    BY <1>1, PcbIs DEF Sorted
  <2>2. pos2[s] <= pos2[a]
    BY <1>1, <2>1 DEF Sorted
  <2> QED
    BY <2>1, <2>2
<1>5. ASSUME NEW x \in EntriesOf(a, link2) PROVE x \in EntriesOf(a, link) \ {s}
  <2>1. x \in S2 /\ pos2[a] <= pos2[x] /\ x # s
    BY <1>3, <1>4
  <2>2. x \in S /\ pos2[x] = pos[x]
    BY <2>1
  <2> QED
    BY <1>1, <1>2, <2>1, <2>2
<1>6. ASSUME NEW x \in EntriesOf(a, link) \ {s} PROVE x \in EntriesOf(a, link2)
  BY <1>1, <1>2, <1>3
<1> QED
  BY <1>1, <1>5, <1>6

-----------------------------------------------------------------------------
(* The lists of the walks.                                                 *)

\* The entries of the lists are pcbs, and as long as the lists are in order they
\* are sorted.
LEMMA ActiveIs ==
  ASSUME TimersTypeOK
  PROVE  /\ Active \subseteq Pcbs /\ Pool \subseteq Pcbs
         /\ ListsInOrder => \E pos : Sorted(active, next, Active, pos)
         /\ ListsInOrder => \E pos : Sorted(pool, memp, Pool, pos)
<1>1. ASSUME NEW head \in PcbOrNull, NEW link \in [Pcbs -> PcbOrNull]
      PROVE  EntriesOf(head, link) \subseteq Pcbs
  <2>1. Null \in PcbOrNull /\ \A x \in PcbOrNull : x # Null => link[x] \in PcbOrNull
    BY DEF PcbOrNull
  <2>2. \A k \in 0..NumPcb : Nth(head, link)[k] \in PcbOrNull
    BY <2>1, AlongList
  <2> QED
    BY <2>2 DEF EntriesOf, PcbOrNull
<1>2. /\ active \in PcbOrNull /\ next \in [Pcbs -> PcbOrNull]
      /\ pool \in PcbOrNull /\ memp \in [Pcbs -> PcbOrNull]
  BY DEF TimersTypeOK
<1>3. Active \subseteq Pcbs /\ Pool \subseteq Pcbs
  BY <1>1, <1>2 DEF Active, Pool
<1>4. ASSUME ListsInOrder PROVE Ends(active, next) /\ Ends(pool, memp)
  BY <1>4 DEF ListsInOrder
<1> QED
  BY <1>2, <1>3, <1>4, SortedByPlace DEF Active, Pool

\* In a sorted list the first one and those behind an entry.
LEMMA StandsAt ==
  ASSUME TimersTypeOK, ListsInOrder
  PROVE  /\ active = Null => Active = {}
         /\ active # Null => active \in Active
         /\ \A a \in Active :
              /\ next[a] \in Active \cup {Null}
              /\ a \in EntriesOf(a, next) /\ EntriesOf(a, next) \subseteq Active
              /\ EntriesOf(next[a], next) = EntriesOf(a, next) \ {a}
<1>1. PICK pos : Sorted(active, next, Active, pos)
  BY ActiveIs
<1>2. /\ active = Null => Active = {}
      /\ active # Null => active \in Active
  BY <1>1 DEF Sorted
<1>3. ASSUME NEW a \in Active
      PROVE  /\ next[a] \in Active \cup {Null}
             /\ a \in EntriesOf(a, next) /\ EntriesOf(a, next) \subseteq Active
             /\ EntriesOf(next[a], next) = EntriesOf(a, next) \ {a}
  <2>0. \A x \in Active : pos[x] \in Int /\ (pos[x] = pos[a] => x = a)
    BY <1>1 DEF Sorted
  <2>1. EntriesOf(a, next) = {x \in Active : pos[a] <= pos[x]}
    BY <1>1, TailIs
  <2>2. IF next[a] = Null THEN \A x \in Active : pos[x] <= pos[a]
        ELSE /\ next[a] \in Active /\ pos[a] < pos[next[a]]
             /\ \A x \in Active : pos[x] <= pos[a] \/ pos[next[a]] <= pos[x]
    BY <1>1 DEF Sorted
  <2>3. CASE next[a] = Null
    <3>1. EntriesOf(a, next) \ {a} = {}
      BY <2>0, <2>1, <2>2, <2>3
    <3>2. EntriesOf(next[a], next) = {}
      BY <2>3, NothingBehindNull
    <3> QED
      BY <2>0, <2>1, <2>3, <3>1, <3>2
  <2>4. CASE next[a] # Null
    <3>1. EntriesOf(next[a], next) = {x \in Active : pos[next[a]] <= pos[x]}
      BY <1>1, <2>2, <2>4, TailIs
    <3>2. \A x \in Active : pos[next[a]] <= pos[x] <=> pos[a] <= pos[x] /\ x # a
      BY <2>0, <2>2, <2>4
    <3> QED
      BY <2>0, <2>1, <2>2, <2>4, <3>1, <3>2
  <2> QED
    BY <2>3, <2>4
<1> QED
  BY <1>2, <1>3

-----------------------------------------------------------------------------
(* The interrupt.                                                          *)

\* What it does to the lists and to the walk when it handles the pcb s: the
\* others stay in their order, and it leaves the pcb in transit alone.
Disturbs(s) ==
  /\ s \in Pcbs \ InTransit
  /\ UNCHANGED walk
  /\ upset \cup Upsets(s) \subseteq upset'
  /\ unvisited' \subseteq unvisited /\ (s \in Active => s \notin unvisited')
  /\ \A a \in Active \cup {Null} : a # s =>
       /\ a \in Active' \cup {Null}
       /\ EntriesOf(a, next') = EntriesOf(a, next) \ {s}
  /\ \A x \in Pcbs : x # s /\ next[x] # s => next'[x] = next[x]
  /\ \A x \in Pcbs : x # s => memp'[x] = memp[x]
  /\ seen' \subseteq seen \cup {s}
  /\ stmt = "slowhead" /\ upset' = {} => seen' = seen /\ Active' \subseteq Active

\* With the same pcbs as before in the two lists together, the lists are in
\* order, and the walk finds the others of the active one where they were.
LEMMA OrderKept ==
  ASSUME TimersTypeOK, ListsInOrder, UNCHANGED walk,
         NEW pos, Sorted(active, next, Active, pos),
         NEW s \in Pcbs, NEW S2, NEW pos2, Sorted(active', next', S2, pos2),
         Active \ {s} \subseteq S2, S2 \subseteq Active \cup {s},
         s \in S2 => active' = s, \A x \in Active \ {s} : pos2[x] = pos[x],
         NEW P2, NEW ppos2, Sorted(pool', memp', P2, ppos2),
         S2 \cup P2 = Active \cup Pool, S2 \cap P2 = {}
  PROVE  /\ ListsInOrder' /\ Active' = S2
         /\ \A a \in Active \cup {Null} : a # s =>
              /\ a \in Active' \cup {Null}
              /\ EntriesOf(a, next') = EntriesOf(a, next) \ {s}
<1>1. Ends(active', next') /\ Active' = S2
  BY SortedIs DEF Active
<1>2. Ends(pool', memp') /\ Pool' = P2
  BY SortedIs DEF Pool
<1>3. InTransit' = InTransit
  BY DEF InTransit, walk
<1>4. ListsInOrder'
  BY <1>1, <1>2, <1>3 DEF ListsInOrder
<1>5. \A a \in Active \cup {Null} : a # s =>
        /\ a \in S2 \cup {Null}
        /\ EntriesOf(a, next') = EntriesOf(a, next) \ {s}
  BY TailsKept
<1> QED
  BY <1>1, <1>4, <1>5

\* A pcb of the list is neither in the pool nor in transit.
LEMMA ActiveIsNot ==
  ASSUME TimersTypeOK, ListsInOrder, NEW s \in Active
  PROVE  /\ s \in Pcbs \ InTransit /\ s \notin Pool /\ s # Null
  BY ActiveIs, PcbIs DEF ListsInOrder

\* tcp_input moves the pcb of the segment to the front.
LEMMA MoveDisturbs ==
  ASSUME TimersTypeOK, ListsInOrder, NEW s \in Active, MoveToFront(s)
  PROVE  ListsInOrder' /\ Disturbs(s)
<1>1. PICK pos : Sorted(active, next, Active, pos)
  BY ActiveIs
<1>2. PICK ppos : Sorted(pool, memp, Pool, ppos)
  BY ActiveIs
<1>3. s \in Pcbs \ InTransit /\ s \notin Pool /\ Active \subseteq Pcbs
  BY ActiveIs, ActiveIsNot
<1>4. next \in [Pcbs -> PcbOrNull]
  BY DEF TimersTypeOK
<1>5. /\ s # active /\ active' = s /\ pool' = pool /\ memp' = memp
      /\ unvisited' = unvisited \ {s} /\ upset' = upset \cup Upsets(s)
      /\ seen' = seen /\ UNCHANGED walk
      /\ next'[s] = active
      /\ \A x \in Pcbs \ {s} : next'[x] = IF x \in Active /\ next[x] = s THEN next[s]
                                          ELSE next[x]
  BY <1>3 DEF MoveToFront, Unlinked, pools
<1>6. Sorted(active, Unlinked(s), Active \ {s}, pos)
  <2>1. \A x \in Active \ {s} : Unlinked(s)[x] = IF next[x] = s THEN next[s] ELSE next[x]
    BY <1>3 DEF Unlinked
  <2> QED
    BY <1>1, <1>5, <2>1, TakenOut
<1>7. PICK pos2 : /\ Sorted(s, next', (Active \ {s}) \cup {s}, pos2)
                  /\ \A x \in Active \ {s} : pos2[x] = pos[x]
  <2>1. s \in Pcbs \ (Active \ {s})
    BY <1>3
  <2>2. \A x \in Active \ {s} : next'[x] = Unlinked(s)[x]
    BY <1>3, <1>5 DEF Unlinked
  <2> QED
    BY <1>5, <1>6, <2>1, <2>2, InFront
<1>8. (Active \ {s}) \cup {s} = Active
  OBVIOUS
<1>9. /\ ListsInOrder' /\ Active' = Active
      /\ \A a \in Active \cup {Null} : a # s =>
           /\ a \in Active' \cup {Null}
           /\ EntriesOf(a, next') = EntriesOf(a, next) \ {s}
  <2>1. Sorted(active', next', Active, pos2)
    BY <1>5, <1>7, <1>8
  <2>2. Sorted(pool', memp', Pool, ppos)
    BY <1>2, <1>5
  <2>3. Active \cap Pool = {} /\ s \in Pcbs
    BY <1>3 DEF ListsInOrder
  <2>4. Active \ {s} \subseteq Active /\ Active \subseteq Active \cup {s}
    OBVIOUS
  <2> QED
    BY <1>1, <1>5, <1>7, <2>1, <2>2, <2>3, <2>4, OrderKept
<1> QED
  BY <1>3, <1>5, <1>9 DEF Disturbs

\* A pcb that is reset goes to the pool.
LEMMA ResetDisturbs ==
  ASSUME TimersTypeOK, ListsInOrder, NEW s \in Active, Reset(s)
  PROVE  ListsInOrder' /\ Disturbs(s)
<1>1. PICK pos : Sorted(active, next, Active, pos)
  BY ActiveIs
<1>2. PICK ppos : Sorted(pool, memp, Pool, ppos)
  BY ActiveIs
<1>3. s \in Pcbs \ InTransit /\ s \notin Pool /\ Active \subseteq Pcbs /\ Pool \subseteq Pcbs
  BY ActiveIs, ActiveIsNot
<1>4. next \in [Pcbs -> PcbOrNull] /\ memp \in [Pcbs -> PcbOrNull]
  BY DEF TimersTypeOK
<1>5. /\ active' = IF s = active THEN next[s] ELSE active
      /\ pool' = s /\ memp'[s] = pool /\ \A x \in Pcbs \ {s} : memp'[x] = memp[x]
      /\ unvisited' = unvisited \ {s} /\ upset' = upset \cup Upsets(s)
      /\ seen' = seen /\ UNCHANGED walk
      /\ \A x \in Pcbs \ {s} : next'[x] = IF x \in Active /\ next[x] = s THEN next[s]
                                          ELSE next[x]
  BY <1>3, <1>4 DEF Reset, Unlinked
<1>6. Sorted(active', next', Active \ {s}, pos)
  <2>1. \A x \in Active \ {s} : next'[x] = IF next[x] = s THEN next[s] ELSE next[x]
    BY <1>3, <1>5
  <2>2. PICK head2, link2 : head2 = active' /\ link2 = next'
    OBVIOUS
  <2>3. head2 = IF s = active THEN next[s] ELSE active
    BY <1>5, <2>2
  <2>4. \A x \in Active \ {s} : link2[x] = IF next[x] = s THEN next[s] ELSE next[x]
    BY <2>1, <2>2
  <2>5. Sorted(head2, link2, Active \ {s}, pos)
    BY <1>1, <2>3, <2>4, TakenOut
  <2> QED
    BY <2>2, <2>5
<1>7. PICK ppos2 : Sorted(pool', memp', Pool \cup {s}, ppos2)
  <2>1. s \in Pcbs \ Pool /\ \A x \in Pool : memp'[x] = memp[x]
    BY <1>3, <1>5
  <2>2. pool' = s /\ memp'[s] = pool
    BY <1>5
  <2> QED
    BY <1>2, <2>1, <2>2, InFront
<1>8. /\ ListsInOrder' /\ Active' = Active \ {s}
      /\ \A a \in Active \cup {Null} : a # s =>
           /\ a \in Active' \cup {Null}
           /\ EntriesOf(a, next') = EntriesOf(a, next) \ {s}
  <2>1. Active \cap Pool = {}
    BY DEF ListsInOrder
  <2>2. /\ (Active \ {s}) \cup (Pool \cup {s}) = Active \cup Pool
        /\ (Active \ {s}) \cap (Pool \cup {s}) = {}
    BY <2>1
  <2>3. Active \ {s} \subseteq Active \cup {s} /\ s \notin Active \ {s} /\ s \in Pcbs
    BY <1>3
  <2> QED
    BY <1>1, <1>5, <1>6, <1>7, <2>2, <2>3, OrderKept
<1> QED
  BY <1>3, <1>5, <1>8 DEF Disturbs

\* A SYN takes the first pcb of the pool.
LEMMA SynDisturbs ==
  ASSUME TimersTypeOK, ListsInOrder, Syn
  PROVE  ListsInOrder' /\ Disturbs(pool)
<1>1. PICK pos : Sorted(active, next, Active, pos)
  BY ActiveIs
<1>2. PICK ppos : Sorted(pool, memp, Pool, ppos)
  BY ActiveIs
<1>3. pool \in Pool /\ pool \in Pcbs \ InTransit /\ pool \notin Active /\ Active \subseteq Pcbs
      /\ Pool \subseteq Pcbs
  <2>1. pool \in Pool /\ Pool \subseteq Pcbs
    BY <1>2, ActiveIs DEF Syn, Sorted
  <2> QED
    BY <2>1, ActiveIs DEF ListsInOrder
<1>4. next \in [Pcbs -> PcbOrNull] /\ memp \in [Pcbs -> PcbOrNull]
  BY DEF TimersTypeOK
<1>5. /\ pool' = memp[pool] /\ active' = pool
      /\ \A x \in Pcbs \ {pool} : memp'[x] = memp[x]
      /\ next'[pool] = active /\ \A x \in Pcbs \ {pool} : next'[x] = next[x]
      /\ seen' = seen \cup {pool} /\ unvisited' = unvisited /\ UNCHANGED walk
      /\ upset' = upset \cup Upsets(pool) \cup UpsetsNew
  BY <1>3, <1>4 DEF Syn
<1>6. Sorted(pool', memp', Pool \ {pool}, ppos)
  <2>1. \A x \in Pool \ {pool} : memp[x] # pool
    <3> SUFFICES ASSUME NEW x \in Pool \ {pool}, memp[x] = pool PROVE FALSE
      OBVIOUS
    <3>1. pool # Null /\ ppos[pool] <= ppos[x] /\ ppos[x] < ppos[pool]
          /\ ppos[pool] \in Int /\ ppos[x] \in Int
      BY <1>2, <1>3, PcbIs DEF Sorted
    <3> QED
      BY <3>1
  <2>2. \A x \in Pool \ {pool} : memp'[x] = IF memp[x] = pool THEN memp[pool] ELSE memp[x]
    BY <1>3, <1>5, <2>1
  <2>3. pool' = IF pool = pool THEN memp[pool] ELSE pool
    BY <1>5
  <2> QED
    BY <1>2, <1>3, <2>2, <2>3, TakenOut
<1>7. PICK pos2 : /\ Sorted(pool, next', Active \cup {pool}, pos2)
                  /\ \A x \in Active : pos2[x] = pos[x]
  <2>1. pool \in Pcbs \ Active /\ \A x \in Active : next'[x] = next[x]
    BY <1>3, <1>5
  <2> QED
    BY <1>1, <1>5, <2>1, InFront
<1>8. /\ ListsInOrder'
      /\ \A a \in Active \cup {Null} : a # pool =>
           /\ a \in Active' \cup {Null}
           /\ EntriesOf(a, next') = EntriesOf(a, next) \ {pool}
  <2>1. Active \cap Pool = {}
    BY DEF ListsInOrder
  <2>2. /\ (Active \cup {pool}) \cup (Pool \ {pool}) = Active \cup Pool
        /\ (Active \cup {pool}) \cap (Pool \ {pool}) = {}
    BY <1>3, <2>1
  <2>3. Active \ {pool} \subseteq Active \cup {pool} /\ pool \in Pcbs
    BY <1>3
  <2>4. Sorted(active', next', Active \cup {pool}, pos2)
    BY <1>5, <1>7
  <2> QED
    BY <1>1, <1>5, <1>6, <1>7, <2>2, <2>3, <2>4, OrderKept
<1>9. stmt = "slowhead" => upset' # {}
  BY <1>5 DEF UpsetsNew
<1> QED
  BY <1>3, <1>5, <1>8, <1>9 DEF Disturbs

\* Without a free one it takes the pcb of another connection.
LEMMA KillDisturbs ==
  ASSUME TimersTypeOK, ListsInOrder, NEW s \in Active, SynKills(s)
  PROVE  ListsInOrder' /\ Disturbs(s)
<1>1. PICK pos : Sorted(active, next, Active, pos)
  BY ActiveIs
<1>2. PICK ppos : Sorted(pool, memp, Pool, ppos)
  BY ActiveIs
<1>3. s \in Pcbs \ InTransit /\ s # Null /\ Active \subseteq Pcbs
  BY ActiveIs, ActiveIsNot
<1>4. next \in [Pcbs -> PcbOrNull] /\ memp \in [Pcbs -> PcbOrNull]
  BY DEF TimersTypeOK
<1> DEFINE head == IF s = active THEN next[s] ELSE active
<1>5. /\ pool = Null /\ pool' = Null /\ active' = s /\ next'[s] = head
      /\ \A x \in Pcbs \ {s} : memp'[x] = memp[x]
      /\ \A x \in Pcbs \ {s} : next'[x] = IF x \in Active /\ next[x] = s THEN next[s]
                                          ELSE next[x]
      /\ seen' = seen \cup {s} /\ unvisited' = unvisited \ {s} /\ UNCHANGED walk
      /\ upset' = upset \cup Upsets(s) \cup UpsetsNew
  BY <1>3, <1>4 DEF SynKills, Unlinked
<1>6. Sorted(head, Unlinked(s), Active \ {s}, pos)
  <2>1. \A x \in Active \ {s} : Unlinked(s)[x] = IF next[x] = s THEN next[s] ELSE next[x]
    BY <1>3 DEF Unlinked
  <2> QED
    BY <1>1, <2>1, TakenOut
<1>7. PICK pos2 : /\ Sorted(s, next', (Active \ {s}) \cup {s}, pos2)
                  /\ \A x \in Active \ {s} : pos2[x] = pos[x]
  <2>1. s \in Pcbs \ (Active \ {s})
    BY <1>3
  <2>2. \A x \in Active \ {s} : next'[x] = Unlinked(s)[x]
    BY <1>3, <1>5 DEF Unlinked
  <2> HIDE DEF head
  <2> QED
    BY <1>5, <1>6, <2>1, <2>2, InFront
<1>8. (Active \ {s}) \cup {s} = Active
  OBVIOUS
<1>9. /\ ListsInOrder' /\ Active' = Active
      /\ \A a \in Active \cup {Null} : a # s =>
           /\ a \in Active' \cup {Null}
           /\ EntriesOf(a, next') = EntriesOf(a, next) \ {s}
  <2>1. Sorted(active', next', Active, pos2)
    BY <1>5, <1>7, <1>8
  <2>2. Pool = {}
    BY <1>2, <1>5 DEF Sorted
  <2>3. Sorted(pool', memp', {}, ppos)
    BY <1>2, <1>5 DEF Sorted
  <2>4. Active \cup {} = Active \cup Pool /\ Active \cap {} = {} /\ s \in Pcbs
    BY <1>3, <2>2
  <2>5. Active \ {s} \subseteq Active /\ Active \subseteq Active \cup {s}
    OBVIOUS
  <2> HIDE DEF head
  <2> QED
    BY <1>1, <1>5, <1>7, <2>1, <2>3, <2>4, <2>5, OrderKept
<1>10. stmt = "slowhead" => upset' # {}
  BY <1>5 DEF UpsetsNew
<1> QED
  BY <1>3, <1>5, <1>9, <1>10 DEF Disturbs

\* A segment leaves the lists in order and disturbs the walk at one pcb.
LEMMA SegmentDisturbs ==
  ASSUME TimersTypeOK, ListsInOrder, Segment
  PROVE  ListsInOrder' /\ \E s \in Pcbs : Disturbs(s)
<1>1. CASE Syn
  <2>1. ListsInOrder' /\ Disturbs(pool)
    BY <1>1, SynDisturbs
  <2>2. pool \in Pcbs
    BY <2>1 DEF Disturbs
  <2> QED
    BY <2>1, <2>2
<1>2. ASSUME NEW s \in Active, MoveToFront(s) \/ Reset(s) \/ SynKills(s)
      PROVE  ListsInOrder' /\ \E q \in Pcbs : Disturbs(q)
  <2>1. ListsInOrder' /\ Disturbs(s)
    BY <1>2, MoveDisturbs, ResetDisturbs, KillDisturbs
  <2>2. s \in Pcbs
    BY ActiveIs
  <2> QED
    BY <2>1, <2>2
<1> QED
  BY <1>1, <1>2 DEF Segment

-----------------------------------------------------------------------------
(* The inductive invariant.                                                *)

\* The pcb the walk stands at, or goes to when it has given back one.
Ahead == IF stmt = "release" THEN next[pcb] ELSE pcb
Walks == {"fast", "fastnext"} \cup Unlinking

PcbInv ==
  /\ stmt \in {"fastnext", "unlink", "release", "advance"} => pcb # Null
  /\ stmt = "give" => pcb2 # Null
  /\ stmt \in {"fastnext", "unlink", "advance"} => pcb \notin unvisited

\* What the walk has still to visit is ahead of it.
StandInv ==
  ListsInOrder /\ stmt \in Walks /\ "current" \notin upset =>
    /\ Ahead \in Active \cup {Null}
    /\ unvisited \subseteq EntriesOf(Ahead, next) \ seen

\* Left alone, tcp_slowtmr has the pcb before in prev, and has visited none that
\* is ahead.
SoundInv ==
  upset = {} =>
    /\ ListsInOrder
    /\ stmt = "slowhead" => Active \cap seen = {}
    /\ stmt = "give" => memp[pcb2] = pool
    /\ stmt \in Unlinking =>
         /\ IF prev = Null THEN Ahead = active ELSE prev \in Active /\ next[prev] = Ahead
         /\ EntriesOf(Ahead, next) \cap seen \subseteq
              IF stmt \in {"unlink", "advance"} THEN {pcb} ELSE {}

WalkInv == TimersTypeOK /\ PcbInv /\ StandInv /\ SoundInv /\ NobodySkipped

\* At the start all pcbs are in the pool, one behind the other.
LEMMA InitPool ==
  ASSUME TimersInit
  PROVE  ListsInOrder
<1>1. /\ NumPcb \in Nat \ {0} /\ NumPcb \in Pcbs /\ NumPcb # Null
      /\ \A s \in Pcbs : s \in 1..NumPcb
  BY TimersAssumption DEF Pcbs, Null
<1>2. pool = NumPcb /\ \A s \in Pcbs : memp[s] = s - 1
  BY DEF TimersInit
<1> DEFINE pos == [s \in Pcbs |-> NumPcb - s]
<1>3. pos \in [Pcbs -> Int] /\ \A s \in Pcbs : pos[s] = NumPcb - s
  BY <1>1
<1> HIDE DEF pos
<1>4. \A x, y \in Pcbs : pos[x] = pos[y] => x = y
  BY <1>1, <1>3
<1>5. pool \in Pcbs /\ pool # Null /\ \A x \in Pcbs : pos[pool] <= pos[x]
  BY <1>1, <1>2, <1>3
<1>6. ASSUME NEW s \in Pcbs
      PROVE  IF memp[s] = Null THEN \A x \in Pcbs : pos[x] <= pos[s]
             ELSE /\ memp[s] \in Pcbs /\ pos[s] < pos[memp[s]]
                  /\ \A x \in Pcbs : pos[x] <= pos[s] \/ pos[memp[s]] <= pos[x]
  <2>1. memp[s] = s - 1 /\ s \in 1..NumPcb
    BY <1>1, <1>2
  <2>2. CASE s = 1
    <3>1. memp[s] = Null
      BY <2>1, <2>2 DEF Null
    <3>2. \A x \in Pcbs : pos[x] <= pos[s]
      BY <1>1, <1>3, <2>1, <2>2
    <3> QED
      BY <3>1, <3>2
  <2>3. CASE s # 1
    <3>1. memp[s] # Null /\ memp[s] \in Pcbs
      BY <1>1, <2>1, <2>3 DEF Null, Pcbs
    <3>2. pos[s] = NumPcb - s /\ pos[memp[s]] = NumPcb - (s - 1)
      BY <1>3, <2>1, <3>1
    <3>3. \A x \in Pcbs : pos[x] <= pos[s] \/ pos[memp[s]] <= pos[x]
      BY <1>1, <1>3, <2>1, <3>2
    <3>4. pos[s] < pos[memp[s]]
      BY <1>1, <2>1, <3>2
    <3> QED
      BY <3>1, <3>3, <3>4
  <2> QED
    BY <2>2, <2>3
<1>7. Sorted(pool, memp, Pcbs, pos)
  BY <1>3, <1>4, <1>5, <1>6 DEF Sorted
<1>8. Ends(pool, memp) /\ Pool = Pcbs
  BY <1>7, SortedIs DEF Pool
<1>9. Ends(active, next) /\ Active = {} /\ InTransit = {}
  BY NothingBehindNull DEF TimersInit, Active, InTransit
<1> QED
  BY <1>8, <1>9 DEF ListsInOrder

LEMMA InitWalkInv ==
  ASSUME TimersInit
  PROVE  WalkInv
<1>1. TimersTypeOK
  <2>1. NumPcb \in Pcbs /\ \A s \in Pcbs : s - 1 \in PcbOrNull
    BY TimersAssumption DEF Pcbs, PcbOrNull, Null
  <2> QED
    BY <2>1 DEF TimersInit, TimersTypeOK, PcbOrNull
<1>2. PcbInv /\ StandInv /\ NobodySkipped
  BY DEF TimersInit, PcbInv, StandInv, Walks, Unlinking, NobodySkipped
<1>3. SoundInv
  BY InitPool DEF TimersInit, SoundInv, Unlinking
<1> QED
  BY <1>1, <1>2, <1>3 DEF WalkInv

\* The types are kept by the interrupt ...
LEMMA SegmentType ==
  ASSUME TimersTypeOK, Segment
  PROVE  TimersTypeOK'
<1>1. /\ active \in PcbOrNull /\ next \in [Pcbs -> PcbOrNull]
      /\ pool \in PcbOrNull /\ memp \in [Pcbs -> PcbOrNull]
      /\ seen \subseteq Pcbs /\ unvisited \subseteq Pcbs /\ changed \in {0, 1}
      /\ upset \subseteq {"current", "previous", "first", "new", "restart", "pool"}
  BY DEF TimersTypeOK
<1>2. \A x \in Pcbs : x \in PcbOrNull /\ next[x] \in PcbOrNull /\ memp[x] \in PcbOrNull
  BY <1>1 DEF PcbOrNull
<1>3. ASSUME NEW s \in Pcbs
      PROVE  /\ Unlinked(s) \in [Pcbs -> PcbOrNull]
             /\ Upsets(s) \cup UpsetsNew \subseteq {"current", "previous", "first", "new", "pool"}
  BY <1>1 DEF Unlinked, Upsets, UpsetsNew
<1>4. CASE Syn
  <2>1. pool \in Pcbs
    BY <1>1, <1>4 DEF Syn, PcbOrNull
  <2>2. /\ pool' \in PcbOrNull /\ memp' \in [Pcbs -> PcbOrNull]
        /\ active' \in PcbOrNull /\ next' \in [Pcbs -> PcbOrNull]
    <3>1. Null \in PcbOrNull
      BY DEF PcbOrNull
    <3> QED
      BY <1>1, <1>2, <1>4, <2>1, <3>1 DEF Syn
  <2>3. /\ seen' \subseteq Pcbs /\ changed' \in {0, 1} /\ unvisited' \subseteq Pcbs
        /\ upset' \subseteq {"current", "previous", "first", "new", "restart", "pool"}
    BY <1>1, <1>3, <1>4, <2>1 DEF Syn
  <2> QED
    BY <1>4, <2>2, <2>3 DEF Syn, walk, TimersTypeOK
<1>5. ASSUME NEW s \in Active, MoveToFront(s) \/ Reset(s) \/ SynKills(s)
      PROVE  TimersTypeOK'
  <2>1. s \in Pcbs /\ Null \in PcbOrNull
    BY ActiveIs DEF PcbOrNull
  <2>2. /\ pool' \in PcbOrNull /\ memp' \in [Pcbs -> PcbOrNull] /\ active' \in PcbOrNull
        /\ seen' \subseteq Pcbs /\ changed' \in {0, 1} /\ unvisited' \subseteq Pcbs
    BY <1>1, <1>2, <1>5, <2>1 DEF MoveToFront, Reset, SynKills, pools
  <2>3. next' \in [Pcbs -> PcbOrNull]
    BY <1>1, <1>2, <1>3, <1>5, <2>1 DEF MoveToFront, Reset, SynKills
  <2>4. upset' \subseteq {"current", "previous", "first", "new", "restart", "pool"}
    BY <1>1, <1>3, <1>5, <2>1 DEF MoveToFront, Reset, SynKills
  <2> QED
    BY <1>5, <2>2, <2>3, <2>4 DEF MoveToFront, Reset, SynKills, walk, TimersTypeOK
<1> QED
  BY <1>4, <1>5 DEF Segment

\* ... and by the main loop, which follows no link of Null.
LEMMA LoopType ==
  ASSUME TimersTypeOK, PcbInv, tcp_fasttmr \/ tcp_slowtmr
  PROVE  TimersTypeOK'
<1>1. /\ active \in PcbOrNull /\ next \in [Pcbs -> PcbOrNull]
      /\ pool \in PcbOrNull /\ memp \in [Pcbs -> PcbOrNull]
      /\ seen \subseteq Pcbs /\ unvisited \subseteq Pcbs
      /\ changed \in {0, 1} /\ tick \in {0, 1}
      /\ {pcb, prev, pcb2} \subseteq PcbOrNull
      /\ upset \subseteq {"current", "previous", "first", "new", "restart", "pool"}
  BY DEF TimersTypeOK
<1>2. pcb # Null => pcb \in Pcbs /\ next[pcb] \in PcbOrNull
  BY <1>1 DEF PcbOrNull
<1>3. Active \subseteq Pcbs /\ Null \in PcbOrNull
  BY ActiveIs DEF PcbOrNull
<1>4. CASE tcp_fasttmr
  <2>1. CASE FastStart
    BY <1>1, <2>1 DEF FastStart, Step, lists, pools, TimersTypeOK
  <2>2. CASE FastHead
    BY <1>1, <1>3, <2>2 DEF FastHead, Step, lists, pools, TimersTypeOK
  <2>3. CASE FastVisit
    BY <1>1, <1>2, <2>3 DEF FastVisit, Step, lists, pools, TimersTypeOK
  <2>4. CASE FastNext
    BY <1>1, <1>2, <2>4 DEF FastNext, Step, lists, pools, ghosts, PcbInv, TimersTypeOK
  <2>5. CASE FastEnd
    <3>1. tick' \in {0, 1} /\ seen' \subseteq Pcbs /\ stmt' \in {"slowhead", "loop"}
          /\ upset' \subseteq {"current", "previous", "first", "new", "restart", "pool"}
      <4>1. CASE tick = 0
        <5>1. tick' = 1 /\ stmt' = "slowhead" /\ seen' = {} /\ upset' = {}
          BY <2>5, <4>1 DEF FastEnd
        <5> QED
          BY <5>1
      <4>2. CASE tick # 0
        <5>1. tick' = 0 /\ stmt' = "loop" /\ seen' = seen /\ upset' = upset
          BY <1>1, <2>5, <4>2 DEF FastEnd
        <5> QED
          BY <1>1, <5>1
      <4> QED
        BY <4>1, <4>2
    <3> QED
      BY <1>1, <2>5, <3>1 DEF FastEnd, lists, pools, TimersTypeOK
  <2> QED
    BY <1>4, <2>1, <2>2, <2>3, <2>4, <2>5 DEF tcp_fasttmr
<1>5. CASE tcp_slowtmr
  <2>1. CASE SlowHead
    BY <1>1, <1>3, <2>1 DEF SlowHead, Step, lists, pools, TimersTypeOK
  <2>2. CASE SlowSkip
    BY <1>1, <2>2 DEF SlowSkip, Step, lists, pools, ghosts, TimersTypeOK
  <2>3. CASE SlowVisit
    BY <1>1, <1>2, <2>3 DEF SlowVisit, Step, lists, pools, TimersTypeOK
  <2>4. CASE Unlink
    <3>1. active' \in PcbOrNull /\ next' \in [Pcbs -> PcbOrNull]
      <4>1. prev # Null => prev \in Pcbs
        BY <1>1 DEF PcbOrNull
      <4> QED
        BY <1>1, <1>2, <2>4, <4>1 DEF Unlink, Step, PcbInv
    <3> QED
      BY <1>1, <2>4, <3>1 DEF Unlink, Step, pools, ghosts, TimersTypeOK
  <2>5. CASE Release
    BY <1>1, <1>2, <2>5 DEF Release, Step, lists, ghosts, PcbInv, TimersTypeOK
  <2>6. CASE Give
    BY <1>1, <1>3, <2>6 DEF Give, Step, lists, ghosts, TimersTypeOK
  <2>7. CASE Advance
    BY <1>1, <1>2, <2>7 DEF Advance, Step, lists, pools, ghosts, PcbInv, TimersTypeOK
  <2>8. CASE Clear
    BY <1>1, <2>8 DEF Clear, Step, lists, pools, ghosts, TimersTypeOK
  <2>9. CASE Test
    BY <1>1, <2>9 DEF Test, Step, lists, pools, ghosts, TimersTypeOK
  <2>10. CASE SlowEnd
    BY <1>1, <1>3, <2>10 DEF SlowEnd, Step, lists, pools, ghosts, TimersTypeOK
  <2> QED
    BY <1>5, <2>1, <2>2, <2>3, <2>4, <2>5, <2>6, <2>7, <2>8, <2>9, <2>10 DEF tcp_slowtmr
<1> QED
  BY <1>4, <1>5

\* A segment that takes the pcb the walk stands at upsets it; any other leaves
\* the walk where it is, with the same pcbs ahead but the one it takes.
LEMMA SegmentStands ==
  ASSUME WalkInv, ListsInOrder, stmt \in Walks, NEW s \in Pcbs, Disturbs(s),
         "current" \notin upset'
  PROVE  /\ Ahead' = Ahead /\ Ahead # s
         /\ Ahead \in Active \cup {Null} /\ Ahead' \in Active' \cup {Null}
         /\ EntriesOf(Ahead', next') = EntriesOf(Ahead, next) \ {s}
         /\ unvisited \subseteq EntriesOf(Ahead, next) \ seen
<1>1. "current" \notin upset /\ "current" \notin Upsets(s)
  BY DEF Disturbs
<1>2. s \notin InHand
  BY <1>1 DEF Upsets, Walks, Unlinking
<1>3. s # pcb /\ (stmt = "release" => s # next[pcb])
  BY <1>2 DEF InHand
<1>4. stmt' = stmt /\ pcb' = pcb
  BY DEF Disturbs, walk
<1>5. Ahead' = Ahead /\ Ahead # s
  <2>1. CASE stmt = "release"
    <3>1. pcb \in Pcbs
      BY <2>1 DEF WalkInv, PcbInv, TimersTypeOK, PcbOrNull
    <3>2. next'[pcb] = next[pcb]
      BY <1>3, <2>1, <3>1 DEF Disturbs
    <3> QED
      BY <1>3, <1>4, <2>1, <3>2 DEF Ahead
  <2>2. CASE stmt # "release"
    BY <1>3, <1>4, <2>2 DEF Ahead
  <2> QED
    BY <2>1, <2>2
<1>6. Ahead \in Active \cup {Null} /\ unvisited \subseteq EntriesOf(Ahead, next) \ seen
  BY <1>1 DEF WalkInv, StandInv
<1>7. PICK a \in Active \cup {Null} : a = Ahead
  BY <1>6
<1>8. a \in Active' \cup {Null} /\ EntriesOf(a, next') = EntriesOf(a, next) \ {s}
  BY <1>5, <1>7 DEF Disturbs
<1> QED
  BY <1>5, <1>6, <1>7, <1>8

\* tcp_input between two statements of the walks.
LEMMA SegmentKeeps ==
  ASSUME WalkInv, ListsInOrder, Segment
  PROVE  WalkInv'
<1>1. TimersTypeOK /\ TimersTypeOK'
  BY SegmentType DEF WalkInv
<1>2. ListsInOrder'
  BY <1>1, SegmentDisturbs
<1>3. PICK s \in Pcbs : Disturbs(s)
  BY <1>1, SegmentDisturbs
<1>4. /\ stmt' = stmt /\ pcb' = pcb /\ prev' = prev /\ pcb2' = pcb2
      /\ unvisited' \subseteq unvisited /\ upset \subseteq upset' /\ seen' \subseteq seen \cup {s}
      /\ s \notin InTransit
  BY <1>3 DEF Disturbs, walk
<1>5. PcbInv'
  BY <1>4 DEF WalkInv, PcbInv
<1>6. StandInv'
  <2> SUFFICES ASSUME stmt \in Walks, "current" \notin upset'
               PROVE  /\ Ahead' \in Active' \cup {Null}
                      /\ unvisited' \subseteq EntriesOf(Ahead', next') \ seen'
    BY <1>4 DEF StandInv
  <2>1. /\ Ahead \in Active \cup {Null} /\ Ahead' \in Active' \cup {Null}
        /\ EntriesOf(Ahead', next') = EntriesOf(Ahead, next) \ {s}
        /\ unvisited \subseteq EntriesOf(Ahead, next) \ seen
    BY <1>3, SegmentStands
  <2>2. EntriesOf(Ahead, next) \subseteq Active
    <3>1. CASE Ahead = Null
      BY <3>1, NothingBehindNull
    <3>2. CASE Ahead \in Active
      BY <1>1, <3>2, StandsAt
    <3> QED
      BY <2>1, <3>1, <3>2
  <2>3. s \notin unvisited'
    BY <1>3, <1>4, <2>1, <2>2 DEF Disturbs
  <2> QED
    BY <1>4, <2>1, <2>3
<1>7. SoundInv'
  <2> SUFFICES ASSUME upset' = {}
               PROVE  /\ stmt = "slowhead" => Active' \cap seen' = {}
                      /\ stmt = "give" => memp'[pcb2] = pool'
                      /\ stmt \in Unlinking =>
                           /\ IF prev = Null THEN Ahead' = active'
                              ELSE prev \in Active' /\ next'[prev] = Ahead'
                           /\ EntriesOf(Ahead', next') \cap seen' \subseteq
                                IF stmt \in {"unlink", "advance"} THEN {pcb} ELSE {}
    BY <1>2, <1>4 DEF SoundInv
  <2>1. upset = {} /\ Upsets(s) = {}
    BY <1>3, <1>4 DEF Disturbs
  <2>2. /\ stmt = "slowhead" => Active \cap seen = {}
        /\ stmt = "give" => memp[pcb2] = pool
        /\ stmt \in Unlinking =>
             /\ IF prev = Null THEN Ahead = active ELSE prev \in Active /\ next[prev] = Ahead
             /\ EntriesOf(Ahead, next) \cap seen \subseteq
                  IF stmt \in {"unlink", "advance"} THEN {pcb} ELSE {}
    BY <2>1 DEF WalkInv, SoundInv
  <2>3. stmt = "slowhead" => Active' \cap seen' = {}
    BY <1>3, <2>2 DEF Disturbs
  <2>4. stmt = "give" => memp'[pcb2] = pool'
    <3> SUFFICES ASSUME stmt = "give" PROVE memp'[pcb2] = pool'
      OBVIOUS
    <3>1. pcb2 \in Pcbs /\ pcb2 # s
      <4>1. pcb2 \in Pcbs
        BY <1>1 DEF WalkInv, PcbInv, TimersTypeOK, PcbOrNull
      <4>2. pcb2 \in InTransit
        BY DEF InTransit
      <4> QED
        BY <1>4, <4>1, <4>2
    <3>2. memp'[pcb2] = memp[pcb2]
      BY <1>3, <3>1 DEF Disturbs
    <3>3. pool' = pool
      BY <2>1 DEF Upsets
    <3> QED
      BY <2>2, <3>2, <3>3
  <2>5. ASSUME stmt \in Unlinking
        PROVE  /\ IF prev = Null THEN Ahead' = active'
                  ELSE prev \in Active' /\ next'[prev] = Ahead'
               /\ EntriesOf(Ahead', next') \cap seen' \subseteq
                    IF stmt \in {"unlink", "advance"} THEN {pcb} ELSE {}
    <3>1. stmt \in Walks /\ stmt # "loop"
      BY <2>5 DEF Walks, Unlinking
    <3>2. /\ Ahead' = Ahead /\ Ahead # s
          /\ EntriesOf(Ahead', next') = EntriesOf(Ahead, next) \ {s}
      BY <1>3, <3>1, SegmentStands
    <3>3. EntriesOf(Ahead', next') \cap seen' \subseteq EntriesOf(Ahead, next) \cap seen
      BY <1>4, <3>2
    <3>4. CASE prev = Null
      <4>1. active' = active
        BY <2>1, <2>5, <3>4 DEF Upsets
      <4> QED
        BY <2>2, <2>5, <3>2, <3>3, <3>4, <4>1
    <3>5. CASE prev # Null
      <4>1. prev \in Active /\ prev \in Pcbs /\ next[prev] = Ahead
        BY <1>1, <2>2, <2>5, <3>5, ActiveIs
      <4>2. prev # s
        BY <2>1, <3>1 DEF Upsets
      <4>3. next'[prev] = Ahead'
        BY <1>3, <3>2, <4>1, <4>2 DEF Disturbs
      <4>4. prev \in Active'
        BY <1>3, <3>5, <4>1, <4>2 DEF Disturbs
      <4> QED
        BY <2>2, <2>5, <3>3, <3>5, <4>3, <4>4
    <3> QED
      BY <3>4, <3>5
  <2> QED
    BY <2>3, <2>4, <2>5
<1>8. NobodySkipped'
  BY <1>4 DEF WalkInv, NobodySkipped
<1> QED
  BY <1>1, <1>5, <1>6, <1>7, <1>8 DEF WalkInv

\* What the statements that write no list leave as it is.
LEMMA SameLists ==
  ASSUME UNCHANGED lists, UNCHANGED pools
  PROVE  /\ active' = active /\ next' = next /\ pool' = pool /\ memp' = memp
         /\ Active' = Active
         /\ ListsInOrder /\ InTransit' = InTransit => ListsInOrder'
<1>1. active' = active /\ next' = next /\ pool' = pool /\ memp' = memp
  BY DEF lists, pools
<1>2. Active' = Active /\ Pool' = Pool
  BY <1>1 DEF Active, Pool
<1> QED
  BY <1>1, <1>2 DEF ListsInOrder

\* What the walk has ahead when it goes on from a pcb of the list.
LEMMA GoesOn ==
  ASSUME TimersTypeOK, ListsInOrder, pcb \in Active
  PROVE  /\ pcb # Null /\ next[pcb] \in Active \cup {Null}
         /\ pcb \in EntriesOf(pcb, next)
         /\ EntriesOf(next[pcb], next) = EntriesOf(pcb, next) \ {pcb}
  BY ActiveIsNot, StandsAt

\* tcp_fasttmr.
LEMMA FastKeeps ==
  ASSUME WalkInv, ListsInOrder, tcp_fasttmr
  PROVE  WalkInv'
<1>1. TimersTypeOK /\ TimersTypeOK' /\ PcbInv
  BY LoopType DEF WalkInv
<1>2. UNCHANGED lists /\ UNCHANGED pools
  BY DEF tcp_fasttmr, FastStart, FastHead, FastVisit, FastNext, FastEnd
<1>3. InTransit = {} /\ InTransit' = {} /\ Ahead = pcb /\ Ahead' = pcb'
  BY DEF tcp_fasttmr, FastStart, FastHead, FastVisit, FastNext, FastEnd, Step, InTransit, Ahead
<1>4. /\ active' = active /\ next' = next /\ pool' = pool /\ memp' = memp
      /\ Active' = Active /\ ListsInOrder'
  BY <1>2, <1>3, SameLists
<1>5. CASE FastStart
  <2>1. stmt' = "fasthead"
    BY <1>5 DEF FastStart, Step
  <2> QED
    BY <1>1, <1>4, <2>1
    DEF WalkInv, PcbInv, StandInv, SoundInv, NobodySkipped, Walks, Unlinking
<1>6. CASE FastHead
  <2>1. stmt' = "fast" /\ pcb' = active /\ unvisited' = Active \ seen /\ seen' = seen
    BY <1>6 DEF FastHead, Step
  <2>2. /\ active = Null => Active = {}
        /\ active # Null => active \in Active
    BY <1>1, StandsAt
  <2>3. EntriesOf(Ahead', next') = Active
    BY <1>3, <1>4, <2>1 DEF Active
  <2>4. PcbInv' /\ NobodySkipped' /\ SoundInv'
    BY <1>4, <2>1, <2>2 DEF PcbInv, NobodySkipped, SoundInv, Unlinking
  <2>5. StandInv'
    BY <1>3, <1>4, <2>1, <2>2, <2>3 DEF StandInv
  <2> QED
    BY <1>1, <2>4, <2>5 DEF WalkInv
<1>7. CASE FastVisit
  <2>1. /\ stmt = "fast" /\ stmt' = "fastnext" /\ pcb' = pcb /\ pcb # Null /\ upset' = upset
        /\ seen' = seen \cup {pcb} /\ unvisited' = unvisited \ {pcb}
    BY <1>7 DEF FastVisit, Step
  <2>2. PcbInv' /\ NobodySkipped' /\ SoundInv'
    BY <1>4, <2>1 DEF PcbInv, NobodySkipped, SoundInv, Unlinking
  <2>3. StandInv'
    BY <1>3, <1>4, <2>1 DEF WalkInv, StandInv, Walks
  <2> QED
    BY <1>1, <2>2, <2>3 DEF WalkInv
<1>8. CASE FastNext
  <2>1. /\ stmt = "fastnext" /\ stmt' = "fast" /\ pcb' = next[pcb] /\ upset' = upset
        /\ seen' = seen /\ unvisited' = unvisited /\ pcb # Null /\ pcb \notin unvisited
    BY <1>1, <1>8 DEF FastNext, Step, ghosts, PcbInv
  <2>2. PcbInv' /\ SoundInv'
    BY <1>4, <2>1 DEF PcbInv, SoundInv, Unlinking
  <2>3. ASSUME "current" \notin upset
        PROVE  /\ pcb' \in Active \cup {Null}
               /\ unvisited \subseteq EntriesOf(pcb', next) \ seen
    <3>1. pcb \in Active /\ unvisited \subseteq EntriesOf(pcb, next) \ seen
      BY <1>3, <2>1, <2>3 DEF WalkInv, StandInv, Walks
    <3> QED
      BY <1>1, <2>1, <3>1, GoesOn
  <2>4. StandInv'
    BY <1>3, <1>4, <2>1, <2>3 DEF StandInv
  <2>5. NobodySkipped'
    <3> SUFFICES ASSUME pcb' = Null, "current" \notin upset PROVE unvisited = {}
      BY <2>1 DEF NobodySkipped
    <3> QED
      BY <2>3, NothingBehindNull
  <2> QED
    BY <1>1, <2>2, <2>4, <2>5 DEF WalkInv
<1>9. CASE FastEnd
  <2>1. /\ stmt' \in {"slowhead", "loop"} /\ (stmt' = "slowhead" => seen' = {})
    BY <1>9 DEF FastEnd
  <2> QED
    BY <1>1, <1>4, <2>1
    DEF WalkInv, PcbInv, StandInv, SoundInv, NobodySkipped, Walks, Unlinking
<1> QED
  BY <1>5, <1>6, <1>7, <1>8, <1>9 DEF tcp_fasttmr

\* tcp_slowtmr where it writes no list.
LEMMA SlowKeeps ==
  ASSUME WalkInv, ListsInOrder, TimersTypeOK',
         SlowHead \/ SlowSkip \/ SlowVisit \/ Advance \/ Clear \/ Test \/ SlowEnd
  PROVE  WalkInv'
<1>1. TimersTypeOK /\ PcbInv
  BY DEF WalkInv
<1>2. UNCHANGED lists /\ UNCHANGED pools
  BY DEF SlowHead, SlowSkip, SlowVisit, Advance, Clear, Test, SlowEnd
<1>3. InTransit = {} /\ InTransit' = {} /\ Ahead = pcb /\ Ahead' = pcb'
  BY DEF SlowHead, SlowSkip, SlowVisit, Advance, Clear, Test, SlowEnd, Step, InTransit, Ahead
<1>4. /\ active' = active /\ next' = next /\ pool' = pool /\ memp' = memp
      /\ Active' = Active /\ ListsInOrder'
  BY <1>2, <1>3, SameLists
<1>5. ASSUME stmt \in Unlinking, "current" \notin upset
      PROVE  pcb \in Active \cup {Null} /\ unvisited \subseteq EntriesOf(pcb, next) \ seen
  BY <1>3, <1>5 DEF WalkInv, StandInv, Walks
<1>6. ASSUME upset = {}, stmt \in Unlinking
      PROVE  /\ IF prev = Null THEN pcb = active ELSE prev \in Active /\ next[prev] = pcb
             /\ EntriesOf(pcb, next) \cap seen \subseteq
                  IF stmt \in {"unlink", "advance"} THEN {pcb} ELSE {}
             /\ pcb \in Active \cup {Null}
  BY <1>3, <1>5, <1>6 DEF WalkInv, SoundInv
<1>7. CASE SlowHead
  <2>1. /\ stmt = "slowhead" /\ stmt' = "slow" /\ pcb' = active /\ prev' = Null
        /\ unvisited' = Active \ seen /\ seen' = seen /\ upset' = upset
    BY <1>7 DEF SlowHead, Step
  <2>2. /\ active = Null => Active = {}
        /\ active # Null => active \in Active
    BY <1>1, StandsAt
  <2>3. EntriesOf(Ahead', next') = Active
    BY <1>3, <1>4, <2>1 DEF Active
  <2>4. PcbInv' /\ NobodySkipped'
    BY <1>4, <2>1, <2>2 DEF PcbInv, NobodySkipped
  <2>5. StandInv'
    BY <1>3, <1>4, <2>1, <2>2, <2>3 DEF StandInv
  <2>6. upset = {} => Active \cap seen = {}
    BY <2>1 DEF WalkInv, SoundInv
  <2>7. SoundInv'
    BY <1>3, <1>4, <2>1, <2>3, <2>6 DEF SoundInv
  <2> QED
    BY <1>1, <2>4, <2>5, <2>7 DEF WalkInv
<1>8. CASE SlowSkip
  <2>1. /\ stmt = "slow" /\ stmt' = "slow" /\ pcb \in seen /\ pcb' = next[pcb] /\ upset' = upset
        /\ seen' = seen /\ unvisited' = unvisited /\ stmt \in Unlinking /\ pcb # Null
    BY <1>1, <1>8, PcbIs DEF SlowSkip, ghosts, TimersTypeOK, Unlinking
  <2>2. ASSUME "current" \notin upset
        PROVE  /\ pcb' \in Active \cup {Null}
               /\ unvisited \subseteq EntriesOf(pcb', next) \ seen
    <3>1. pcb \in Active /\ unvisited \subseteq EntriesOf(pcb, next) \ seen
      BY <1>5, <2>1, <2>2
    <3> QED
      BY <1>1, <2>1, <3>1, GoesOn
  <2>3. upset # {}
    <3> SUFFICES ASSUME upset = {} PROVE FALSE
      OBVIOUS
    <3>1. pcb \in Active /\ EntriesOf(pcb, next) \cap seen = {}
      BY <1>6, <2>1
    <3> QED
      BY <1>1, <2>1, <3>1, GoesOn
  <2>4. PcbInv' /\ SoundInv'
    BY <2>1, <2>3 DEF PcbInv, SoundInv
  <2>5. StandInv'
    BY <1>3, <1>4, <2>1, <2>2 DEF StandInv
  <2>6. NobodySkipped'
    <3> SUFFICES ASSUME pcb' = Null, "current" \notin upset PROVE unvisited = {}
      BY <2>1 DEF NobodySkipped
    <3> QED
      BY <2>2, NothingBehindNull
  <2> QED
    BY <1>1, <2>4, <2>5, <2>6 DEF WalkInv
<1>9. CASE SlowVisit
  <2>1. /\ stmt = "slow" /\ stmt' \in {"unlink", "advance"} /\ pcb' = pcb /\ pcb # Null
        /\ upset' = upset /\ prev' = prev /\ seen' = seen \cup {pcb}
        /\ unvisited' = unvisited \ {pcb} /\ stmt \in Unlinking
    BY <1>9 DEF SlowVisit, Step, Unlinking
  <2>2. PcbInv' /\ NobodySkipped'
    BY <2>1 DEF PcbInv, NobodySkipped
  <2>3. StandInv'
    BY <1>3, <1>4, <1>5, <2>1 DEF StandInv
  <2>4. SoundInv'
    BY <1>3, <1>4, <1>6, <2>1 DEF SoundInv
  <2> QED
    BY <1>1, <2>2, <2>3, <2>4 DEF WalkInv
<1>10. CASE Advance
  <2>1. /\ stmt = "advance" /\ stmt' = "clear" /\ pcb' = next[pcb] /\ prev' = pcb
        /\ upset' = upset /\ seen' = seen /\ unvisited' = unvisited /\ stmt \in Unlinking
        /\ pcb # Null /\ pcb \notin unvisited
    BY <1>1, <1>10 DEF Advance, Step, ghosts, PcbInv, Unlinking
  <2>2. ASSUME "current" \notin upset
        PROVE  /\ pcb \in Active /\ pcb' \in Active \cup {Null}
               /\ unvisited \subseteq EntriesOf(pcb', next) \ seen
    <3>1. pcb \in Active /\ unvisited \subseteq EntriesOf(pcb, next) \ seen
      BY <1>5, <2>1, <2>2
    <3> QED
      BY <1>1, <2>1, <3>1, GoesOn
  <2>3. ASSUME upset = {}
        PROVE  pcb \in Active /\ EntriesOf(pcb', next) \cap seen = {}
    <3>1. pcb \in Active /\ EntriesOf(pcb, next) \cap seen \subseteq {pcb}
      BY <1>6, <2>1, <2>3
    <3> QED
      BY <1>1, <2>1, <3>1, GoesOn
  <2>4. PcbInv' /\ NobodySkipped'
    BY <2>1 DEF PcbInv, NobodySkipped
  <2>5. StandInv'
    BY <1>3, <1>4, <2>1, <2>2 DEF StandInv
  <2>6. SoundInv'
    BY <1>3, <1>4, <2>1, <2>3 DEF SoundInv
  <2> QED
    BY <1>1, <2>4, <2>5, <2>6 DEF WalkInv
<1>11. CASE Clear \/ Test
  <2>1. /\ stmt \in {"clear", "test"} /\ stmt' \in {"test", "slow", "slowhead"}
        /\ (stmt' = "slowhead" => upset' # {}) /\ upset \subseteq upset'
        /\ (stmt' # "slowhead" => upset' = upset)
        /\ pcb' = pcb /\ prev' = prev /\ seen' = seen /\ unvisited' = unvisited
        /\ stmt \in Unlinking
    BY <1>11 DEF Clear, Test, Step, ghosts, Unlinking
  <2>2. PcbInv'
    BY <2>1 DEF PcbInv
  <2>3. StandInv'
    BY <1>3, <1>4, <1>5, <2>1 DEF StandInv, Walks, Unlinking
  <2>4. SoundInv'
    BY <1>3, <1>4, <1>6, <2>1 DEF SoundInv, Unlinking
  <2>5. NobodySkipped'
    <3> SUFFICES ASSUME pcb = Null, "current" \notin upset PROVE unvisited = {}
      BY <2>1 DEF NobodySkipped
    <3> QED
      BY <1>5, <2>1, NothingBehindNull
  <2> QED
    BY <1>1, <2>2, <2>3, <2>4, <2>5 DEF WalkInv
<1>12. CASE SlowEnd
  <2>1. stmt' = "loop"
    BY <1>12 DEF SlowEnd, Step
  <2> QED
    BY <1>4, <2>1
    DEF WalkInv, PcbInv, StandInv, SoundInv, NobodySkipped, Walks, Unlinking
<1> QED
  BY <1>7, <1>8, <1>9, <1>10, <1>11, <1>12

\* Where the unlinking leaves the lists in order, it took out the pcb that the
\* walk stands at, and nobody else: prev was the one before.
LEMMA UnlinkTakesOne ==
  ASSUME TimersTypeOK, ListsInOrder, ListsInOrder', Unlink, pcb \in Active
  PROVE  IF prev = Null THEN pcb = active ELSE prev \in Active /\ next[prev] = pcb
<1>1. PICK pos : Sorted(active, next, Active, pos)
  BY ActiveIs
<1>2. /\ stmt = "unlink" /\ stmt' = "release" /\ pcb' = pcb /\ UNCHANGED pools
  BY DEF Unlink, Step
<1>3. Pool' = Pool /\ InTransit = {} /\ InTransit' = {pcb}
  BY <1>2 DEF Pool, InTransit, pools
<1>4. Active' = Active \ {pcb}
  BY <1>3 DEF ListsInOrder
<1>5. /\ Active \subseteq Pcbs /\ Null \notin Pcbs /\ next \in [Pcbs -> PcbOrNull]
      /\ \A x \in Active : pos[x] \in Int
  BY <1>1, ActiveIs, PcbIs DEF TimersTypeOK, Sorted
<1>6. active \in Active /\ \A x \in Active : pos[active] <= pos[x]
  BY <1>1 DEF Sorted
<1>7. CASE prev = Null
  <2>1. active' = next[pcb] /\ next' = next
    BY <1>7 DEF Unlink
  <2>2. Active' = EntriesOf(pcb, next) \ {pcb}
    <3>1. EntriesOf(next[pcb], next) = EntriesOf(pcb, next) \ {pcb}
      BY StandsAt
    <3> QED
      BY <2>1, <3>1 DEF Active
  <2>3. EntriesOf(pcb, next) = {x \in Active : pos[pcb] <= pos[x]}
    BY <1>1, TailIs
  <2>4. active # pcb => pos[pcb] <= pos[active]
    BY <1>4, <1>6, <2>2, <2>3
  <2>5. active # pcb => pos[active] = pos[pcb]
    BY <1>5, <1>6, <2>4
  <2>6. active = pcb
    BY <1>1, <1>6, <2>5 DEF Sorted
  <2> QED
    BY <1>7, <2>6
<1>8. CASE prev # Null
  <2>1. /\ active' = active /\ prev \in Pcbs
        /\ next'[prev] = next[pcb] /\ \A x \in Pcbs \ {prev} : next'[x] = next[x]
    BY <1>5, <1>8 DEF Unlink, TimersTypeOK, PcbOrNull
  <2>2. PICK pos2 : Sorted(active', next', Active', pos2)
    <3>1. Ends(active', next') /\ active' \in PcbOrNull /\ next' \in [Pcbs -> PcbOrNull]
      <4>1. next[pcb] \in PcbOrNull
        BY <1>5
      <4> QED
        BY <1>8, <4>1 DEF ListsInOrder, Unlink, TimersTypeOK
    <3> QED
      BY <3>1, SortedByPlace DEF Active
  <2>3. active \in Active' /\ \A x \in Active' : next'[x] \in Active' \cup {Null}
    BY <1>5, <1>6, <2>1, <2>2 DEF Sorted
  <2>4. prev \in Active /\ pos[prev] < pos[pcb]
    <3> SUFFICES ASSUME \A x \in Active : pos[x] < pos[pcb] => x # prev PROVE FALSE
      OBVIOUS
    <3>1. ASSUME NEW x \in Active, x \in Active', pos[x] < pos[pcb] PROVE next[x] \in Active'
      <4>1. next'[x] = next[x]
        BY <1>5, <2>1, <3>1
      <4>2. next[x] # Null
        BY <1>1, <1>5, <3>1 DEF Sorted
      <4> QED
        BY <2>3, <3>1, <4>1, <4>2
    <3>2. pcb \in Active'
      BY <1>1, <2>3, <3>1, Reached
    <3> QED
      BY <1>4, <3>2
  <2>5. ASSUME next[prev] # pcb PROVE FALSE
    <3>1. next[prev] # Null
      BY <1>1, <1>5, <2>4 DEF Sorted
    <3> DEFINE c == next[prev]
               T == {x \in Active : pos[x] <= pos[prev] \/ pos[pcb] < pos[x]}
    <3>2. /\ c \in Active /\ pos[prev] < pos[c] /\ pos[c] <= pos[pcb]
          /\ \A x \in Active : pos[x] <= pos[prev] \/ pos[c] <= pos[x]
      BY <1>1, <1>5, <2>4, <3>1 DEF Sorted
    <3>3. pos[c] < pos[pcb]
      <4>1. pos[c] # pos[pcb]
        BY <1>1, <2>5, <3>2 DEF Sorted
      <4> QED
        BY <1>5, <3>2, <4>1
    <3>4. c \in Active'
      BY <1>4, <2>5, <3>2
    <3>5. active \in T
      BY <1>6, <2>4
    <3>6. ASSUME NEW x \in Active' \cap T, pos2[x] < pos2[c] PROVE next'[x] \in T
      <4>1. x \in Active /\ x \in Pcbs /\ next'[x] # Null
        <5>1. pos2[x] \in Int /\ pos2[c] \in Int
          BY <1>5, <2>2, <3>4 DEF Sorted
        <5> QED
          BY <1>5, <2>2, <3>4, <3>6, <5>1 DEF Sorted
      <4>2. CASE x = prev
        <5>1. next[pcb] # Null /\ next'[x] = next[pcb]
          BY <2>1, <4>1, <4>2
        <5>2. next[pcb] \in Active /\ pos[pcb] < pos[next[pcb]]
          BY <1>1, <5>1 DEF Sorted
        <5> QED
          BY <5>1, <5>2
      <4>3. CASE x # prev
        <5>1. next'[x] = next[x] /\ next[x] # Null
          BY <2>1, <4>1, <4>3
        <5>2. /\ next[x] \in Active /\ pos[x] < pos[next[x]]
              /\ \A y \in Active : pos[y] <= pos[x] \/ pos[next[x]] <= pos[y]
          BY <1>1, <4>1, <5>1 DEF Sorted
        <5>3. pos[x] # pos[prev]
          BY <1>1, <2>4, <4>1, <4>3 DEF Sorted
        <5>4. pos[x] < pos[prev] \/ pos[pcb] < pos[x]
          BY <1>5, <2>4, <3>6, <4>1, <5>3
        <5>5. pos[next[x]] <= pos[prev] \/ pos[pcb] < pos[next[x]]
          BY <1>5, <2>4, <4>1, <5>2, <5>4
        <5> QED
          BY <5>1, <5>2, <5>5
      <4> QED
        BY <4>2, <4>3
    <3>7. c \in T
      <4> HIDE DEF c, T
      <4> QED
        BY <2>1, <2>2, <3>4, <3>5, <3>6, Reached
    <3> QED
      BY <1>5, <2>4, <3>2, <3>3, <3>7
  <2> QED
    BY <1>8, <2>4, <2>5
<1> QED
  BY <1>7, <1>8

\* What the unlinking does when prev is the one before.
LEMMA UnlinkIs ==
  ASSUME TimersTypeOK, ListsInOrder, Unlink, pcb \in Active,
         IF prev = Null THEN pcb = active ELSE prev \in Active /\ next[prev] = pcb
  PROVE  /\ ListsInOrder' /\ next'[pcb] = next[pcb]
         /\ next[pcb] \in Active' \cup {Null}
         /\ EntriesOf(next[pcb], next') = EntriesOf(pcb, next) \ {pcb}
         /\ IF prev = Null THEN next[pcb] = active'
            ELSE prev \in Active' /\ next'[prev] = next[pcb]
<1>1. PICK pos : Sorted(active, next, Active, pos)
  BY ActiveIs
<1>2. /\ stmt = "unlink" /\ stmt' = "release" /\ pcb' = pcb /\ UNCHANGED pools
      /\ next \in [Pcbs -> PcbOrNull]
  BY DEF Unlink, Step, TimersTypeOK
<1>3. Pool' = Pool /\ InTransit = {} /\ InTransit' = {pcb} /\ pool' = pool /\ memp' = memp
  BY <1>2 DEF Pool, InTransit, pools
<1>4. Active \subseteq Pcbs /\ Null \notin Pcbs /\ pcb \in Pcbs
  BY ActiveIs, PcbIs
<1>5. \A x \in Active : pos[x] \in Int
  BY <1>1 DEF Sorted
<1>6. \A x \in Active : next[x] = pcb => pos[x] < pos[pcb]
  BY <1>1, <1>4 DEF Sorted
<1>7. \A x, y \in Active : next[x] = pcb /\ next[y] = pcb => x = y
  <2> SUFFICES ASSUME NEW x \in Active, NEW y \in Active, next[x] = pcb, next[y] = pcb
               PROVE  pos[x] = pos[y]
    BY <1>1 DEF Sorted
  <2>1. pos[x] < pos[pcb] /\ pos[y] < pos[pcb]
    BY <1>6
  <2>2. (pos[y] <= pos[x] \/ pos[pcb] <= pos[y]) /\ (pos[x] <= pos[y] \/ pos[pcb] <= pos[x])
    BY <1>1, <1>4 DEF Sorted
  <2> QED
    BY <1>5, <2>1, <2>2
<1>8. prev # pcb
  BY <1>4, <1>5, <1>6
<1>9. /\ active' = IF pcb = active THEN next[pcb] ELSE active
      /\ \A x \in Active \ {pcb} : next'[x] = IF next[x] = pcb THEN next[pcb] ELSE next[x]
      /\ next'[pcb] = next[pcb]
  <2>1. CASE prev = Null
    <3>1. \A x \in Active : next[x] # pcb
      <4> SUFFICES ASSUME NEW x \in Active, next[x] = pcb PROVE FALSE
        OBVIOUS
      <4>1. pos[x] < pos[pcb] /\ pos[active] <= pos[x]
        BY <1>1, <1>6 DEF Sorted
      <4> QED
        BY <1>5, <2>1, <4>1
    <3> QED
      BY <2>1, <3>1 DEF Unlink
  <2>2. CASE prev # Null
    <3>1. /\ active' = active /\ prev \in Active /\ next[prev] = pcb
          /\ next'[prev] = next[pcb] /\ \A x \in Pcbs \ {prev} : next'[x] = next[x]
      BY <1>2, <1>4, <2>2 DEF Unlink
    <3>2. pcb # active
      <4>1. pos[prev] < pos[pcb]
        BY <1>6, <3>1
      <4>2. pcb = active => pos[pcb] <= pos[prev]
        BY <1>1, <1>4, <3>1 DEF Sorted
      <4> QED
        BY <1>5, <3>1, <4>1, <4>2
    <3> QED
      BY <1>4, <1>7, <1>8, <3>1, <3>2
  <2> QED
    BY <2>1, <2>2
<1>10. Sorted(active', next', Active \ {pcb}, pos)
  BY <1>1, <1>9, TakenOut
<1>11. Ends(active', next') /\ Active' = Active \ {pcb}
  BY <1>10, SortedIs DEF Active
<1>12. ListsInOrder'
  BY <1>3, <1>11 DEF ListsInOrder
<1>13. /\ next[pcb] \in Active \cup {Null} /\ next[pcb] # pcb
       /\ EntriesOf(next[pcb], next) = EntriesOf(pcb, next) \ {pcb}
  BY <1>1, <1>4, <1>5, <1>6, StandsAt
<1>14. EntriesOf(next[pcb], next') = EntriesOf(next[pcb], next) \ {pcb}
  <2>1. /\ pcb \notin Active \ {pcb} /\ Active \ {pcb} \subseteq Active \cup {pcb}
        /\ \A x \in Active \ {pcb} : pos[x] = pos[x]
    OBVIOUS
  <2>2. \A a \in Active \cup {Null} : a # pcb =>
          /\ a \in (Active \ {pcb}) \cup {Null}
          /\ EntriesOf(a, next') = EntriesOf(a, next) \ {pcb}
    BY <1>1, <1>10, <2>1, TailsKept
  <2> QED
    BY <1>13, <2>2
<1>15. IF prev = Null THEN next[pcb] = active'
       ELSE prev \in Active' /\ next'[prev] = next[pcb]
  <2>1. CASE prev = Null
    BY <1>9, <2>1
  <2>2. CASE prev # Null
    BY <1>8, <1>9, <1>11, <2>2
  <2> QED
    BY <2>1, <2>2
<1> QED
  BY <1>9, <1>11, <1>12, <1>13, <1>14, <1>15

\* tcp_slowtmr takes out the pcb it stands at.
LEMMA UnlinkKeeps ==
  ASSUME WalkInv, ListsInOrder, TimersTypeOK', Unlink
  PROVE  WalkInv'
<1>1. TimersTypeOK /\ PcbInv
  BY DEF WalkInv
<1>2. /\ stmt = "unlink" /\ stmt' = "release" /\ pcb' = pcb /\ prev' = prev
      /\ seen' = seen /\ unvisited' = unvisited /\ upset' = upset
      /\ pcb # Null /\ pcb \notin unvisited /\ stmt \in Unlinking /\ stmt \in Walks
  BY <1>1 DEF Unlink, Step, ghosts, PcbInv, Unlinking, Walks
<1>3. Ahead = pcb /\ Ahead' = next'[pcb]
  BY <1>2 DEF Ahead
<1>4. ASSUME "current" \notin upset
      PROVE  pcb \in Active /\ unvisited \subseteq EntriesOf(pcb, next) \ seen
  BY <1>2, <1>3, <1>4 DEF WalkInv, StandInv
<1>5. PcbInv' /\ NobodySkipped'
  BY <1>2 DEF PcbInv, NobodySkipped
<1>6. StandInv'
  <2> SUFFICES ASSUME ListsInOrder', "current" \notin upset
               PROVE  /\ Ahead' \in Active' \cup {Null}
                      /\ unvisited \subseteq EntriesOf(Ahead', next') \ seen
    BY <1>2 DEF StandInv
  <2>1. pcb \in Active /\ unvisited \subseteq EntriesOf(pcb, next) \ seen
    BY <1>4
  <2>2. IF prev = Null THEN pcb = active ELSE prev \in Active /\ next[prev] = pcb
    BY <1>1, <2>1, UnlinkTakesOne
  <2>3. /\ next'[pcb] \in Active' \cup {Null}
        /\ EntriesOf(next'[pcb], next') = EntriesOf(pcb, next) \ {pcb}
    BY <1>1, <2>1, <2>2, UnlinkIs
  <2> QED
    BY <1>2, <1>3, <2>1, <2>3
<1>7. SoundInv'
  <2> SUFFICES ASSUME upset = {}
               PROVE  /\ ListsInOrder'
                      /\ IF prev = Null THEN Ahead' = active'
                         ELSE prev \in Active' /\ next'[prev] = Ahead'
                      /\ EntriesOf(Ahead', next') \cap seen = {}
    BY <1>2 DEF SoundInv
  <2>1. /\ IF prev = Null THEN pcb = active ELSE prev \in Active /\ next[prev] = pcb
        /\ EntriesOf(pcb, next) \cap seen \subseteq {pcb}
    BY <1>2, <1>3 DEF WalkInv, SoundInv
  <2>2. pcb \in Active
    BY <1>4
  <2> QED
    BY <1>1, <1>3, <2>1, <2>2, UnlinkIs
<1> QED
  BY <1>5, <1>6, <1>7 DEF WalkInv

\* It takes the next one and links the other to the pool ...
LEMMA ReleaseKeeps ==
  ASSUME WalkInv, ListsInOrder, TimersTypeOK', Release
  PROVE  WalkInv'
<1>1. TimersTypeOK /\ PcbInv
  BY DEF WalkInv
<1>2. /\ stmt = "release" /\ stmt' = "give" /\ pcb' = next[pcb] /\ pcb2' = pcb /\ prev' = prev
      /\ seen' = seen /\ unvisited' = unvisited /\ upset' = upset
      /\ active' = active /\ next' = next /\ pool' = pool
      /\ memp' = [memp EXCEPT ![pcb] = pool]
      /\ pcb # Null /\ stmt \in Unlinking /\ stmt \in Walks
  BY <1>1 DEF Release, Step, lists, ghosts, PcbInv, Unlinking, Walks
<1>3. Ahead = next[pcb] /\ Ahead' = Ahead /\ InTransit = {pcb} /\ InTransit' = {pcb}
  BY <1>2 DEF Ahead, InTransit
<1>4. pcb \in Pcbs /\ memp'[pcb] = pool /\ \A x \in Pcbs \ {pcb} : memp'[x] = memp[x]
  BY <1>1, <1>2 DEF TimersTypeOK, PcbOrNull
<1>5. Active' = Active
  BY <1>2 DEF Active
<1>6. ListsInOrder'
  <2>1. PICK ppos : Sorted(pool, memp, Pool, ppos)
    BY <1>1, ActiveIs
  <2>2. \A x \in Pool : memp'[x] = memp[x]
    BY <1>1, <1>3, <1>4, ActiveIs DEF ListsInOrder
  <2>3. Sorted(pool', memp', Pool, ppos)
    BY <1>2, <2>1, <2>2 DEF Sorted
  <2>4. Ends(pool', memp') /\ Pool' = Pool
    BY <2>3, SortedIs DEF Pool
  <2> QED
    BY <1>2, <1>3, <1>5, <2>4 DEF ListsInOrder
<1>7. PcbInv' /\ NobodySkipped'
  BY <1>2 DEF PcbInv, NobodySkipped
<1>8. StandInv'
  BY <1>2, <1>3, <1>5 DEF WalkInv, StandInv
<1>9. SoundInv'
  BY <1>2, <1>3, <1>4, <1>5, <1>6 DEF WalkInv, SoundInv, Unlinking
<1> QED
  BY <1>7, <1>8, <1>9 DEF WalkInv

\* ... of which it becomes the first.
LEMMA GiveKeeps ==
  ASSUME WalkInv, ListsInOrder, TimersTypeOK', Give
  PROVE  WalkInv'
<1>1. TimersTypeOK /\ PcbInv
  BY DEF WalkInv
<1>2. /\ stmt = "give" /\ stmt' = "clear" /\ pcb' = pcb /\ prev' = prev
      /\ seen' = seen /\ unvisited' = unvisited /\ upset' = upset
      /\ active' = active /\ next' = next /\ pool' = pcb2 /\ memp' = memp
      /\ pcb2 # Null /\ stmt \in Unlinking /\ stmt \in Walks
  BY <1>1 DEF Give, Step, lists, ghosts, PcbInv, Unlinking, Walks
<1>3. Ahead = pcb /\ Ahead' = pcb /\ InTransit = {pcb2} /\ InTransit' = {}
  BY <1>2 DEF Ahead, InTransit
<1>4. Active' = Active
  BY <1>2 DEF Active
<1>5. PcbInv' /\ NobodySkipped'
  BY <1>2 DEF PcbInv, NobodySkipped
<1>6. StandInv'
  BY <1>2, <1>3, <1>4 DEF WalkInv, StandInv
<1>7. SoundInv'
  <2> SUFFICES ASSUME upset = {}
               PROVE  /\ ListsInOrder'
                      /\ IF prev = Null THEN pcb = active ELSE prev \in Active /\ next[prev] = pcb
                      /\ EntriesOf(pcb, next) \cap seen = {}
    BY <1>2, <1>3, <1>4 DEF SoundInv
  <2>1. /\ IF prev = Null THEN pcb = active ELSE prev \in Active /\ next[prev] = pcb
        /\ EntriesOf(pcb, next) \cap seen = {}
        /\ memp[pcb2] = pool
    BY <1>2, <1>3 DEF WalkInv, SoundInv
  <2>2. PICK ppos : Sorted(pool, memp, Pool, ppos)
    BY <1>1, ActiveIs
  <2>3. pcb2 \in Pcbs \ Pool
    BY <1>1, <1>2, <1>3 DEF ListsInOrder, TimersTypeOK, PcbOrNull
  <2>4. PICK ppos2 : Sorted(pool', memp', Pool \cup {pcb2}, ppos2)
    <3>1. memp'[pcb2] = pool /\ \A x \in Pool : memp'[x] = memp[x]
      BY <1>2, <2>1
    <3> QED
      BY <1>2, <2>2, <2>3, <3>1, InFront
  <2>5. Ends(pool', memp') /\ Pool' = Pool \cup {pcb2}
    BY <2>4, SortedIs DEF Pool
  <2>6. ListsInOrder'
    BY <1>2, <1>3, <1>4, <2>5 DEF ListsInOrder
  <2> QED
    BY <2>1, <2>6
<1> QED
  BY <1>5, <1>6, <1>7 DEF WalkInv

\* Every step of the walks and of the interrupt keeps the invariant.
LEMMA StepWalkInv ==
  ASSUME WalkInv, [TimersNext]_timersVars
  PROVE  WalkInv'
<1>1. CASE UNCHANGED timersVars
  <2>1. /\ UNCHANGED <<active, next, pool, memp, seen, changed, tick, stmt>>
        /\ UNCHANGED <<pcb, prev, pcb2, unvisited, upset>>
    BY <1>1 DEF timersVars, lists, pools, walk, ghosts
  <2>2. Active' = Active /\ Pool' = Pool /\ InTransit' = InTransit /\ Ahead' = Ahead
    BY <2>1 DEF Active, Pool, InTransit, Ahead
  <2>3. ListsInOrder' <=> ListsInOrder
    BY <2>1, <2>2 DEF ListsInOrder
  <2>4. TimersTypeOK' /\ PcbInv' /\ NobodySkipped'
    BY <2>1 DEF WalkInv, TimersTypeOK, PcbInv, NobodySkipped
  <2>5. StandInv'
    BY <2>1, <2>2, <2>3 DEF WalkInv, StandInv
  <2>6. SoundInv'
    BY <2>1, <2>2, <2>3 DEF WalkInv, SoundInv
  <2> QED
    BY <2>4, <2>5, <2>6 DEF WalkInv
<1>2. CASE TimersNext
  <2>1. ListsInOrder
    BY <1>2 DEF TimersNext
  <2>2. CASE Segment
    BY <2>1, <2>2, SegmentKeeps
  <2>3. CASE tcp_fasttmr
    BY <2>1, <2>3, FastKeeps
  <2>4. CASE tcp_slowtmr
    <3>1. TimersTypeOK'
      BY <2>4, LoopType DEF WalkInv
    <3>2. CASE Unlink
      BY <2>1, <3>1, <3>2, UnlinkKeeps
    <3>3. CASE Release
      BY <2>1, <3>1, <3>3, ReleaseKeeps
    <3>4. CASE Give
      BY <2>1, <3>1, <3>4, GiveKeeps
    <3>5. CASE SlowHead \/ SlowSkip \/ SlowVisit \/ Advance \/ Clear \/ Test \/ SlowEnd
      BY <2>1, <3>1, <3>5, SlowKeeps
    <3> QED
      BY <2>4, <3>2, <3>3, <3>4, <3>5 DEF tcp_slowtmr
  <2> QED
    BY <1>2, <2>2, <2>3, <2>4 DEF TimersNext
<1> QED
  BY <1>1, <1>2

LEMMA WalksAreSound == TimersSpec => []WalkInv
<1>1. TimersInit => WalkInv
  BY InitWalkInv
<1>2. WalkInv /\ [TimersNext]_timersVars => WalkInv'
  BY StepWalkInv
<1> QED
  BY <1>1, <1>2, PTL DEF TimersSpec

\* The lists of the pcbs stay in order, for every number of pcbs and every order
\* of segments between the statements of tcp_fasttmr and tcp_slowtmr, until one
\* of the disturbances in upset meets the walk: tcp_slowtmr unlinks a pcb with a
\* stale prev, or memp_free links it to a pool of which tcp_input has taken the
\* first.
THEOREM ListsAreKept == TimersSpec => []ListsKept
<1>1. WalkInv => ListsKept
  BY DEF WalkInv, SoundInv, ListsKept
<1> QED
  BY <1>1, WalksAreSound, PTL

\* A walk that comes to its end has visited every pcb it found in the list that
\* no segment has moved or removed since, unless a segment took the one it stood
\* at: for every number of pcbs, and also when a stale prev has been written.
THEOREM NobodyIsSkipped == TimersSpec => []NobodySkipped
<1>1. WalkInv => NobodySkipped
  BY DEF WalkInv
<1> QED
  BY <1>1, WalksAreSound, PTL

-----------------------------------------------------------------------------
(* Nvic.                                                                   *)

\* Every byte that NVIC_Init makes of small priorities fits eight bits.
LEMMA ByteIs ==
  ASSUME NEW group \in {0, 5}, NEW pre \in 0..15, NEW sub \in 0..15
  PROVE  Priority(group, pre, sub) \in 0..255 /\ (group = 0 => Priority(group, pre, sub) = 0)
<1>1. CASE group = 0
  BY <1>1 DEF Priority, FourMinus, ShiftRight, ShiftLeft
<1>2. CASE group = 5
  BY <1>2 DEF Priority, FourMinus, ShiftRight, ShiftLeft
<1> QED
  BY <1>1, <1>2

\* In each grouping of misc.h:78-99 the core reads back what NVIC_Init was asked
\* for; the program selects but one of them.
LEMMA EveryRowExact ==
  ASSUME NEW group \in 3..7,
         NEW pre \in 0..2^(7 - group) - 1, NEW sub \in 0..2^(group - 3) - 1
  PROVE  /\ PreemptLevel(group, Priority(group, pre, sub)) = pre
         /\ SubLevel(group, Priority(group, pre, sub)) = sub
<1>1. CASE group = 3
  BY <1>1 DEF Priority, FourMinus, ShiftRight, ShiftLeft, PreemptLevel, SubLevel
<1>2. CASE group = 4
  BY <1>2 DEF Priority, FourMinus, ShiftRight, ShiftLeft, PreemptLevel, SubLevel
<1>3. CASE group = 5
  BY <1>3 DEF Priority, FourMinus, ShiftRight, ShiftLeft, PreemptLevel, SubLevel
<1>4. CASE group = 6
  BY <1>4 DEF Priority, FourMinus, ShiftRight, ShiftLeft, PreemptLevel, SubLevel
<1>5. CASE group = 7
  BY <1>5 DEF Priority, FourMinus, ShiftRight, ShiftLeft, PreemptLevel, SubLevel
<1> QED
  BY <1>1, <1>2, <1>3, <1>4, <1>5

\* The drivers get the highest level, the Ethernet interrupt, which is enabled
\* last, a lower one, and only what is enabled runs.
NvicInv ==
  /\ StackSound
  /\ prigroup = IF step < 5 THEN 0 ELSE 5
  /\ \A irq \in Drivers : ip[irq] = 0
  /\ "ETH" \in enabled => step = 6 /\ ip["ETH"] = 128
  /\ \A i \in DOMAIN stack : stack[i] \in enabled

\* The levels: 0 for the drivers, 2 for the Ethernet interrupt once it is enabled.
LEMMA LevelIs ==
  ASSUME NvicInv
  PROVE  /\ \A irq \in Irqs : Level(irq) \in Nat
         /\ \A irq \in Drivers : Level(irq) = 0 /\ SubLevel(prigroup, ip[irq]) = 0
         /\ "ETH" \in enabled => Level("ETH") = 2
<1>1. prigroup \in {0, 5} /\ ip \in [Irqs -> 0..255] /\ Drivers \subseteq Irqs
  BY DEF NvicInv, StackSound, NvicTypeOK, Drivers
<1>2. ASSUME NEW p \in 0..255
      PROVE  PreemptLevel(prigroup, p) \in Nat /\ SubLevel(prigroup, 0) = 0
             /\ PreemptLevel(prigroup, 0) = 0 /\ PreemptLevel(5, 128) = 2
  <2>1. CASE prigroup = 0
    BY <2>1 DEF PreemptLevel, SubLevel
  <2>2. CASE prigroup = 5
    BY <2>2 DEF PreemptLevel, SubLevel
  <2> QED
    BY <1>1, <2>1, <2>2
<1>3. \A irq \in Irqs : Level(irq) \in Nat
  BY <1>1, <1>2 DEF Level
<1>4. \A irq \in Drivers : Level(irq) = 0 /\ SubLevel(prigroup, ip[irq]) = 0
  BY <1>1, <1>2 DEF Level, NvicInv
<1>5. "ETH" \in enabled => Level("ETH") = 2
  <2> SUFFICES ASSUME "ETH" \in enabled PROVE Level("ETH") = 2
    OBVIOUS
  <2>1. prigroup = 5 /\ ip["ETH"] = 128
    BY DEF NvicInv
  <2> QED
    BY <1>2, <2>1 DEF Level
<1> QED
  BY <1>3, <1>4, <1>5

LEMMA InitNvicInv ==
  ASSUME NvicInit
  PROVE  NvicInv
<1>1. Len(Boot) = 6
  BY DEF Boot
<1> QED
  BY <1>1 DEF NvicInit, NvicInv, StackSound, NvicTypeOK, DriversAreInnermost, Drivers

\* main() goes on with its set-up.
LEMMA MainKeeps ==
  ASSUME NvicInv, Main
  PROVE  NvicInv'
<1>1. /\ Len(Boot) = 6
      /\ Boot[1] = Init_("TIM3", 1, 3) /\ Boot[2] = Init_("USART2", 3, 3)
      /\ Boot[3] = Init_("DMA1_Channel7", 3, 3) /\ Boot[4] = Init_("DMA1_Channel6", 3, 3)
      /\ Boot[5] = GroupConfig(5) /\ Boot[6] = Init_("ETH", 2, 0)
  BY DEF Boot
<1>2. /\ step \in 0..5 /\ step' = step + 1 /\ stack = << >> /\ stack' = << >>
      /\ pending' = pending
  BY <1>1 DEF Main, NvicInv, StackSound, NvicTypeOK
<1>3. /\ ip \in [Irqs -> 0..255] /\ enabled \subseteq Irqs /\ pending \subseteq enabled
      /\ prigroup = IF step < 5 THEN 0 ELSE 5
      /\ \A irq \in Drivers : ip[irq] = 0
      /\ "ETH" \in enabled => step = 6
  BY DEF NvicInv, StackSound, NvicTypeOK
<1>4. CASE step = 4
  <2>1. prigroup' = 5 /\ UNCHANGED <<ip, enabled>>
    BY <1>1, <1>4 DEF Main, NVIC_PriorityGroupConfig, NVIC_Init, GroupConfig
  <2> QED
    BY <1>1, <1>2, <1>3, <1>4, <2>1
    DEF NvicInv, StackSound, NvicTypeOK, DriversAreInnermost
<1>5. CASE step = 5
  <2>1. /\ ip' = [ip EXCEPT !["ETH"] = Priority(prigroup, 2, 0)]
        /\ enabled' = enabled \cup {"ETH"} /\ prigroup' = prigroup
    BY <1>1, <1>5 DEF Main, NVIC_PriorityGroupConfig, NVIC_Init, Init_
  <2>2. Priority(prigroup, 2, 0) = 128
    <3>1. prigroup = 5
      BY <1>3, <1>5
    <3> QED
      BY <3>1 DEF Priority, FourMinus, ShiftRight, ShiftLeft
  <2>3. "ETH" \in Irqs /\ "ETH" \notin Drivers /\ Drivers \subseteq Irqs
    BY DEF Irqs, Drivers
  <2>4. ip' \in [Irqs -> 0..255] /\ ip'["ETH"] = 128 /\ \A irq \in Drivers : ip'[irq] = 0
    BY <1>3, <2>1, <2>2, <2>3
  <2>5. enabled' \subseteq Irqs /\ pending' \subseteq enabled' /\ prigroup' = 5 /\ step' = 6
    BY <1>2, <1>3, <1>5, <2>1, <2>3
  <2> QED
    BY <1>1, <1>2, <2>4, <2>5 DEF NvicInv, StackSound, NvicTypeOK, DriversAreInnermost
<1>6. CASE step \in 0..3
  <2>1. PICK irq \in Drivers, pre \in 0..15, sub \in 0..15 : Boot[step + 1] = Init_(irq, pre, sub)
    <3>1. step = 0 \/ step = 1 \/ step = 2 \/ step = 3
      BY <1>6
    <3> QED
      BY <1>1, <3>1 DEF Drivers, Irqs
  <2>2. /\ ip' = [ip EXCEPT ![irq] = Priority(prigroup, pre, sub)]
        /\ enabled' = enabled \cup {irq} /\ prigroup' = prigroup
    BY <2>1 DEF Main, NVIC_PriorityGroupConfig, NVIC_Init, Init_
  <2>3. prigroup = 0 /\ Priority(prigroup, pre, sub) = 0
    <3>1. prigroup = 0
      BY <1>3, <1>6
    <3>2. Priority(0, pre, sub) = 0
      BY ByteIs
    <3> QED
      BY <3>1, <3>2
  <2>4. irq \in Irqs /\ irq # "ETH"
    BY DEF Drivers
  <2>5. ip' \in [Irqs -> 0..255] /\ \A i \in Drivers : ip'[i] = 0
    BY <1>3, <2>2, <2>3, <2>4
  <2>6. /\ enabled' \subseteq Irqs /\ pending' \subseteq enabled' /\ "ETH" \notin enabled'
        /\ prigroup' = 0 /\ step' \in 0..4
    BY <1>2, <1>3, <1>6, <2>2, <2>3, <2>4
  <2> QED
    BY <1>1, <1>2, <2>5, <2>6 DEF NvicInv, StackSound, NvicTypeOK, DriversAreInnermost
<1> QED
  BY <1>2, <1>4, <1>5, <1>6

\* A request is taken: of a handler that is interrupted the level is not 0, so
\* it is not one of a driver.
LEMMA TakeKeeps ==
  ASSUME NvicInv, NEW irq \in Irqs, Take(irq)
  PROVE  NvicInv'
<1>1. /\ stack \in Seq(Irqs) /\ pending \subseteq enabled /\ enabled \subseteq Irqs
      /\ \A i \in DOMAIN stack : stack[i] \in enabled
      /\ \A i \in DOMAIN stack : stack[i] \in Drivers => i = Len(stack)
  BY DEF NvicInv, StackSound, NvicTypeOK, DriversAreInnermost
<1>2. /\ irq \in pending /\ stack' = Append(stack, irq) /\ pending' = pending \ {irq}
      /\ stack # << >> => Level(irq) < Level(stack[Len(stack)])
      /\ UNCHANGED <<step, prigroup, ip, enabled>>
  BY DEF Take, CanTake
<1>3. \A i \in DOMAIN stack : stack[i] \notin Drivers
  <2> SUFFICES ASSUME NEW i \in DOMAIN stack, stack[i] \in Drivers PROVE FALSE
    OBVIOUS
  <2>1. i = Len(stack) /\ stack # << >>
    BY <1>1
  <2>2. Level(irq) \in Nat /\ Level(stack[i]) = 0
    BY LevelIs
  <2> QED
    BY <1>2, <2>1, <2>2
<1>4. /\ stack' \in Seq(Irqs) /\ Len(stack') = Len(stack) + 1 /\ DOMAIN stack' = 1..Len(stack')
      /\ \A i \in DOMAIN stack' : IF i = Len(stack') THEN stack'[i] = irq
                                  ELSE i \in DOMAIN stack /\ stack'[i] = stack[i]
  BY <1>1, <1>2
<1>5. \A i \in DOMAIN stack' : /\ stack'[i] \in Drivers => i = Len(stack')
                               /\ stack'[i] \in enabled
  BY <1>1, <1>2, <1>3, <1>4
<1>6. pending' \subseteq enabled
  BY <1>1, <1>2
<1> QED
  BY <1>2, <1>4, <1>5, <1>6 DEF NvicInv, StackSound, NvicTypeOK, DriversAreInnermost

\* The innermost handler returns.
LEMMA ReturnKeeps ==
  ASSUME NvicInv, ExceptionReturn
  PROVE  NvicInv'
<1>1. /\ stack \in Seq(Irqs) /\ stack # << >>
      /\ \A i \in DOMAIN stack : stack[i] \in enabled
      /\ \A i \in DOMAIN stack : stack[i] \in Drivers => i = Len(stack)
  BY DEF NvicInv, StackSound, NvicTypeOK, DriversAreInnermost, ExceptionReturn
<1>2. /\ stack' = SubSeq(stack, 1, Len(stack) - 1)
      /\ UNCHANGED <<step, prigroup, ip, enabled, pending>>
  BY DEF ExceptionReturn
<1>3. /\ stack' \in Seq(Irqs) /\ Len(stack') = Len(stack) - 1 /\ DOMAIN stack' = 1..Len(stack')
      /\ \A i \in DOMAIN stack' : i \in DOMAIN stack /\ i < Len(stack) /\ stack'[i] = stack[i]
  <2>1. Len(stack) \in Nat \ {0} /\ DOMAIN stack = 1..Len(stack)
    <3>1. Len(stack) \in Nat /\ DOMAIN stack = 1..Len(stack)
      BY <1>1, LenProperties
    <3>2. Len(stack) # 0
      BY <1>1, EmptySeq
    <3> QED
      BY <3>1, <3>2
  <2>2. PICK n \in Nat : n = Len(stack) - 1
    <3>1. Len(stack) - 1 \in Nat
      BY <2>1
    <3> QED
      BY <3>1
  <2>3. n < Len(stack) /\ \A i \in 1..n : stack[i] \in Irqs /\ i \in DOMAIN stack
    BY <1>1, <2>1, <2>2
  <2>4. stack' = SubSeq(stack, 1, n)
    BY <1>2, <2>2
  <2>5. /\ stack' \in Seq(Irqs) /\ Len(stack') = n
        /\ \A i \in 1..n : stack'[i] = stack[i]
    BY <1>1, <2>1, <2>3, <2>4
  <2> QED
    BY <2>1, <2>2, <2>3, <2>5
<1>4. \A i \in DOMAIN stack' : stack'[i] \notin Drivers /\ stack'[i] \in enabled
  BY <1>1, <1>3
<1> QED
  BY <1>2, <1>3, <1>4 DEF NvicInv, StackSound, NvicTypeOK, DriversAreInnermost

LEMMA StepNvicInv ==
  ASSUME NvicInv, [NvicNext]_nvicVars
  PROVE  NvicInv'
<1>1. CASE Main
  BY <1>1, MainKeeps
<1>2. ASSUME NEW irq \in Irqs, Request(irq) PROVE NvicInv'
  BY <1>2 DEF Request, NvicInv, StackSound, NvicTypeOK, DriversAreInnermost
<1>3. ASSUME NEW irq \in Irqs, Take(irq) PROVE NvicInv'
  BY <1>3, TakeKeeps
<1>4. CASE ExceptionReturn
  BY <1>4, ReturnKeeps
<1>5. CASE UNCHANGED nvicVars
  BY <1>5 DEF nvicVars, NvicInv, StackSound, NvicTypeOK, DriversAreInnermost
<1> QED
  BY <1>1, <1>2, <1>3, <1>4, <1>5 DEF NvicNext

\* While a driver waits the Ethernet handler does not return: of the drivers that
\* wait the one with the lowest number is taken first, and it preempts.
LEMMA DriverIsTaken ==
  ASSUME NvicInv, Innermost("ETH"), NEW irq \in Drivers, irq \in pending
  PROVE  ~ ExceptionReturn
<1> DEFINE waiting == {i \in Drivers : i \in pending}
<1>1. /\ stack \in Seq(Irqs) /\ stack # << >> /\ stack[Len(stack)] = "ETH"
      /\ pending \subseteq Irqs
  BY DEF NvicInv, StackSound, NvicTypeOK, Innermost
<1>2. Level("ETH") = 2
  <2>1. Len(stack) \in DOMAIN stack
    BY <1>1
  <2>2. "ETH" \in enabled
    BY <1>1, <2>1 DEF NvicInv
  <2> QED
    BY <2>2, LevelIs
<1>3. \A i \in Irqs : IrqNumber[i] \in Nat
  BY DEF Irqs, IrqNumber
<1>4. PICK i \in waiting : \A j \in waiting : IrqNumber[i] <= IrqNumber[j]
  <2> DEFINE numbers == {IrqNumber[j] : j \in waiting}
  <2>1. numbers \in SUBSET Nat /\ numbers # {}
    BY <1>3 DEF Drivers
  <2>2. PICK n \in numbers : \A m \in numbers : n <= m
    <3> HIDE DEF numbers
    <3> QED
      BY <2>1, Least
  <2> QED
    BY <2>2
<1>5. i \in Irqs /\ i \in pending /\ i \in Drivers /\ Level(i) = 0 /\ SubLevel(prigroup, ip[i]) = 0
  BY LevelIs DEF Drivers
<1>6. ASSUME NEW other \in pending \ {i} PROVE Before(i, other)
  <2>1. CASE other = "ETH"
    BY <1>2, <1>5, <2>1 DEF Before
  <2>2. CASE other \in Drivers
    <3>1. Level(other) = 0 /\ SubLevel(prigroup, ip[other]) = 0 /\ IrqNumber[i] <= IrqNumber[other]
      BY <1>4, <2>2, LevelIs
    <3>2. IrqNumber[i] # IrqNumber[other]
      BY <1>5, <2>2 DEF IrqNumber, Drivers, Irqs
    <3>3. IrqNumber[i] < IrqNumber[other]
      BY <1>1, <1>3, <1>5, <3>1, <3>2
    <3> QED
      BY <1>5, <3>1, <3>3 DEF Before
  <2> QED
    BY <1>1, <2>1, <2>2 DEF Drivers
<1>7. CanTake(i)
  BY <1>1, <1>2, <1>5, <1>6 DEF CanTake
<1> QED
  BY <1>5, <1>7 DEF ExceptionReturn, Executes

LEMMA PrioritiesAreSound == NvicSpec => []NvicInv
<1>1. NvicInit => NvicInv
  BY InitNvicInv
<1>2. NvicInv /\ [NvicNext]_nvicVars => NvicInv'
  BY StepNvicInv
<1> QED
  BY <1>1, <1>2, PTL DEF NvicSpec

\* The handlers of the timer and of COM2 are never interrupted, at any moment of
\* the boot of main() and after it: NVIC_Init has given them all the level 0.
THEOREM DriversAreAtomic == NvicSpec => []StackSound
<1>1. NvicInv => StackSound
  BY DEF NvicInv
<1> QED
  BY <1>1, PrioritiesAreSound, PTL

\* Once NVIC_PriorityGroupConfig has been called the core ranks an interrupt as
\* NVIC_Init was asked to; before, highest of all.
THEOREM RanksAreExact == NvicSpec => []EncodingExact
<1>1. NvicInv => EncodingExact
  <2> SUFFICES ASSUME NvicInv PROVE EncodingExact
    OBVIOUS
  <2>1. CASE prigroup = 0
    BY <2>1, ByteIs DEF EncodingExact
  <2>2. CASE prigroup = 5
    BY <2>2, EveryRowExact DEF EncodingExact
  <2> QED
    BY <2>1, <2>2 DEF NvicInv
<1> QED
  BY <1>1, PrioritiesAreSound, PTL

\* ETH_IRQHandler does not return, and lwIP executes nothing more, while a handler
\* of the timer or of COM2 waits.
THEOREM EthYields == NvicSpec => EthYieldsToDrivers
<1>1. NvicInv /\ [NvicNext]_nvicVars =>
        [\A irq \in Drivers : Innermost("ETH") /\ irq \in pending => ~ ExceptionReturn]_nvicVars
  BY DriverIsTaken
<1> QED
  BY <1>1, PrioritiesAreSound, PTL DEF NvicSpec, EthYieldsToDrivers
=============================================================================
