--------------------------- MODULE PeriodicEvents ---------------------------
(***************************************************************************)
(* The clock of the program.  TIM3 interrupts every 10 ms; its handler     *)
(* (User/drivers/timer/Timer3.c) counts the time of three events and       *)
(* raises the flag of each that is due.  The main loop polls the flags in  *)
(* HandleLwipPeriodicEvent (User/drivers/eth/dp83848.c) and serves them:   *)
(* tcp_tmr(), etharp_tmr() and CheckForConnection().                       *)
(*                                                                         *)
(* The timer preempts the main loop between any two statements, and        *)
(* nothing preempts the timer (module Nvic): its handler is one action.    *)
(***************************************************************************)
EXTENDS Integers, Sequences

CONSTANTS
  Period,     \* Period[e]: interrupts between two expiries of event e
  MaxLag      \* interrupts in a round of the main loop that is not slow

\* The order in which HandleLwipPeriodicEvent looks at the flags.
Order == <<"tcp", "arp", "conn">>
Events == {"tcp", "arp", "conn"}

ASSUME PeriodAssumption == Period \in [Events -> Nat \ {0}]
ASSUME LagAssumption == MaxLag \in Nat \ {0}

VARIABLES
  index,      \* TcpTimeIndex, ArpTimeIndex, CheckConnTimeIndex, in interrupts
  flag,       \* TcpPeriodFlag, ArpPeriodFlag, CheckConnFlag
  turn, pc,   \* main loop: the event it looks at, and its next statement
  owed,       \* owed[e]: some expiry of e has not been followed by the start
              \* of a service of e
  merged,     \* merged[e]: an expiry of e found the flag of the last one set
  lag,        \* interrupts since the main loop last began with the first flag,
              \* counted up to MaxLag
  slow        \* 1: more than MaxLag of them fell into some round

main == <<turn, pc>>
vars == <<index, flag, main, owed, merged, lag, slow>>

Init == /\ index = [e \in Events |-> 0]
        /\ flag = [e \in Events |-> 0]
        /\ turn = 1
        /\ pc = "check"
        /\ owed = [e \in Events |-> FALSE]
        /\ merged = [e \in Events |-> FALSE]
        /\ lag = 0
        /\ slow = 0

-----------------------------------------------------------------------------
(* TIM3_IRQHandler.  A definition named Faulty_X is X with one mistake in  *)
(* it; no specification uses it, it is there to see which property X       *)
(* answers for.                                                            *)

Due(e) == index[e] + 1 >= Period[e]

TIM3_IRQHandler ==
  /\ index' = [e \in Events |-> IF Due(e) THEN 0 ELSE index[e] + 1]
  /\ flag' = [e \in Events |-> IF Due(e) THEN 1 ELSE flag[e]]
  /\ owed' = [e \in Events |-> owed[e] \/ Due(e)]
  /\ merged' = [e \in Events |-> merged[e] \/ (Due(e) /\ flag[e] = 1)]
  /\ lag' = IF lag < MaxLag THEN lag + 1 ELSE lag
  /\ slow' = IF lag = MaxLag THEN 1 ELSE slow
  /\ UNCHANGED main

-----------------------------------------------------------------------------
(* HandleLwipPeriodicEvent, and the rest of the loop with it.              *)

Event == Order[turn]
After(t) == (t % Len(Order)) + 1

\* A served flag sends the loop back to the first one.
Faulty_Return ==
  /\ pc = "return"
  /\ turn' = 1
  /\ pc' = "check"
  /\ lag' = 0
  /\ UNCHANGED <<index, flag, owed, merged, slow>>

\* Having looked at the last flag, the main loop polls COM2 and starts again.
NextFlag == /\ turn' = After(turn)
            /\ pc' = "check"
            /\ lag' = IF After(turn) = 1 THEN 0 ELSE lag

CheckFlag ==
  /\ pc = "check"
  /\ IF flag[Event] = 1
       THEN pc' = "clear" /\ UNCHANGED <<turn, lag>>
       ELSE NextFlag
  /\ UNCHANGED <<index, flag, owed, merged, slow>>

\* The flag stays set.
Faulty_ClearFlag ==
  /\ pc = "clear"
  /\ pc' = "call"
  /\ UNCHANGED <<index, flag, turn, owed, merged, lag, slow>>

ClearFlag ==
  /\ pc = "clear"
  /\ flag' = [flag EXCEPT ![Event] = 0]
  /\ pc' = "call"
  /\ UNCHANGED <<index, turn, owed, merged, lag, slow>>

\* tcp_tmr(), etharp_tmr() or CheckForConnection() begins.
Call ==
  /\ pc = "call"
  /\ owed' = [owed EXCEPT ![Event] = FALSE]
  /\ pc' = "return"
  /\ UNCHANGED <<index, flag, turn, merged, lag, slow>>

Return ==
  /\ pc = "return"
  /\ NextFlag
  /\ UNCHANGED <<index, flag, owed, merged, slow>>

\* The flag is cleared after the event has been served.
Faulty_HandleLwipPeriodicEvent ==
  \/ CheckFlag
  \/ /\ pc = "clear"
     /\ owed' = [owed EXCEPT ![Event] = FALSE]
     /\ pc' = "call"
     /\ UNCHANGED <<index, flag, turn, merged, lag, slow>>
  \/ /\ pc = "call"
     /\ flag' = [flag EXCEPT ![Event] = 0]
     /\ pc' = "return"
     /\ UNCHANGED <<index, turn, owed, merged, lag, slow>>
  \/ Return

HandleLwipPeriodicEvent == CheckFlag \/ ClearFlag \/ Call \/ Return

-----------------------------------------------------------------------------
Next == TIM3_IRQHandler \/ HandleLwipPeriodicEvent
Spec == Init /\ [][Next]_vars

\* The main loop runs whenever no handler does.
FairSpec == Spec /\ WF_vars(HandleLwipPeriodicEvent)

-----------------------------------------------------------------------------
TypeOK == /\ index \in [Events -> Nat]
          /\ \A e \in Events : index[e] < Period[e]
          /\ flag \in [Events -> {0, 1}]
          /\ turn \in 1..Len(Order)
          /\ pc \in {"check", "clear", "call", "return"}
          /\ owed \in [Events -> BOOLEAN]
          /\ merged \in [Events -> BOOLEAN]
          /\ lag \in 0..MaxLag
          /\ slow \in {0, 1}

\* No expiry is forgotten, wherever the timer interrupts the polling: until a
\* service begins that knows of it, its flag is set, or the main loop is just
\* before that service.  The flags are plain variables that both sides write;
\* this rests on clearing a flag before serving it.
NoneForgotten ==
  \A e \in Events :
    owed[e] => flag[e] = 1 \/ (pc = "call" /\ Event = e)

\* Every expiry is served, however often the other events are due.
Served == \A e \in Events : owed[e] ~> ~owed[e]

\* As long as the rounds of the main loop take less than half a period, every
\* expiry is served on its own: no two of them are found behind one flag, and
\* the clocks of TCP and ARP, which count calls, lose no time.
ShortRounds == slow = 0 /\ \A e \in Events : 2 * MaxLag < Period[e]
NothingMerged == ShortRounds => \A e \in Events : ~merged[e]

\* While a flag is set, the counter of its event is the age of the flag, and
\* the main loop is on its way to it.
Position == [tcp |-> 1, arp |-> 2, conn |-> 3]
Passed(e) == \/ turn > Position[e]
             \/ turn = Position[e] /\ pc \in {"call", "return"}
FlagAge ==
  slow = 0 =>
    \A e \in Events :
      flag[e] = 1 => index[e] <= lag + (IF Passed(e) THEN 0 ELSE MaxLag)
=============================================================================
