-------------------------- MODULE MCPeriodicEvents --------------------------
(***************************************************************************)
(* Instances of PeriodicEvents for TLC.  The real periods are 25, 500 and  *)
(* 2000 interrupts; short ones of the same order let the expiries meet in  *)
(* every way, at the same interrupt included.                              *)
(***************************************************************************)
EXTENDS PeriodicEvents

\* More than two rounds of a main loop that is not slow.
Periods == [tcp |-> 5, arp |-> 6, conn |-> 8]
=============================================================================
