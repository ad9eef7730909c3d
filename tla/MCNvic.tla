------------------------------- MODULE MCNvic -------------------------------
(* Nvic has no constants: the interrupts and main()'s calls are given.     *)
EXTENDS Nvic
=============================================================================
