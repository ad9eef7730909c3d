---------------------------- MODULE NvicEncoding ----------------------------
(***************************************************************************)
(* How NVIC_Init (Stm32F10x_FwLib/src/misc.c) turns a preemption priority  *)
(* and a subpriority into the priority byte of an interrupt, and what the  *)
(* core makes of that byte.                                                *)
(***************************************************************************)
EXTENDS Naturals

\* A Cortex-M3 shift by 32 places or more gives 0; 32 stands for all of them.
ShiftLeft(x, k) == IF k < 32 THEN x * 2^k ELSE 0
ShiftRight(x, k) == IF k < 32 THEN x \div 2^k ELSE 0

\* A definition named Faulty_X is X with one mistake in it, to see which property
\* X answers for.  Here the reset grouping is treated as one with four subpriority bits.
Faulty_FourMinus(n) == 4 - (n % 4)

\* 0x4 - n in unsigned 32-bit arithmetic: below 0 it is at least 2^32 - 3.
FourMinus(n) == IF n <= 4 THEN 4 - n ELSE 32

\* The byte NVIC_Init writes when PRIGROUP of SCB->AIRCR is `group`.  tmpsub is
\* a mask of low bits, and the part above it does not overlap it.
Priority(group, pre, sub) ==
  LET n == 7 - group
      tmppre == FourMinus(n)
      tmpsub == ShiftRight(15, n)
  IN ((ShiftLeft(pre, tmppre) + (sub % (tmpsub + 1))) * 16) % 256

\* The bits above bit PRIGROUP decide who preempts whom, the others only order
\* the requests that wait together; the STM32 has the upper four of them.
PreemptLevel(group, p) == p \div 2^(group + 1)
SubLevel(group, p) == (p % 2^(group + 1)) \div 16
=============================================================================
