-------------------------------- MODULE Nvic --------------------------------
(***************************************************************************)
(* Who preempts whom.  main() enables the interrupts one after the other,  *)
(* and NVIC_Init (misc.c) encodes a priority with the grouping it finds in *)
(* SCB->AIRCR.  The timer and the COM2 interrupts are set up before        *)
(* NVIC_Configuration (dp83848.c) selects NVIC_PriorityGroup_2, so they    *)
(* are encoded with the reset grouping and all get priority register 0:    *)
(* they do not preempt each other, they preempt the Ethernet interrupt,    *)
(* and that preempts the main loop.  The other modules of this project     *)
(* take their atomicity from the properties checked here.                  *)
(*                                                                         *)
(* No definition has the name of one of PeriodicEvents or TcpTimers:       *)
(* MainProof extends the three.                                            *)
(***************************************************************************)
EXTENDS NvicEncoding, Sequences

Irqs == {"TIM3", "USART2", "DMA1_Channel7", "DMA1_Channel6", "ETH"}

\* Position in the vector table: the tie break of the hardware.
IrqNumber == [TIM3 |-> 29, USART2 |-> 38, DMA1_Channel7 |-> 17,
              DMA1_Channel6 |-> 16, ETH |-> 61]

VARIABLES
  step,       \* main(): number of NVIC calls it has made
  prigroup,   \* PRIGROUP of SCB->AIRCR
  ip,         \* NVIC->IP
  enabled,    \* NVIC->ISER
  pending,    \* requested and not yet taken
  stack       \* the handlers that run, innermost last

nvicVars == <<step, prigroup, ip, enabled, pending, stack>>

-----------------------------------------------------------------------------
(* The calls main() makes, in its order.                                   *)

Init_(irq, pre, sub) == [op |-> "init", irq |-> irq, pre |-> pre, sub |-> sub]
GroupConfig(group) == [op |-> "group", group |-> group]

\* The grouping is selected first.
Faulty_Boot == <<GroupConfig(5),
  Init_("TIM3", 1, 3), Init_("USART2", 3, 3), Init_("DMA1_Channel7", 3, 3),
  Init_("DMA1_Channel6", 3, 3), Init_("ETH", 2, 0)>>

Boot == <<
  Init_("TIM3", 1, 3),                  \* InitTimerCon
  Init_("USART2", 3, 3),                \* InitUartCon
  Init_("DMA1_Channel7", 3, 3),
  Init_("DMA1_Channel6", 3, 3),
  GroupConfig(5),                       \* InitEthernet: NVIC_PriorityGroup_2
  Init_("ETH", 2, 0)>>

NvicInit ==
  /\ step = 0
  /\ prigroup = 0
  /\ ip = [i \in Irqs |-> 0]
  /\ enabled = {}
  /\ pending = {}
  /\ stack = << >>

\* NVIC_PriorityGroupConfig: 7 - 5 = 2 bits of preemption priority.
NVIC_PriorityGroupConfig(c) ==
  /\ c.op = "group"
  /\ prigroup' = c.group
  /\ UNCHANGED <<ip, enabled>>

NVIC_Init(c) ==
  /\ c.op = "init"
  /\ ip' = [ip EXCEPT ![c.irq] = Priority(prigroup, c.pre, c.sub)]
  /\ enabled' = enabled \cup {c.irq}
  /\ UNCHANGED prigroup

-----------------------------------------------------------------------------
(* The core.                                                               *)

Level(irq) == PreemptLevel(prigroup, ip[irq])

\* irq goes before other among the requests that wait.
Before(irq, other) ==
  LET Rank(i) == <<Level(i), SubLevel(prigroup, ip[i]), IrqNumber[i]>>
      a == Rank(irq)
      b == Rank(other)
  IN \/ a[1] < b[1]
     \/ a[1] = b[1] /\ a[2] < b[2]
     \/ a[1] = b[1] /\ a[2] = b[2] /\ a[3] < b[3]

Request(irq) ==
  /\ irq \in enabled \ pending
  /\ pending' = pending \cup {irq}
  /\ UNCHANGED <<step, prigroup, ip, enabled, stack>>

\* A request is taken by the main program, or by a handler of a lower rank,
\* before either executes anything more.
CanTake(irq) ==
  /\ irq \in pending
  /\ \A other \in pending \ {irq} : Before(irq, other)
  /\ stack # << >> => Level(irq) < Level(stack[Len(stack)])

Take(irq) ==
  /\ CanTake(irq)
  /\ pending' = pending \ {irq}
  /\ stack' = Append(stack, irq)
  /\ UNCHANGED <<step, prigroup, ip, enabled>>

Executes == \A irq \in Irqs : ~CanTake(irq)

ExceptionReturn ==
  /\ stack # << >>
  /\ Executes
  /\ stack' = SubSeq(stack, 1, Len(stack) - 1)
  /\ UNCHANGED <<step, prigroup, ip, enabled, pending>>

Main ==
  /\ stack = << >>
  /\ Executes
  /\ step < Len(Boot)
  /\ step' = step + 1
  /\ NVIC_PriorityGroupConfig(Boot[step + 1]) \/ NVIC_Init(Boot[step + 1])
  /\ UNCHANGED <<pending, stack>>

NvicNext == Main \/ (\E irq \in Irqs : Request(irq) \/ Take(irq)) \/ ExceptionReturn

NvicSpec == NvicInit /\ [][NvicNext]_nvicVars

-----------------------------------------------------------------------------
NvicTypeOK ==
  /\ step \in 0..Len(Boot)
  /\ prigroup \in 0..7
  /\ ip \in [Irqs -> 0..255]
  /\ enabled \subseteq Irqs
  /\ pending \subseteq enabled
  /\ stack \in Seq(Irqs)

Drivers == Irqs \ {"ETH"}
Innermost(irq) == stack # << >> /\ stack[Len(stack)] = irq

\* No handler but the Ethernet one is ever caught halfway, booting included:
\* what interrupts the timer and COM2 handlers is nothing, not even each
\* other.  Their bodies are atomic for the main loop and for lwIP.
DriversAreInnermost ==
  \A i \in DOMAIN stack : stack[i] \in Drivers => i = Len(stack)

\* Both, as the run checks them.
StackSound == NvicTypeOK /\ DriversAreInnermost

\* A request of COM2 or of the timer never waits for the Ethernet handler to
\* return: no statement of lwIP runs between the request and its handler.
EthYieldsToDrivers ==
  [][\A irq \in Drivers : Innermost("ETH") /\ irq \in pending => ~ExceptionReturn]_nvicVars

\* What NVIC_Init would make of any request at this point of the boot.  Once a
\* grouping of the library is selected, the core ranks the interrupt exactly as
\* requested, for every priority inside the grouping's row of the table of
\* misc.h:78-99; before that it gets the highest priority there is, whatever is
\* requested.  The second is what makes the timer and COM2 handlers of this
\* program exclude each other.
EncodingExact ==
  IF prigroup = 0
    THEN \A pre, sub \in 0..15 : Priority(prigroup, pre, sub) = 0
    ELSE \A pre \in 0..2^(7 - prigroup) - 1, sub \in 0..2^(prigroup - 3) - 1 :
           LET p == Priority(prigroup, pre, sub)
           IN PreemptLevel(prigroup, p) = pre /\ SubLevel(prigroup, p) = sub
=============================================================================
