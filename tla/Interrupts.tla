----------------------------- MODULE Interrupts -----------------------------
(***************************************************************************)
(* How an interrupt reaches a driver: the two 8259 controllers as          *)
(* arch/i686/pic/8259.c programs them, and the way through the stubs,      *)
(* i686_ISR_CommonHandler (isr.c) and i686_IRQ_CommonHandler (irq.c).      *)
(* Every gate is an interrupt gate: a handler runs with interrupts         *)
(* disabled, and the drivers' modules need no nesting.                     *)
(***************************************************************************)
EXTENDS Integers, FiniteSetsExt

Lines == 0..15
Slave == 8..15           \* lines of the second controller
Cascade == 2             \* the line of the first one it is wired to
PIC_REMAP_OFFSET == 32
Vectors == 0..255        \* each has a stub and an enabled gate

\* The state of both controllers after i686_PIC_Remap: edge-triggered, nothing masked.
i686_PIC_Remap == [requested |-> {}, inService |-> {}, mask |-> {}]

i686_PIC_SetMask(pic, line) == [pic EXCEPT !.mask = @ \union {line}]
i686_PIC_ClearMask(pic, line) == [pic EXCEPT !.mask = @ \ {line}]

\* A rising edge is latched, also of a line that is masked.
Raise(pic, line) == [pic EXCEPT !.requested = @ \union {line}]

\* A line in service holds back those of its own and of lower priority.
HoldsBack(s, line) ==
  IF s \in Slave THEN line \in Slave /\ s <= line
  ELSE s <= IF line \in Slave THEN Cascade ELSE line

Deliverable(pic) ==
  { l \in pic.requested \ pic.mask :
      /\ l \in Slave => Cascade \notin pic.mask
      /\ \A s \in pic.inService : ~HoldsBack(s, l) }

Acknowledge(pic, line) ==
  [pic EXCEPT !.requested = @ \ {line},
              !.inService = @ \union {line} \union
                            (IF line \in Slave THEN {Cascade} ELSE {})]

\* An end of interrupt ends the service of the most urgent line.
EndService(lines) == IF lines = {} THEN {} ELSE lines \ {Min(lines)}

i686_PIC_SendEOI(pic, irq) ==
  [pic EXCEPT !.inService =
     (IF irq \in Slave THEN EndService(@ \intersect Slave) ELSE @ \intersect Slave)
     \union EndService(@ \ Slave)]

Vector(line) == PIC_REMAP_OFFSET + line

\* i686_IRQ_Initialize sets the handler of these vectors.
IRQVectors == { v \in Vectors : v - PIC_REMAP_OFFSET \in Lines }

\* What a line without a handler runs is a message; what one with a handler
\* runs is the driver's function.
i686_IRQ_CommonHandler(irq, handlers) == IF irq \in handlers THEN "driver" ELSE "message"

i686_ISR_CommonHandler(vector, exceptionHandlers, handlers) ==
  IF vector < PIC_REMAP_OFFSET
  THEN IF vector \in exceptionHandlers THEN "exception" ELSE "halt"
  ELSE IF vector \in IRQVectors
       THEN i686_IRQ_CommonHandler(vector - PIC_REMAP_OFFSET, handlers)
       ELSE "message"

\* i686_IRQ_SetHandler.
i686_IRQ_SetHandler(handlers, line) == handlers \union {line}
=============================================================================
