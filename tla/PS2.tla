-------------------------------- MODULE PS2 --------------------------------
(***************************************************************************)
(* The PS/2 command queue, src/kernel/drivers/ps2.c, with the keyboard     *)
(* controller it drives (arch/i686/i8042.c) and the keyboard behind it.    *)
(*                                                                         *)
(* PS2_Initialize runs in the main context with interrupts enabled, so it  *)
(* is modelled statement by statement.  PS2_IRQHandler runs with           *)
(* interrupts disabled: it is one step, with everything it calls.          *)
(***************************************************************************)
EXTENDS Integers, Sequences

CONSTANTS
  QueueSize,   \* MAX_CMD_QUEUE_SIZE
  MaxStrokes,  \* bound: keys struck
  MaxResends,  \* bound: bytes the keyboard asks for again
  EarlyKeys,   \* keys may be struck before PS2_Initialize has returned
  FastAnswer   \* the keyboard may answer before the main context's next statement

ASSUME QueueSizeAssumption == QueueSize \in Nat /\ QueueSize >= 2
ASSUME BoundsAssumption == /\ MaxStrokes \in Nat /\ MaxResends \in Nat
                           /\ EarlyKeys \in BOOLEAN /\ FastAnswer \in BOOLEAN

None == 256                  \* no byte
SetLEDs == 237               \* the command byte 0xed
Ack == 250                   \* 0xfa
Resend == 254                \* 0xfe
Letter == 30                 \* the scan code of a key without a lamp
CapsLock == 58               \* of one whose press sends a SetLEDs command
Keys == {Letter, CapsLock}
Answers == {Ack, Resend}
Lamps == {0, 4}              \* the argument of SetLEDs
Slots == 0..(QueueSize - 1)
Retries == 3

\* PS2Command, and what the .bss section holds before the first one.
Command(b) == [bytes |-> b, pos |-> 0, retries |-> Retries, waiting_ack |-> FALSE]
NoCommand == [bytes |-> <<>>, pos |-> 0, retries |-> 0, waiting_ack |-> FALSE]

VARIABLES
  queue,       \* [commands, head, tail, busy]
  handlerSet,  \* handlers[1] of irq.c is PS2_IRQHandler
  pc, next,    \* the main context in PS2_Initialize, and `next' of EnqueueCommand
  caps,        \* `caps' of keyboard.c
  outBuf,      \* the controller's output buffer: a byte for the processor
  inBuf,       \* its input buffer: a byte for the keyboard
  irq,         \* IRQ 1 is latched in the interrupt controller
  toSend,      \* the bytes the keyboard has to send, oldest first
  expecting,   \* the keyboard has acknowledged SetLEDs and waits for the lamps
  lamps,       \* the lamps of the keyboard
  strokes, resends,  \* what is left of the bounds
  handled,     \* ghost: the bytes passed to Keyboard_HandleByte
  dropped      \* ghost: a command was refused or given up

vars == <<queue, handlerSet, pc, next, caps, outBuf, inBuf, irq, toSend,
          expecting, lamps, strokes, resends, handled, dropped>>

keyboard == <<toSend, expecting, lamps, strokes, resends>>

\* The buffer may hold a byte the boot loader has not read.
Init ==
  /\ queue = [commands |-> [s \in Slots |-> NoCommand],
              head |-> 0, tail |-> 0, busy |-> FALSE]
  /\ handlerSet = FALSE /\ pc = "read" /\ next = 0 /\ caps = FALSE
  /\ outBuf \in {None, Letter} /\ irq = (outBuf # None)
  /\ inBuf = None /\ toSend = <<>> /\ expecting = FALSE /\ lamps = 0
  /\ strokes = MaxStrokes /\ resends = MaxResends
  /\ handled = <<>> /\ dropped = FALSE

-----------------------------------------------------------------------------
(***************************************************************************)
(* The functions of ps2.c as they run inside the interrupt handler.  Each  *)
(* gives the queue it leaves and the byte it writes to the controller.     *)
(***************************************************************************)
Result(q, byte) == [queue |-> q, out |-> byte]

\* Mutant: the ring does not wrap.
After_NoWrap(s) == s + 1

After(s) == (s + 1) % QueueSize

\* Mutant: the command is not marked as waiting.
WriteNextByte_NotWaiting(q) ==
  LET cmd == q.commands[q.head]
  IN Result([q EXCEPT !.commands[q.head].pos = cmd.pos + 1], cmd.bytes[cmd.pos + 1])

\* i686_i8042_WriteByte(cmd->bytes[cmd->pos++]); cmd->waiting_ack = true;
WriteNextByte(q) ==
  LET cmd == q.commands[q.head]
  IN Result([q EXCEPT !.commands[q.head].pos = cmd.pos + 1,
                      !.commands[q.head].waiting_ack = TRUE],
            cmd.bytes[cmd.pos + 1])

PS2_SendNextCommand(q) ==
  IF q.tail = q.head THEN Result([q EXCEPT !.busy = FALSE], None)
  ELSE WriteNextByte([q EXCEPT !.busy = TRUE])

PS2_EnqueueCommand(q, bytes) ==
  IF After(q.tail) = q.head THEN Result(q, None)
  ELSE LET stored == [q EXCEPT !.commands[q.tail] = Command(bytes),
                               !.tail = After(q.tail)]
       IN IF q.busy THEN Result(stored, None) ELSE PS2_SendNextCommand(stored)

\* Mutant: the next command is not sent and the queue stays busy.
GotAck_NoNext(q) ==
  LET cmd == q.commands[q.head]
  IN IF cmd.pos < Len(cmd.bytes) THEN WriteNextByte(q)
     ELSE Result([q EXCEPT !.head = After(q.head)], None)

\* An acknowledged byte: the next one is sent, or the next command.
GotAck(q) ==
  LET cmd == q.commands[q.head]
  IN IF cmd.pos < Len(cmd.bytes) THEN WriteNextByte(q)
     ELSE PS2_SendNextCommand([q EXCEPT !.head = After(q.head)])

GivesUp(q) == q.commands[q.head].retries = 0

\* Mutant: the position is not set back.
GotResend_NextByte(q) ==
  LET cmd == q.commands[q.head]
      counted == [q EXCEPT !.commands[q.head].retries = (cmd.retries - 1) % 256]
  IN IF GivesUp(q)
     THEN PS2_SendNextCommand([counted EXCEPT !.head = After(q.head)])
     ELSE WriteNextByte(counted)

\* A byte the keyboard wants again: it is sent again, or the command given up.
\* The 8-bit count of retries is decremented in either case.
GotResend(q) ==
  LET cmd == q.commands[q.head]
      counted == [q EXCEPT !.commands[q.head].retries = (cmd.retries - 1) % 256]
  IN IF GivesUp(q)
     THEN PS2_SendNextCommand([counted EXCEPT !.head = After(q.head)])
     ELSE WriteNextByte([counted EXCEPT !.commands[q.head].pos = cmd.pos - 1])

AwaitsAnswer(q) == q.busy /\ q.commands[q.head].waiting_ack

LampsFor(c) == IF c THEN 4 ELSE 0

-----------------------------------------------------------------------------
(***************************************************************************)
(* The interrupt.                                                          *)
(***************************************************************************)

\* The write waits until the keyboard has taken the byte before.
Apply(result) ==
  /\ queue' = result.queue
  /\ IF result.out = None THEN UNCHANGED inBuf
     ELSE inBuf = None /\ inBuf' = result.out

AnswerToCommand ==
  /\ outBuf \in Answers /\ AwaitsAnswer(queue)
  /\ Apply(IF outBuf = Ack THEN GotAck(queue) ELSE GotResend(queue))
  /\ dropped' = (dropped \/ (outBuf = Resend /\ GivesUp(queue)))
  /\ UNCHANGED <<caps, handled>>

\* Mutant: the lamps are sent before the lock is toggled.
ByteToKeyboard_OldLamps ==
  /\ ~(outBuf \in Answers /\ AwaitsAnswer(queue))
  /\ handled' = Append(handled, outBuf)
  /\ IF outBuf = CapsLock
     THEN /\ caps' = ~caps
          /\ Apply(PS2_EnqueueCommand(queue, <<SetLEDs, LampsFor(caps)>>))
          /\ dropped' = (dropped \/ After(queue.tail) = queue.head)
     ELSE UNCHANGED <<caps, queue, inBuf, dropped>>

\* Keyboard_HandleByte: a lock key sends the new state to the lamps.
ByteToKeyboard ==
  /\ ~(outBuf \in Answers /\ AwaitsAnswer(queue))
  /\ handled' = Append(handled, outBuf)
  /\ IF outBuf = CapsLock
     THEN /\ caps' = ~caps
          /\ Apply(PS2_EnqueueCommand(queue, <<SetLEDs, LampsFor(~caps)>>))
          /\ dropped' = (dropped \/ After(queue.tail) = queue.head)
     ELSE UNCHANGED <<caps, queue, inBuf, dropped>>

\* Mutant: the byte is only read while a command is being sent.
PS2_IRQHandler_OnlyBusy ==
  /\ irq /\ handlerSet
  /\ irq' = FALSE
  /\ IF outBuf = None \/ ~queue.busy
     THEN UNCHANGED <<queue, inBuf, caps, handled, dropped, outBuf>>
     ELSE outBuf' = None /\ (AnswerToCommand \/ ByteToKeyboard)
  /\ UNCHANGED <<handlerSet, pc, next, keyboard>>

PS2_IRQHandler ==
  /\ irq /\ handlerSet
  /\ irq' = FALSE
  /\ IF outBuf = None
     THEN UNCHANGED <<queue, inBuf, caps, handled, dropped, outBuf>>
     ELSE outBuf' = None /\ (AnswerToCommand \/ ByteToKeyboard)
  /\ UNCHANGED <<handlerSet, pc, next, keyboard>>

\* i686_IRQ_CommonHandler without a handler prints a message and acknowledges
\* the interrupt; the byte stays in the controller.
UnhandledIRQ ==
  /\ irq /\ ~handlerSet
  /\ irq' = FALSE
  /\ UNCHANGED <<queue, handlerSet, pc, next, caps, outBuf, inBuf, keyboard,
                 handled, dropped>>

-----------------------------------------------------------------------------
(***************************************************************************)
(* The main context: PS2_Initialize, PS2_EnqueueCommand called through     *)
(* Keyboard_SetLEDs, and PS2_SendNextCommand, one statement at a time.     *)
(***************************************************************************)
Step(from, to) == pc = from /\ pc' = to

\* ReadByte(&dummy) takes the byte that is there or gives up waiting for one.
ReadDummy ==
  /\ Step("read", "handler")
  /\ outBuf' = None
  /\ UNCHANGED <<queue, handlerSet, next, caps, inBuf, irq, keyboard, handled, dropped>>

SetHandler ==
  /\ Step("handler", "full")
  /\ handlerSet' = TRUE
  /\ UNCHANGED <<queue, next, caps, outBuf, inBuf, irq, keyboard, handled, dropped>>

\* next = (queue.tail + 1) % MAX_CMD_QUEUE_SIZE, and the test for a full queue.
TestFull ==
  /\ pc = "full"
  /\ next' = After(queue.tail)
  /\ pc' = IF next' = queue.head THEN "done" ELSE "store"
  /\ dropped' = (dropped \/ next' = queue.head)
  /\ UNCHANGED <<queue, handlerSet, caps, outBuf, inBuf, irq, keyboard, handled>>

\* The fields of queue.commands[queue.tail], in one step: an interrupt between
\* two of them could move queue.tail only when a lock key is struck early.
StoreCommand ==
  /\ Step("store", "publish")
  /\ queue' = [queue EXCEPT !.commands[queue.tail] = Command(<<SetLEDs, 0>>)]
  /\ UNCHANGED <<handlerSet, next, caps, outBuf, inBuf, irq, keyboard, handled, dropped>>

PublishTail ==
  /\ Step("publish", "busy")
  /\ queue' = [queue EXCEPT !.tail = next]
  /\ UNCHANGED <<handlerSet, next, caps, outBuf, inBuf, irq, keyboard, handled, dropped>>

\* if (!queue.busy)
TestBusy ==
  /\ pc = "busy"
  /\ pc' = IF queue.busy THEN "done" ELSE "empty"
  /\ UNCHANGED <<queue, handlerSet, next, caps, outBuf, inBuf, irq, keyboard, handled, dropped>>

\* PS2_SendNextCommand up to the write.
TestEmpty ==
  /\ pc = "empty"
  /\ IF queue.tail = queue.head
     THEN pc' = "done" /\ queue' = [queue EXCEPT !.busy = FALSE]
     ELSE pc' = "write" /\ queue' = [queue EXCEPT !.busy = TRUE]
  /\ UNCHANGED <<handlerSet, next, caps, outBuf, inBuf, irq, keyboard, handled, dropped>>

\* The byte after the last one of a command is whatever the array holds.
ByteAt(cmd, i) == IF i <= Len(cmd.bytes) THEN {cmd.bytes[i]} ELSE {0}

WriteByte ==
  /\ Step("write", "waiting")
  /\ inBuf = None
  /\ LET cmd == queue.commands[queue.head]
     IN /\ inBuf' \in ByteAt(cmd, cmd.pos + 1)
        /\ queue' = [queue EXCEPT !.commands[queue.head].pos = cmd.pos + 1]
  /\ UNCHANGED <<handlerSet, next, caps, outBuf, irq, keyboard, handled, dropped>>

SetWaiting ==
  /\ Step("waiting", "done")
  /\ queue' = [queue EXCEPT !.commands[queue.head].waiting_ack = TRUE]
  /\ UNCHANGED <<handlerSet, next, caps, outBuf, inBuf, irq, keyboard, handled, dropped>>

Main == \/ ReadDummy \/ SetHandler \/ TestFull \/ StoreCommand \/ PublishTail
        \/ TestBusy \/ TestEmpty \/ WriteByte \/ SetWaiting

-----------------------------------------------------------------------------
(***************************************************************************)
(* The controller and the keyboard.                                        *)
(***************************************************************************)
host == <<queue, handlerSet, pc, next, caps, handled, dropped>>

\* A byte goes to the output buffer, which raises the interrupt.
Deliver ==
  /\ toSend # <<>> /\ outBuf = None
  /\ outBuf' = Head(toSend) /\ toSend' = Tail(toSend)
  /\ irq' = TRUE
  /\ UNCHANGED <<host, inBuf, expecting, lamps, strokes, resends>>

MayAnswer == inBuf # None /\ (FastAnswer \/ pc # "waiting")

\* The keyboard takes a byte and acknowledges it.  After SetLEDs it expects
\* the lamps; a command byte in their place starts a new command.
Accept ==
  /\ MayAnswer
  /\ inBuf' = None
  /\ toSend' = Append(toSend, Ack)
  /\ expecting' = (inBuf = SetLEDs)
  /\ lamps' = IF expecting /\ inBuf # SetLEDs THEN inBuf ELSE lamps
  /\ UNCHANGED <<host, outBuf, irq, strokes, resends>>

\* It takes a byte it could not read and asks for it again.
AskAgain ==
  /\ MayAnswer /\ resends > 0
  /\ inBuf' = None
  /\ toSend' = Append(toSend, Resend)
  /\ resends' = resends - 1
  /\ UNCHANGED <<host, outBuf, irq, expecting, lamps, strokes>>

Strike(key) ==
  /\ strokes > 0 /\ (EarlyKeys \/ pc = "done")
  /\ toSend' = Append(toSend, key)
  /\ strokes' = strokes - 1
  /\ UNCHANGED <<host, outBuf, inBuf, irq, expecting, lamps, resends>>

Interrupt == PS2_IRQHandler \/ UnhandledIRQ

Next == \/ Main
        \/ Interrupt
        \/ Deliver \/ Accept \/ AskAgain
        \/ \E key \in Keys : Strike(key)

\* The processor runs, takes a pending interrupt, and the keyboard answers.
Fairness == /\ WF_vars(Main) /\ WF_vars(Interrupt)
            /\ WF_vars(Deliver) /\ WF_vars(Accept)

Spec == Init /\ [][Next]_vars /\ Fairness

-----------------------------------------------------------------------------
(***************************************************************************)
(* Properties.                                                             *)
(***************************************************************************)
TypeOK ==
  /\ queue.head \in Slots /\ queue.tail \in Slots /\ queue.busy \in BOOLEAN
  /\ \A s \in Slots : LET cmd == queue.commands[s]
                      IN /\ cmd.pos \in 0..Len(cmd.bytes)
                         /\ cmd.retries \in 0..255
                         /\ cmd.waiting_ack \in BOOLEAN
  /\ outBuf \in Keys \cup Answers \cup {None}
  /\ inBuf \in Lamps \cup {SetLEDs, None}

\* An answer of the keyboard is on its way, or still to come.
Answering == \/ outBuf \in Answers
             \/ \E i \in 1..Len(toSend) : toSend[i] \in Answers

\* While an answer is on its way the command at the head waits for it, so the
\* handler never takes the answer to one command for another's or for a key;
\* with the next byte not sent yet, there is never a second one.
OneByteInFlight ==
  /\ Answering => AwaitsAnswer(queue) /\ inBuf = None
  /\ \A i, j \in 1..Len(toSend) :
       toSend[i] \in Answers /\ toSend[j] \in Answers => i = j /\ outBuf \notin Answers

\* "Byte isnt part of instruction, send to keyboard": what goes on to
\* Keyboard_HandleByte is never an answer to a command.
AnswersNeverKeys == \A i \in 1..Len(handled) : handled[i] \in Keys

\* The keyboard and the queue agree on how far the command at the head is: one
\* byte at a time, each waits for the answer to the other's last step, and the
\* lamps the keyboard takes are the ones sent as lamps.
KeyboardInStep ==
  /\ OneByteInFlight
  /\ inBuf \in Lamps => expecting
  /\ inBuf # None => AwaitsAnswer(queue) \/ pc = "waiting"

\* Once everything sent has been answered and no command was refused or given
\* up, the lamps show the state the kernel has.
LampsFollowCaps ==
  pc = "done" /\ ~queue.busy /\ ~dropped => lamps = LampsFor(caps)

\* Every command ends: the queue is never busy for ever.
QueueDrains == []<>(~queue.busy)

\* No byte the keyboard sends stays behind in the controller or the keyboard.
EveryKeyHandled == <>[](toSend = <<>> /\ outBuf = None)
=============================================================================
