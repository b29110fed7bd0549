----------------------------- MODULE PS2_proofs -----------------------------
(***************************************************************************)
(* For every length of the queue and any number of keys and of bytes asked *)
(* for again: keys and answers never mix, the queue and the keyboard stay  *)
(* in step, and the lamps follow the lock, with a keyboard that is not     *)
(* struck before PS2_Initialize has returned and that does not answer      *)
(* before the main context's next statement.  The run MCPS2_FastAnswer     *)
(* shows why the second condition is needed.                               *)
(***************************************************************************)
EXTENDS PS2, TLAPS

Patient == EarlyKeys = FALSE /\ FastAnswer = FALSE

-----------------------------------------------------------------------------
(***************************************************************************)
(* The inductive invariant.                                                *)
(***************************************************************************)
Bytes == {<<>>} \cup { <<SetLEDs, l>> : l \in Lamps }
Commands == [bytes : Bytes, pos : 0..2, retries : 0..255, waiting_ack : BOOLEAN]
Queues == [commands : [Slots -> Commands], head : Slots, tail : Slots, busy : BOOLEAN]

Types ==
  /\ queue \in Queues
  /\ \A s \in Slots : queue.commands[s].pos <= Len(queue.commands[s].bytes)
  /\ handlerSet \in BOOLEAN /\ next \in Nat /\ caps \in BOOLEAN
  /\ pc \in {"read", "handler", "full", "store", "publish", "busy", "empty",
             "write", "waiting", "done"}
  /\ outBuf \in Keys \cup Answers \cup {None} /\ inBuf \in Lamps \cup {SetLEDs, None}
  /\ irq \in BOOLEAN /\ toSend \in Seq(Keys \cup Answers)
  /\ expecting \in BOOLEAN /\ lamps \in Lamps
  /\ handled \in Seq(Keys) /\ dropped \in BOOLEAN

\* The slots from the head to the tail hold commands not yet sent, except that
\* the one at the head of a busy queue is being sent.
Ring(head, tail) == IF head <= tail THEN { s \in Slots : head <= s /\ s < tail }
                    ELSE { s \in Slots : head <= s \/ s < tail }
Queued(q) == Ring(q.head, q.tail)

QueueOK(q) == \A s \in Queued(q) : /\ q.commands[s].bytes # <<>>
                                   /\ s # q.head \/ ~q.busy => q.commands[s].pos = 0

HeadCommand == queue.commands[queue.head]

OnItsWay(answer) == outBuf = answer \/ \E i \in 1..Len(toSend) : toSend[i] = answer

\* Until PS2_Initialize has written its command nothing is on its way.
Started == pc \in {"waiting", "done"}
BeforeStart ==
  ~Started =>
    /\ inBuf = None /\ toSend = <<>> /\ outBuf \in {None, Letter}
    /\ queue.head = 0 /\ queue.busy = (pc = "write")
    /\ queue.tail = IF pc \in {"busy", "empty", "write"} THEN After(0) ELSE 0
    /\ pc \in {"store", "publish"} => next = After(0)
    /\ pc \in {"publish", "busy", "empty", "write"} =>
         queue.commands[0].bytes = <<SetLEDs, 0>> /\ queue.commands[0].pos = 0
    /\ ~caps /\ lamps = 0 /\ ~dropped

\* The byte is written and the command not yet marked.
BeforeMark ==
  pc = "waiting" => /\ inBuf = SetLEDs /\ toSend = <<>> /\ outBuf \in {None, Letter}
                    /\ queue.busy /\ HeadCommand.pos = 1 /\ queue.head # queue.tail

\* A busy queue sends the command at its head; an idle one is empty.
Sending ==
  pc = "done" =>
    IF queue.busy
    THEN queue.head # queue.tail /\ HeadCommand.waiting_ack /\ HeadCommand.pos \in {1, 2}
    ELSE queue.head = queue.tail /\ inBuf = None /\ ~OnItsWay(Ack) /\ ~OnItsWay(Resend)

\* What the keyboard has made of the byte last sent.
Matching ==
  Started /\ queue.busy =>
    /\ inBuf # None => inBuf = HeadCommand.bytes[HeadCommand.pos]
    /\ HeadCommand.pos = 1 /\ OnItsWay(Ack) => expecting
    /\ HeadCommand.pos = 2 /\ ~OnItsWay(Ack) => expecting
    /\ HeadCommand.pos = 2 /\ OnItsWay(Ack) => lamps = HeadCommand.bytes[2]

\* The command last queued sets the lamps to the state the kernel has.
LastIsCurrent ==
  Started /\ ~dropped =>
    IF queue.busy
    THEN \A s \in Queued(queue) : After(s) = queue.tail =>
           queue.commands[s].bytes[2] = LampsFor(caps)
    ELSE lamps = LampsFor(caps)

IInv == /\ Types /\ QueueOK(queue) /\ OneByteInFlight
        /\ BeforeStart /\ BeforeMark /\ Sending /\ Matching /\ LastIsCurrent

-----------------------------------------------------------------------------
(***************************************************************************)
(* The ring and its commands.                                              *)
(***************************************************************************)
LEMMA AfterFacts ==
  /\ 0 \in Slots /\ Slots \subseteq Nat
  /\ \A s \in Slots : After(s) \in Slots /\ After(s) # s
                      /\ After(s) = IF s + 1 = QueueSize THEN 0 ELSE s + 1
  /\ \A s, t \in Slots : After(s) = After(t) => s = t
<1>1. QueueSize \in Nat /\ QueueSize >= 2
  BY QueueSizeAssumption
<1>2. \A s \in Slots : s \in Nat /\ s < QueueSize
  BY <1>1 DEF Slots
<1>3. \A s \in Slots : (s + 1) % QueueSize = IF s + 1 = QueueSize THEN 0 ELSE s + 1
  BY <1>1, <1>2
<1>4. \A s \in Slots : After(s) = IF s + 1 = QueueSize THEN 0 ELSE s + 1
  BY <1>3 DEF After
<1> QED BY <1>1, <1>2, <1>4 DEF Slots

LEMMA RingFacts ==
  ASSUME NEW head \in Slots, NEW tail \in Slots
  PROVE  /\ Ring(head, tail) \subseteq Slots /\ tail \notin Ring(head, tail)
         /\ head = tail => Ring(head, tail) = {}
         /\ head # tail =>
              /\ head \in Ring(head, tail)
              /\ Ring(After(head), tail) = Ring(head, tail) \ {head}
              /\ \A s \in Ring(head, tail) : After(s) # tail => After(s) \in Ring(head, tail)
              /\ \E s \in Ring(head, tail) : After(s) = tail
         /\ After(tail) # head =>
              Ring(head, After(tail)) = Ring(head, tail) \cup {tail}
<1>1. QueueSize \in Nat /\ QueueSize >= 2 /\ \A s : s \in Slots <=> s \in Nat /\ s < QueueSize
  BY QueueSizeAssumption DEF Slots
<1>2. \A s \in Ring(head, tail) : s \in Slots
  BY DEF Ring
<1>3. \A h, t \in Slots : \A s : s \in Ring(h, t) <=> s \in Slots /\ IF h <= t THEN h <= s /\ s < t
                                                                 ELSE h <= s \/ s < t
  BY DEF Ring
<1>4. tail \notin Ring(head, tail) /\ (head = tail => Ring(head, tail) = {})
  BY <1>1, <1>3
<1>5. ASSUME head # tail
      PROVE  /\ head \in Ring(head, tail)
             /\ \A s : s \in Ring(After(head), tail) <=> s \in Ring(head, tail) /\ s # head
             /\ \A s \in Ring(head, tail) : After(s) # tail => After(s) \in Ring(head, tail)
  <2>1. head \in Ring(head, tail)
    BY <1>1, <1>3, <1>5
  <2>2. \A s : s \in Ring(After(head), tail) <=> s \in Ring(head, tail) /\ s # head
    BY <1>1, <1>3, <1>5, AfterFacts
  <2>3. ASSUME NEW s \in Ring(head, tail), After(s) # tail
        PROVE  After(s) \in Ring(head, tail)
    <3>1. s \in Slots /\ After(s) \in Slots /\ After(s) = IF s + 1 = QueueSize THEN 0 ELSE s + 1
      BY <2>3, <1>2, AfterFacts
    <3> QED BY <1>1, <1>3, <1>5, <2>3, <3>1
  <2> QED BY <2>1, <2>2, <2>3
<1>6. ASSUME head # tail
      PROVE  \E s \in Ring(head, tail) : After(s) = tail
  <2>1. CASE tail = 0
    <3>1. QueueSize - 1 \in Slots /\ After(QueueSize - 1) = tail
      BY <1>1, <2>1, AfterFacts
    <3> QED BY <1>1, <1>3, <1>6, <2>1, <3>1
  <2>2. CASE tail # 0
    <3>1. tail - 1 \in Slots /\ After(tail - 1) = tail
      BY <1>1, <2>2, AfterFacts
    <3> QED BY <1>1, <1>3, <1>6, <2>2, <3>1
  <2> QED BY <2>1, <2>2
<1>7. ASSUME After(tail) # head
      PROVE  \A s : s \in Ring(head, After(tail)) <=> s \in Ring(head, tail) \/ s = tail
  <2>1. /\ After(tail) \in Slots /\ After(tail) = IF tail + 1 = QueueSize THEN 0 ELSE tail + 1
        /\ head \in Nat /\ tail \in Nat /\ head < QueueSize /\ tail < QueueSize
    BY <1>1, AfterFacts
  <2>2. CASE tail + 1 = QueueSize
    BY <1>1, <1>3, <1>7, <2>1, <2>2
  <2>3. CASE tail + 1 # QueueSize
    BY <1>1, <1>3, <1>7, <2>1, <2>3
  <2> QED BY <2>2, <2>3
<1> QED BY <1>2, <1>4, <1>5, <1>6, <1>7

LEMMA BytesFacts ==
  ASSUME NEW b \in Bytes, b # <<>>
  PROVE  Len(b) = 2 /\ b[1] = SetLEDs /\ b[2] \in Lamps
BY DEF Bytes, Lamps

\* What the functions of ps2.c leave of a queue that sends its head's next byte.
Sent(q, result) ==
  /\ result.queue \in Queues
  /\ result.queue.head = q.head /\ result.queue.tail = q.tail /\ result.queue.busy
  /\ \A s \in Slots :
       /\ result.queue.commands[s].bytes = q.commands[s].bytes
       /\ result.queue.commands[s].pos =
            IF s = q.head THEN q.commands[s].pos + 1 ELSE q.commands[s].pos
       /\ s = q.head => result.queue.commands[s].waiting_ack
  /\ result.out = q.commands[q.head].bytes[q.commands[q.head].pos + 1]

LEMMA WriteSends ==
  ASSUME NEW q \in Queues, q.busy, q.commands[q.head].bytes # <<>>, q.commands[q.head].pos < 2
  PROVE  Sent(q, WriteNextByte(q))
<1> DEFINE cmd == q.commands[q.head]
           new == [q EXCEPT !.commands[q.head].pos = cmd.pos + 1,
                            !.commands[q.head].waiting_ack = TRUE]
<1>1. /\ q.commands \in [Slots -> Commands] /\ q.head \in Slots /\ q.tail \in Slots /\ q.busy \in BOOLEAN
      /\ cmd \in Commands /\ cmd.pos + 1 \in 0..2
  BY DEF Queues, Commands
<1>2. new.head = q.head /\ new.tail = q.tail /\ new.busy = q.busy
  BY DEF Queues
<1>3. new.commands = [q.commands EXCEPT ![q.head] =
                        [cmd EXCEPT !.pos = cmd.pos + 1, !.waiting_ack = TRUE]]
  BY <1>1 DEF Queues
<1>4. [cmd EXCEPT !.pos = cmd.pos + 1, !.waiting_ack = TRUE] \in Commands
  BY <1>1 DEF Commands
<1>5. new \in Queues
  BY <1>1, <1>3, <1>4 DEF Queues
<1>6. WriteNextByte(q) = [queue |-> new, out |-> cmd.bytes[cmd.pos + 1]]
  BY DEF WriteNextByte, Result
<1>7. \A s \in Slots :
        /\ new.commands[s].bytes = q.commands[s].bytes
        /\ new.commands[s].pos = IF s = q.head THEN cmd.pos + 1 ELSE q.commands[s].pos
        /\ s = q.head => new.commands[s].waiting_ack
  <2> PICK sent : sent = [cmd EXCEPT !.pos = cmd.pos + 1, !.waiting_ack = TRUE]
    OBVIOUS
  <2>1. sent.bytes = cmd.bytes /\ sent.pos = cmd.pos + 1 /\ sent.waiting_ack
    BY <1>1 DEF Commands
  <2>2. \A s \in Slots : new.commands[s] = IF s = q.head THEN sent ELSE q.commands[s]
    BY <1>1, <1>3
  <2> HIDE DEF new
  <2> QED BY <2>1, <2>2
<1> HIDE DEF new
<1>8. WriteNextByte(q).queue = new /\ WriteNextByte(q).out = q.commands[q.head].bytes[q.commands[q.head].pos + 1]
  BY <1>6
<1> QED BY <1>2, <1>5, <1>7, <1>8 DEF Sent

\* PS2_SendNextCommand, with nothing of the commands from the head on sent yet.
LEMMA SendNextSends ==
  ASSUME NEW q \in Queues,
         q.tail # q.head => /\ q.commands[q.head].bytes # <<>>
                            /\ q.commands[q.head].pos = 0
  PROVE  LET r == PS2_SendNextCommand(q)
         IN IF q.tail = q.head
            THEN /\ r.queue \in Queues /\ r.queue.commands = q.commands /\ r.queue.head = q.head
                 /\ r.queue.tail = q.tail /\ r.queue.busy = FALSE /\ r.out = None
            ELSE Sent(q, r)
<1>1. CASE q.tail = q.head
  <2>1. PS2_SendNextCommand(q) = [queue |-> [q EXCEPT !.busy = FALSE], out |-> None]
    BY <1>1 DEF PS2_SendNextCommand, Result
  <2>2. /\ [q EXCEPT !.busy = FALSE] \in Queues
        /\ [q EXCEPT !.busy = FALSE].commands = q.commands
        /\ [q EXCEPT !.busy = FALSE].head = q.head
        /\ [q EXCEPT !.busy = FALSE].tail = q.tail
        /\ [q EXCEPT !.busy = FALSE].busy = FALSE
    BY DEF Queues
  <2>3. /\ PS2_SendNextCommand(q).queue = [q EXCEPT !.busy = FALSE]
        /\ PS2_SendNextCommand(q).out = None
    BY <2>1
  <2> QED BY <1>1, <2>2, <2>3
<1>2. CASE q.tail # q.head
  <2> DEFINE b == [q EXCEPT !.busy = TRUE]
  <2>1. /\ b \in Queues /\ b.commands = q.commands /\ b.head = q.head /\ b.tail = q.tail /\ b.busy
    BY DEF Queues
  <2>2. PS2_SendNextCommand(q) = WriteNextByte(b)
    BY <1>2 DEF PS2_SendNextCommand
  <2> HIDE DEF b
  <2>3. b.commands[b.head].bytes # <<>> /\ b.commands[b.head].pos < 2
    BY <1>2, <2>1
  <2>4. Sent(b, WriteNextByte(b))
    BY <2>1, <2>3, WriteSends
  <2>5. Sent(q, WriteNextByte(b))
    BY <2>1, <2>4 DEF Sent
  <2> QED BY <1>2, <2>2, <2>5
<1> QED BY <1>1, <1>2

\* The command at the head goes on to its byte number p ...
Goes(q, result, p) ==
  /\ result.queue \in Queues
  /\ result.queue.head = q.head /\ result.queue.tail = q.tail /\ result.queue.busy
  /\ \A s \in Slots :
       /\ result.queue.commands[s].bytes = q.commands[s].bytes
       /\ result.queue.commands[s].pos = IF s = q.head THEN p ELSE q.commands[s].pos
       /\ s = q.head => result.queue.commands[s].waiting_ack
  /\ result.out = q.commands[q.head].bytes[p]

\* ... or is over, and the next one begins if there is one.
Finishes(q, result) ==
  LET h == After(q.head)
  IN /\ result.queue \in Queues
     /\ result.queue.head = h /\ result.queue.tail = q.tail
     /\ result.queue.busy <=> h # q.tail
     /\ result.out = IF h = q.tail THEN None ELSE SetLEDs
     /\ \A s \in Slots :
          /\ result.queue.commands[s].bytes = q.commands[s].bytes
          /\ result.queue.commands[s].pos =
               IF s = h /\ h # q.tail THEN 1 ELSE q.commands[s].pos
          /\ s = h /\ h # q.tail => result.queue.commands[s].waiting_ack

BusyQueue(q) == /\ q \in Queues /\ q.busy /\ q.head # q.tail /\ QueueOK(q)
                /\ q.commands[q.head].pos \in {1, 2}

\* The head moves on, in a queue whose other commands are not sent yet.
LEMMA NextFinishes ==
  ASSUME NEW q, BusyQueue(q)
  PROVE  Finishes(q, PS2_SendNextCommand([q EXCEPT !.head = After(q.head)]))
<1> DEFINE n == [q EXCEPT !.head = After(q.head)]
<1>1. /\ q.head \in Slots /\ q.tail \in Slots /\ After(q.head) \in Slots /\ After(q.head) # q.head
      /\ q \in Queues /\ q.busy /\ q.head # q.tail
  BY AfterFacts DEF BusyQueue, Queues
<1>2. /\ n \in Queues /\ n.commands = q.commands /\ n.head = After(q.head) /\ n.tail = q.tail /\ n.busy = q.busy
  BY <1>1 DEF Queues
<1> HIDE DEF n
<1>3. After(q.head) # q.tail => /\ After(q.head) \in Queued(q)
                                /\ q.commands[After(q.head)].bytes # <<>>
                                /\ q.commands[After(q.head)].pos = 0
  <2>1. After(q.head) # q.tail => After(q.head) \in Queued(q)
    BY <1>1, RingFacts DEF Queued
  <2> QED BY <1>1, <2>1 DEF BusyQueue, QueueOK
<1>4. n.tail # n.head => n.commands[n.head].bytes # <<>> /\ n.commands[n.head].pos = 0
  BY <1>2, <1>3
<1> PICK r : r = PS2_SendNextCommand(n)
  OBVIOUS
<1>5. IF n.tail = n.head
      THEN /\ r.queue \in Queues /\ r.queue.commands = n.commands /\ r.queue.head = n.head
           /\ r.queue.tail = n.tail /\ r.queue.busy = FALSE /\ r.out = None
      ELSE Sent(n, r)
  BY <1>2, <1>4, SendNextSends
<1>6. CASE n.tail = n.head
  BY <1>1, <1>2, <1>5, <1>6 DEF Finishes, n
<1>7. CASE n.tail # n.head
  <2>1. q.commands[After(q.head)].bytes[1] = SetLEDs
    <3>1. q.commands[After(q.head)].bytes \in Bytes
      BY <1>1 DEF Queues, Commands
    <3> QED BY <3>1, <1>2, <1>3, <1>7, BytesFacts
  <2>2. Finishes(q, r)
    <3>1. Sent(n, r) /\ n.head # q.tail
      BY <1>2, <1>5, <1>7
    <3>2. /\ r.queue \in Queues /\ r.queue.head = After(q.head) /\ r.queue.tail = q.tail
          /\ r.queue.busy /\ r.out = SetLEDs /\ After(q.head) # q.tail
      BY <3>1, <1>2, <1>3, <1>7, <2>1 DEF Sent
    <3>3. \A s \in Slots :
            /\ r.queue.commands[s].bytes = q.commands[s].bytes
            /\ r.queue.commands[s].pos = IF s = After(q.head) THEN 1 ELSE q.commands[s].pos
            /\ s = After(q.head) => r.queue.commands[s].waiting_ack
      BY <3>1, <1>2, <1>3, <1>7 DEF Sent
    <3> QED BY <3>2, <3>3 DEF Finishes
  <2> QED BY <2>2 DEF n
<1> QED BY <1>6, <1>7

LEMMA AckResult ==
  ASSUME NEW q, BusyQueue(q)
  PROVE  IF q.commands[q.head].pos = 1 THEN Goes(q, GotAck(q), 2) ELSE Finishes(q, GotAck(q))
<1>1. /\ q \in Queues /\ q.busy /\ q.head \in Slots /\ q.commands[q.head].bytes \in Bytes
      /\ q.commands[q.head].bytes # <<>>
  <2>1. q.head \in Queued(q)
    BY RingFacts DEF BusyQueue, Queues, Queued
  <2> QED BY <2>1 DEF BusyQueue, QueueOK, Queues, Commands
<1>2. Len(q.commands[q.head].bytes) = 2
  BY <1>1, BytesFacts
<1>3. CASE q.commands[q.head].pos = 1
  <2>1. GotAck(q) = WriteNextByte(q)
    BY <1>2, <1>3 DEF GotAck
  <2>2. Sent(q, WriteNextByte(q))
    BY <1>1, <1>3, WriteSends
  <2> QED BY <1>1, <1>3, <2>1, <2>2 DEF Sent, Goes
<1>4. CASE q.commands[q.head].pos = 2
  <2>1. GotAck(q) = PS2_SendNextCommand([q EXCEPT !.head = After(q.head)])
    BY <1>2, <1>4 DEF GotAck
  <2> QED BY <1>4, <2>1, NextFinishes
<1> QED BY <1>3, <1>4 DEF BusyQueue

LEMMA ResendResult ==
  ASSUME NEW q, BusyQueue(q)
  PROVE  IF GivesUp(q) THEN Finishes(q, GotResend(q))
         ELSE Goes(q, GotResend(q), q.commands[q.head].pos)
<1> DEFINE cmd == q.commands[q.head]
           counted == [q EXCEPT !.commands[q.head].retries = (cmd.retries - 1) % 256]
<1>1. /\ q \in Queues /\ q.busy /\ q.head \in Slots /\ q.tail \in Slots /\ cmd \in Commands
      /\ cmd.bytes # <<>> /\ cmd.pos \in {1, 2} /\ q.commands \in [Slots -> Commands]
  <2>1. q.head \in Queued(q)
    BY RingFacts DEF BusyQueue, Queues, Queued
  <2> QED BY <2>1 DEF BusyQueue, QueueOK, Queues
<1>2. (cmd.retries - 1) % 256 \in 0..255
  <2>1. \A x \in 0..255 : (x - 1) % 256 \in 0..255
    OBVIOUS
  <2>2. cmd.retries \in 0..255
    BY <1>1 DEF Commands
  <2> QED BY <2>1, <2>2
<1>3. /\ counted.head = q.head /\ counted.tail = q.tail /\ counted.busy = q.busy
      /\ counted.commands = [q.commands EXCEPT ![q.head] =
                               [cmd EXCEPT !.retries = (cmd.retries - 1) % 256]]
  BY <1>1 DEF Queues
<1>4. [cmd EXCEPT !.retries = (cmd.retries - 1) % 256] \in Commands
  BY <1>1, <1>2 DEF Commands
<1>5. counted \in Queues
  BY <1>1, <1>3, <1>4 DEF Queues
<1>6. \A s \in Slots : /\ counted.commands[s].bytes = q.commands[s].bytes
                       /\ counted.commands[s].pos = q.commands[s].pos
  BY <1>1, <1>3 DEF Commands
<1> HIDE DEF counted
<1>7. CASE GivesUp(q)
  <2>1. [counted EXCEPT !.head = After(q.head)] = [counted EXCEPT !.head = After(counted.head)]
    BY <1>3
  <2>2. GotResend(q) = PS2_SendNextCommand([counted EXCEPT !.head = After(counted.head)])
    BY <1>7, <2>1 DEF GotResend, counted
  <2>3. BusyQueue(counted)
    BY <1>1, <1>3, <1>5, <1>6, RingFacts DEF BusyQueue, QueueOK, Queued
  <2>4. Finishes(counted, GotResend(q))
    BY <2>2, <2>3, NextFinishes
  <2>5. Finishes(q, GotResend(q))
    BY <2>4, <1>1, <1>3, <1>6 DEF Finishes
  <2> QED BY <1>7, <2>5
<1>8. CASE ~GivesUp(q)
  <2> DEFINE back == [counted EXCEPT !.commands[q.head].pos = cmd.pos - 1]
  <2>1. GotResend(q) = WriteNextByte(back)
    BY <1>8 DEF GotResend, counted
  <2>2. counted.commands[q.head] \in Commands /\ counted.commands \in [Slots -> Commands]
    BY <1>1, <1>5 DEF Queues
  <2>3. /\ back.head = q.head /\ back.tail = q.tail /\ back.busy = q.busy
        /\ back.commands = [counted.commands EXCEPT ![q.head] =
                              [counted.commands[q.head] EXCEPT !.pos = cmd.pos - 1]]
    BY <1>3, <1>5 DEF Queues
  <2>4. [counted.commands[q.head] EXCEPT !.pos = cmd.pos - 1] \in Commands
    <3>1. cmd.pos - 1 \in 0..2
      BY <1>1
    <3> HIDE DEF cmd
    <3> QED BY <3>1, <2>2 DEF Commands
  <2>5. back \in Queues
    BY <1>1, <1>5, <2>2, <2>3, <2>4 DEF Queues
  <2>6. \A s \in Slots : /\ back.commands[s].bytes = q.commands[s].bytes
                         /\ back.commands[s].pos = IF s = q.head THEN cmd.pos - 1 ELSE q.commands[s].pos
    <3> PICK step, before : /\ step = [counted.commands[q.head] EXCEPT !.pos = cmd.pos - 1]
                            /\ before = counted.commands
      OBVIOUS
    <3>1. step.bytes = before[q.head].bytes /\ step.pos = cmd.pos - 1
      BY <2>2 DEF Commands
    <3>2. \A s \in Slots : back.commands[s] = IF s = q.head THEN step ELSE before[s]
      BY <1>1, <2>2, <2>3
    <3> HIDE DEF back, counted
    <3> QED BY <1>6, <3>1, <3>2
  <2> HIDE DEF back
  <2>9. back.commands[back.head].bytes # <<>> /\ back.commands[back.head].pos = cmd.pos - 1
        /\ cmd.pos - 1 < 2 /\ cmd.pos - 1 + 1 = cmd.pos
    BY <1>1, <2>3, <2>6
  <2>7. Sent(back, WriteNextByte(back))
    BY <1>1, <2>3, <2>5, <2>9, WriteSends
  <2>8. Goes(q, WriteNextByte(back), cmd.pos)
    <3> PICK r, p, b : r = WriteNextByte(back) /\ p = cmd.pos /\ b = back
      OBVIOUS
    <3>1. Sent(b, r)
      BY <2>7
    <3>4. /\ b.commands[q.head].pos + 1 = p /\ b.commands[q.head].bytes = q.commands[q.head].bytes
          /\ \A s \in Slots : s # q.head => b.commands[s].pos = q.commands[s].pos
          /\ \A s \in Slots : b.commands[s].bytes = q.commands[s].bytes
          /\ b.head = q.head /\ b.tail = q.tail
      BY <1>1, <2>6, <2>3
    <3>2. /\ r.queue \in Queues /\ r.queue.head = q.head /\ r.queue.tail = q.tail /\ r.queue.busy
      BY <3>1, <3>4 DEF Sent
    <3>5. r.out = q.commands[q.head].bytes[p]
      BY <3>1, <3>4 DEF Sent
    <3>3. \A s \in Slots :
            /\ r.queue.commands[s].bytes = q.commands[s].bytes
            /\ r.queue.commands[s].pos = IF s = q.head THEN p ELSE q.commands[s].pos
            /\ s = q.head => r.queue.commands[s].waiting_ack
      BY <3>1, <3>4 DEF Sent
    <3> QED BY <3>2, <3>3, <3>5 DEF Goes
  <2> QED BY <1>8, <2>1, <2>8
<1> QED BY <1>7, <1>8

\* A command joins the queue, and is sent at once when the queue was idle.
Joins(q, b, result) ==
  /\ result.queue \in Queues
  /\ result.queue.head = q.head /\ result.queue.tail = After(q.tail) /\ result.queue.busy
  /\ result.out = IF q.busy THEN None ELSE b[1]
  /\ \A s \in Slots :
       /\ result.queue.commands[s].bytes = IF s = q.tail THEN b ELSE q.commands[s].bytes
       /\ result.queue.commands[s].pos =
            IF s = q.tail THEN IF q.busy THEN 0 ELSE 1 ELSE q.commands[s].pos
       /\ s = q.head /\ (q.busy => q.commands[s].waiting_ack) =>
            result.queue.commands[s].waiting_ack

LEMMA EnqueueResult ==
  ASSUME NEW q \in Queues, q.busy <=> q.head # q.tail, NEW b \in Bytes, b # <<>>
  PROVE  IF After(q.tail) = q.head
         THEN PS2_EnqueueCommand(q, b) = [queue |-> q, out |-> None]
         ELSE Joins(q, b, PS2_EnqueueCommand(q, b))
<1>1. CASE After(q.tail) = q.head
  BY <1>1 DEF PS2_EnqueueCommand, Result
<1>2. CASE After(q.tail) # q.head
  <2> DEFINE stored == [q EXCEPT !.commands[q.tail] = Command(b), !.tail = After(q.tail)]
  <2>1. /\ q.head \in Slots /\ q.tail \in Slots /\ q.commands \in [Slots -> Commands]
        /\ After(q.tail) \in Slots /\ After(q.tail) # q.tail
    BY AfterFacts DEF Queues
  <2>2. Command(b) \in Commands /\ Command(b).bytes = b /\ Command(b).pos = 0
    BY DEF Command, Commands, Retries
  <2>3. /\ stored.head = q.head /\ stored.tail = After(q.tail) /\ stored.busy = q.busy
        /\ stored.commands = [q.commands EXCEPT ![q.tail] = Command(b)]
    BY <2>1 DEF Queues
  <2>4. stored \in Queues
    BY <2>1, <2>2, <2>3 DEF Queues
  <2>5. \A s \in Slots : stored.commands[s] = IF s = q.tail THEN Command(b) ELSE q.commands[s]
    BY <2>1, <2>3
  <2>6. PS2_EnqueueCommand(q, b) = IF q.busy THEN [queue |-> stored, out |-> None]
                                   ELSE PS2_SendNextCommand(stored)
    BY <1>2 DEF PS2_EnqueueCommand, Result
  <2> HIDE DEF stored
  <2> PICK r, n : r = PS2_EnqueueCommand(q, b) /\ n = stored
    OBVIOUS
  <2>7. CASE q.busy
    <3>1. r.queue = n /\ r.out = None
      BY <2>6, <2>7
    <3>2. q.head # q.tail
      BY <2>7
    <3>3. \A s \in Slots :
            /\ r.queue.commands[s].bytes = IF s = q.tail THEN b ELSE q.commands[s].bytes
            /\ r.queue.commands[s].pos = IF s = q.tail THEN 0 ELSE q.commands[s].pos
            /\ s = q.head => r.queue.commands[s].waiting_ack = q.commands[s].waiting_ack
      BY <2>2, <2>5, <3>1, <3>2
    <3>4. /\ r.queue \in Queues /\ r.queue.head = q.head /\ r.queue.tail = After(q.tail)
          /\ r.queue.busy = q.busy
      BY <2>3, <2>4, <3>1
    <3>5. Joins(q, b, r)
      BY <2>7, <3>1, <3>2, <3>3, <3>4 DEF Joins
    <3> QED BY <1>2, <3>5
  <2>8. CASE ~q.busy
    <3>1. q.head = q.tail /\ r = PS2_SendNextCommand(n)
      BY <2>6, <2>8
    <3>2. /\ n \in Queues /\ n.head = q.head /\ n.tail = After(q.tail) /\ n.tail # n.head
          /\ n.commands[q.tail].bytes = b /\ n.commands[q.tail].pos = 0
          /\ \A s \in Slots : s # q.tail => n.commands[s] = q.commands[s]
      BY <2>1, <2>2, <2>3, <2>4, <2>5, <3>1
    <3>3. Sent(n, r)
      BY <3>1, <3>2, SendNextSends
    <3>4. /\ r.queue \in Queues /\ r.queue.head = q.head /\ r.queue.tail = After(q.tail)
          /\ r.queue.busy
      BY <3>2, <3>3 DEF Sent
    <3>5. \A s \in Slots :
            /\ r.queue.commands[s].bytes = IF s = q.tail THEN b ELSE q.commands[s].bytes
            /\ r.queue.commands[s].pos = IF s = q.tail THEN 1 ELSE q.commands[s].pos
            /\ s = q.head => r.queue.commands[s].waiting_ack
      BY <3>1, <3>2, <3>3 DEF Sent
    <3>6. r.out = b[1]
      BY <3>1, <3>2, <3>3 DEF Sent
    <3>7. Joins(q, b, r)
      BY <2>8, <3>4, <3>5, <3>6 DEF Joins
    <3> QED BY <1>2, <3>7
  <2> QED BY <2>7, <2>8
<1> QED BY <1>1, <1>2

-----------------------------------------------------------------------------
(***************************************************************************)
(* The bytes the keyboard has to send.                                     *)
(***************************************************************************)
LEMMA AppendFacts ==
  ASSUME NEW S, NEW s \in Seq(S), NEW b \in S
  PROVE  /\ Append(s, b) \in Seq(S) /\ Len(Append(s, b)) = Len(s) + 1
         /\ \A i \in 1..(Len(s) + 1) : Append(s, b)[i] = IF i <= Len(s) THEN s[i] ELSE b
OBVIOUS

LEMMA TailFacts ==
  ASSUME NEW S, NEW s \in Seq(S), s # <<>>
  PROVE  /\ Head(s) \in S /\ Head(s) = s[1] /\ Tail(s) \in Seq(S)
         /\ Len(s) \in Nat /\ Len(s) > 0 /\ Len(Tail(s)) = Len(s) - 1
         /\ \A i \in 1..(Len(s) - 1) : Tail(s)[i] = s[i + 1]
OBVIOUS

LEMMA CodeFacts ==
  /\ Ack \in Answers /\ Resend \in Answers /\ Ack # Resend /\ None \notin Answers
  /\ Keys \cap Answers = {} /\ None \notin Keys /\ Letter \in Keys /\ Letter \notin Answers
  /\ SetLEDs \notin Lamps /\ None \notin Lamps /\ None # SetLEDs /\ Letter # CapsLock
  /\ Letter # None
  /\ \A b : b \in Answers <=> b = Ack \/ b = Resend
BY DEF Ack, Resend, None, Letter, CapsLock, SetLEDs, Lamps, Keys, Answers

\* One more byte to send.
LEMMA Appended ==
  ASSUME Types, NEW b \in Keys \cup Answers, toSend' = Append(toSend, b), outBuf' = outBuf
  PROVE  /\ toSend' \in Seq(Keys \cup Answers)
         /\ \A a : OnItsWay(a)' <=> OnItsWay(a) \/ a = b
         /\ Answering' <=> Answering \/ b \in Answers
         /\ ~Answering => \A i, j \in 1..Len(toSend') :
              toSend'[i] \in Answers /\ toSend'[j] \in Answers => i = j
<1>1. /\ toSend' \in Seq(Keys \cup Answers) /\ Len(toSend') = Len(toSend) + 1 /\ Len(toSend) \in Nat
      /\ \A i \in 1..(Len(toSend) + 1) : toSend'[i] = IF i <= Len(toSend) THEN toSend[i] ELSE b
  BY AppendFacts DEF Types
<1>2. \A a : (\E i \in 1..Len(toSend') : toSend'[i] = a)
               <=> (\E i \in 1..Len(toSend) : toSend[i] = a) \/ a = b
  BY <1>1
<1>3. (\E i \in 1..Len(toSend') : toSend'[i] \in Answers)
        <=> (\E i \in 1..Len(toSend) : toSend[i] \in Answers) \/ b \in Answers
  BY <1>1
<1>4. ~Answering => \A i, j \in 1..Len(toSend') :
        toSend'[i] \in Answers /\ toSend'[j] \in Answers => i = j
  BY <1>1 DEF Answering
<1> QED BY <1>1, <1>2, <1>3, <1>4 DEF OnItsWay, Answering

-----------------------------------------------------------------------------
(***************************************************************************)
(* One lemma for each step.                                                *)
(***************************************************************************)
LEMMA InitInv == Init => IInv
<1> SUFFICES ASSUME Init PROVE IInv
  OBVIOUS
<1>1. NoCommand \in Commands /\ NoCommand.pos = 0 /\ NoCommand.bytes = <<>> /\ Len(NoCommand.bytes) = 0
  BY DEF NoCommand, Commands, Bytes
<1>2. queue \in Queues /\ \A s \in Slots : queue.commands[s] = NoCommand
  BY <1>1, AfterFacts DEF Init, Queues
<1>3. Types
  <2>1. \A s \in Slots : queue.commands[s].pos <= Len(queue.commands[s].bytes)
    BY <1>1, <1>2
  <2>2. outBuf \in Keys \cup Answers \cup {None} /\ irq \in BOOLEAN /\ inBuf = None /\ lamps \in Lamps
    BY CodeFacts DEF Init, Lamps
  <2>3. toSend \in Seq(Keys \cup Answers) /\ handled \in Seq(Keys)
    BY DEF Init
  <2> QED BY <1>2, <2>1, <2>2, <2>3 DEF Init, Types
<1>4. QueueOK(queue)
  BY AfterFacts, RingFacts DEF Init, QueueOK, Queued
<1>5. ~Answering
  BY CodeFacts DEF Init, Answering
<1>6. OneByteInFlight
  BY <1>5 DEF OneByteInFlight, Answering
<1>7. BeforeStart /\ BeforeMark /\ Sending /\ Matching /\ LastIsCurrent
  BY DEF Init, Started, BeforeStart, BeforeMark, Sending, Matching, LastIsCurrent
<1> QED BY <1>3, <1>4, <1>6, <1>7 DEF IInv

LEMMA AnsweringFacts == Types => (Answering <=> OnItsWay(Ack) \/ OnItsWay(Resend))
BY CodeFacts DEF Answering, OnItsWay

\* The commands of the queue keep their bytes, and none is read past its end.
LEMMA PositionsKept ==
  ASSUME NEW q \in Queues, NEW n \in Queues,
         \A s \in Slots : q.commands[s].pos <= Len(q.commands[s].bytes),
         \A s \in Slots : /\ n.commands[s].bytes = q.commands[s].bytes
                          /\ \/ n.commands[s].pos = q.commands[s].pos
                             \/ n.commands[s].pos \in {1, 2} /\ q.commands[s].bytes # <<>>
  PROVE  \A s \in Slots : n.commands[s].pos <= Len(n.commands[s].bytes)
<1> SUFFICES ASSUME NEW s \in Slots PROVE n.commands[s].pos <= Len(n.commands[s].bytes)
  OBVIOUS
<1>1. q.commands[s].bytes \in Bytes
  BY DEF Queues, Commands
<1> QED BY <1>1, BytesFacts

LEMMA AnswerInv ==
  ASSUME IInv, PS2_IRQHandler, outBuf \in Answers
  PROVE  IInv'
<1> PICK q, r : q = queue /\ r = IF outBuf = Ack THEN GotAck(queue) ELSE GotResend(queue)
  OBVIOUS
<1>1. Answering /\ AwaitsAnswer(queue) /\ inBuf = None /\ Types /\ QueueOK(queue)
  BY DEF IInv, OneByteInFlight, Answering
<1>2. pc = "done"
  BY <1>1, CodeFacts DEF IInv, BeforeStart, BeforeMark, Started, Types
<1>3. BusyQueue(q) /\ HeadCommand.pos \in {1, 2} /\ queue.busy /\ q.head \in Slots /\ q.tail \in Slots
  BY <1>1, <1>2 DEF IInv, Sending, AwaitsAnswer, BusyQueue, HeadCommand, Types, Queues
<1>4. /\ queue' = r.queue /\ dropped' = (dropped \/ (outBuf = Resend /\ GivesUp(q)))
      /\ IF r.out = None THEN inBuf' = inBuf ELSE inBuf' = r.out
      /\ outBuf' = None /\ irq' = FALSE
      /\ UNCHANGED <<caps, handled, handlerSet, pc, next, toSend, expecting, lamps>>
  BY <1>1, CodeFacts, Zenon
     DEF PS2_IRQHandler, AnswerToCommand, ByteToKeyboard, Apply, keyboard
<1>5. \A i \in 1..Len(toSend) : toSend[i] \notin Answers
  BY DEF IInv, OneByteInFlight
<1>6. ~Answering' /\ \A a \in Answers : ~OnItsWay(a)'
  BY <1>4, <1>5, CodeFacts DEF Answering, OnItsWay
<1>7. OneByteInFlight'
  BY <1>4, <1>5, <1>6 DEF OneByteInFlight
<1>8. IF outBuf = Ack THEN OnItsWay(Ack) ELSE outBuf = Resend /\ ~OnItsWay(Ack)
  BY <1>5, CodeFacts DEF OnItsWay
<1>9. \/ \E p \in {1, 2} : Goes(q, r, p) /\ IF outBuf = Ack THEN HeadCommand.pos = 1 /\ p = 2
                                           ELSE HeadCommand.pos = p
      \/ Finishes(q, r) /\ IF outBuf = Ack THEN HeadCommand.pos = 2 ELSE GivesUp(q)
  BY <1>3, AckResult, ResendResult DEF HeadCommand
<1>10. q.head \in Queued(q) /\ q.commands[q.head].bytes # <<>> /\ q.commands[q.head].bytes \in Bytes
  <2>1. q.head \in Queued(q)
    BY <1>3, RingFacts DEF BusyQueue, Queued
  <2> QED BY <1>3, <2>1 DEF BusyQueue, QueueOK, Queues, Commands
<1>a. /\ q \in Queues /\ \A s \in Slots : q.commands[s].pos <= Len(q.commands[s].bytes)
      /\ QueueOK(q) /\ q.head # q.tail
  BY <1>1, <1>3 DEF Types, BusyQueue
<1>c. ~dropped' => ~dropped
  BY <1>4, Zenon
<1>b. BeforeStart' /\ BeforeMark'
  BY <1>2, <1>4 DEF BeforeStart, BeforeMark, Started
<1>11. CASE \E p \in {1, 2} : Goes(q, r, p) /\ IF outBuf = Ack THEN HeadCommand.pos = 1 /\ p = 2
                                             ELSE HeadCommand.pos = p
  <2> PICK p \in {1, 2} : Goes(q, r, p) /\ IF outBuf = Ack THEN HeadCommand.pos = 1 /\ p = 2
                                          ELSE HeadCommand.pos = p
    BY <1>11
  <2>1. /\ queue' \in Queues /\ queue'.head = q.head /\ queue'.tail = q.tail /\ queue'.busy
        /\ \A s \in Slots :
             /\ queue'.commands[s].bytes = q.commands[s].bytes
             /\ queue'.commands[s].pos = IF s = q.head THEN p ELSE q.commands[s].pos
             /\ s = q.head => queue'.commands[s].waiting_ack
        /\ r.out = q.commands[q.head].bytes[p]
    BY <1>4 DEF Goes
  <2>2. r.out \in Lamps \cup {SetLEDs} /\ r.out # None /\ inBuf' = r.out
    BY <2>1, <1>4, <1>10, BytesFacts, CodeFacts
  <2>3. Types'
    <3>1. \A s \in Slots : queue'.commands[s].pos <= Len(queue'.commands[s].bytes)
      BY <2>1, <1>a, <1>10, PositionsKept
    <3> QED BY <3>1, <2>1, <2>2, <1>1, <1>4 DEF Types
  <2>4. Queued(queue') = Queued(q)
    BY <2>1 DEF Queued
  <2>5. QueueOK(queue')
    <3>1. \A s \in Queued(q) : s \in Slots /\ q.commands[s].bytes # <<>> /\ (s # q.head => q.commands[s].pos = 0)
      BY <1>a, <1>3, RingFacts DEF QueueOK, Queued
    <3> QED BY <2>1, <2>4, <3>1 DEF QueueOK
  <2>6. /\ HeadCommand'.bytes = q.commands[q.head].bytes /\ HeadCommand'.pos = p
        /\ HeadCommand'.waiting_ack
    BY <2>1, <1>3 DEF HeadCommand
  <2>7. Sending'
    BY <2>1, <2>6, <1>a, <1>3 DEF Sending
  <2>8. p = 2 => expecting
    BY <1>2, <1>3, <1>8 DEF IInv, Matching, Started
  <2>9. Matching'
    BY <2>1, <2>2, <2>6, <2>8, <1>4, <1>6, CodeFacts DEF Matching
  <2>10. LastIsCurrent'
    <3>1. ~dropped => \A s \in Queued(q) : After(s) = q.tail => q.commands[s].bytes[2] = LampsFor(caps)
      BY <1>2, <1>3 DEF IInv, LastIsCurrent, Started
    <3>2. Queued(q) \subseteq Slots
      BY <1>3, RingFacts DEF Queued
    <3>3. ~dropped' => \A s \in Queued(queue') : After(s) = queue'.tail =>
                         queue'.commands[s].bytes[2] = LampsFor(caps)
      BY <3>1, <3>2, <2>1, <2>4, <1>4, <1>c
    <3> QED BY <3>3, <2>1, <1>4 DEF LastIsCurrent
  <2> QED BY <2>3, <2>5, <2>7, <2>9, <2>10, <1>7, <1>b DEF IInv
<1>12. CASE Finishes(q, r) /\ IF outBuf = Ack THEN HeadCommand.pos = 2 ELSE GivesUp(q)
  <2> PICK h : h = After(q.head)
    OBVIOUS
  <2>1. /\ queue' \in Queues /\ queue'.head = h /\ queue'.tail = q.tail
        /\ queue'.busy <=> h # q.tail
        /\ \A s \in Slots :
             /\ queue'.commands[s].bytes = q.commands[s].bytes
             /\ queue'.commands[s].pos = IF s = h /\ h # q.tail THEN 1 ELSE q.commands[s].pos
             /\ s = h /\ h # q.tail => queue'.commands[s].waiting_ack
        /\ r.out = IF h = q.tail THEN None ELSE SetLEDs
    BY <1>4, <1>12 DEF Finishes
  <2>2. inBuf' = r.out
    BY <2>1, <1>1, <1>4, CodeFacts
  <2>3. /\ h \in Slots /\ h # q.head
        /\ Queued(queue') = Queued(q) \ {q.head}
        /\ h # q.tail => h \in Queued(q)
        /\ Queued(q) \subseteq Slots
        /\ h = q.tail => Queued(queue') = {}
    <3>1. /\ h \in Slots /\ h # q.head
          /\ Ring(h, q.tail) = Ring(q.head, q.tail) \ {q.head}
          /\ Ring(q.head, q.tail) \subseteq Slots /\ q.head \in Ring(q.head, q.tail)
      <4>1. After(q.head) \in Slots /\ After(q.head) # q.head
        BY <1>3, AfterFacts
      <4>2. /\ Ring(After(q.head), q.tail) = Ring(q.head, q.tail) \ {q.head}
            /\ Ring(q.head, q.tail) \subseteq Slots /\ q.head \in Ring(q.head, q.tail)
        BY <1>3, <1>a, RingFacts
      <4> QED BY <4>1, <4>2
    <3>3. h # q.tail => h \in Ring(q.head, q.tail)
      BY <3>1, <1>3, <1>a, RingFacts
    <3>2. h = q.tail => Ring(h, q.tail) = {}
      BY <1>3, RingFacts
    <3> QED BY <3>1, <3>2, <3>3, <2>1 DEF Queued
  <2>4. \A s \in Queued(q) : s \in Slots /\ q.commands[s].bytes # <<>> /\ (s # q.head => q.commands[s].pos = 0)
    BY <1>a, <1>3, <2>3 DEF QueueOK, BusyQueue
  <2>5. Types'
    <3>1. \A s \in Slots : \/ queue'.commands[s].pos = q.commands[s].pos
                           \/ queue'.commands[s].pos \in {1, 2} /\ q.commands[s].bytes # <<>>
      <4>1. h # q.tail => q.commands[h].bytes # <<>>
        BY <2>3, <2>4
      <4> QED BY <4>1, <2>1
    <3>2. \A s \in Slots : queue'.commands[s].pos <= Len(queue'.commands[s].bytes)
      BY <2>1, <3>1, <1>a, PositionsKept
    <3> QED BY <3>2, <2>1, <2>2, <1>1, <1>4 DEF Types
  <2>6. QueueOK(queue')
    BY <2>1, <2>3, <2>4 DEF QueueOK
  <2>7. h # q.tail => /\ HeadCommand'.bytes = q.commands[h].bytes /\ HeadCommand'.pos = 1
                      /\ HeadCommand'.waiting_ack
    BY <2>1, <2>3 DEF HeadCommand
  <2>8. Sending'
    BY <2>1, <2>2, <2>7, <1>6, CodeFacts DEF Sending
  <2>9. Matching'
    <3>1. h # q.tail => q.commands[h].bytes[1] = SetLEDs
      BY <2>3, <2>4, <1>a, BytesFacts DEF Queues, Commands
    <3> QED BY <3>1, <2>1, <2>2, <2>7, <1>6, CodeFacts DEF Matching
  <2>10. LastIsCurrent'
    <3>1. ~dropped => \A s \in Queued(q) : After(s) = q.tail => q.commands[s].bytes[2] = LampsFor(caps)
      BY <1>2, <1>3 DEF IInv, LastIsCurrent, Started
    <3>2. CASE h = q.tail
      <4>1. ~dropped' => ~dropped /\ outBuf = Ack
        BY <1>4, <1>8, <1>12
      <4>2. outBuf = Ack => lamps = q.commands[q.head].bytes[2]
        BY <1>2, <1>3, <1>8, <1>12 DEF IInv, Matching, Started, HeadCommand
      <4>3. ~dropped' => lamps = LampsFor(caps)
        BY <3>1, <3>2, <4>1, <4>2, <1>10
      <4> QED BY <3>2, <4>3, <2>1, <1>4 DEF LastIsCurrent
    <3>3. CASE h # q.tail
      <4>1. ~dropped' => \A s \in Queued(queue') : After(s) = queue'.tail =>
                           queue'.commands[s].bytes[2] = LampsFor(caps)
        BY <3>1, <2>1, <2>3, <1>4, <1>c
      <4> QED BY <3>3, <4>1, <2>1, <1>4 DEF LastIsCurrent
    <3> QED BY <3>2, <3>3
  <2> QED BY <2>5, <2>6, <2>8, <2>9, <2>10, <1>7, <1>b DEF IInv
<1> QED BY <1>9, <1>11, <1>12

\* At most one answer is on its way.
OneAnswer == \A i, j \in 1..Len(toSend) :
               toSend[i] \in Answers /\ toSend[j] \in Answers => i = j /\ outBuf \notin Answers

\* A step that leaves the queue alone and moves no answer and no byte for the
\* keyboard changes little.
LEMMA Frame ==
  ASSUME IInv, UNCHANGED <<queue, pc, next, inBuf, expecting, lamps>>,
         \A a \in Answers : OnItsWay(a)' <=> OnItsWay(a),
         Answering' <=> Answering, OneAnswer',
         pc # "done" => toSend' = toSend /\ outBuf' \in {None, outBuf}
  PROVE  /\ QueueOK(queue)' /\ OneByteInFlight' /\ BeforeMark' /\ Sending' /\ Matching'
         /\ UNCHANGED <<caps, dropped>> => BeforeStart' /\ LastIsCurrent'
<1>1. QueueOK(queue)'
  BY DEF IInv, QueueOK, Queued
<1>2. OneByteInFlight'
  BY DEF IInv, OneByteInFlight, OneAnswer, AwaitsAnswer
<1>3. BeforeMark'
  BY DEF IInv, BeforeMark, HeadCommand
<1>4. Sending'
  BY CodeFacts DEF IInv, Sending, HeadCommand
<1>5. Matching'
  BY CodeFacts DEF IInv, Matching, Started, HeadCommand
<1>6. UNCHANGED <<caps, dropped>> => BeforeStart'
  BY DEF IInv, BeforeStart, Started
<1>7. UNCHANGED <<caps, dropped>> => LastIsCurrent'
  BY DEF IInv, LastIsCurrent, Started, Queued
<1> QED BY <1>1, <1>2, <1>3, <1>4, <1>5, <1>6, <1>7

\* A byte that is no answer leaves the output buffer.
LEMMA ByteTaken ==
  ASSUME IInv, outBuf \notin Answers, outBuf' \in {None, outBuf}, toSend' = toSend
  PROVE  /\ \A a \in Answers : OnItsWay(a)' <=> OnItsWay(a)
         /\ Answering' <=> Answering
         /\ OneAnswer'
<1>1. outBuf' \notin Answers
  BY CodeFacts
<1>2. \A a \in Answers : OnItsWay(a)' <=> OnItsWay(a)
  BY <1>1 DEF OnItsWay
<1>3. Answering' <=> Answering
  BY <1>1 DEF Answering
<1>4. OneAnswer'
  BY <1>1 DEF IInv, OneByteInFlight, OneAnswer
<1> QED BY <1>2, <1>3, <1>4

\* An interrupt that finds no byte, or no handler.
LEMMA IdleInterruptInv ==
  ASSUME IInv, UnhandledIRQ \/ (PS2_IRQHandler /\ outBuf = None)
  PROVE  IInv'
<1>1. /\ UNCHANGED <<queue, handlerSet, pc, next, caps, outBuf, inBuf, toSend, expecting, lamps,
                    handled, dropped>>
      /\ irq' = FALSE
  BY DEF UnhandledIRQ, PS2_IRQHandler, keyboard
<1>2. Types'
  BY <1>1 DEF IInv, Types
<1>3. (\A a \in Answers : OnItsWay(a)' <=> OnItsWay(a)) /\ (Answering' <=> Answering) /\ OneAnswer'
  BY <1>1 DEF OnItsWay, Answering, IInv, OneByteInFlight, OneAnswer
<1> QED BY <1>1, <1>2, <1>3, Frame DEF IInv

\* A byte that is no answer goes to the keyboard driver, and a lock key sends
\* a command.
LEMMA KeyInv ==
  ASSUME IInv, PS2_IRQHandler, outBuf \notin Answers, outBuf # None
  PROVE  IInv'
<1>1. /\ Types /\ QueueOK(queue) /\ outBuf \in Keys /\ outBuf' = None /\ irq' = FALSE
      /\ UNCHANGED <<handlerSet, pc, next, toSend, expecting, lamps>>
      /\ handled' = Append(handled, outBuf)
      /\ IF outBuf = CapsLock
         THEN /\ caps' = ~caps
              /\ Apply(PS2_EnqueueCommand(queue, <<SetLEDs, LampsFor(~caps)>>))
              /\ dropped' = (dropped \/ After(queue.tail) = queue.head)
         ELSE UNCHANGED <<caps, queue, inBuf, dropped>>
  BY CodeFacts DEF PS2_IRQHandler, AnswerToCommand, ByteToKeyboard, keyboard, IInv, Types
<1>2. handled' \in Seq(Keys)
  BY <1>1, AppendFacts DEF Types
<1>3. (\A a \in Answers : OnItsWay(a)' <=> OnItsWay(a)) /\ (Answering' <=> Answering) /\ OneAnswer'
  BY <1>1, ByteTaken
<1>4. CASE outBuf # CapsLock
  <2>1. UNCHANGED <<queue, caps, inBuf, dropped>>
    BY <1>1, <1>4
  <2>2. Types'
    BY <1>1, <1>2, <2>1 DEF Types
  <2> QED BY <1>1, <1>3, <2>1, <2>2, Frame DEF IInv
<1>5. CASE outBuf = CapsLock
  <2> PICK q, b, r : /\ q = queue /\ b = <<SetLEDs, LampsFor(~caps)>>
                     /\ r = PS2_EnqueueCommand(q, b)
    OBVIOUS
  <2>1. /\ caps' = ~caps /\ Apply(r) /\ dropped' = (dropped \/ After(q.tail) = q.head)
    BY <1>1, <1>5
  <2>2. pc = "done" /\ pc' = "done"
    BY <1>1, <1>5, CodeFacts DEF IInv, BeforeStart, BeforeMark, Started, Types
  <2>3. /\ q \in Queues /\ q.head \in Slots /\ q.tail \in Slots /\ (q.busy <=> q.head # q.tail)
        /\ b \in Bytes /\ b # <<>> /\ b[1] = SetLEDs /\ b[2] = LampsFor(caps') /\ Len(b) = 2
    <3>1. q \in Queues /\ q.head \in Slots /\ q.tail \in Slots /\ (q.busy <=> q.head # q.tail)
      BY <1>1, <2>2 DEF Types, Queues, IInv, Sending
    <3>2. LampsFor(~caps) \in Lamps
      BY DEF LampsFor, Lamps
    <3> QED BY <2>1, <3>1, <3>2 DEF Bytes
  <2>4. caps' \in BOOLEAN /\ dropped' \in BOOLEAN
    BY <2>1
  <2>5. CASE After(q.tail) = q.head
    <3>1. r.queue = q /\ r.out = None
      BY <2>3, <2>5, EnqueueResult
    <3>2. UNCHANGED <<queue, inBuf>> /\ dropped' = TRUE
      BY <2>1, <2>5, <3>1 DEF Apply
    <3>3. Types'
      BY <1>1, <1>2, <2>4, <3>2 DEF Types
    <3>4. BeforeStart' /\ LastIsCurrent'
      BY <2>2, <3>2 DEF BeforeStart, Started, LastIsCurrent
    <3> QED BY <1>1, <1>3, <3>2, <3>3, <3>4, Frame DEF IInv
  <2>6. CASE After(q.tail) # q.head
    <3>1. Joins(q, b, r)
      BY <2>3, <2>6, EnqueueResult
    <3>2. /\ queue' \in Queues /\ queue'.head = q.head /\ queue'.tail = After(q.tail) /\ queue'.busy
          /\ inBuf' = IF q.busy THEN inBuf ELSE SetLEDs
          /\ \A s \in Slots :
               /\ queue'.commands[s].bytes = IF s = q.tail THEN b ELSE q.commands[s].bytes
               /\ queue'.commands[s].pos =
                    IF s = q.tail THEN IF q.busy THEN 0 ELSE 1 ELSE q.commands[s].pos
               /\ s = q.head /\ (q.busy => q.commands[s].waiting_ack) =>
                    queue'.commands[s].waiting_ack
      BY <2>1, <2>3, <3>1, CodeFacts DEF Joins, Apply
    <3>3. /\ Queued(queue') = Queued(q) \cup {q.tail} /\ Queued(q) \subseteq Slots
          /\ q.tail \notin Queued(q) /\ (q.head = q.tail => Queued(q) = {}) /\ After(q.tail) \in Slots
      <4>1. /\ Ring(q.head, After(q.tail)) = Ring(q.head, q.tail) \cup {q.tail}
            /\ Ring(q.head, q.tail) \subseteq Slots /\ q.tail \notin Ring(q.head, q.tail)
            /\ q.head = q.tail => Ring(q.head, q.tail) = {}
        <5>1. Ring(q.head, After(q.tail)) = Ring(q.head, q.tail) \cup {q.tail}
          <6> PICK h, u : h = q.head /\ u = q.tail /\ h \in Slots /\ u \in Slots /\ After(u) # h
            BY <2>3, <2>6
          <6>1. Ring(h, After(u)) = Ring(h, u) \cup {u}
            BY RingFacts
          <6> QED BY <6>1
        <5>2. /\ Ring(q.head, q.tail) \subseteq Slots /\ q.tail \notin Ring(q.head, q.tail)
              /\ q.head = q.tail => Ring(q.head, q.tail) = {}
          BY <2>3, RingFacts
        <5> QED BY <5>1, <5>2
      <4>2. After(q.tail) \in Slots
        BY <2>3, AfterFacts
      <4> QED BY <3>2, <4>1, <4>2 DEF Queued
    <3>4. Types'
      <4>1. \A s \in Slots : queue'.commands[s].pos <= Len(queue'.commands[s].bytes)
        <5>1. \A s \in Slots : q.commands[s].pos <= Len(q.commands[s].bytes)
          BY <1>1 DEF Types
        <5> TAKE s \in Slots
        <5>2. CASE s = q.tail
          <6>1. queue'.commands[s].bytes = b /\ queue'.commands[s].pos \in {0, 1}
            BY <5>2, <3>2
          <6> QED BY <6>1, <2>3
        <5>3. CASE s # q.tail
          BY <5>1, <5>3, <3>2
        <5> QED BY <5>2, <5>3
      <4>2. inBuf' \in Lamps \cup {SetLEDs, None}
        BY <1>1, <3>2 DEF Types
      <4> QED BY <1>1, <1>2, <2>4, <3>2, <4>1, <4>2 DEF Types
    <3>5. QueueOK(queue')
      <4>1. \A s \in Queued(q) : /\ s \in Slots /\ s # q.tail /\ q.commands[s].bytes # <<>>
                                 /\ s # q.head => q.commands[s].pos = 0
        BY <1>1, <3>3 DEF QueueOK
      <4> QED BY <2>3, <3>2, <3>3, <4>1 DEF QueueOK
    <3>6. BeforeStart' /\ BeforeMark'
      BY <2>2 DEF BeforeStart, BeforeMark, Started
    <3>7. LastIsCurrent'
      <4>1. \A s \in Queued(queue') : After(s) = queue'.tail => s = q.tail
        <5>1. \A s \in Queued(queue') : s \in Slots
          BY <2>3, <3>3
        <5>2. \A s \in Slots : After(s) = After(q.tail) => s = q.tail
          BY <2>3, AfterFacts
        <5> QED BY <3>2, <5>1, <5>2
      <4>2. queue'.commands[q.tail].bytes[2] = LampsFor(caps')
        BY <2>3, <3>2
      <4> QED BY <3>2, <4>1, <4>2 DEF LastIsCurrent
    <3>8. CASE q.busy
      <4>1. /\ HeadCommand'.bytes = HeadCommand.bytes /\ HeadCommand'.pos = HeadCommand.pos
            /\ HeadCommand.waiting_ack /\ HeadCommand'.waiting_ack /\ HeadCommand.pos \in {1, 2}
            /\ inBuf' = inBuf
        BY <2>2, <2>3, <3>2, <3>8 DEF HeadCommand, IInv, Sending
      <4>2. Sending'
        BY <2>3, <2>6, <3>2, <4>1 DEF Sending
      <4>3. Matching'
        BY <1>1, <1>3, <2>2, <3>8, <4>1, CodeFacts DEF IInv, Matching, Started
      <4>4. OneByteInFlight'
        BY <1>3, <3>2, <4>1, <3>8 DEF OneByteInFlight, OneAnswer, AwaitsAnswer, HeadCommand, IInv
      <4> QED BY <3>4, <3>5, <3>6, <3>7, <4>2, <4>3, <4>4 DEF IInv
    <3>9. CASE ~q.busy
      <4>1. /\ HeadCommand'.bytes = b /\ HeadCommand'.pos = 1 /\ HeadCommand'.waiting_ack
            /\ inBuf' = SetLEDs
        BY <2>3, <3>2, <3>9 DEF HeadCommand
      <4>2. ~Answering /\ ~OnItsWay(Ack) /\ ~OnItsWay(Resend)
        BY <1>1, <2>2, <3>9, AnsweringFacts DEF IInv, Sending
      <4>3. Sending'
        BY <2>6, <3>2, <4>1 DEF Sending
      <4>4. Matching'
        BY <1>3, <2>3, <4>1, <4>2, CodeFacts DEF Matching
      <4>5. OneByteInFlight'
        BY <1>3, <4>2 DEF OneByteInFlight, OneAnswer
      <4> QED BY <3>4, <3>5, <3>6, <3>7, <4>3, <4>4, <4>5 DEF IInv
    <3> QED BY <3>8, <3>9
  <2> QED BY <2>5, <2>6
<1> QED BY <1>4, <1>5

\* PS2_Initialize up to the test for a full queue.
LEMMA PrepareInv ==
  ASSUME IInv, ReadDummy \/ SetHandler \/ TestFull
  PROVE  IInv'
<1>1. /\ ~Started /\ UNCHANGED <<queue, caps, inBuf, toSend, expecting, lamps, handled>>
      /\ irq' = irq /\ outBuf' \in {None, outBuf} /\ handlerSet' \in BOOLEAN
      /\ Types /\ BeforeStart /\ QueueOK(queue)
  BY DEF ReadDummy, SetHandler, TestFull, Step, Started, keyboard, IInv, Types
<1>2. /\ queue.head = 0 /\ queue.tail = 0 /\ ~queue.busy
      /\ inBuf = None /\ toSend = <<>> /\ outBuf \in {None, Letter} /\ ~caps /\ lamps = 0 /\ ~dropped
  BY <1>1 DEF BeforeStart, ReadDummy, SetHandler, TestFull, Step
<1>3. After(0) # 0 /\ After(0) \in Nat
  BY AfterFacts
<1>4. pc' \in {"handler", "full", "store"} /\ (pc' = "store" => next' = After(0)) /\ next' \in Nat
      /\ dropped' = FALSE
  BY <1>1, <1>2, <1>3 DEF ReadDummy, SetHandler, TestFull, Step, Types
<1>5. Types'
  BY <1>1, <1>2, <1>4, CodeFacts DEF Types
<1>6. BeforeStart' /\ BeforeMark' /\ Sending' /\ Matching' /\ LastIsCurrent'
  BY <1>1, <1>2, <1>4 DEF BeforeStart, Started, BeforeMark, Sending, Matching, LastIsCurrent
<1>7. ~Answering'
  BY <1>1, <1>2, CodeFacts DEF Answering
<1>8. OneByteInFlight'
  BY <1>1, <1>2, <1>7 DEF OneByteInFlight
<1>9. QueueOK(queue')
  BY <1>1 DEF QueueOK, Queued
<1> QED BY <1>5, <1>6, <1>8, <1>9 DEF IInv

\* Storing the first command and making it the queue's.
LEMMA StoreInv ==
  ASSUME IInv, StoreCommand \/ PublishTail
  PROVE  IInv'
<1>1. /\ pc \in {"store", "publish"} /\ ~Started
      /\ UNCHANGED <<handlerSet, next, caps, outBuf, inBuf, irq, toSend, expecting, lamps, handled, dropped>>
      /\ pc' = IF pc = "store" THEN "publish" ELSE "busy"
      /\ Types /\ BeforeStart
      /\ queue' = IF pc = "store" THEN [queue EXCEPT !.commands[queue.tail] = Command(<<SetLEDs, 0>>)]
                  ELSE [queue EXCEPT !.tail = next]
  BY DEF StoreCommand, PublishTail, Step, Started, keyboard, IInv
<1>2. /\ queue.head = 0 /\ queue.tail = 0 /\ ~queue.busy /\ next = After(0)
      /\ inBuf = None /\ toSend = <<>> /\ outBuf \in {None, Letter} /\ ~caps /\ lamps = 0 /\ ~dropped
      /\ pc = "publish" => queue.commands[0].bytes = <<SetLEDs, 0>> /\ queue.commands[0].pos = 0
  BY <1>1 DEF BeforeStart
<1>3. After(0) # 0 /\ After(0) \in Slots /\ 0 \in Slots /\ queue \in Queues
      /\ queue.commands \in [Slots -> Commands]
  BY <1>1, AfterFacts DEF Types, Queues
<1>4. /\ Command(<<SetLEDs, 0>>) \in Commands /\ Command(<<SetLEDs, 0>>).bytes = <<SetLEDs, 0>>
      /\ Command(<<SetLEDs, 0>>).pos = 0
  BY DEF Command, Commands, Bytes, Retries, Lamps
<1>5. /\ queue' \in Queues /\ queue'.head = 0 /\ queue'.busy = queue.busy
      /\ queue'.tail = IF pc = "store" THEN 0 ELSE After(0)
      /\ queue'.commands[0].bytes = <<SetLEDs, 0>> /\ queue'.commands[0].pos = 0
      /\ \A s \in Slots : s # 0 => queue'.commands[s] = queue.commands[s]
  <2>1. CASE pc = "store"
    <3>1. /\ queue' = [queue EXCEPT !.commands = [queue.commands EXCEPT ![0] = Command(<<SetLEDs, 0>>)]]
      BY <2>1, <1>1, <1>2
    <3>2. /\ queue'.head = queue.head /\ queue'.tail = queue.tail /\ queue'.busy = queue.busy
          /\ queue'.commands = [queue.commands EXCEPT ![0] = Command(<<SetLEDs, 0>>)]
          /\ queue' \in Queues
      BY <3>1, <1>3, <1>4 DEF Queues
    <3> QED BY <2>1, <3>2, <1>2, <1>3, <1>4
  <2>2. CASE pc = "publish"
    <3>1. queue' = [queue EXCEPT !.tail = After(0)]
      BY <2>2, <1>1, <1>2
    <3>2. /\ queue'.head = queue.head /\ queue'.tail = After(0) /\ queue'.busy = queue.busy
          /\ queue'.commands = queue.commands /\ queue' \in Queues
      BY <3>1, <1>3 DEF Queues
    <3> QED BY <2>2, <3>2, <1>2
  <2> QED BY <1>1, <2>1, <2>2
<1>6. Types'
  <2>1. \A s \in Slots : queue'.commands[s].pos <= Len(queue'.commands[s].bytes)
    <3>1. Len(<<SetLEDs, 0>>) = 2
      OBVIOUS
    <3> QED BY <3>1, <1>1, <1>5 DEF Types
  <2> QED BY <2>1, <1>1, <1>5 DEF Types
<1>7. Queued(queue') \subseteq {0}
  <2>1. Ring(0, 0) = {} /\ Ring(0, After(0)) = Ring(0, 0) \cup {0}
    BY <1>3, RingFacts
  <2> QED BY <2>1, <1>5 DEF Queued
<1>8. QueueOK(queue')
  <2>1. <<SetLEDs, 0>> # <<>>
    OBVIOUS
  <2> QED BY <1>5, <1>7, <2>1 DEF QueueOK
<1>9. BeforeStart' /\ BeforeMark' /\ Sending' /\ Matching' /\ LastIsCurrent'
  BY <1>1, <1>2, <1>5 DEF BeforeStart, Started, BeforeMark, Sending, Matching, LastIsCurrent
<1>10. ~Answering'
  BY <1>1, <1>2, CodeFacts DEF Answering
<1>11. OneByteInFlight'
  BY <1>1, <1>2, <1>10 DEF OneByteInFlight
<1> QED BY <1>6, <1>8, <1>9, <1>11 DEF IInv

\* The tests before the first command is sent.
LEMMA TestInv ==
  ASSUME IInv, TestBusy \/ TestEmpty
  PROVE  IInv'
<1>1. /\ pc \in {"busy", "empty"} /\ ~Started /\ BeforeStart /\ Types /\ QueueOK(queue)
      /\ UNCHANGED <<handlerSet, next, caps, outBuf, inBuf, irq, toSend, expecting, lamps, handled, dropped>>
  BY DEF TestBusy, TestEmpty, Started, keyboard, IInv
<1>2. /\ queue.head = 0 /\ queue.tail = After(0) /\ ~queue.busy /\ After(0) # 0
      /\ queue.commands[0].bytes = <<SetLEDs, 0>> /\ queue.commands[0].pos = 0
      /\ inBuf = None /\ toSend = <<>> /\ outBuf \in {None, Letter} /\ ~caps /\ lamps = 0 /\ ~dropped
  BY <1>1, AfterFacts DEF BeforeStart
<1>3. /\ pc' = IF pc = "busy" THEN "empty" ELSE "write"
      /\ queue' = IF pc = "busy" THEN queue ELSE [queue EXCEPT !.busy = TRUE]
  BY <1>2 DEF TestBusy, TestEmpty
<1>4. /\ queue' \in Queues /\ queue'.head = 0 /\ queue'.tail = After(0) /\ queue'.commands = queue.commands
      /\ queue'.busy <=> pc' = "write"
  BY <1>1, <1>2, <1>3 DEF Types, Queues
<1>5. Types'
  BY <1>1, <1>3, <1>4 DEF Types
<1>6. QueueOK(queue')
  <2>1. Queued(queue') = Queued(queue)
    BY <1>2, <1>4 DEF Queued
  <2> QED BY <1>1, <1>2, <1>4, <2>1 DEF QueueOK
<1>7. BeforeStart'
  <2>1. queue'.busy = (pc' = "write")
    BY <1>4 DEF Queues
  <2> QED BY <1>1, <1>2, <1>3, <1>4, <2>1 DEF BeforeStart, Started
<1>8. BeforeMark' /\ Sending' /\ Matching' /\ LastIsCurrent'
  BY <1>1, <1>3 DEF Started, BeforeMark, Sending, Matching, LastIsCurrent
<1>9. ~Answering'
  BY <1>1, <1>2, CodeFacts DEF Answering
<1>10. OneByteInFlight'
  BY <1>1, <1>2, <1>9 DEF OneByteInFlight
<1> QED BY <1>5, <1>6, <1>7, <1>8, <1>10 DEF IInv

\* The first byte of the first command, with interrupts enabled.
LEMMA WriteInv ==
  ASSUME IInv, WriteByte
  PROVE  IInv'
<1>1. /\ pc = "write" /\ pc' = "waiting" /\ ~Started /\ BeforeStart /\ Types /\ QueueOK(queue)
      /\ UNCHANGED <<handlerSet, next, caps, outBuf, irq, toSend, expecting, lamps, handled, dropped>>
  BY DEF WriteByte, Step, Started, keyboard, IInv
<1>2. /\ queue.head = 0 /\ queue.tail = After(0) /\ queue.busy /\ After(0) # 0 /\ 0 \in Slots
      /\ queue.commands[0].bytes = <<SetLEDs, 0>> /\ queue.commands[0].pos = 0
      /\ toSend = <<>> /\ outBuf \in {None, Letter} /\ ~caps /\ lamps = 0 /\ ~dropped
      /\ queue.commands \in [Slots -> Commands] /\ queue.commands[0] \in Commands
  BY <1>1, AfterFacts DEF BeforeStart, Types, Queues
<1>3. /\ inBuf' = SetLEDs
      /\ queue' = [queue EXCEPT !.commands[0].pos = 1]
  <2>1. inBuf' \in ByteAt(queue.commands[0], 1) /\ queue' = [queue EXCEPT !.commands[0].pos = 1]
    BY <1>2 DEF WriteByte
  <2>2. Len(<<SetLEDs, 0>>) = 2 /\ <<SetLEDs, 0>>[1] = SetLEDs
    OBVIOUS
  <2> QED BY <1>2, <2>1, <2>2 DEF ByteAt
<1>4. /\ queue' \in Queues /\ queue'.head = 0 /\ queue'.tail = After(0) /\ queue'.busy
      /\ \A s \in Slots : /\ queue'.commands[s].bytes = queue.commands[s].bytes
                          /\ queue'.commands[s].pos = IF s = 0 THEN 1 ELSE queue.commands[s].pos
  <2>1. /\ queue'.head = queue.head /\ queue'.tail = queue.tail /\ queue'.busy = queue.busy
        /\ queue'.commands = [queue.commands EXCEPT ![0] = [queue.commands[0] EXCEPT !.pos = 1]]
    BY <1>1, <1>3 DEF Types, Queues
  <2>2. [queue.commands[0] EXCEPT !.pos = 1] \in Commands
    <3>1. PICK cmd : cmd = queue.commands[0]
      OBVIOUS
    <3>2. cmd \in [bytes : Bytes, pos : 0..2, retries : 0..255, waiting_ack : BOOLEAN] /\ 1 \in 0..2
      BY <1>2, <3>1 DEF Commands
    <3>3. [cmd EXCEPT !.pos = 1] \in [bytes : Bytes, pos : 0..2, retries : 0..255, waiting_ack : BOOLEAN]
      BY <3>2
    <3> QED BY <3>1, <3>3 DEF Commands
  <2>3. queue' \in Queues
    BY <1>1, <1>2, <1>3, <2>1, <2>2 DEF Types, Queues
  <2>4. \A s \in Slots : /\ queue'.commands[s].bytes = queue.commands[s].bytes
                         /\ queue'.commands[s].pos = IF s = 0 THEN 1 ELSE queue.commands[s].pos
    BY <1>2, <2>1 DEF Commands
  <2> QED BY <1>2, <2>1, <2>3, <2>4
<1>5. Types'
  <2>1. ASSUME NEW s \in Slots
        PROVE  queue'.commands[s].pos <= Len(queue'.commands[s].bytes)
    <3>1. Len(<<SetLEDs, 0>>) = 2
      OBVIOUS
    <3>2. queue.commands[s].pos <= Len(queue.commands[s].bytes)
      BY <1>1 DEF Types
    <3>3. CASE s = 0
      <4>1. queue'.commands[s].bytes = <<SetLEDs, 0>> /\ queue'.commands[s].pos = 1
        BY <3>3, <1>2, <1>4
      <4> QED BY <3>1, <4>1
    <3>4. CASE s # 0
      BY <3>2, <3>4, <1>4
    <3> QED BY <3>3, <3>4
  <2> QED BY <2>1, <1>1, <1>3, <1>4 DEF Types
<1>6. Queued(queue') = {0} /\ Queued(queue) = {0}
  <2>1. Ring(0, 0) = {} /\ Ring(0, After(0)) = Ring(0, 0) \cup {0}
    BY <1>2, RingFacts
  <2> QED BY <2>1, <1>2, <1>4 DEF Queued
<1>7. QueueOK(queue')
  BY <1>1, <1>2, <1>4, <1>6 DEF QueueOK
<1>8. ~Answering' /\ ~OnItsWay(Ack)'
  BY <1>1, <1>2, CodeFacts DEF Answering, OnItsWay
<1>9. OneByteInFlight'
  BY <1>1, <1>2, <1>8 DEF OneByteInFlight
<1>10. HeadCommand'.bytes = <<SetLEDs, 0>> /\ HeadCommand'.pos = 1
  BY <1>2, <1>4 DEF HeadCommand
<1>11. BeforeStart' /\ Sending'
  BY <1>1 DEF BeforeStart, Started, Sending
<1>12. BeforeMark'
  BY <1>1, <1>2, <1>3, <1>4, <1>10 DEF BeforeMark
<1>13. Matching'
  <2>1. <<SetLEDs, 0>>[1] = SetLEDs
    OBVIOUS
  <2> QED BY <2>1, <1>3, <1>8, <1>10 DEF Matching
<1>14. LastIsCurrent'
  <2>1. <<SetLEDs, 0>>[2] = 0 /\ LampsFor(FALSE) = 0
    BY DEF LampsFor
  <2>2. caps = FALSE
    BY <1>1, <1>2 DEF Types
  <2>3. \A s \in Queued(queue') : queue'.commands[s].bytes[2] = LampsFor(caps')
    BY <2>1, <2>2, <1>1, <1>2, <1>4, <1>6
  <2> QED BY <2>3, <1>4 DEF LastIsCurrent
<1> QED BY <1>5, <1>7, <1>9, <1>11, <1>12, <1>13, <1>14 DEF IInv

\* The command is marked before the keyboard can have answered.
LEMMA MarkInv ==
  ASSUME IInv, SetWaiting
  PROVE  IInv'
<1>1. /\ pc = "waiting" /\ pc' = "done" /\ Started /\ Started' /\ Types /\ QueueOK(queue) /\ BeforeMark
      /\ UNCHANGED <<handlerSet, next, caps, outBuf, inBuf, irq, toSend, expecting, lamps, handled, dropped>>
      /\ queue' = [queue EXCEPT !.commands[queue.head].waiting_ack = TRUE]
  BY DEF SetWaiting, Step, Started, keyboard, IInv
<1>2. /\ queue \in Queues /\ queue.head \in Slots /\ queue.commands \in [Slots -> Commands]
      /\ queue.commands[queue.head] \in Commands
  BY <1>1 DEF Types, Queues
<1>3. /\ queue' \in Queues /\ queue'.head = queue.head /\ queue'.tail = queue.tail
      /\ queue'.busy = queue.busy
      /\ \A s \in Slots : /\ queue'.commands[s].bytes = queue.commands[s].bytes
                          /\ queue'.commands[s].pos = queue.commands[s].pos
                          /\ s = queue.head => queue'.commands[s].waiting_ack
  <2>1. /\ queue'.head = queue.head /\ queue'.tail = queue.tail /\ queue'.busy = queue.busy
        /\ queue'.commands = [queue.commands EXCEPT ![queue.head] =
                                [queue.commands[queue.head] EXCEPT !.waiting_ack = TRUE]]
    BY <1>1, <1>2 DEF Queues
  <2>2. [queue.commands[queue.head] EXCEPT !.waiting_ack = TRUE] \in Commands
    BY <1>2 DEF Commands
  <2>3. queue' \in Queues
    BY <1>1, <1>2, <2>1, <2>2 DEF Queues
  <2>4. \A s \in Slots : /\ queue'.commands[s].bytes = queue.commands[s].bytes
                         /\ queue'.commands[s].pos = queue.commands[s].pos
                         /\ s = queue.head => queue'.commands[s].waiting_ack
    BY <1>2, <2>1 DEF Commands
  <2> QED BY <2>1, <2>3, <2>4
<1>4. /\ HeadCommand'.bytes = HeadCommand.bytes /\ HeadCommand'.pos = HeadCommand.pos
      /\ HeadCommand'.waiting_ack /\ Queued(queue') = Queued(queue)
  BY <1>2, <1>3 DEF HeadCommand, Queued
<1>5. Queued(queue) \subseteq Slots
  BY <1>2, RingFacts DEF Queues, Queued
<1>6. Types'
  BY <1>1, <1>3 DEF Types
<1>7. QueueOK(queue')
  BY <1>1, <1>3, <1>4, <1>5 DEF QueueOK
<1>8. ~Answering' /\ ~OnItsWay(Ack)' /\ ~OnItsWay(Ack)
  BY <1>1, CodeFacts DEF BeforeMark, Answering, OnItsWay
<1>9. OneByteInFlight'
  BY <1>1, <1>8 DEF OneByteInFlight, BeforeMark
<1>10. BeforeStart' /\ BeforeMark'
  BY <1>1 DEF BeforeStart, BeforeMark
<1>11. Sending'
  BY <1>1, <1>3, <1>4 DEF Sending, BeforeMark
<1>12. Matching'
  BY <1>1, <1>3, <1>4, <1>8 DEF IInv, Matching
<1>13. LastIsCurrent'
  <2>1. \A s \in Queued(queue) : queue'.commands[s].bytes[2] = queue.commands[s].bytes[2]
    BY <1>3, <1>5
  <2> QED BY <2>1, <1>1, <1>3, <1>4 DEF IInv, LastIsCurrent
<1> QED BY <1>6, <1>7, <1>9, <1>10, <1>11, <1>12, <1>13 DEF IInv

-----------------------------------------------------------------------------
(***************************************************************************)
(* The steps of the controller and the keyboard.                           *)
(***************************************************************************)
LEMMA DeliverInv ==
  ASSUME IInv, Deliver
  PROVE  IInv'
<1>1. /\ toSend # <<>> /\ outBuf = None /\ outBuf' = Head(toSend) /\ toSend' = Tail(toSend)
      /\ irq' = TRUE /\ Types
      /\ UNCHANGED <<queue, handlerSet, pc, next, caps, inBuf, expecting, lamps, handled, dropped>>
  BY DEF Deliver, host, IInv
<1>2. /\ Head(toSend) \in Keys \cup Answers /\ Head(toSend) = toSend[1]
      /\ toSend' \in Seq(Keys \cup Answers) /\ Len(toSend) \in Nat /\ Len(toSend) > 0
      /\ Len(toSend') = Len(toSend) - 1
      /\ \A i \in 1..(Len(toSend) - 1) : toSend'[i] = toSend[i + 1]
  BY <1>1, TailFacts DEF Types
<1>3. Types'
  BY <1>1, <1>2 DEF Types
<1>4. \A a \in Answers : OnItsWay(a)' <=> OnItsWay(a)
  <2> TAKE a \in Answers
  <2>1. ASSUME NEW i \in 1..Len(toSend), toSend[i] = a
        PROVE  outBuf' = a \/ \E j \in 1..Len(toSend') : toSend'[j] = a
    <3>1. CASE i = 1
      BY <3>1, <2>1, <1>1, <1>2
    <3>2. CASE i # 1
      <4>1. i - 1 \in 1..Len(toSend') /\ toSend'[i - 1] = toSend[i]
        BY <3>2, <1>2
      <4> QED BY <4>1, <2>1
    <3> QED BY <3>1, <3>2
  <2>2. ASSUME NEW j \in 1..Len(toSend'), toSend'[j] = a
        PROVE  \E i \in 1..Len(toSend) : toSend[i] = a
    <3>1. j + 1 \in 1..Len(toSend) /\ toSend[j + 1] = a
      BY <2>2, <1>2
    <3> QED BY <3>1
  <2>3. outBuf' = a => \E i \in 1..Len(toSend) : toSend[i] = a
    BY <1>1, <1>2
  <2>4. outBuf # a
    BY <1>1, CodeFacts
  <2> QED BY <2>1, <2>2, <2>3, <2>4 DEF OnItsWay
<1>5. Answering' <=> Answering
  BY <1>1, <1>3, <1>4, AnsweringFacts, CodeFacts DEF Types, Answering, OnItsWay
<1>6. OneAnswer'
  <2> SUFFICES ASSUME NEW i \in 1..Len(toSend'), NEW j \in 1..Len(toSend'),
                      toSend'[i] \in Answers, toSend'[j] \in Answers
               PROVE  i = j /\ outBuf' \notin Answers
    BY DEF OneAnswer
  <2>1. /\ i + 1 \in 1..Len(toSend) /\ j + 1 \in 1..Len(toSend) /\ 1 \in 1..Len(toSend)
        /\ toSend[i + 1] \in Answers /\ toSend[j + 1] \in Answers /\ i + 1 # 1
    BY <1>2
  <2>2. i + 1 = j + 1 /\ toSend[1] \notin Answers
    BY <2>1 DEF IInv, OneByteInFlight
  <2> QED BY <2>2, <1>1, <1>2
<1>7. pc = "done"
  BY <1>1 DEF IInv, BeforeStart, BeforeMark, Started, Types
<1> QED BY <1>1, <1>3, <1>4, <1>5, <1>6, <1>7, Frame DEF IInv

LEMMA StrikeInv ==
  ASSUME IInv, Patient, NEW key \in Keys, Strike(key)
  PROVE  IInv'
<1>1. /\ pc = "done" /\ toSend' = Append(toSend, key) /\ Types
      /\ UNCHANGED <<queue, handlerSet, pc, next, caps, outBuf, inBuf, irq, expecting, lamps, handled, dropped>>
  BY DEF Strike, Patient, host, IInv
<1>2. /\ toSend' \in Seq(Keys \cup Answers)
      /\ \A a : OnItsWay(a)' <=> OnItsWay(a) \/ a = key
      /\ Answering' <=> Answering \/ key \in Answers
  BY <1>1, Appended
<1>3. Types'
  BY <1>1, <1>2 DEF Types
<1>4. key \notin Answers
  BY CodeFacts
<1>5. OneAnswer'
  <2>1. /\ Len(toSend') = Len(toSend) + 1 /\ Len(toSend) \in Nat
        /\ \A i \in 1..(Len(toSend) + 1) : toSend'[i] = IF i <= Len(toSend) THEN toSend[i] ELSE key
    BY <1>1, AppendFacts DEF Types
  <2> SUFFICES ASSUME NEW i \in 1..Len(toSend'), NEW j \in 1..Len(toSend'),
                      toSend'[i] \in Answers, toSend'[j] \in Answers
               PROVE  i = j /\ outBuf' \notin Answers
    BY DEF OneAnswer
  <2>2. i \in 1..Len(toSend) /\ j \in 1..Len(toSend) /\ toSend'[i] = toSend[i] /\ toSend'[j] = toSend[j]
    BY <1>4, <2>1
  <2> QED BY <2>2, <1>1 DEF IInv, OneByteInFlight
<1> QED BY <1>1, <1>2, <1>3, <1>4, <1>5, Frame DEF IInv

\* The keyboard acknowledges a byte or asks for it again.
LEMMA KeyboardAnswerInv ==
  ASSUME IInv, Patient, Accept \/ AskAgain
  PROVE  IInv'
<1> PICK a \in Answers : /\ a = Ack => Accept
                         /\ a = Resend => AskAgain
  BY CodeFacts
<1>1. /\ inBuf # None /\ pc # "waiting" /\ toSend' = Append(toSend, a) /\ inBuf' = None /\ Types
      /\ UNCHANGED <<queue, handlerSet, pc, next, caps, outBuf, irq, handled, dropped>>
      /\ a = Ack => /\ expecting' = (inBuf = SetLEDs)
                    /\ lamps' = IF expecting /\ inBuf # SetLEDs THEN inBuf ELSE lamps
      /\ a = Resend => UNCHANGED <<expecting, lamps>>
      /\ a = Ack \/ a = Resend
  BY CodeFacts DEF Accept, AskAgain, MayAnswer, Patient, host, IInv
<1>2. pc = "done" /\ queue.busy
  BY <1>1 DEF IInv, BeforeStart, Started, Sending, Types
<1>3. /\ queue.head # queue.tail /\ HeadCommand.waiting_ack /\ HeadCommand.pos \in {1, 2}
      /\ HeadCommand' = HeadCommand /\ inBuf = HeadCommand.bytes[HeadCommand.pos]
  BY <1>1, <1>2 DEF IInv, Sending, Matching, Started, HeadCommand
<1>4. ~Answering /\ ~OnItsWay(Ack) /\ ~OnItsWay(Resend)
  BY <1>1, AnsweringFacts DEF IInv, OneByteInFlight
<1>5. HeadCommand.bytes[1] = SetLEDs /\ HeadCommand.bytes[2] \in Lamps
  <2>1. queue.head \in Queued(queue) /\ queue.head \in Slots
    BY <1>1, <1>3, RingFacts DEF Types, Queues, Queued
  <2>2. HeadCommand.bytes \in Bytes /\ HeadCommand.bytes # <<>>
    BY <1>1, <2>1 DEF HeadCommand, Types, Queues, Commands, IInv, QueueOK
  <2> QED BY <2>2, BytesFacts
<1>6. /\ toSend' \in Seq(Keys \cup Answers)
      /\ \A b : OnItsWay(b)' <=> OnItsWay(b) \/ b = a
      /\ \A i, j \in 1..Len(toSend') : toSend'[i] \in Answers /\ toSend'[j] \in Answers => i = j
  BY <1>1, <1>4, Appended
<1>7. Types'
  <2>1. lamps' \in Lamps /\ expecting' \in BOOLEAN
    BY <1>1 DEF Types
  <2> QED BY <2>1, <1>1, <1>6 DEF Types
<1>8. OneByteInFlight'
  <2>1. AwaitsAnswer(queue)' /\ outBuf' \notin Answers
    BY <1>1, <1>2, <1>3, <1>4 DEF AwaitsAnswer, HeadCommand, Answering
  <2> QED BY <2>1, <1>1, <1>6 DEF OneByteInFlight
<1>9. Sending'
  BY <1>1, <1>2, <1>3 DEF Sending
<1>10. Matching'
  <2>1. CASE a = Ack
    <3>1. HeadCommand.pos = 1 => expecting'
      BY <2>1, <1>1, <1>3, <1>5
    <3>2. HeadCommand.pos = 2 => lamps' = HeadCommand.bytes[2]
      <4>1. HeadCommand.pos = 2 => expecting
        BY <1>2, <1>4 DEF IInv, Matching, Started
      <4> QED BY <4>1, <2>1, <1>1, <1>3, <1>5, CodeFacts
    <3> QED BY <3>1, <3>2, <2>1, <1>1, <1>3, <1>6 DEF Matching
  <2>2. CASE a = Resend
    <3>1. HeadCommand.pos = 2 => expecting'
      BY <2>2, <1>1, <1>2, <1>4 DEF IInv, Matching, Started
    <3>2. ~OnItsWay(Ack)'
      BY <2>2, <1>4, <1>6, CodeFacts
    <3> QED BY <3>1, <3>2, <1>1, <1>3 DEF Matching
  <2> QED BY <2>1, <2>2, <1>1
<1>11. BeforeStart' /\ BeforeMark'
  BY <1>1, <1>2 DEF BeforeStart, BeforeMark, Started
<1>12. QueueOK(queue')
  BY <1>1 DEF IInv, QueueOK, Queued
<1>13. LastIsCurrent'
  BY <1>1, <1>2 DEF IInv, LastIsCurrent, Started, Queued
<1> QED BY <1>7, <1>8, <1>9, <1>10, <1>11, <1>12, <1>13 DEF IInv

\* Every step keeps the invariant, with a patient keyboard.
LEMMA NextInv == Patient /\ IInv /\ [Next]_vars => IInv'
<1> SUFFICES ASSUME Patient, IInv, [Next]_vars
             PROVE  IInv'
  OBVIOUS
<1>1. CASE Main
  <2>1. CASE ReadDummy \/ SetHandler \/ TestFull
    BY <2>1, PrepareInv
  <2>2. CASE StoreCommand \/ PublishTail
    BY <2>2, StoreInv
  <2>3. CASE TestBusy \/ TestEmpty
    BY <2>3, TestInv
  <2>4. CASE WriteByte
    BY <2>4, WriteInv
  <2>5. CASE SetWaiting
    BY <2>5, MarkInv
  <2> QED BY <1>1, <2>1, <2>2, <2>3, <2>4, <2>5 DEF Main
<1>2. CASE PS2_IRQHandler
  <2>1. CASE outBuf = None
    BY <1>2, <2>1, IdleInterruptInv
  <2>2. CASE outBuf \in Answers
    BY <1>2, <2>2, AnswerInv
  <2>3. CASE outBuf # None /\ outBuf \notin Answers
    BY <1>2, <2>3, KeyInv
  <2> QED BY <2>1, <2>2, <2>3
<1>3. CASE UnhandledIRQ
  BY <1>3, IdleInterruptInv
<1>4. CASE Deliver
  BY <1>4, DeliverInv
<1>5. CASE Accept \/ AskAgain
  BY <1>5, KeyboardAnswerInv
<1>6. CASE \E key \in Keys : Strike(key)
  BY <1>6, StrikeInv
<1>7. CASE UNCHANGED vars
  <2>1. /\ UNCHANGED <<queue, handlerSet, pc, next, caps, outBuf, inBuf, irq, toSend,
                       expecting, lamps, handled, dropped>>
    BY <1>7 DEF vars
  <2>2. Types'
    BY <2>1 DEF IInv, Types
  <2>3. (\A a \in Answers : OnItsWay(a)' <=> OnItsWay(a)) /\ (Answering' <=> Answering) /\ OneAnswer'
    BY <2>1 DEF OnItsWay, Answering, IInv, OneByteInFlight, OneAnswer
  <2> QED BY <2>1, <2>2, <2>3, Frame DEF IInv
<1> QED BY <1>1, <1>2, <1>3, <1>4, <1>5, <1>6, <1>7 DEF Next, Interrupt

\* The inductive invariant holds as long as the keyboard is patient: what queue, main
\* context, controller and keyboard are doing fits together (lines 28 to 100).
THEOREM Invariance == Patient /\ Spec => []IInv
<1>1. ASSUME Patient PROVE Spec => []IInv
  <2>1. IInv /\ [Next]_vars => IInv'
    BY <1>1, NextInv
  <2> QED BY InitInv, <2>1, PTL DEF Spec
<1> QED BY <1>1

-----------------------------------------------------------------------------
(***************************************************************************)
(* What the invariant gives.                                               *)
(***************************************************************************)
\* The queue, its commands and the bytes in the controller are what ps2.c
\* declares; no position passes the end of its command.
THEOREM TypeCorrect == Patient /\ Spec => []TypeOK
<1>1. IInv => TypeOK
  <2> SUFFICES ASSUME Types PROVE TypeOK
    BY DEF IInv
  <2>1. queue.head \in Slots /\ queue.tail \in Slots /\ queue.busy \in BOOLEAN
    BY DEF Types, Queues
  <2>2. ASSUME NEW s \in Slots
        PROVE  /\ queue.commands[s].pos \in 0..Len(queue.commands[s].bytes)
               /\ queue.commands[s].retries \in 0..255
               /\ queue.commands[s].waiting_ack \in BOOLEAN
    <3>1. queue.commands[s] \in Commands /\ queue.commands[s].pos <= Len(queue.commands[s].bytes)
      BY DEF Types, Queues
    <3>2. Len(queue.commands[s].bytes) \in Nat
      BY <3>1 DEF Commands, Bytes
    <3> PICK c, l : c = queue.commands[s] /\ l = Len(queue.commands[s].bytes)
      OBVIOUS
    <3>3. c.pos \in 0..2 /\ c.retries \in 0..255 /\ c.waiting_ack \in BOOLEAN
      BY <3>1 DEF Commands
    <3>4. c.pos \in 0..l
      BY <3>1, <3>2, <3>3
    <3> QED BY <3>3, <3>4
  <2> QED BY <2>1, <2>2 DEF Types, TypeOK
<1> QED BY <1>1, Invariance, PTL

\* What reaches Keyboard_HandleByte is never an answer to a command.
THEOREM AnswersStayInTheQueue == Patient /\ Spec => []AnswersNeverKeys
<1>1. IInv => AnswersNeverKeys
  BY DEF IInv, Types, AnswersNeverKeys
<1> QED BY <1>1, Invariance, PTL

\* The queue and the keyboard take turns: one byte of a command or one answer
\* is on its way, for the command at the head, and lamps are taken as lamps.
THEOREM StaysInStep == Patient /\ Spec => []KeyboardInStep
<1>1. IInv => KeyboardInStep
  <2> SUFFICES ASSUME IInv PROVE KeyboardInStep
    OBVIOUS
  <2>1. inBuf # None /\ pc # "waiting" => /\ pc = "done" /\ Started /\ queue.busy
                                          /\ AwaitsAnswer(queue)
    BY DEF IInv, BeforeStart, Started, Sending, AwaitsAnswer, HeadCommand
  <2>2. ASSUME inBuf \in Lamps PROVE expecting
    <3>1. inBuf # None /\ inBuf # SetLEDs /\ pc # "waiting"
      BY <2>2, CodeFacts DEF IInv, BeforeMark
    <3>2. ~OnItsWay(Ack)
      BY <3>1, AnsweringFacts DEF IInv, OneByteInFlight
    <3>3. HeadCommand.pos \in {1, 2} /\ inBuf = HeadCommand.bytes[HeadCommand.pos]
      BY <2>1, <3>1 DEF IInv, Sending, Matching
    <3>4. HeadCommand.bytes[1] = SetLEDs
      <4>1. /\ queue.head \in Queued(queue) /\ queue.head \in Slots
            /\ queue.commands[queue.head] \in Commands
        BY <2>1, <3>1, RingFacts DEF IInv, Sending, Types, Queues, Queued
      <4>2. HeadCommand.bytes \in Bytes /\ HeadCommand.bytes # <<>>
        BY <4>1 DEF HeadCommand, Commands, IInv, QueueOK
      <4> QED BY <4>2, BytesFacts
    <3>5. HeadCommand.pos = 2
      BY <3>1, <3>3, <3>4
    <3> QED BY <2>1, <3>1, <3>2, <3>5 DEF IInv, Matching
  <2> QED BY <2>1, <2>2 DEF IInv, KeyboardInStep
<1> QED BY <1>1, Invariance, PTL

\* With every command answered and none dropped, the lamps show the lock.
THEOREM LampsAreCurrent == Patient /\ Spec => []LampsFollowCaps
<1>1. IInv => LampsFollowCaps
  BY DEF IInv, LastIsCurrent, Started, LampsFollowCaps
<1> QED BY <1>1, Invariance, PTL

=============================================================================
