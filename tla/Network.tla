------------------------------ MODULE Network ------------------------------
(***************************************************************************)
(* The RTL8139 driver (drivers/net/rtl8139.c) with what it calls: Ethernet *)
(* and ARP (net/ethernet.c, net/arp.c).  The main context starts the card  *)
(* and sends one ARP request (kstart) with interrupts enabled; the         *)
(* interrupt handler takes packets out of the receive ring and answers     *)
(* requests for the local address through the same packet buffer and the   *)
(* same transmit registers.                                                *)
(*                                                                         *)
(* The card works while the handler runs, so the handler is two steps:     *)
(* reading the status, and everything from the acknowledgement on.  Both   *)
(* happen between two steps of the main context.                           *)
(***************************************************************************)
EXTENDS Interrupts, Sequences, SequencesExt

CONSTANTS
  Frames,            \* what may arrive: [type, op, target, from, length]
  RingSize,          \* the ring the card is programmed for, 8192
  RX_BUFFER_SIZE,    \* the ring the driver counts with, 8208
  TRANSMIT_REG_COUNT,
  NicLine,           \* the card's interrupt line, from its configuration space
  MaxFrames          \* bound: frames that arrive

ASSUME SizesAssumption ==
  /\ RingSize \in Nat \ {0} /\ RingSize % 4 = 0
  /\ RX_BUFFER_SIZE \in Nat /\ RX_BUFFER_SIZE >= RingSize /\ RX_BUFFER_SIZE % 4 = 0
  /\ TRANSMIT_REG_COUNT \in Nat \ {0} /\ MaxFrames \in Nat
ASSUME LineAssumption == NicLine \in Lines
ASSUME FramesAssumption == \A f \in Frames : f.length \in 1..RingSize

None == [dest |-> "none", op |-> "none", target |-> "none"]
Request == [dest |-> "all", op |-> "request", target |-> "gateway"]
ReplyTo(peer) == [dest |-> peer, op |-> "reply", target |-> peer]
Registers == 0..(TRANSMIT_REG_COUNT - 1)
TOK == "TOK"
ROK == "ROK"
Idle == {"idle"}
Blank == <<0, 0>>
LocalIP == "local"
Garbage == [type |-> "none", op |-> "none", target |-> "none", from |-> "none", length |-> 0]

VARIABLES
  pc,           \* the main context
  nic,          \* [receiving, enabled, isr, cbr, capr, own, next]: the card
  pic,          \* the interrupt controllers
  handlers,     \* the lines with a handler in irq.c
  status,       \* `status' of RTL8139_IRQHandler; Idle when it does not run
  rx,           \* rxBuffer: byte i of the n-th stored packet is <<n, i>>
  curOffset,
  packetBuffer,
  buffers,      \* transmitBuffers
  transmitRegister,  \* divided by TRANSMIT_REG_SIZE
  arrived,      \* bound: how many frames have arrived
  stored,       \* ghost: the frames the card has put into the ring
  handled,      \* ghost: what Ethernet_HandlePacket was called with
  accepted,     \* ghost: the frames handed to the card
  sent,         \* ghost: the frames on the wire
  early,        \* ghost: an interrupt of the card found no handler
  crossed       \* ghost: a reply was due in the middle of ARP_SendRequest

rxVars == <<rx, curOffset, stored, handled, arrived>>
txVars == <<packetBuffer, buffers, transmitRegister, accepted>>
vars == <<pc, nic, pic, handlers, status, rxVars, txVars, sent, early, crossed>>

Init ==
  /\ pc = "reset"
  /\ nic = [receiving |-> FALSE, enabled |-> {}, isr |-> {}, cbr |-> 0, capr |-> -16,
            own |-> [r \in Registers |-> TRUE], next |-> 0]
  /\ pic = i686_PIC_SetMask(i686_PIC_Remap, 0)
  /\ handlers = {} /\ status = Idle
  /\ rx = [o \in 0..(RX_BUFFER_SIZE - 1) |-> Blank] /\ curOffset = 0
  /\ packetBuffer = None /\ buffers = [r \in Registers |-> None]
  /\ transmitRegister = 0 /\ arrived = 0
  /\ stored = <<>> /\ handled = <<>> /\ accepted = <<>> /\ sent = <<>>
  /\ early = FALSE /\ crossed = FALSE

\* The card asserts its line while an enabled cause is set.
Asserted(card) == card.isr \intersect card.enabled # {}

\* The line after a step of the card: a rising edge is latched.
LatchEdge == pic' = IF Asserted(nic') /\ ~Asserted(nic) THEN Raise(pic, NicLine) ELSE pic

-----------------------------------------------------------------------------
(***************************************************************************)
(* The card.                                                               *)
(***************************************************************************)
Align(offset) == ((offset + 3) \div 4) * 4

\* The reading position it was told, and whether a packet of this length fits.
ReadPosition == (nic.capr + 16) % RingSize
Fits(length) ==
  LET free == (ReadPosition - nic.cbr) % RingSize
  IN free = 0 \/ Align(length + 4) < free

\* The header's four bytes and the packet, around the end of the card's ring.
Written(n, length) ==
  [o \in DOMAIN rx |->
     LET i == (o - nic.cbr) % RingSize
     IN IF o < RingSize /\ i < length + 4 THEN <<n, i>> ELSE rx[o]]

Arrive(f) ==
  /\ nic.receiving /\ arrived < MaxFrames /\ Fits(f.length)
  /\ rx' = Written(Len(stored) + 1, f.length)
  /\ nic' = [nic EXCEPT !.cbr = Align(@ + f.length + 4) % RingSize,
                        !.isr = @ \union {ROK}]
  /\ stored' = Append(stored, f) /\ arrived' = arrived + 1
  /\ LatchEdge
  /\ UNCHANGED <<pc, handlers, status, curOffset, handled, txVars, sent, early, crossed>>

\* Descriptors are sent in their order, with what their buffer holds then.
Transmit ==
  /\ ~nic.own[nic.next]
  /\ sent' = Append(sent, buffers[nic.next])
  /\ nic' = [nic EXCEPT !.own[nic.next] = TRUE, !.isr = @ \union {TOK},
                        !.next = (@ + 1) % TRANSMIT_REG_COUNT]
  /\ LatchEdge
  /\ UNCHANGED <<pc, handlers, status, rxVars, txVars, early, crossed>>

-----------------------------------------------------------------------------
(***************************************************************************)
(* RTL8139_SendPacket, as the two contexts use it.                         *)
(***************************************************************************)
\* Mutant: the register is used whoever owns it.
MaySend_Untested(r) == TRUE

\* The OWN bit: the card has done with the buffer.
MaySend(r) == nic.own[r]

NextRegister(r) == (r + 1) % TRANSMIT_REG_COUNT

\* Writing the length hands the buffer to the card.
HandOver(card, r) == [card EXCEPT !.own[r] = FALSE]

\* The interrupt handler cannot be interrupted: it sends in one step.
SendPacket(card, frame) ==
  LET r == transmitRegister IN
  /\ packetBuffer' = frame
  /\ IF MaySend(r)
     THEN /\ buffers' = [buffers EXCEPT ![r] = frame]
          /\ nic' = HandOver(card, r)
          /\ transmitRegister' = NextRegister(r)
          /\ accepted' = Append(accepted, frame)
     ELSE nic' = card /\ UNCHANGED <<buffers, transmitRegister, accepted>>

-----------------------------------------------------------------------------
(***************************************************************************)
(* RTL8139_IRQHandler.                                                     *)
(***************************************************************************)
\* What lies behind rxBuffer are the transmit buffers, no packet's bytes.
ByteAt(o) == IF o \in DOMAIN rx THEN rx[o] ELSE Blank

\* The length is read from the header, which is the card's if a packet starts here.
IsHeader(o) == rx[o][1] > 0 /\ rx[o][2] = 0
LengthAt(o) == stored[rx[o][1]].length

\* Mutant: the header is not skipped.
PkgStart_AtHeader(o) == o

PkgStart(o) == o + 4

\* The packet as it is copied; a negative count runs into a page fault.
Copied(o, length) ==
  LET beforeWrap == o + length - RX_BUFFER_SIZE
      start == PkgStart(o)
  IN IF start + length <= RX_BUFFER_SIZE
     THEN [i \in 1..length |-> ByteAt(start + i - 1)]
     ELSE [i \in 1..length |-> IF i <= beforeWrap THEN ByteAt(start + i - 1)
                               ELSE ByteAt(i - 1 - beforeWrap)]

\* The frame of the packet at o, if all of its bytes were copied in their order.
FrameAt(o) ==
  IF IsHeader(o) /\ Copied(o, LengthAt(o)) = [i \in 1..LengthAt(o) |-> <<rx[o][1], i + 3>>]
  THEN stored[rx[o][1]]
  ELSE Garbage

\* Mutant: the position is not rounded up to a word.
NextOffset_NotAligned(o, length) == (o + length + 4) % RX_BUFFER_SIZE

NextOffset(o, length) == Align(o + length + 4) % RX_BUFFER_SIZE

\* Ethernet_HandlePacket tells ARP from IP, which is only printed, and
\* ARP_HandlePacket answers requests for the local address.
Answered(f) == f.type = "arp" /\ f.op = "request" /\ f.target = LocalIP

\* The main context is between two statements of ARP_SendRequest.
InSend == pc \in {"fill", "check", "copy", "start", "advance"}

\* Mutant: the end of a transmission is left set.
Acknowledged_OnlyROK == {ROK}

Acknowledged == {TOK, ROK}

\* An interrupt without a handler is acknowledged at the controllers only.
Interrupt ==
  /\ status = Idle /\ NicLine \in Deliverable(pic)
  /\ IF i686_ISR_CommonHandler(Vector(NicLine), {}, handlers) = "driver"
     THEN /\ status' = nic.isr /\ pic' = Acknowledge(pic, NicLine) /\ early' = early
     ELSE /\ pic' = i686_PIC_SendEOI(Acknowledge(pic, NicLine), NicLine)
          /\ early' = TRUE /\ status' = status
  /\ UNCHANGED <<pc, nic, handlers, rxVars, txVars, sent, crossed>>

TakesPacket(causes) == ROK \in causes

\* Lines 31 to 65 and the end of interrupt.  The model ends when a reply is due
\* in the middle of ARP_SendRequest, and at a packet that is not whole.
RTL8139_IRQHandler ==
  LET card == [nic EXCEPT !.isr = @ \ Acknowledged]
      frame == FrameAt(curOffset)
      next == NextOffset(curOffset, LengthAt(curOffset))
  IN
  /\ status # Idle
  /\ IF ~TakesPacket(status)
     THEN nic' = card /\ UNCHANGED <<rxVars, txVars, crossed>>
     ELSE /\ handled' = Append(handled, frame)
          /\ crossed' = (InSend /\ Answered(frame))
          /\ IF frame = Garbage \/ crossed'
             THEN UNCHANGED <<nic, curOffset, txVars>>
             ELSE /\ curOffset' = next
                  /\ IF Answered(frame)
                     THEN SendPacket([card EXCEPT !.capr = next - 16], ReplyTo(frame.from))
                     ELSE nic' = [card EXCEPT !.capr = next - 16] /\ UNCHANGED txVars
          /\ UNCHANGED <<rx, stored, arrived>>
  /\ status' = Idle
  /\ pic' = i686_PIC_SendEOI(pic, NicLine)
  /\ UNCHANGED <<pc, handlers, sent, early>>

-----------------------------------------------------------------------------
(***************************************************************************)
(* The main context: RTL8139_Init, then ARP_SendRequest.                   *)
(***************************************************************************)
Main(from, to) ==
  /\ status = Idle /\ pc = from /\ pc' = to
  /\ UNCHANGED <<status, rxVars, sent, early, crossed>>

\* Up to line 116: the card is found, reset, given its ring and told its causes.
Reset ==
  /\ Main("reset", "enable")
  /\ nic' = [nic EXCEPT !.enabled = {TOK, ROK}]
  /\ UNCHANGED <<pic, handlers, txVars>>

Enable ==
  /\ Main("enable", "handler")
  /\ nic' = [nic EXCEPT !.receiving = TRUE]
  /\ UNCHANGED <<pic, handlers, txVars>>

SetHandler ==
  /\ Main("handler", "create")
  /\ handlers' = i686_IRQ_SetHandler(handlers, NicLine)
  /\ UNCHANGED <<nic, pic, txVars>>

Ethernet_CreatePacket ==
  /\ Main("create", "fill")
  /\ packetBuffer' = [packetBuffer EXCEPT !.dest = "all"]
  /\ UNCHANGED <<nic, pic, handlers, buffers, transmitRegister, accepted>>

FillRequest ==
  /\ Main("fill", "check")
  /\ packetBuffer' = [packetBuffer EXCEPT !.op = "request", !.target = "gateway"]
  /\ UNCHANGED <<nic, pic, handlers, buffers, transmitRegister, accepted>>

Check ==
  /\ Main("check", IF MaySend(transmitRegister) THEN "copy" ELSE "done")
  /\ UNCHANGED <<nic, pic, handlers, txVars>>

Copy ==
  /\ Main("copy", "start")
  /\ buffers' = [buffers EXCEPT ![transmitRegister] = packetBuffer]
  /\ UNCHANGED <<nic, pic, handlers, packetBuffer, transmitRegister, accepted>>

Start ==
  /\ Main("start", "advance")
  /\ nic' = HandOver(nic, transmitRegister)
  /\ accepted' = Append(accepted, packetBuffer)
  /\ UNCHANGED <<pic, handlers, packetBuffer, buffers, transmitRegister>>

Advance ==
  /\ Main("advance", "done")
  /\ transmitRegister' = NextRegister(transmitRegister)
  /\ UNCHANGED <<nic, pic, handlers, packetBuffer, buffers, accepted>>

MainStep == \/ Reset \/ Enable \/ SetHandler \/ Ethernet_CreatePacket \/ FillRequest
            \/ Check \/ Copy \/ Start \/ Advance

Runs == ~crossed /\ Garbage \notin ToSet(handled)

Next == /\ Runs
        /\ \/ \E f \in Frames : Arrive(f)
           \/ Transmit \/ Interrupt \/ RTL8139_IRQHandler \/ MainStep

\* The main context goes on, interrupts are taken, the card sends.
Fairness == /\ WF_vars(Runs /\ MainStep) /\ WF_vars(Runs /\ Interrupt)
            /\ WF_vars(Runs /\ RTL8139_IRQHandler) /\ WF_vars(Runs /\ Transmit)

Spec == Init /\ [][Next]_vars /\ Fairness

-----------------------------------------------------------------------------
TypeOK ==
  /\ curOffset \in 0..(RX_BUFFER_SIZE - 1) /\ curOffset % 4 = 0
  /\ transmitRegister \in Registers
  /\ nic.isr \subseteq {TOK, ROK} /\ nic.cbr \in 0..(RingSize - 1)
  /\ pic.requested \union pic.inService \subseteq Lines
  /\ (status = Idle) = (pic.inService = {})

\* The handler takes packets out of the ring whole, each once, in the order in
\* which the card has put them there (lines 39 to 62), however many of them
\* share an interrupt.
PacketsInOrder == IsPrefix(handled, stored)

\* Frames leave whole and in the order in which they were handed over: what was
\* accepted is what is on the wire and what the card still has (lines 134 to
\* 147).  A reply in the middle of ARP_SendRequest breaks this; the model
\* ends there.
InCard ==
  LET busy == { r \in Registers : ~nic.own[r] }
  IN [k \in 1..Cardinality(busy) |-> buffers[(nic.next + k - 1) % TRANSMIT_REG_COUNT]]
FramesLeaveInOrder == accepted = sent \o InCard

\* Every interrupt of the card is served and its line goes down again, unless
\* one came before RTL8139_Init had set the handler (lines 119 to 123).
InterruptsServed == Asserted(nic) ~> (~Asserted(nic) \/ early \/ ~Runs)
=============================================================================
