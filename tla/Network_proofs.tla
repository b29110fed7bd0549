--------------------------- MODULE Network_proofs ---------------------------
(***************************************************************************)
(* For every number of transmit registers, every size of the rings and     *)
(* whatever frames arrive: the types are right, and frames leave whole and *)
(* in order.  Up to the end of the first turn of the ring, packets are     *)
(* taken out of it whole and in order.                                     *)
(***************************************************************************)
EXTENDS Network, FiniteSetTheorems, SequenceTheorems, TLAPS

-----------------------------------------------------------------------------
(***************************************************************************)
(* Arithmetic.                                                             *)
(***************************************************************************)
LEMMA Remainder ==
  ASSUME NEW n \in Int, NEW d \in Nat \ {0}
  PROVE  n % d \in 0..(d - 1) /\ n \div d \in Int /\ n = d * (n \div d) + (n % d)
OBVIOUS

LEMMA RemainderIs ==
  ASSUME NEW n \in Int, NEW d \in Nat \ {0}
  PROVE  /\ n \in 0..(d - 1) => n % d = n
         /\ n \in d..(2 * d - 1) => n % d = n - d
         /\ n \in (0 - d)..(0 - 1) => n % d = n + d
<1> PICK q, r : q = n \div d /\ r = n % d
  OBVIOUS
<1>1. r \in 0..(d - 1) /\ q \in Int /\ n = d * q + r
  BY Remainder
<1>2. CASE q >= 2
  <2>1. d * q >= 2 * d
    <3>1. d * (q - 2) >= 0 /\ d * (q - 2) = d * q - 2 * d
      BY <1>1, <1>2
    <3> QED BY <1>1, <3>1
  <2> QED BY <1>1, <2>1
<1>3. CASE q <= 0 - 2
  <2>1. d * q <= 0 - 2 * d
    <3>1. d * (0 - 2 - q) >= 0 /\ d * (0 - 2 - q) = 0 - 2 * d - d * q
      BY <1>1, <1>3
    <3> QED BY <1>1, <3>1
  <2> QED BY <1>1, <2>1
<1>4. CASE q = 0 \/ q = 1 \/ q = 0 - 1
  <2>1. q = 0 => n = r
    BY <1>1
  <2>2. q = 1 => n = d + r
    BY <1>1
  <2>3. q = 0 - 1 => n = r - d
    BY <1>1
  <2> QED BY <1>1, <1>4, <2>1, <2>2, <2>3
<1> QED BY <1>1, <1>2, <1>3, <1>4

LEMMA Words ==
  ASSUME NEW n \in Int, n % 4 = 0, NEW d \in Nat \ {0}, d % 4 = 0
  PROVE  (n % d) % 4 = 0
<1>1. PICK q \in Int, r \in Int : r = n % d /\ n = d * q + r
  BY Remainder
<1>2. PICK a \in Int, b \in Int : n = 4 * a /\ d = 4 * b
  <2>1. n = 4 * (n \div 4) /\ d = 4 * (d \div 4)
    OBVIOUS
  <2> QED BY <2>1
<1>3. d * q = 4 * (b * q) /\ b * q \in Int
  BY <1>2
<1>4. PICK e \in Int, z \in Int : e = b * q /\ z = a - e
  BY <1>3
<1>5. PICK m \in Int : m = d * q
  OBVIOUS
<1>6. m = 4 * e /\ n = m + r
  BY <1>1, <1>3, <1>4, <1>5
<1>7. r = 4 * z
  BY <1>2, <1>4, <1>6
<1>8. (4 * z) % 4 = 0
  OBVIOUS
<1> QED BY <1>1, <1>7, <1>8

\* Rounding up to a word.
LEMMA Within ==
  ASSUME NEW n \in Nat, NEW d \in Nat \ {0}, n < d
  PROVE  n % d = n
<1>1. n \in 0..(d - 1) /\ n \in Int
  OBVIOUS
<1> QED BY <1>1, RemainderIs, Zenon

LEMMA AlignIs ==
  ASSUME NEW n \in Nat
  PROVE  /\ Align(n) \in Nat /\ Align(n) % 4 = 0 /\ n <= Align(n)
         /\ \A p \in Nat : p % 4 = 0 => Align(p + n) = p + Align(n)
BY DEF Align

-----------------------------------------------------------------------------
(***************************************************************************)
(* The types.                                                              *)
(***************************************************************************)
Places == {"none", "all", "gateway"} \union { f.from : f \in Frames }
Packet == [dest : Places, op : {"none", "request", "reply"}, target : Places]

CardType ==
  [receiving : BOOLEAN, enabled : SUBSET {TOK, ROK}, isr : SUBSET {TOK, ROK},
   cbr : 0..(RingSize - 1), capr : Int, own : [Registers -> BOOLEAN], next : Registers]

\* The lines that are in service while the handler runs.
Serving == {NicLine} \union (IF NicLine \in Slave THEN {Cascade} ELSE {})

PicType ==
  [requested : SUBSET Lines, inService : {{}, Serving}, mask : SUBSET Lines]

Types ==
  /\ curOffset \in 0..(RX_BUFFER_SIZE - 1) /\ curOffset % 4 = 0
  /\ transmitRegister \in Registers
  /\ nic \in CardType /\ pic \in PicType
  /\ status = Idle \/ status \subseteq {TOK, ROK}
  /\ (status = Idle) <=> (pic.inService = {})
  /\ stored \in Seq(Frames)
  /\ rx \in [0..(RX_BUFFER_SIZE - 1) -> (0..Len(stored)) \X Nat]
  /\ packetBuffer \in Packet /\ buffers \in [Registers -> Packet]
  /\ accepted \in Seq(Packet) /\ sent \in Seq(Packet)

LEMMA SizesAre ==
  /\ RingSize \in Nat \ {0} /\ RX_BUFFER_SIZE \in Nat \ {0} /\ TRANSMIT_REG_COUNT \in Nat \ {0}
  /\ RX_BUFFER_SIZE % 4 = 0 /\ RingSize <= RX_BUFFER_SIZE
  /\ NicLine \in Lines /\ Serving # {} /\ Serving \subseteq Lines
  /\ Registers = 0 .. (TRANSMIT_REG_COUNT - 1) /\ 0 \in Registers
<1>1. RingSize \in Nat \ {0} /\ RX_BUFFER_SIZE \in Nat /\ RX_BUFFER_SIZE >= RingSize /\ RX_BUFFER_SIZE % 4 = 0
  BY SizesAssumption
<1>2. TRANSMIT_REG_COUNT \in Nat \ {0}
  BY SizesAssumption
<1>3. NicLine \in Lines /\ Cascade \in Lines
  BY LineAssumption DEF Cascade, Lines
<1>4. Serving # {} /\ Serving \subseteq Lines
  BY <1>3 DEF Serving
<1>5. Registers = 0 .. (TRANSMIT_REG_COUNT - 1) /\ 0 \in Registers
  BY <1>2 DEF Registers
<1> QED BY <1>1, <1>2, <1>3, <1>4, <1>5

LEMMA NextRegisterIs ==
  ASSUME NEW r \in Registers
  PROVE  /\ NextRegister(r) \in Registers
         /\ NextRegister(r) = IF r + 1 < TRANSMIT_REG_COUNT THEN r + 1 ELSE 0
<1>1. TRANSMIT_REG_COUNT \in Nat \ {0} /\ r \in 0 .. (TRANSMIT_REG_COUNT - 1)
  BY SizesAre
<1>2. CASE r + 1 < TRANSMIT_REG_COUNT
  <2>0. PICK m \in Int : m = r + 1
    BY <1>1
  <2>1. m % TRANSMIT_REG_COUNT = m
    <3>1. m \in 0 .. (TRANSMIT_REG_COUNT - 1)
      BY <1>1, <1>2, <2>0
    <3> QED BY <1>1, <3>1, RemainderIs, Zenon
  <2> QED BY <1>1, <1>2, <2>0, <2>1 DEF NextRegister, Registers
<1>3. CASE ~(r + 1 < TRANSMIT_REG_COUNT)
  <2>0. r + 1 = TRANSMIT_REG_COUNT
    BY <1>1, <1>3
  <2>1. TRANSMIT_REG_COUNT % TRANSMIT_REG_COUNT = 0
    BY <1>1, RemainderIs
  <2> QED BY <1>1, <2>0, <2>1 DEF NextRegister, Registers
<1> QED BY <1>2, <1>3

(***************************************************************************)
(* The controllers: an end of interrupt ends the service of the card.      *)
(***************************************************************************)
LEMMA EndServiceIs ==
  ASSUME NEW line \in Int
  PROVE  EndService({line}) = {} /\ EndService({}) = {}
<1>1. Min({line}) = line
  BY DEF Min
<1> QED BY <1>1 DEF EndService

LEMMA ServiceEnds ==
  ASSUME NEW p, p.inService = Serving
  PROVE  i686_PIC_SendEOI(p, NicLine) = [p EXCEPT !.inService = {}]
<1>1. NicLine \in Int /\ NicLine \in Lines
  BY LineAssumption DEF Lines
<1>2. CASE NicLine \in Slave
  <2>1. Cascade \notin Slave /\ Cascade \in Int
    BY DEF Cascade, Slave
  <2>2. Serving \intersect Slave = {NicLine} /\ Serving \ Slave = {Cascade}
    BY <1>2, <2>1 DEF Serving
  <2>3. EndService({NicLine}) = {} /\ EndService({Cascade}) = {}
    BY <1>1, <2>1, EndServiceIs
  <2> QED BY <1>2, <2>2, <2>3 DEF i686_PIC_SendEOI
<1>3. CASE NicLine \notin Slave
  <2>2. Serving \intersect Slave = {} /\ Serving \ Slave = {NicLine}
    BY <1>3 DEF Serving
  <2>3. EndService({NicLine}) = {}
    BY <1>1, EndServiceIs
  <2> QED BY <1>3, <2>2, <2>3 DEF i686_PIC_SendEOI
<1> QED BY <1>2, <1>3

LEMMA ServiceBegins ==
  ASSUME NEW p \in PicType, p.inService = {}
  PROVE  /\ Acknowledge(p, NicLine) \in PicType /\ Acknowledge(p, NicLine).inService = Serving
         /\ i686_PIC_SendEOI(Acknowledge(p, NicLine), NicLine) \in PicType
         /\ i686_PIC_SendEOI(Acknowledge(p, NicLine), NicLine).inService = {}
<1>1. PICK q : q = Acknowledge(p, NicLine)
  OBVIOUS
<1>2. q = [p EXCEPT !.requested = p.requested \ {NicLine}, !.inService = Serving]
  BY <1>1 DEF Acknowledge, Serving, PicType
<1>3. q \in PicType /\ q.inService = Serving
  BY <1>2 DEF PicType
<1>4. i686_PIC_SendEOI(q, NicLine) = [q EXCEPT !.inService = {}]
  BY <1>3, ServiceEnds
<1>5. i686_PIC_SendEOI(q, NicLine) \in PicType /\ i686_PIC_SendEOI(q, NicLine).inService = {}
  BY <1>3, <1>4 DEF PicType
<1> QED BY <1>1, <1>3, <1>5

LEMMA EdgeLatched ==
  ASSUME Types, LatchEdge
  PROVE  pic' \in PicType /\ pic'.inService = pic.inService
<1>1. pic \in PicType /\ NicLine \in Lines
  BY SizesAre DEF Types
<1>2. pic' = pic \/ pic' = [pic EXCEPT !.requested = pic.requested \union {NicLine}]
  BY DEF LatchEdge, Raise
<1> QED BY <1>1, <1>2 DEF PicType

-----------------------------------------------------------------------------
(***************************************************************************)
(* The types are inductive.                                                *)
(***************************************************************************)
\* What takes a packet out of the ring: the frame that lies at an offset.
LEMMA FrameIs ==
  ASSUME Types, NEW o \in 0..(RX_BUFFER_SIZE - 1), FrameAt(o) # Garbage
  PROVE  /\ IsHeader(o) /\ rx[o][1] \in 1..Len(stored)
         /\ FrameAt(o) \in Frames /\ LengthAt(o) \in Nat
<1>1. IsHeader(o) /\ FrameAt(o) = stored[rx[o][1]]
  BY DEF FrameAt
<1>2. rx[o] \in (0..Len(stored)) \X Nat /\ stored \in Seq(Frames)
  BY DEF Types
<1>3. rx[o][1] \in 1..Len(stored)
  BY <1>1, <1>2 DEF IsHeader
<1>4. stored[rx[o][1]] \in Frames
  BY <1>2, <1>3, ElementOfSeq
<1>5. LengthAt(o) \in Nat
  BY <1>4, FramesAssumption DEF LengthAt
<1> QED BY <1>1, <1>3, <1>4, <1>5

LEMMA OffsetMoves ==
  ASSUME NEW o \in 0..(RX_BUFFER_SIZE - 1), NEW length \in Nat
  PROVE  NextOffset(o, length) \in 0..(RX_BUFFER_SIZE - 1) /\ NextOffset(o, length) % 4 = 0
<1>1. PICK n \in Nat : n = o + length + 4
  BY SizesAre
<1>2. PICK a \in Nat : a = Align(n) /\ a % 4 = 0
  BY AlignIs
<1>3. a % RX_BUFFER_SIZE \in 0..(RX_BUFFER_SIZE - 1) /\ (a % RX_BUFFER_SIZE) % 4 = 0
  <2>1. RX_BUFFER_SIZE \in Nat \ {0} /\ RX_BUFFER_SIZE % 4 = 0 /\ a \in Int /\ a % 4 = 0
    BY <1>2, SizesAre
  <2>2. a % RX_BUFFER_SIZE \in 0..(RX_BUFFER_SIZE - 1)
    BY <2>1, Remainder
  <2>3. (a % RX_BUFFER_SIZE) % 4 = 0
    BY <2>1, Words
  <2> QED BY <2>2, <2>3
<1> QED BY <1>1, <1>2, <1>3 DEF NextOffset

LEMMA SendTypes ==
  ASSUME Types, NEW card \in CardType, NEW frame \in Packet, SendPacket(card, frame)
  PROVE  /\ nic' \in CardType /\ packetBuffer' \in Packet /\ buffers' \in [Registers -> Packet]
         /\ transmitRegister' \in Registers /\ accepted' \in Seq(Packet)
<1>1. PICK r \in Registers : r = transmitRegister
  BY DEF Types
<1>2. CASE MaySend(r)
  <2>1. /\ packetBuffer' = frame /\ buffers' = [buffers EXCEPT ![r] = frame]
        /\ nic' = HandOver(card, r) /\ transmitRegister' = NextRegister(r)
        /\ accepted' = Append(accepted, frame)
    BY <1>1, <1>2 DEF SendPacket
  <2>2. nic' \in CardType
    BY <2>1 DEF HandOver, CardType
  <2> QED BY <2>1, <2>2, NextRegisterIs, AppendProperties DEF Types
<1>3. CASE ~MaySend(r)
  <2>1. packetBuffer' = frame /\ nic' = card /\ UNCHANGED <<buffers, transmitRegister, accepted>>
    BY <1>1, <1>3 DEF SendPacket
  <2> QED BY <2>1 DEF Types
<1> QED BY <1>2, <1>3

LEMMA ReplyIs ==
  ASSUME NEW f \in Frames
  PROVE  ReplyTo(f.from) \in Packet
<1>1. f.from \in Places
  BY DEF Places
<1> QED BY <1>1 DEF ReplyTo, Packet

\* The receive side stays as it is.
LEMMA NothingReceived ==
  ASSUME Types, UNCHANGED rxVars
  PROVE  /\ curOffset' \in 0..(RX_BUFFER_SIZE - 1) /\ curOffset' % 4 = 0
         /\ stored' \in Seq(Frames)
         /\ rx' \in [0..(RX_BUFFER_SIZE - 1) -> (0..Len(stored')) \X Nat]
BY DEF Types, rxVars

LEMMA ArriveTypes ==
  ASSUME Types, NEW f \in Frames, Arrive(f)
  PROVE  Types'
<1>1. /\ rx' = Written(Len(stored) + 1, f.length)
      /\ nic' = [nic EXCEPT !.cbr = Align(@ + f.length + 4) % RingSize, !.isr = @ \union {ROK}]
      /\ stored' = Append(stored, f) /\ LatchEdge
      /\ UNCHANGED <<status, curOffset, packetBuffer, buffers, transmitRegister, accepted, sent>>
  BY DEF Arrive, txVars
<1>2. stored' \in Seq(Frames) /\ Len(stored') = Len(stored) + 1 /\ Len(stored) \in Nat
  <2>1. stored \in Seq(Frames)
    BY DEF Types
  <2> QED BY <1>1, <2>1, AppendProperties, LenProperties
<1>3. f.length \in Nat
  BY FramesAssumption
<1>4. nic' \in CardType
  <2>1. PICK c \in 0..(RingSize - 1) : c = Align(nic.cbr + f.length + 4) % RingSize
    <3>1. PICK n \in Nat : n = nic.cbr + f.length + 4
      <4>1. nic.cbr \in 0..(RingSize - 1) /\ RingSize \in Nat
        BY SizesAre DEF Types, CardType
      <4>2. nic.cbr \in Nat
        BY <4>1
      <4> QED BY <1>3, <4>2
    <3>2. Align(n) \in Int
      BY AlignIs
    <3>3. Align(n) % RingSize \in 0..(RingSize - 1)
      BY <3>2, SizesAre, Remainder
    <3> QED BY <3>1, <3>3
  <2>2. nic' = [nic EXCEPT !.cbr = c, !.isr = nic.isr \union {ROK}]
    BY <1>1, <2>1 DEF Types, CardType
  <2> QED BY <2>2 DEF Types, CardType
<1>5. rx' \in [0..(RX_BUFFER_SIZE - 1) -> (0..Len(stored')) \X Nat]
  <2>1. DOMAIN rx = 0..(RX_BUFFER_SIZE - 1)
    BY DEF Types
  <2>2. PICK n : n = Len(stored) + 1
    OBVIOUS
  <2>3. rx' = [o \in 0..(RX_BUFFER_SIZE - 1) |->
                 IF o < RingSize /\ (o - nic.cbr) % RingSize < f.length + 4
                 THEN <<n, (o - nic.cbr) % RingSize>> ELSE rx[o]]
    BY <1>1, <2>1, <2>2 DEF Written
  <2>4. ASSUME NEW o \in 0..(RX_BUFFER_SIZE - 1)
        PROVE  rx'[o] \in (0..Len(stored')) \X Nat
    <3>1. PICK d \in Int : d = o - nic.cbr
      BY SizesAre DEF Types, CardType
    <3>2. d % RingSize \in Nat
      BY SizesAre, Remainder
    <3>3. rx[o] \in (0..Len(stored)) \X Nat
      BY DEF Types
    <3>4. n \in 0..Len(stored')
      BY <1>2, <2>2
    <3>5. rx'[o] = <<n, d % RingSize>> \/ rx'[o] = rx[o]
      BY <2>3, <3>1
    <3>6. <<n, d % RingSize>> \in (0..Len(stored')) \X Nat
      BY <3>2, <3>4
    <3>7. rx[o] \in (0..Len(stored')) \X Nat
      BY <1>2, <3>3
    <3> QED BY <3>5, <3>6, <3>7
  <2> QED BY <2>3, <2>4
<1>6. pic' \in PicType /\ pic'.inService = pic.inService
  BY <1>1, EdgeLatched
<1> QED BY <1>1, <1>2, <1>4, <1>5, <1>6 DEF Types

LEMMA TransmitTypes ==
  ASSUME Types, Transmit
  PROVE  Types'
<1>1. PICK r \in Registers : r = nic.next
  BY DEF Types, CardType
<1>2. /\ sent' = Append(sent, buffers[r])
      /\ nic' = [nic EXCEPT !.own[r] = TRUE, !.isr = @ \union {TOK},
                            !.next = (@ + 1) % TRANSMIT_REG_COUNT]
      /\ LatchEdge
      /\ UNCHANGED <<status, rxVars, packetBuffer, buffers, transmitRegister, accepted>>
  BY <1>1 DEF Transmit, txVars
<1>3. sent' \in Seq(Packet)
  BY <1>2, AppendProperties DEF Types
<1>4. nic' \in CardType
  <2>1. PICK n \in Registers : n = NextRegister(r)
    BY NextRegisterIs
  <2>2. nic' = [nic EXCEPT !.own = [nic.own EXCEPT ![r] = TRUE], !.isr = nic.isr \union {TOK}, !.next = n]
    BY <1>1, <1>2, <2>1 DEF NextRegister, Types, CardType
  <2>3. [nic.own EXCEPT ![r] = TRUE] \in [Registers -> BOOLEAN]
    BY DEF Types, CardType
  <2> QED BY <2>2, <2>3 DEF Types, CardType
<1>5. pic' \in PicType /\ pic'.inService = pic.inService
  BY <1>2, EdgeLatched
<1>6. /\ curOffset' \in 0..(RX_BUFFER_SIZE - 1) /\ curOffset' % 4 = 0
      /\ stored' \in Seq(Frames)
      /\ rx' \in [0..(RX_BUFFER_SIZE - 1) -> (0..Len(stored')) \X Nat]
  BY <1>2, NothingReceived
<1> QED BY <1>2, <1>3, <1>4, <1>5, <1>6 DEF Types

LEMMA InterruptTypes ==
  ASSUME Types, Interrupt
  PROVE  Types'
<1>1. /\ status = Idle /\ UNCHANGED <<nic, rxVars, packetBuffer, buffers, transmitRegister, accepted, sent>>
      /\ \/ status' = nic.isr /\ pic' = Acknowledge(pic, NicLine)
         \/ status' = status /\ pic' = i686_PIC_SendEOI(Acknowledge(pic, NicLine), NicLine)
  BY DEF Interrupt, txVars
<1>2. pic \in PicType /\ pic.inService = {}
  BY <1>1 DEF Types
<1>3. nic.isr \subseteq {TOK, ROK} /\ nic.isr # Idle
  BY DEF Types, CardType, TOK, ROK, Idle
<1>4. /\ pic' \in PicType
      /\ (status' = Idle) <=> (pic'.inService = {})
      /\ status' = Idle \/ status' \subseteq {TOK, ROK}
  BY <1>1, <1>2, <1>3, ServiceBegins, SizesAre
<1>5. /\ curOffset' \in 0..(RX_BUFFER_SIZE - 1) /\ curOffset' % 4 = 0
      /\ stored' \in Seq(Frames)
      /\ rx' \in [0..(RX_BUFFER_SIZE - 1) -> (0..Len(stored')) \X Nat]
  BY <1>1, NothingReceived
<1>6. /\ transmitRegister' \in Registers /\ nic' \in CardType
      /\ packetBuffer' \in Packet /\ buffers' \in [Registers -> Packet]
      /\ accepted' \in Seq(Packet) /\ sent' \in Seq(Packet)
  BY <1>1 DEF Types
<1> QED BY <1>4, <1>5, <1>6 DEF Types

LEMMA HandlerTypes ==
  ASSUME Types, RTL8139_IRQHandler
  PROVE  Types'
<1>1. PICK o \in 0..(RX_BUFFER_SIZE - 1) : o = curOffset
  BY DEF Types
<1>2. PICK card : card = [nic EXCEPT !.isr = @ \ Acknowledged]
  OBVIOUS
<1>3. card \in CardType
  BY <1>2 DEF Types, CardType
<1>4. status # Idle /\ status' = Idle /\ pic' = i686_PIC_SendEOI(pic, NicLine) /\ sent' = sent
  BY DEF RTL8139_IRQHandler
<1>5. pic' \in PicType /\ pic'.inService = {}
  <2>1. pic \in PicType /\ pic.inService = Serving
    BY <1>4 DEF Types, PicType
  <2>2. pic' = [pic EXCEPT !.inService = {}]
    BY <1>4, <2>1, ServiceEnds
  <2> QED BY <2>1, <2>2 DEF PicType
<1>6. CASE ~TakesPacket(status)
  <2>1. nic' = card /\ UNCHANGED <<rxVars, packetBuffer, buffers, transmitRegister, accepted>>
    BY <1>2, <1>6 DEF RTL8139_IRQHandler, txVars
  <2>2. /\ curOffset' \in 0..(RX_BUFFER_SIZE - 1) /\ curOffset' % 4 = 0
        /\ stored' \in Seq(Frames)
        /\ rx' \in [0..(RX_BUFFER_SIZE - 1) -> (0..Len(stored')) \X Nat]
    BY <2>1, NothingReceived
  <2> QED BY <1>3, <1>4, <1>5, <2>1, <2>2 DEF Types
<1>7. CASE TakesPacket(status) /\ (FrameAt(o) = Garbage \/ crossed')
  <2>1. UNCHANGED <<nic, curOffset, packetBuffer, buffers, transmitRegister, accepted, rx, stored>>
    BY <1>1, <1>7 DEF RTL8139_IRQHandler, txVars
  <2> QED BY <1>4, <1>5, <2>1 DEF Types
<1>8. CASE TakesPacket(status) /\ FrameAt(o) # Garbage /\ ~crossed'
  <2>1. PICK next : next = NextOffset(o, LengthAt(o))
    OBVIOUS
  <2>2. next \in 0..(RX_BUFFER_SIZE - 1) /\ next % 4 = 0 /\ FrameAt(o) \in Frames
    BY <1>8, <2>1, FrameIs, OffsetMoves
  <2>3. curOffset' = next /\ rx' = rx /\ stored' = stored
    BY <1>1, <1>8, <2>1 DEF RTL8139_IRQHandler
  <2>4. PICK moved : moved = [card EXCEPT !.capr = next - 16]
    OBVIOUS
  <2>5. moved \in CardType
    <3>1. next - 16 \in Int
      BY <2>2, SizesAre
    <3> QED BY <1>3, <2>4, <3>1 DEF CardType
  <2>6. \/ SendPacket(moved, ReplyTo(FrameAt(o).from))
        \/ nic' = moved /\ UNCHANGED <<packetBuffer, buffers, transmitRegister, accepted>>
    BY <1>1, <1>2, <1>8, <2>1, <2>4 DEF RTL8139_IRQHandler, txVars
  <2>7. /\ nic' \in CardType /\ packetBuffer' \in Packet /\ buffers' \in [Registers -> Packet]
        /\ transmitRegister' \in Registers /\ accepted' \in Seq(Packet)
    <3>1. ReplyTo(FrameAt(o).from) \in Packet
      BY <2>2, ReplyIs
    <3>2. CASE SendPacket(moved, ReplyTo(FrameAt(o).from))
      BY <2>5, <3>1, <3>2, SendTypes
    <3>3. CASE nic' = moved /\ UNCHANGED <<packetBuffer, buffers, transmitRegister, accepted>>
      BY <2>5, <3>3 DEF Types
    <3> QED BY <2>6, <3>2, <3>3
  <2>8. rx' \in [0..(RX_BUFFER_SIZE - 1) -> (0..Len(stored')) \X Nat] /\ stored' \in Seq(Frames)
    BY <2>3 DEF Types
  <2> QED BY <1>4, <1>5, <2>2, <2>3, <2>7, <2>8 DEF Types
<1> QED BY <1>6, <1>7, <1>8

LEMMA MainTypes ==
  ASSUME Types, MainStep
  PROVE  Types'
<1>1. UNCHANGED <<status, rxVars, sent>>
  BY DEF MainStep, Main, Reset, Enable, SetHandler, Ethernet_CreatePacket, FillRequest,
         Check, Copy, Start, Advance
<1>2. pic' = pic
  BY DEF MainStep, Reset, Enable, SetHandler, Ethernet_CreatePacket, FillRequest,
         Check, Copy, Start, Advance
<1>3. nic' \in CardType
  <2>1. \/ nic' = nic \/ nic' = [nic EXCEPT !.enabled = {TOK, ROK}]
        \/ nic' = [nic EXCEPT !.receiving = TRUE] \/ nic' = HandOver(nic, transmitRegister)
    BY DEF MainStep, Reset, Enable, SetHandler, Ethernet_CreatePacket, FillRequest,
           Check, Copy, Start, Advance
  <2>2. HandOver(nic, transmitRegister) \in CardType
    BY DEF HandOver, Types, CardType
  <2>3. nic \in CardType
    BY DEF Types
  <2>4. [nic EXCEPT !.enabled = {TOK, ROK}] \in CardType /\ [nic EXCEPT !.receiving = TRUE] \in CardType
    BY <2>3 DEF CardType
  <2> QED BY <2>1, <2>2, <2>3, <2>4
<1>4. packetBuffer' \in Packet
  <2>1. packetBuffer \in Packet /\ {"all", "gateway"} \subseteq Places
    BY DEF Types, Places
  <2>2. \/ packetBuffer' = packetBuffer
        \/ packetBuffer' = [packetBuffer EXCEPT !.dest = "all"]
        \/ packetBuffer' = [packetBuffer EXCEPT !.op = "request", !.target = "gateway"]
    BY DEF MainStep, Reset, Enable, SetHandler, Ethernet_CreatePacket, FillRequest,
           Check, Copy, Start, Advance, txVars
  <2> QED BY <2>1, <2>2 DEF Packet
<1>5. buffers' \in [Registers -> Packet]
  <2>1. buffers' = buffers \/ buffers' = [buffers EXCEPT ![transmitRegister] = packetBuffer]
    BY DEF MainStep, Reset, Enable, SetHandler, Ethernet_CreatePacket, FillRequest,
           Check, Copy, Start, Advance, txVars
  <2> QED BY <2>1 DEF Types
<1>6. transmitRegister' \in Registers
  <2>1. transmitRegister' = transmitRegister \/ transmitRegister' = NextRegister(transmitRegister)
    BY DEF MainStep, Reset, Enable, SetHandler, Ethernet_CreatePacket, FillRequest,
           Check, Copy, Start, Advance, txVars
  <2> QED BY <2>1, NextRegisterIs DEF Types
<1>7. accepted' \in Seq(Packet)
  <2>1. accepted' = accepted \/ accepted' = Append(accepted, packetBuffer)
    BY DEF MainStep, Reset, Enable, SetHandler, Ethernet_CreatePacket, FillRequest,
           Check, Copy, Start, Advance, txVars
  <2>2. accepted \in Seq(Packet) /\ packetBuffer \in Packet
    BY DEF Types
  <2>3. Append(accepted, packetBuffer) \in Seq(Packet)
    BY <2>2, AppendProperties
  <2> QED BY <2>1, <2>2, <2>3
<1>8. /\ curOffset' \in 0..(RX_BUFFER_SIZE - 1) /\ curOffset' % 4 = 0
      /\ stored' \in Seq(Frames)
      /\ rx' \in [0..(RX_BUFFER_SIZE - 1) -> (0..Len(stored')) \X Nat]
  BY <1>1, NothingReceived
<1> QED BY <1>1, <1>2, <1>3, <1>4, <1>5, <1>6, <1>7, <1>8 DEF Types

LEMMA TypesStep ==
  ASSUME Types, [Next]_vars
  PROVE  Types'
<1>1. CASE UNCHANGED vars
  BY <1>1 DEF vars, rxVars, txVars, Types
<1>2. ASSUME NEW f \in Frames, Arrive(f) PROVE Types'
  BY <1>2, ArriveTypes
<1>3. CASE Transmit
  BY <1>3, TransmitTypes
<1>4. CASE Interrupt
  BY <1>4, InterruptTypes
<1>5. CASE RTL8139_IRQHandler
  BY <1>5, HandlerTypes
<1>6. CASE MainStep
  BY <1>6, MainTypes
<1> QED BY <1>1, <1>2, <1>3, <1>4, <1>5, <1>6 DEF Next

LEMMA InitTypes ==
  ASSUME Init
  PROVE  Types
<1>1. curOffset \in 0..(RX_BUFFER_SIZE - 1) /\ curOffset % 4 = 0 /\ transmitRegister \in Registers
  BY SizesAre DEF Init
<1>2. nic \in CardType
  <2>1. 0 \in 0..(RingSize - 1) /\ 0 \in Registers /\ -16 \in Int
    BY SizesAre
  <2> QED BY <2>1 DEF Init, CardType
<1>3. pic \in PicType /\ pic.inService = {}
  <2>1. pic = [requested |-> {}, inService |-> {}, mask |-> {0}]
    BY DEF Init, i686_PIC_SetMask, i686_PIC_Remap
  <2>2. 0 \in Lines
    BY DEF Lines
  <2> QED BY <2>1, <2>2 DEF PicType
<1>4. stored \in Seq(Frames) /\ Len(stored) = 0 /\ accepted \in Seq(Packet) /\ sent \in Seq(Packet)
  BY DEF Init
<1>5. rx \in [0..(RX_BUFFER_SIZE - 1) -> (0..Len(stored)) \X Nat]
  <2>1. Blank \in (0..0) \X Nat
    BY DEF Blank
  <2> QED BY <1>4, <2>1 DEF Init
<1>6. packetBuffer \in Packet /\ buffers \in [Registers -> Packet]
  <2>1. None \in Packet
    BY DEF None, Packet, Places
  <2> QED BY <2>1 DEF Init
<1>7. status = Idle
  BY DEF Init
<1> QED BY <1>1, <1>2, <1>3, <1>4, <1>5, <1>6, <1>7 DEF Types

\* The types are right: the driver's offset stays inside its buffer and on a word,
\* and an interrupt is in service exactly while the handler runs.
THEOREM TypeCorrect == Spec => []TypeOK
<1>1. Init => Types
  BY InitTypes
<1>2. Types /\ [Next]_vars => Types'
  BY TypesStep
<1>3. Types => TypeOK
  <2> SUFFICES ASSUME Types PROVE TypeOK
    OBVIOUS
  <2>1. pic.requested \union pic.inService \subseteq Lines
    BY SizesAre DEF Types, PicType
  <2>2. nic.isr \subseteq {TOK, ROK} /\ nic.cbr \in 0..(RingSize - 1)
    BY DEF Types, CardType
  <2>3. (status = Idle) = (pic.inService = {})
    BY DEF Types
  <2> QED BY <2>1, <2>2, <2>3 DEF Types, TypeOK
<1> QED BY <1>1, <1>2, <1>3, PTL DEF Spec

-----------------------------------------------------------------------------
(***************************************************************************)
(* The transmit registers form a ring.                                     *)
(***************************************************************************)
\* The register k places behind x, and how far r lies behind x.
Place(x, k) == IF x + k < TRANSMIT_REG_COUNT THEN x + k ELSE x + k - TRANSMIT_REG_COUNT
Distance(x, r) == IF x <= r THEN r - x ELSE r - x + TRANSMIT_REG_COUNT

LEMMA RingIs ==
  ASSUME NEW x \in Registers
  PROVE  /\ \A k \in 0..TRANSMIT_REG_COUNT : Place(x, k) \in Registers
         /\ \A k \in 0..(TRANSMIT_REG_COUNT - 1) :
              /\ Distance(x, Place(x, k)) = k
              /\ NextRegister(Place(x, k)) = Place(x, k + 1)
              /\ Place(NextRegister(x), k) = Place(x, k + 1)
         /\ \A r \in Registers : /\ Distance(x, r) \in 0..(TRANSMIT_REG_COUNT - 1)
                                 /\ Place(x, Distance(x, r)) = r
                                 /\ Distance(NextRegister(x), r) =
                                      IF r = x THEN TRANSMIT_REG_COUNT - 1 ELSE Distance(x, r) - 1
         /\ Place(x, TRANSMIT_REG_COUNT) = x
<1>1. TRANSMIT_REG_COUNT \in Nat \ {0} /\ \A r : r \in Registers <=> r \in Nat /\ r < TRANSMIT_REG_COUNT
  BY SizesAre
<1>2. \A r \in Registers : NextRegister(r) = IF r + 1 < TRANSMIT_REG_COUNT THEN r + 1 ELSE 0
  BY NextRegisterIs
<1>3. \A k \in 0..TRANSMIT_REG_COUNT : Place(x, k) \in Registers
  BY <1>1 DEF Place
<1>4. \A k \in 0..(TRANSMIT_REG_COUNT - 1) :
        /\ Distance(x, Place(x, k)) = k
        /\ NextRegister(Place(x, k)) = Place(x, k + 1)
        /\ Place(NextRegister(x), k) = Place(x, k + 1)
  BY <1>1, <1>2, <1>3 DEF Place, Distance
<1>5. \A r \in Registers : /\ Distance(x, r) \in 0..(TRANSMIT_REG_COUNT - 1)
                           /\ Place(x, Distance(x, r)) = r
                           /\ Distance(NextRegister(x), r) =
                                IF r = x THEN TRANSMIT_REG_COUNT - 1 ELSE Distance(x, r) - 1
  BY <1>1, <1>2 DEF Place, Distance
<1>6. Place(x, TRANSMIT_REG_COUNT) = x
  BY <1>1 DEF Place
<1> QED BY <1>3, <1>4, <1>5, <1>6

\* The driver's register, or the one behind it between handing a buffer over and
\* moving on.
FirstFree == IF pc = "advance" THEN NextRegister(transmitRegister) ELSE transmitRegister

\* The card has n buffers, the next n registers, and they hold what was accepted
\* and is not on the wire.
Has(n) ==
  /\ \A r \in Registers : ~nic.own[r] <=> Distance(nic.next, r) < n
  /\ Cardinality({ r \in Registers : ~nic.own[r] }) = n
  /\ Len(accepted) = Len(sent) + n
  /\ \A j \in 1..Len(sent) : accepted[j] = sent[j]
  /\ \A j \in 1..n : accepted[Len(sent) + j] = buffers[Place(nic.next, j - 1)]
  /\ FirstFree = Place(nic.next, n)

\* In the middle of ARP_SendRequest the register is the driver's, and holds the
\* packet once it is copied.
Sends ==
  /\ pc \in {"copy", "start"} => nic.own[transmitRegister]
  /\ pc = "start" => buffers[transmitRegister] = packetBuffer

Leaving == Sends /\ \E n \in 0..TRANSMIT_REG_COUNT : Has(n)

\* The register the driver is to use next is behind those the card has.
LEMMA FreeRegister ==
  ASSUME Types, NEW n \in 0..TRANSMIT_REG_COUNT, Has(n), pc # "advance", nic.own[transmitRegister]
  PROVE  /\ n < TRANSMIT_REG_COUNT /\ transmitRegister = Place(nic.next, n)
         /\ \A j \in 1..n : Place(nic.next, j - 1) # transmitRegister
<1>1. nic.next \in Registers /\ transmitRegister \in Registers /\ TRANSMIT_REG_COUNT \in Nat \ {0}
  BY SizesAre DEF Types, CardType
<1>2. transmitRegister = Place(nic.next, n)
  BY DEF Has, FirstFree
<1>3. n < TRANSMIT_REG_COUNT
  <2>1. ~(Distance(nic.next, transmitRegister) < n)
    BY <1>1 DEF Has
  <2>2. Distance(nic.next, transmitRegister) < TRANSMIT_REG_COUNT
    <3>1. Distance(nic.next, transmitRegister) \in 0..(TRANSMIT_REG_COUNT - 1)
      BY <1>1, RingIs
    <3> QED BY <1>1, <3>1
  <2> QED BY <1>1, <2>1, <2>2
<1>4. ASSUME NEW j \in 1..n PROVE Place(nic.next, j - 1) # transmitRegister
  <2>1. j - 1 \in 0..(TRANSMIT_REG_COUNT - 1) /\ n \in 0..(TRANSMIT_REG_COUNT - 1)
    BY <1>1, <1>3
  <2>2. Distance(nic.next, Place(nic.next, j - 1)) = j - 1 /\ Distance(nic.next, Place(nic.next, n)) = n
    BY <1>1, <2>1, RingIs
  <2> QED BY <1>2, <2>2
<1> QED BY <1>2, <1>3, <1>4

\* A buffer is handed over: what it holds is accepted last.
LEMMA HandedOver ==
  ASSUME Types, NEW n \in 0..TRANSMIT_REG_COUNT, Has(n), pc # "advance",
         NEW r, r = transmitRegister, nic.own[r],
         nic'.own = [nic.own EXCEPT ![r] = FALSE], nic'.next = nic.next, sent' = sent,
         \A q \in Registers \ {r} : buffers'[q] = buffers[q],
         NEW frame \in Packet, buffers'[r] = frame, accepted' = Append(accepted, frame),
         FirstFree' = NextRegister(r)
  PROVE  \E m \in 0..TRANSMIT_REG_COUNT : Has(m)'
<1>1. r \in Registers /\ nic.next \in Registers /\ nic.own \in [Registers -> BOOLEAN]
  BY DEF Types, CardType
<1>2. PICK x \in Registers : x = nic.next
  BY <1>1
<1>3. /\ n + 1 \in 0..TRANSMIT_REG_COUNT /\ n \in 0..(TRANSMIT_REG_COUNT - 1) /\ r = Place(x, n)
      /\ \A j \in 1..n : Place(x, j - 1) \in Registers \ {r}
  <2>1. n < TRANSMIT_REG_COUNT /\ r = Place(x, n) /\ \A j \in 1..n : Place(x, j - 1) # r
    BY <1>2, FreeRegister
  <2>2. TRANSMIT_REG_COUNT \in Nat
    BY SizesAre
  <2>3. \A j \in 1..n : j - 1 \in 0..TRANSMIT_REG_COUNT
    BY <2>1, <2>2
  <2>4. \A j \in 1..n : Place(x, j - 1) \in Registers
    BY <2>3, RingIs
  <2> QED BY <2>1, <2>2, <2>4
<1>4. \A q \in Registers : ~nic'.own[q] <=> Distance(nic'.next, q) < n + 1
  <2> SUFFICES ASSUME NEW q \in Registers PROVE ~nic'.own[q] <=> Distance(x, q) < n + 1
    BY <1>2
  <2>1. Distance(x, q) \in Int /\ Distance(x, r) = n
    BY <1>1, <1>3, RingIs
  <2>2. CASE q = r
    BY <1>1, <2>1, <2>2
  <2>3. CASE q # r
    <3>1. nic'.own[q] = nic.own[q]
      BY <1>1, <2>3
    <3>2. Distance(x, q) # n
      BY <1>3, <2>3, RingIs
    <3>3. ~nic.own[q] <=> Distance(x, q) < n
      BY <1>2 DEF Has
    <3> QED BY <2>1, <3>1, <3>2, <3>3
  <2> QED BY <2>2, <2>3
<1>5. Cardinality({ q \in Registers : ~nic'.own[q] }) = n + 1
  <2> DEFINE busy == { q \in Registers : ~nic.own[q] }
  <2>1. { q \in Registers : ~nic'.own[q] } = busy \union {r} /\ r \notin busy
    BY <1>1
  <2>2. IsFiniteSet(busy)
    <3>1. IsFiniteSet(Registers)
      BY SizesAre, FS_Interval
    <3> QED BY <3>1, FS_Subset
  <2>3. Cardinality(busy) = n
    BY DEF Has
  <2> HIDE DEF busy
  <2> QED BY <2>1, <2>2, <2>3, FS_AddElement
<1>6. accepted \in Seq(Packet) /\ sent \in Seq(Packet) /\ Len(accepted) \in Nat /\ Len(sent) \in Nat
  BY LenProperties DEF Types
<1>7. /\ Len(accepted') = Len(accepted) + 1 /\ accepted'[Len(accepted) + 1] = frame
      /\ \A j \in 1..Len(accepted) : accepted'[j] = accepted[j]
  BY <1>6, AppendProperties
<1>8. Len(accepted) = Len(sent) + n
  BY DEF Has
<1>9. Len(accepted') = Len(sent') + (n + 1)
  BY <1>6, <1>7, <1>8
<1>10. ASSUME NEW j \in 1..Len(sent') PROVE accepted'[j] = sent'[j]
  <2>1. j \in 1..Len(accepted)
    BY <1>6, <1>8
  <2>2. accepted[j] = sent[j]
    BY DEF Has
  <2> QED BY <1>7, <2>1, <2>2
<1>11. ASSUME NEW j \in 1..(n + 1)
       PROVE  accepted'[Len(sent') + j] = buffers'[Place(nic'.next, j - 1)]
  <2>1. CASE j = n + 1
    <3>1. Len(sent') + j = Len(accepted) + 1 /\ j - 1 = n
      BY <1>6, <1>8, <2>1
    <3>2. buffers'[Place(nic'.next, j - 1)] = frame
      BY <1>2, <1>3, <3>1
    <3> QED BY <1>7, <3>1, <3>2
  <2>2. CASE j # n + 1
    <3>1. j \in 1..n /\ Len(sent) + j \in 1..Len(accepted)
      BY <1>6, <1>8, <2>2
    <3>2. accepted[Len(sent) + j] = buffers[Place(x, j - 1)]
      BY <1>2, <3>1 DEF Has
    <3>3. buffers'[Place(x, j - 1)] = buffers[Place(x, j - 1)]
      BY <1>3, <3>1
    <3> QED BY <1>2, <1>7, <3>1, <3>2, <3>3
  <2> QED BY <2>1, <2>2
<1>12. FirstFree' = Place(nic'.next, n + 1)
  BY <1>2, <1>3, RingIs
<1>13. Has(n + 1)'
  BY <1>4, <1>5, <1>9, <1>10, <1>11, <1>12 DEF Has
<1> QED BY <1>3, <1>13

\* The card sends its first buffer.
LEMMA TransmitStep ==
  ASSUME Types, Leaving, Transmit
  PROVE  Leaving'
<1>1. PICK n \in 0..TRANSMIT_REG_COUNT : Has(n)
  BY DEF Leaving
<1>2. PICK x \in Registers : x = nic.next
  BY DEF Types, CardType
<1>3. /\ ~nic.own[x] /\ sent' = Append(sent, buffers[x])
      /\ nic'.own = [nic.own EXCEPT ![x] = TRUE] /\ nic'.next = NextRegister(x)
      /\ UNCHANGED <<pc, packetBuffer, buffers, transmitRegister, accepted>>
  BY <1>2 DEF Transmit, NextRegister, Types, CardType, txVars
<1>4. nic.own \in [Registers -> BOOLEAN] /\ TRANSMIT_REG_COUNT \in Nat \ {0}
  BY SizesAre DEF Types, CardType
<1>5. n > 0 /\ n - 1 \in 0..(TRANSMIT_REG_COUNT - 1)
  <2>1. Distance(x, x) < n
    BY <1>1, <1>2, <1>3 DEF Has
  <2>2. Distance(x, x) \in 0..(TRANSMIT_REG_COUNT - 1)
    BY RingIs
  <2> QED BY <1>4, <2>1, <2>2
<1>6. \A r \in Registers : ~nic'.own[r] <=> Distance(nic'.next, r) < n - 1
  <2> SUFFICES ASSUME NEW r \in Registers PROVE ~nic'.own[r] <=> Distance(nic'.next, r) < n - 1
    OBVIOUS
  <2>1. /\ Distance(x, r) \in Int
        /\ Distance(nic'.next, r) = IF r = x THEN TRANSMIT_REG_COUNT - 1 ELSE Distance(x, r) - 1
    BY <1>3, RingIs
  <2>2. ~nic.own[r] <=> Distance(x, r) < n
    BY <1>1, <1>2 DEF Has
  <2>3. CASE r = x
    BY <1>3, <1>4, <1>5, <2>1, <2>3
  <2>4. CASE r # x
    <3>1. nic'.own[r] = nic.own[r]
      BY <1>3, <1>4, <2>4
    <3> QED BY <1>5, <2>1, <2>2, <2>4, <3>1
  <2> QED BY <2>3, <2>4
<1>7. Cardinality({ r \in Registers : ~nic'.own[r] }) = n - 1
  <2> DEFINE busy == { r \in Registers : ~nic.own[r] }
  <2>1. { r \in Registers : ~nic'.own[r] } = busy \ {x} /\ x \in busy
    BY <1>3, <1>4
  <2>2. IsFiniteSet(busy)
    <3>1. IsFiniteSet(Registers)
      BY SizesAre, FS_Interval
    <3> QED BY <3>1, FS_Subset
  <2>3. Cardinality(busy) = n
    BY <1>1 DEF Has
  <2> HIDE DEF busy
  <2> QED BY <2>1, <2>2, <2>3, FS_RemoveElement
<1>8. accepted \in Seq(Packet) /\ sent \in Seq(Packet) /\ buffers[x] \in Packet
  BY DEF Types
<1>9. /\ Len(sent') = Len(sent) + 1 /\ sent'[Len(sent) + 1] = buffers[x] /\ Len(sent) \in Nat
      /\ \A j \in 1..Len(sent) : sent'[j] = sent[j]
  BY <1>3, <1>8, AppendProperties, LenProperties
<1>10. /\ Len(accepted) = Len(sent) + n
       /\ \A j \in 1..Len(sent) : accepted[j] = sent[j]
       /\ \A j \in 1..n : accepted[Len(sent) + j] = buffers[Place(x, j - 1)]
  BY <1>1, <1>2 DEF Has
<1>11. Len(accepted') = Len(sent') + (n - 1)
  BY <1>3, <1>5, <1>9, <1>10
<1>12. \A j \in 1..Len(sent') : accepted'[j] = sent'[j]
  <2>1. accepted[Len(sent) + 1] = buffers[x]
    <3>1. 1 \in 1..n /\ 1 - 1 = 0 /\ Place(x, 0) = x
      BY <1>5, SizesAre DEF Place
    <3> QED BY <1>10, <3>1
  <2> QED BY <1>3, <1>9, <1>10, <2>1
<1>13. ASSUME NEW j \in 1..(n - 1)
       PROVE  accepted'[Len(sent') + j] = buffers'[Place(nic'.next, j - 1)]
  <2>1. j + 1 \in 1..n /\ j - 1 \in 0..(TRANSMIT_REG_COUNT - 1) /\ (j + 1) - 1 = (j - 1) + 1
    BY <1>4, <1>5
  <2>2. Place(nic'.next, j - 1) = Place(x, (j - 1) + 1)
    BY <1>3, <2>1, RingIs
  <2>3. Len(sent') + j = Len(sent) + (j + 1)
    BY <1>9
  <2>4. accepted[Len(sent) + (j + 1)] = buffers[Place(x, (j + 1) - 1)]
    BY <1>10, <2>1
  <2> QED BY <1>3, <2>1, <2>2, <2>3, <2>4
<1>14. FirstFree' = Place(nic'.next, n - 1)
  <2>1. FirstFree' = Place(x, n)
    BY <1>1, <1>2, <1>3 DEF Has, FirstFree
  <2>2. Place(nic'.next, n - 1) = Place(x, (n - 1) + 1) /\ (n - 1) + 1 = n
    BY <1>3, <1>5, RingIs
  <2> QED BY <2>1, <2>2
<1>15. Has(n - 1)'
  BY <1>6, <1>7, <1>11, <1>12, <1>13, <1>14 DEF Has
<1>16. Sends'
  <2>1. \A r \in Registers : nic.own[r] => nic'.own[r]
    BY <1>3, <1>4
  <2>2. transmitRegister \in Registers
    BY DEF Types
  <2> QED BY <1>3, <2>1, <2>2 DEF Leaving, Sends
<1> QED BY <1>4, <1>5, <1>15, <1>16 DEF Leaving

\* The registers and what lies in them stay as they are.
LEMMA LeavingSame ==
  ASSUME Leaving, nic'.own = nic.own, nic'.next = nic.next, FirstFree' = FirstFree,
         UNCHANGED <<buffers, accepted, sent>>, Sends'
  PROVE  Leaving'
<1>1. PICK n \in 0..TRANSMIT_REG_COUNT : Has(n)
  BY DEF Leaving
<1>2. Has(n)'
  BY <1>1 DEF Has
<1> QED BY <1>2 DEF Leaving

\* An answer is sent while ARP_SendRequest does not run.
LEMMA ReplyStep ==
  ASSUME Types, Leaving, pc' = pc, ~InSend, sent' = sent,
         NEW card, card.own = nic.own, card.next = nic.next, card \in CardType,
         NEW frame \in Packet, SendPacket(card, frame)
  PROVE  Leaving'
<1>1. PICK r \in Registers : r = transmitRegister
  BY DEF Types
<1>2. Sends'
  BY DEF Sends, InSend
<1>3. pc # "advance" /\ FirstFree = transmitRegister /\ FirstFree' = transmitRegister'
  BY DEF InSend, FirstFree
<1>4. CASE MaySend(r)
  <2>1. /\ buffers' = [buffers EXCEPT ![r] = frame] /\ nic' = HandOver(card, r)
        /\ transmitRegister' = NextRegister(r) /\ accepted' = Append(accepted, frame)
    BY <1>1, <1>4 DEF SendPacket
  <2>2. nic'.own = [nic.own EXCEPT ![r] = FALSE] /\ nic'.next = nic.next
    BY <2>1 DEF HandOver, CardType
  <2>3. buffers \in [Registers -> Packet]
    BY DEF Types
  <2>4. buffers'[r] = frame /\ \A q \in Registers \ {r} : buffers'[q] = buffers[q]
    BY <2>1, <2>3
  <2>5. nic.own[r]
    BY <1>4 DEF MaySend
  <2>6. PICK n \in 0..TRANSMIT_REG_COUNT : Has(n)
    BY DEF Leaving
  <2>7. \E m \in 0..TRANSMIT_REG_COUNT : Has(m)'
    BY <1>1, <1>3, <2>1, <2>2, <2>4, <2>5, <2>6, HandedOver
  <2> QED BY <1>2, <2>7 DEF Leaving
<1>5. CASE ~MaySend(r)
  <2>1. nic' = card /\ UNCHANGED <<buffers, transmitRegister, accepted>>
    BY <1>1, <1>5 DEF SendPacket
  <2> QED BY <1>2, <1>3, <2>1, LeavingSame
<1> QED BY <1>4, <1>5

LEMMA HandlerStep ==
  ASSUME Types, Leaving, RTL8139_IRQHandler
  PROVE  Leaving'
<1>1. PICK o \in 0..(RX_BUFFER_SIZE - 1) : o = curOffset
  BY DEF Types
<1>2. PICK card : card = [nic EXCEPT !.isr = @ \ Acknowledged]
  OBVIOUS
<1>3. card \in CardType /\ card.own = nic.own /\ card.next = nic.next
  BY <1>2 DEF Types, CardType
<1>4. pc' = pc /\ sent' = sent
  BY DEF RTL8139_IRQHandler
<1>5. ASSUME nic' = nic \/ nic' = card, UNCHANGED <<packetBuffer, buffers, transmitRegister, accepted>>
      PROVE  Leaving'
  <2>1. nic'.own = nic.own /\ nic'.next = nic.next /\ FirstFree' = FirstFree
    BY <1>3, <1>4, <1>5 DEF FirstFree
  <2>2. Sends'
    BY <1>4, <1>5, <2>1 DEF Leaving, Sends
  <2> QED BY <1>4, <1>5, <2>1, <2>2, LeavingSame
<1>6. CASE ~TakesPacket(status)
  BY <1>2, <1>5, <1>6 DEF RTL8139_IRQHandler, txVars
<1>7. CASE TakesPacket(status) /\ (FrameAt(o) = Garbage \/ crossed')
  BY <1>1, <1>5, <1>7 DEF RTL8139_IRQHandler, txVars
<1>8. CASE TakesPacket(status) /\ FrameAt(o) # Garbage /\ ~crossed'
  <2>1. PICK next : next = NextOffset(o, LengthAt(o))
    OBVIOUS
  <2>2. next \in 0..(RX_BUFFER_SIZE - 1) /\ FrameAt(o) \in Frames
    BY <1>8, <2>1, FrameIs, OffsetMoves
  <2>3. PICK moved : moved = [card EXCEPT !.capr = next - 16]
    OBVIOUS
  <2>4. moved \in CardType /\ moved.own = nic.own /\ moved.next = nic.next
    <3>1. next - 16 \in Int
      BY <2>2, SizesAre
    <3> QED BY <1>3, <2>3, <3>1 DEF CardType
  <2>5. CASE Answered(FrameAt(o))
    <3>1. SendPacket(moved, ReplyTo(FrameAt(o).from)) /\ ~InSend
      BY <1>1, <1>2, <1>8, <2>1, <2>3, <2>5 DEF RTL8139_IRQHandler
    <3>2. ReplyTo(FrameAt(o).from) \in Packet
      BY <2>2, ReplyIs
    <3> QED BY <1>4, <2>4, <3>1, <3>2, ReplyStep
  <2>6. CASE ~Answered(FrameAt(o))
    <3>1. nic' = moved /\ UNCHANGED <<packetBuffer, buffers, transmitRegister, accepted>>
      BY <1>1, <1>2, <1>8, <2>1, <2>3, <2>6 DEF RTL8139_IRQHandler, txVars
    <3>2. FirstFree' = FirstFree /\ Sends'
      BY <1>4, <2>4, <3>1 DEF FirstFree, Leaving, Sends
    <3> QED BY <1>4, <2>4, <3>1, <3>2, LeavingSame
  <2> QED BY <2>5, <2>6
<1> QED BY <1>6, <1>7, <1>8

LEMMA MainLeaves ==
  ASSUME Types, Leaving, MainStep
  PROVE  Leaving'
<1>0. sent' = sent /\ transmitRegister \in Registers /\ nic.own \in [Registers -> BOOLEAN]
  BY DEF MainStep, Main, Reset, Enable, SetHandler, Ethernet_CreatePacket, FillRequest,
         Check, Copy, Start, Advance, Types, CardType
<1>1. ASSUME Reset \/ Enable \/ SetHandler \/ Ethernet_CreatePacket \/ FillRequest \/ Check
      PROVE  Leaving'
  <2>1. /\ nic'.own = nic.own /\ nic'.next = nic.next
        /\ UNCHANGED <<buffers, transmitRegister, accepted>>
    BY <1>1 DEF Reset, Enable, SetHandler, Ethernet_CreatePacket, FillRequest, Check,
                txVars, Types, CardType
  <2>2. pc # "advance" /\ pc' \notin {"advance", "start"} /\ (pc' = "copy" => nic.own[transmitRegister])
    BY <1>1 DEF Main, Reset, Enable, SetHandler, Ethernet_CreatePacket, FillRequest, Check, MaySend
  <2>3. FirstFree' = FirstFree /\ Sends'
    BY <2>1, <2>2 DEF FirstFree, Sends
  <2> QED BY <1>0, <2>1, <2>3, LeavingSame
<1>2. CASE Copy
  <2>1. /\ buffers' = [buffers EXCEPT ![transmitRegister] = packetBuffer]
        /\ UNCHANGED <<nic, packetBuffer, transmitRegister, accepted>>
        /\ pc = "copy" /\ pc' = "start"
    BY <1>2 DEF Copy, Main
  <2>2. nic.own[transmitRegister]
    BY <2>1 DEF Leaving, Sends
  <2>3. PICK n \in 0..TRANSMIT_REG_COUNT : Has(n)
    BY DEF Leaving
  <2>4. buffers'[transmitRegister] = packetBuffer
        /\ \A q \in Registers : q # transmitRegister => buffers'[q] = buffers[q]
    BY <1>0, <2>1 DEF Types
  <2>5. \A j \in 1..n : Place(nic.next, j - 1) # transmitRegister /\ Place(nic.next, j - 1) \in Registers
    <3>1. \A j \in 1..n : Place(nic.next, j - 1) # transmitRegister
      BY <2>1, <2>2, <2>3, FreeRegister
    <3>2. nic.next \in Registers /\ TRANSMIT_REG_COUNT \in Nat
      BY SizesAre DEF Types, CardType
    <3>3. \A j \in 1..n : j - 1 \in 0..TRANSMIT_REG_COUNT
      BY <3>2
    <3> QED BY <3>1, <3>2, <3>3, RingIs
  <2>6. FirstFree' = FirstFree
    BY <2>1 DEF FirstFree
  <2>7. Has(n)'
    BY <1>0, <2>1, <2>3, <2>4, <2>5, <2>6 DEF Has
  <2>8. Sends'
    BY <2>1, <2>2, <2>4 DEF Sends
  <2> QED BY <2>7, <2>8 DEF Leaving
<1>3. CASE Start
  <2>1. /\ nic' = HandOver(nic, transmitRegister) /\ accepted' = Append(accepted, packetBuffer)
        /\ UNCHANGED <<packetBuffer, buffers, transmitRegister>>
        /\ pc = "start" /\ pc' = "advance"
    BY <1>3 DEF Start, Main
  <2>2. nic.own[transmitRegister] /\ buffers[transmitRegister] = packetBuffer
    BY <2>1 DEF Leaving, Sends
  <2>3. nic'.own = [nic.own EXCEPT ![transmitRegister] = FALSE] /\ nic'.next = nic.next
    BY <2>1 DEF HandOver, Types, CardType
  <2>4. PICK n \in 0..TRANSMIT_REG_COUNT : Has(n)
    BY DEF Leaving
  <2>5. FirstFree' = NextRegister(transmitRegister)
    BY <2>1 DEF FirstFree
  <2>6. packetBuffer \in Packet
    BY DEF Types
  <2>7. PICK r : r = transmitRegister
    OBVIOUS
  <2>8. \E m \in 0..TRANSMIT_REG_COUNT : Has(m)'
    BY <1>0, <2>1, <2>2, <2>3, <2>4, <2>5, <2>6, <2>7, HandedOver
  <2> QED BY <2>1, <2>8 DEF Leaving, Sends
<1>4. CASE Advance
  <2>1. /\ transmitRegister' = NextRegister(transmitRegister)
        /\ UNCHANGED <<nic, packetBuffer, buffers, accepted>>
        /\ pc = "advance" /\ pc' = "done"
    BY <1>4 DEF Advance, Main
  <2>2. FirstFree' = FirstFree /\ Sends'
    BY <2>1 DEF FirstFree, Sends
  <2> QED BY <1>0, <2>1, <2>2, LeavingSame
<1> QED BY <1>1, <1>2, <1>3, <1>4 DEF MainStep

LEMMA LeavingStep ==
  ASSUME Types, Leaving, [Next]_vars
  PROVE  Leaving'
<1>1. ASSUME UNCHANGED <<pc, nic, packetBuffer, buffers, transmitRegister, accepted, sent>>
      PROVE  Leaving'
  <2>1. FirstFree' = FirstFree /\ Sends'
    BY <1>1 DEF FirstFree, Leaving, Sends
  <2> QED BY <1>1, <2>1, LeavingSame
<1>2. CASE UNCHANGED vars
  BY <1>1, <1>2 DEF vars, txVars
<1>3. ASSUME NEW f \in Frames, Arrive(f) PROVE Leaving'
  <2>1. /\ nic'.own = nic.own /\ nic'.next = nic.next
        /\ UNCHANGED <<pc, packetBuffer, buffers, transmitRegister, accepted, sent>>
    BY <1>3 DEF Arrive, txVars, Types, CardType
  <2>2. FirstFree' = FirstFree /\ Sends'
    BY <2>1 DEF FirstFree, Leaving, Sends
  <2> QED BY <2>1, <2>2, LeavingSame
<1>4. CASE Transmit
  BY <1>4, TransmitStep
<1>5. CASE Interrupt
  BY <1>1, <1>5 DEF Interrupt, txVars
<1>6. CASE RTL8139_IRQHandler
  BY <1>6, HandlerStep
<1>7. CASE MainStep
  BY <1>7, MainLeaves
<1> QED BY <1>2, <1>3, <1>4, <1>5, <1>6, <1>7 DEF Next

LEMMA InitLeaving ==
  ASSUME Init
  PROVE  Leaving
<1>1. /\ TRANSMIT_REG_COUNT \in Nat \ {0} /\ 0 \in Registers
      /\ \A r \in Registers : nic.own[r] = TRUE
  BY SizesAre DEF Init
<1>2. nic.next = 0 /\ transmitRegister = 0 /\ pc = "reset" /\ accepted = <<>> /\ sent = <<>>
  BY DEF Init
<1>3. { r \in Registers : ~nic.own[r] } = {}
  BY <1>1
<1>4. Cardinality({ r \in Registers : ~nic.own[r] }) = 0
  BY <1>3, FS_EmptySet
<1>5. \A r \in Registers : ~nic.own[r] <=> Distance(nic.next, r) < 0
  <2> SUFFICES ASSUME NEW r \in Registers PROVE ~(Distance(0, r) < 0)
    BY <1>1, <1>2
  <2>1. Distance(0, r) \in 0..(TRANSMIT_REG_COUNT - 1)
    BY <1>1, RingIs
  <2> QED BY <1>1, <2>1
<1>6. FirstFree = Place(nic.next, 0)
  BY <1>1, <1>2 DEF FirstFree, Place
<1>7. Has(0)
  BY <1>2, <1>4, <1>5, <1>6 DEF Has
<1> QED BY <1>1, <1>2, <1>7 DEF Leaving, Sends

\* Frames leave whole and in the order in which they were handed to the card, from
\* the main context and from the interrupt handler, until a reply falls into the
\* middle of ARP_SendRequest.
THEOREM FramesLeaveWhole == Spec => []FramesLeaveInOrder
<1>1. Init => Types /\ Leaving
  BY InitTypes, InitLeaving
<1>2. Types /\ Leaving /\ [Next]_vars => (Types /\ Leaving)'
  BY TypesStep, LeavingStep
<1>3. Types /\ Leaving => FramesLeaveInOrder
  <2> SUFFICES ASSUME Types, Leaving PROVE FramesLeaveInOrder
    OBVIOUS
  <2>1. PICK n \in 0..TRANSMIT_REG_COUNT : Has(n)
    BY DEF Leaving
  <2>2. PICK x \in Registers : x = nic.next
    BY DEF Types, CardType
  <2>3. TRANSMIT_REG_COUNT \in Nat \ {0} /\ n \in Nat
    BY SizesAre
  <2>4. InCard = [j \in 1..n |-> buffers[(x + j - 1) % TRANSMIT_REG_COUNT]]
    BY <2>1, <2>2 DEF Has, InCard
  <2>5. ASSUME NEW j \in 1..n
        PROVE  /\ (x + j - 1) % TRANSMIT_REG_COUNT = Place(x, j - 1)
               /\ buffers[(x + j - 1) % TRANSMIT_REG_COUNT] \in Packet
    <3>1. PICK m \in Int : m = x + j - 1
      BY <2>3, SizesAre
    <3>2. m \in 0..(2 * TRANSMIT_REG_COUNT - 1) /\ x + (j - 1) = m
      BY <2>3, <3>1, SizesAre
    <3>3. Place(x, j - 1) \in Registers
      <4>1. j - 1 \in 0..TRANSMIT_REG_COUNT
        BY <2>3
      <4> QED BY <4>1, RingIs
    <3>4. CASE m < TRANSMIT_REG_COUNT
      <4>1. m \in 0..(TRANSMIT_REG_COUNT - 1)
        BY <2>3, <3>2, <3>4
      <4>2. m % TRANSMIT_REG_COUNT = m
        BY <2>3, <4>1, RemainderIs, Zenon
      <4> QED BY <3>1, <3>2, <3>3, <3>4, <4>2 DEF Place, Types
    <3>5. CASE ~(m < TRANSMIT_REG_COUNT)
      <4>1. m \in TRANSMIT_REG_COUNT..(2 * TRANSMIT_REG_COUNT - 1)
        BY <2>3, <3>2, <3>5
      <4>2. m % TRANSMIT_REG_COUNT = m - TRANSMIT_REG_COUNT
        BY <2>3, <4>1, RemainderIs, Zenon
      <4>3. Place(x, j - 1) = m - TRANSMIT_REG_COUNT
        BY <2>3, <3>1, <3>2, <3>5, SizesAre DEF Place
      <4> QED BY <3>1, <3>3, <4>2, <4>3 DEF Types
    <3> QED BY <3>4, <3>5
  <2>6. InCard \in Seq(Packet) /\ Len(InCard) = n /\ \A j \in 1..n : InCard[j] = buffers[Place(x, j - 1)]
    <3>1. \A j \in 1..n : InCard[j] = buffers[Place(x, j - 1)] /\ InCard[j] \in Packet
      BY <2>4, <2>5
    <3> QED BY <2>3, <2>4, <3>1
  <2>7. accepted \in Seq(Packet) /\ sent \in Seq(Packet)
    BY DEF Types
  <2>8. /\ sent \o InCard \in Seq(Packet) /\ Len(sent \o InCard) = Len(sent) + n
        /\ \A j \in 1..(Len(sent) + n) :
             (sent \o InCard)[j] = IF j <= Len(sent) THEN sent[j] ELSE InCard[j - Len(sent)]
    BY <2>6, <2>7, ConcatProperties
  <2>9. /\ Len(accepted) = Len(sent) + n
        /\ \A j \in 1..Len(sent) : accepted[j] = sent[j]
        /\ \A j \in 1..n : accepted[Len(sent) + j] = InCard[j]
    BY <2>1, <2>2, <2>6 DEF Has
  <2>10. ASSUME NEW j \in 1..Len(accepted) PROVE accepted[j] = (sent \o InCard)[j]
    <3>1. Len(sent) \in Nat
      BY <2>7, LenProperties
    <3>2. j \in 1..(Len(sent) + n)
      BY <2>9
    <3>3. CASE j <= Len(sent)
      BY <2>8, <2>9, <3>1, <3>2, <3>3
    <3>4. CASE ~(j <= Len(sent))
      <4>1. j - Len(sent) \in 1..n /\ Len(sent) + (j - Len(sent)) = j
        BY <2>3, <3>1, <3>2, <3>4
      <4> QED BY <2>8, <2>9, <3>2, <3>4, <4>1
    <3> QED BY <3>3, <3>4
  <2>11. accepted = sent \o InCard
    BY <2>7, <2>8, <2>9, <2>10, SeqEqual
  <2> QED BY <2>11 DEF FramesLeaveInOrder
<1> QED BY <1>1, <1>2, <1>3, PTL DEF Spec

-----------------------------------------------------------------------------
(***************************************************************************)
(* The receive ring, up to the end of its first turn: behind that the code *)
(* does what the run with a small ring shows.                              *)
(***************************************************************************)
\* M bytes hold any frame with its header, and all that arrive fit into the ring.
FitsOneTurn(M) == /\ MaxFrames * M <= RingSize
                  /\ \A f \in Frames : Align(f.length + 4) <= M
OneTurn == \E M \in Nat : FitsOneTurn(M)

Count == Len(stored)

\* Packet k lies at pos[k], and the next one will lie at the end of pos.
Laid(pos, M) ==
  /\ pos \in [1..(Count + 1) -> Nat] /\ pos[1] = 0
  /\ \A k \in 1..(Count + 1) : pos[k] <= pos[Count + 1] /\ pos[k] % 4 = 0
  /\ \A k \in 1..Count : pos[k + 1] = pos[k] + Align(stored[k].length + 4)
  /\ arrived \in 0..MaxFrames /\ pos[Count + 1] + (MaxFrames - arrived) * M <= RingSize
  /\ nic.cbr = pos[Count + 1] % RingSize
  /\ \A k \in 1..Count : \A i \in 0..(stored[k].length + 3) : rx[pos[k] + i] = <<k, i>>

\* The driver has taken the first packets and stands before the next; a cause that
\* is set or was read means that there is one.
Taken(pos) ==
  /\ handled \in Seq(Frames) /\ Len(handled) <= Count
  /\ \A k \in 1..Len(handled) : handled[k] = stored[k]
  /\ Runs => curOffset = pos[Len(handled) + 1] % RX_BUFFER_SIZE
  /\ Runs /\ (ROK \in nic.isr \/ ROK \in status) => Len(handled) < Count

InTurn(M) == crossed \in BOOLEAN /\ \E pos : Laid(pos, M) /\ Taken(pos)

\* What the card writes for packet n lies behind what it has written.
Behind(w, n, length) == /\ \A i \in 0..(length + 3) : w[nic.cbr + i] = <<n, i>>
                        /\ \A o \in 0..(nic.cbr - 1) : w[o] = rx[o]

LEMMA WrittenIs ==
  ASSUME Types, NEW length \in Nat, nic.cbr + length + 4 <= RingSize, NEW n,
         NEW w, w = Written(n, length)
  PROVE  Behind(w, n, length)
<1>1. PICK c \in 0..(RingSize - 1) : c = nic.cbr
  BY DEF Types, CardType
<1>2. RingSize \in Nat \ {0} /\ RingSize <= RX_BUFFER_SIZE /\ RX_BUFFER_SIZE \in Nat
  BY SizesAre
<1>3. w = [o \in 0..(RX_BUFFER_SIZE - 1) |->
             IF o < RingSize /\ (o - c) % RingSize < length + 4
             THEN <<n, (o - c) % RingSize>> ELSE rx[o]]
  <2>1. DOMAIN rx = 0..(RX_BUFFER_SIZE - 1)
    BY DEF Types
  <2> QED BY <1>1, <2>1 DEF Written
<1>4. ASSUME NEW i \in 0..(length + 3) PROVE w[c + i] = <<n, i>>
  <2>1. c + i \in 0..(RX_BUFFER_SIZE - 1) /\ c + i < RingSize /\ (c + i) - c = i
    BY <1>1, <1>2
  <2>2. i \in 0..(RingSize - 1) /\ i < length + 4
    BY <1>1, <1>2
  <2>3. i % RingSize = i
    <3>1. i \in Nat /\ i < RingSize
      BY <1>2, <2>2
    <3> QED BY <1>2, <3>1, Within
  <2> QED BY <1>3, <2>1, <2>2, <2>3
<1>5. ASSUME NEW o \in 0..(c - 1) PROVE w[o] = rx[o]
  <2>1. o \in 0..(RX_BUFFER_SIZE - 1) /\ o - c \in (0 - RingSize)..(0 - 1)
    BY <1>1, <1>2
  <2>2. PICK d \in Int : d = o - c
    BY <2>1
  <2>3. d % RingSize = d + RingSize
    BY <1>2, <2>1, <2>2, RemainderIs
  <2>4. ~(d + RingSize < length + 4)
    BY <1>1, <1>2, <2>2
  <2> QED BY <1>3, <2>1, <2>2, <2>3, <2>4
<1> QED BY <1>1, <1>4, <1>5 DEF Behind

LEMMA ArriveInTurn ==
  ASSUME Types, NEW M \in Nat, FitsOneTurn(M), InTurn(M), NEW f \in Frames, Arrive(f), Runs
  PROVE  InTurn(M)'
<1>1. PICK pos : Laid(pos, M) /\ Taken(pos)
  BY DEF InTurn
<1>2. /\ rx' = Written(Count + 1, f.length) /\ stored' = Append(stored, f)
      /\ arrived < MaxFrames /\ arrived' = arrived + 1
      /\ nic' = [nic EXCEPT !.cbr = Align(@ + f.length + 4) % RingSize, !.isr = @ \union {ROK}]
      /\ UNCHANGED <<status, curOffset, handled, crossed>>
  BY DEF Arrive, Count
<1>3. PICK n \in Nat : n = Count
  BY LenProperties DEF Types, Count
<1>4. /\ Count' = n + 1 /\ stored' \in Seq(Frames) /\ stored'[n + 1] = f
      /\ \A k \in 1..n : stored'[k] = stored[k]
  BY <1>2, <1>3, AppendProperties DEF Types, Count
<1>5. PICK size \in Nat : size = Align(f.length + 4) /\ f.length + 4 <= size /\ size % 4 = 0
  <2>1. f.length + 4 \in Nat
    BY FramesAssumption
  <2> QED BY <2>1, AlignIs
<1>6. PICK end \in Nat : end = pos[n + 1] /\ end % 4 = 0
  BY <1>1, <1>3 DEF Laid
<1>7. PICK left \in Nat : left = MaxFrames - (arrived + 1) /\ arrived + 1 \in 0..MaxFrames
  <2>1. MaxFrames \in Nat /\ arrived \in 0..MaxFrames /\ arrived < MaxFrames
    BY <1>1, <1>2, SizesAssumption DEF Laid
  <2>2. MaxFrames - (arrived + 1) \in Nat /\ arrived + 1 \in 0..MaxFrames
    BY <2>1
  <2> QED BY <2>2
<1>8. end + size + left * M <= RingSize /\ left * M \in Nat
  <2>1. MaxFrames - arrived = left + 1
    BY <1>1, <1>7, SizesAssumption DEF Laid
  <2>2. (left + 1) * M = left * M + M /\ left * M \in Nat
    BY <1>7
  <2>3. end + (left + 1) * M <= RingSize
    BY <1>1, <1>3, <1>6, <2>1 DEF Laid
  <2>4. size <= M
    BY <1>5 DEF FitsOneTurn
  <2>5. PICK m \in Nat : m = left * M
    BY <2>2
  <2> QED BY <2>2, <2>3, <2>4, <2>5, SizesAre
<1>9. nic.cbr = end
  <2>1. nic.cbr = end % RingSize
    BY <1>1, <1>3, <1>6 DEF Laid
  <2>2. RingSize \in Nat \ {0} /\ f.length \in Nat
    BY FramesAssumption, SizesAre
  <2>3. end < RingSize
    <3>1. PICK l \in Nat : l = f.length
      BY <2>2
    <3>2. PICK m \in Nat : m = left * M
      BY <1>8
    <3>3. l + 4 <= size /\ end + size + m <= RingSize
      BY <1>5, <1>8, <3>1, <3>2
    <3> QED BY <1>5, <1>6, <2>2, <3>3
  <2> QED BY <1>6, <2>1, <2>2, <2>3, Within
<1>10. PICK new : new = [k \in 1..(n + 2) |-> IF k = n + 2 THEN end + size ELSE pos[k]]
  OBVIOUS
<1>11. /\ new \in [1..(n + 2) -> Nat] /\ new[n + 2] = end + size
       /\ \A k \in 1..(n + 1) : new[k] = pos[k]
  <2>1. pos \in [1..(n + 1) -> Nat]
    BY <1>1, <1>3 DEF Laid
  <2> QED BY <1>3, <1>5, <1>6, <1>10, <2>1
<1>12. /\ pos \in [1..(n + 1) -> Nat] /\ pos[1] = 0
       /\ \A k \in 1..(n + 1) : pos[k] <= end /\ pos[k] % 4 = 0
       /\ \A k \in 1..n : pos[k + 1] = pos[k] + Align(stored[k].length + 4)
       /\ \A k \in 1..n : \A i \in 0..(stored[k].length + 3) : rx[pos[k] + i] = <<k, i>>
  BY <1>1, <1>3, <1>6 DEF Laid
<1>13. Laid(new, M)'
  <2>1. new \in [1..(Count' + 1) -> Nat] /\ new[1] = 0
    BY <1>3, <1>4, <1>11, <1>12
  <2>2. ASSUME NEW k \in 1..(Count' + 1) PROVE new[k] <= new[Count' + 1] /\ new[k] % 4 = 0
    <3>1. Count' + 1 = n + 2 /\ new[n + 2] = end + size
      BY <1>3, <1>4, <1>11
    <3>2. (end + size) % 4 = 0
      BY <1>5, <1>6
    <3>3. CASE k = n + 2
      BY <1>5, <1>6, <3>1, <3>2, <3>3
    <3>4. CASE k # n + 2
      <4>1. k \in 1..(n + 1)
        BY <1>3, <3>1, <3>4
      <4>2. new[k] = pos[k] /\ pos[k] <= end /\ pos[k] % 4 = 0 /\ pos[k] \in Nat
        BY <1>11, <1>12, <4>1
      <4> QED BY <1>5, <1>6, <3>1, <4>2
    <3> QED BY <3>3, <3>4
  <2>3. ASSUME NEW k \in 1..Count' PROVE new[k + 1] = new[k] + Align(stored'[k].length + 4)
    <3>1. CASE k = n + 1
      <4>1. new[k] = end /\ new[k + 1] = end + size /\ stored'[k] = f
        BY <1>3, <1>4, <1>6, <1>11, <3>1
      <4> QED BY <1>5, <4>1
    <3>2. CASE k # n + 1
      <4>1. k \in 1..n /\ k + 1 \in 1..(n + 1) /\ k \in 1..(n + 1)
        BY <1>3, <1>4, <3>2
      <4> QED BY <1>4, <1>11, <1>12, <4>1
    <3> QED BY <3>1, <3>2
  <2>4. arrived' \in 0..MaxFrames /\ new[Count' + 1] + (MaxFrames - arrived') * M <= RingSize
    <3>1. new[Count' + 1] = end + size
      BY <1>3, <1>4, <1>11
    <3> QED BY <1>2, <1>7, <1>8, <3>1
  <2>5. nic'.cbr = new[Count' + 1] % RingSize
    <3>1. new[Count' + 1] = end + size
      BY <1>3, <1>4, <1>11
    <3>2. nic'.cbr = Align(nic.cbr + f.length + 4) % RingSize
      BY <1>2 DEF Types, CardType
    <3>3. f.length \in Nat /\ nic.cbr + f.length + 4 = end + (f.length + 4)
      BY <1>9, FramesAssumption
    <3>4. Align(end + (f.length + 4)) = end + size
      <4>1. PICK l \in Nat : l = f.length + 4
        BY <3>3
      <4>2. Align(end + l) = end + Align(l)
        BY <1>6, AlignIs
      <4> QED BY <1>5, <4>1, <4>2
    <3> QED BY <3>1, <3>2, <3>3, <3>4
  <2>6. ASSUME NEW k \in 1..Count', NEW i \in 0..(stored'[k].length + 3)
        PROVE  rx'[new[k] + i] = <<k, i>>
    <3>0. /\ \A j \in 0..(f.length + 3) : rx'[end + j] = <<n + 1, j>>
          /\ \A o \in 0..(end - 1) : rx'[o] = rx[o]
      <4>1. PICK l \in Nat : l = f.length
        BY FramesAssumption
      <4>2. nic.cbr + l + 4 <= RingSize
        <5>1. PICK m \in Nat : m = left * M
          BY <1>8
        <5>2. l + 4 <= size /\ end + size + m <= RingSize /\ RingSize \in Nat
          BY <1>5, <1>8, <4>1, <5>1, SizesAre
        <5> QED BY <1>5, <1>6, <1>9, <4>1, <5>1, <5>2
      <4>3. PICK w : w = Written(n + 1, l)
        OBVIOUS
      <4>4. /\ \A j \in 0..(l + 3) : w[nic.cbr + j] = <<n + 1, j>>
            /\ \A o \in 0..(nic.cbr - 1) : w[o] = rx[o]
        <5>1. Behind(w, n + 1, l)
          BY <4>2, <4>3, WrittenIs
        <5> QED BY <5>1 DEF Behind
      <4>5. rx' = w
        BY <1>2, <1>3, <4>1, <4>3
      <4> QED BY <1>9, <4>1, <4>4, <4>5
    <3>1. CASE k = n + 1
      <4>1. new[k] = end /\ stored'[k] = f
        BY <1>3, <1>4, <1>6, <1>11, <3>1
      <4> QED BY <3>0, <3>1, <4>1
    <3>2. CASE k # n + 1
      <4>1. k \in 1..n /\ k + 1 \in 1..(n + 1) /\ k \in 1..(n + 1)
        BY <1>3, <1>4, <3>2
      <4>2. stored'[k] = stored[k] /\ new[k] = pos[k] /\ stored[k] \in Frames
        BY <1>3, <1>4, <1>11, <4>1, ElementOfSeq DEF Types, Count
      <4>3. rx[pos[k] + i] = <<k, i>>
        BY <1>12, <4>1, <4>2
      <4>4. PICK l \in Nat : l = stored[k].length
        BY <4>2, FramesAssumption
      <4>5. pos[k] \in Nat /\ pos[k + 1] <= end /\ pos[k + 1] = pos[k] + Align(l + 4)
        BY <1>12, <4>1, <4>4
      <4>6. l + 4 <= Align(l + 4) /\ Align(l + 4) \in Nat
        <5>1. l + 4 \in Nat
          OBVIOUS
        <5> QED BY <5>1, AlignIs
      <4>7. pos[k] + i \in 0..(end - 1)
        BY <1>6, <4>2, <4>4, <4>5, <4>6
      <4> QED BY <3>0, <4>2, <4>3, <4>7
    <3> QED BY <3>1, <3>2
  <2> QED BY <2>1, <2>2, <2>3, <2>4, <2>5, <2>6 DEF Laid, Count
<1>14. Taken(new)'
  <2>1. /\ handled \in Seq(Frames) /\ Len(handled) <= n /\ Len(handled) \in Nat
        /\ \A k \in 1..Len(handled) : handled[k] = stored[k]
        /\ curOffset = pos[Len(handled) + 1] % RX_BUFFER_SIZE
    BY <1>1, <1>3, LenProperties DEF Taken
  <2>2. \A k \in 1..Len(handled) : handled[k] = stored'[k]
    BY <1>3, <1>4, <2>1
  <2>3. new[Len(handled) + 1] = pos[Len(handled) + 1]
    BY <1>3, <1>11, <2>1
  <2>4. Len(handled) < n + 1
    BY <1>3, <2>1
  <2> QED BY <1>2, <1>3, <1>4, <2>1, <2>2, <2>3, <2>4 DEF Taken, Count
<1> QED BY <1>2, <1>13, <1>14 DEF InTurn

\* Nothing is received and no packet is taken.
LEMMA InTurnSame ==
  ASSUME NEW M, InTurn(M), UNCHANGED <<rx, curOffset, stored, handled, arrived, crossed>>,
         nic'.cbr = nic.cbr, ROK \in nic'.isr \/ ROK \in status' => ROK \in nic.isr \/ ROK \in status
  PROVE  InTurn(M)'
<1>1. PICK pos : Laid(pos, M) /\ Taken(pos)
  BY DEF InTurn
<1>2. Laid(pos, M)'
  BY <1>1 DEF Laid, Count
<1>3. Taken(pos)'
  BY <1>1 DEF Taken, Count, Runs
<1> QED BY <1>2, <1>3 DEF InTurn

\* The next packet is copied whole.
LEMMA NextIsWhole ==
  ASSUME Types, NEW M \in Nat, FitsOneTurn(M), NEW pos, Laid(pos, M), Taken(pos), Runs,
         NEW k, k = Len(handled) + 1, k <= Count
  PROVE  /\ k \in 1..Count /\ FrameAt(curOffset) = stored[k] /\ stored[k] \in Frames
         /\ curOffset = pos[k] /\ LengthAt(curOffset) = stored[k].length
<1>1. k \in 1..Count /\ Count \in Nat /\ stored[k] \in Frames
  <2>1. Count \in Nat /\ Len(handled) \in Nat
    BY LenProperties DEF Types, Count, Taken
  <2>2. k \in 1..Count
    BY <2>1
  <2> QED BY <2>1, <2>2, ElementOfSeq DEF Types, Count
<1>2. PICK l \in Nat : l = stored[k].length
  BY <1>1, FramesAssumption
<1>3. PICK p \in Nat : p = pos[k]
  BY <1>1 DEF Laid
<1>4. p + l + 4 <= RingSize
  <2>1. k + 1 \in 1..(Count + 1)
    BY <1>1
  <2>2. pos[k + 1] = p + Align(l + 4) /\ pos[k + 1] <= pos[Count + 1]
    BY <1>1, <1>2, <1>3, <2>1 DEF Laid
  <2>3. pos[Count + 1] <= RingSize /\ pos[Count + 1] \in Nat
    <3>1. MaxFrames - arrived \in Nat
      BY SizesAssumption DEF Laid
    <3>2. (MaxFrames - arrived) * M \in Nat
      BY <3>1
    <3>3. pos[Count + 1] \in Nat
      BY <1>1 DEF Laid
    <3>4. pos[Count + 1] + (MaxFrames - arrived) * M <= RingSize
      BY DEF Laid
    <3> QED BY <3>2, <3>3, <3>4, SizesAre
  <2>4. Align(l + 4) \in Nat /\ l + 4 <= Align(l + 4)
    <3>1. l + 4 \in Nat
      OBVIOUS
    <3> QED BY <3>1, AlignIs
  <2>5. PICK a \in Nat : a = Align(l + 4)
    BY <2>4
  <2>6. PICK end \in Nat : end = pos[Count + 1]
    BY <2>3
  <2>7. l + 4 <= a /\ p + a <= end /\ end <= RingSize /\ RingSize \in Nat
    BY <2>2, <2>3, <2>4, <2>5, <2>6, SizesAre
  <2> QED BY <2>7
<1>5. curOffset = p
  <2>1. RX_BUFFER_SIZE \in Nat \ {0} /\ RingSize \in Nat /\ RingSize <= RX_BUFFER_SIZE
    BY SizesAre
  <2>2. p % RX_BUFFER_SIZE = p
    <3>1. p < RX_BUFFER_SIZE
      BY <1>4, <2>1
    <3> QED BY <2>1, <3>1, Within
  <2> QED BY <1>3, <2>2 DEF Taken
<1>6. \A i \in 0..(l + 3) : rx[p + i] = <<k, i>>
  BY <1>1, <1>2, <1>3 DEF Laid
<1>7. rx[p] = <<k, 0>>
  <2>1. rx[p + 0] = <<k, 0>>
    BY <1>2, <1>6
  <2> QED BY <1>3, <2>1
<1>8. IsHeader(p) /\ LengthAt(p) = l /\ rx[p][1] = k
  BY <1>1, <1>2, <1>7 DEF IsHeader, LengthAt
<1>9. Copied(p, l) = [i \in 1..l |-> <<k, i + 3>>]
  <2>1. PICK start \in Nat : start = p + 4 /\ start = PkgStart(p)
    BY <1>3 DEF PkgStart
  <2>2. start + l <= RX_BUFFER_SIZE
    <3>1. RX_BUFFER_SIZE \in Nat /\ RingSize \in Nat /\ RingSize <= RX_BUFFER_SIZE
      BY SizesAre
    <3> QED BY <1>4, <2>1, <3>1
  <2>3. Copied(p, l) = [i \in 1..l |-> ByteAt(start + i - 1)]
    BY <2>1, <2>2 DEF Copied
  <2>4. ASSUME NEW i \in 1..l PROVE ByteAt(start + i - 1) = <<k, i + 3>>
    <3>1. start + i - 1 = p + (i + 3) /\ i + 3 \in 0..(l + 3)
      <4>1. i \in Nat /\ 1 <= i /\ i <= l
        OBVIOUS
      <4> QED BY <2>1, <4>1
    <3>2. start + i - 1 \in DOMAIN rx
      <4>1. start + i - 1 \in 0..(RX_BUFFER_SIZE - 1)
        BY <1>2, <2>1, <2>2, SizesAre
      <4> QED BY <4>1 DEF Types
    <3> QED BY <1>6, <3>1, <3>2 DEF ByteAt
  <2> QED BY <2>3, <2>4
<1>10. FrameAt(p) = stored[k]
  BY <1>8, <1>9 DEF FrameAt
<1> QED BY <1>1, <1>2, <1>3, <1>5, <1>8, <1>10

LEMMA HandlerInTurn ==
  ASSUME Types, NEW M \in Nat, FitsOneTurn(M), InTurn(M), RTL8139_IRQHandler, Runs
  PROVE  InTurn(M)'
<1>1. PICK pos : Laid(pos, M) /\ Taken(pos)
  BY DEF InTurn
<1>2. status' = Idle /\ UNCHANGED <<rx, stored, arrived>> /\ ROK \notin Idle
  BY DEF RTL8139_IRQHandler, ROK, Idle, rxVars
<1>3. CASE ~TakesPacket(status)
  <2>1. nic' = [nic EXCEPT !.isr = @ \ Acknowledged] /\ UNCHANGED <<rxVars, crossed>>
    BY <1>3 DEF RTL8139_IRQHandler
  <2>2. nic'.cbr = nic.cbr /\ ROK \notin nic'.isr
    BY <2>1 DEF Types, CardType, Acknowledged
  <2> QED BY <1>2, <2>1, <2>2, InTurnSame DEF rxVars
<1>4. CASE TakesPacket(status)
  <2>1. PICK k : k = Len(handled) + 1
    OBVIOUS
  <2>2. Len(handled) \in Nat /\ Count \in Nat /\ handled \in Seq(Frames)
    BY <1>1, LenProperties DEF Taken, Types, Count
  <2>3. k <= Count
    BY <1>1, <1>4, <2>1, <2>2 DEF Taken, TakesPacket
  <2>4. PICK f \in Frames : f = stored[k] /\ f = FrameAt(curOffset) /\ k \in 1..Count
    BY <1>1, <2>1, <2>3, NextIsWhole
  <2>5. curOffset = pos[k] /\ LengthAt(curOffset) = f.length
    BY <1>1, <2>1, <2>3, <2>4, NextIsWhole
  <2>6. handled' = Append(handled, f) /\ crossed' = (InSend /\ Answered(f))
    BY <1>4, <2>4 DEF RTL8139_IRQHandler
  <2>7. /\ handled' \in Seq(Frames) /\ Len(handled') = k /\ handled'[k] = f
        /\ \A j \in 1..Len(handled) : handled'[j] = handled[j]
    BY <2>1, <2>2, <2>6, AppendProperties
  <2>8. ASSUME NEW j \in 1..Len(handled') PROVE handled'[j] = stored'[j]
    <3>1. CASE j = k
      BY <1>2, <2>4, <2>7, <3>1
    <3>2. CASE j # k
      <4>1. j \in 1..Len(handled)
        BY <2>1, <2>2, <2>7, <3>2
      <4> QED BY <1>1, <1>2, <2>7, <4>1 DEF Taken
    <3> QED BY <3>1, <3>2
  <2>9. f # Garbage
    BY FramesAssumption DEF Garbage
  <2>10. nic'.cbr = nic.cbr
    <3>1. PICK card : card = [nic EXCEPT !.isr = @ \ Acknowledged]
      OBVIOUS
    <3>2. PICK next : next = NextOffset(curOffset, LengthAt(curOffset))
      OBVIOUS
    <3>3. PICK moved : moved = [card EXCEPT !.capr = next - 16]
      OBVIOUS
    <3>4. nic' = nic \/ SendPacket(moved, ReplyTo(f.from)) \/ nic' = moved
      BY <1>4, <2>4, <3>1, <3>2, <3>3 DEF RTL8139_IRQHandler
    <3>5. SendPacket(moved, ReplyTo(f.from)) => nic' = moved \/ nic' = HandOver(moved, transmitRegister)
      BY DEF SendPacket
    <3>6. moved.cbr = nic.cbr /\ HandOver(moved, transmitRegister).cbr = nic.cbr
      BY <3>1, <3>3 DEF HandOver, Types, CardType
    <3> QED BY <3>4, <3>5, <3>6
  <2>11. Laid(pos, M)'
    BY <1>1, <1>2, <2>10 DEF Laid, Count
  <2>12. ASSUME ~crossed' PROVE curOffset' = pos[k + 1] % RX_BUFFER_SIZE /\ ROK \notin nic'.isr
    <3>1. PICK card : card = [nic EXCEPT !.isr = @ \ Acknowledged]
      OBVIOUS
    <3>2. PICK next : next = NextOffset(curOffset, f.length)
      OBVIOUS
    <3>3. PICK moved : moved = [card EXCEPT !.capr = next - 16]
      OBVIOUS
    <3>4. curOffset' = next /\ (SendPacket(moved, ReplyTo(f.from)) \/ nic' = moved)
      BY <1>4, <2>4, <2>5, <2>9, <2>12, <3>1, <3>2, <3>3 DEF RTL8139_IRQHandler
    <3>5. SendPacket(moved, ReplyTo(f.from)) => nic' = moved \/ nic' = HandOver(moved, transmitRegister)
      BY DEF SendPacket
    <3>6. ROK \notin moved.isr /\ ROK \notin HandOver(moved, transmitRegister).isr
      BY <3>1, <3>3 DEF HandOver, Types, CardType, Acknowledged
    <3>7. next = pos[k + 1] % RX_BUFFER_SIZE
      <4>1. PICK l \in Nat : l = f.length + 4 /\ f.length \in Nat
        BY FramesAssumption
      <4>2. pos[k] \in Nat /\ pos[k] % 4 = 0 /\ pos[k + 1] = pos[k] + Align(l)
        <5>1. k \in 1..(Count + 1)
          BY <2>2, <2>4
        <5> QED BY <1>1, <2>4, <4>1, <5>1 DEF Laid
      <4>3. curOffset + f.length + 4 = pos[k] + l
        BY <2>5, <4>1, <4>2
      <4>4. Align(pos[k] + l) = pos[k] + Align(l)
        BY <4>1, <4>2, AlignIs
      <4> QED BY <3>2, <4>2, <4>3, <4>4 DEF NextOffset
    <3> QED BY <3>4, <3>5, <3>6, <3>7
  <2>13. Taken(pos)'
    <3>1. Len(handled') <= Count'
      BY <1>2, <2>3, <2>7 DEF Count
    <3>2. Runs' => ~crossed'
      BY DEF Runs
    <3>3. Runs' => curOffset' = pos[Len(handled') + 1] % RX_BUFFER_SIZE
      BY <2>7, <2>12, <3>2
    <3>4. Runs' => ~(ROK \in nic'.isr \/ ROK \in status')
      BY <1>2, <2>12, <3>2
    <3> QED BY <2>7, <2>8, <3>1, <3>3, <3>4 DEF Taken
  <2>14. crossed' \in BOOLEAN
    BY <2>6
  <2> QED BY <2>11, <2>13, <2>14 DEF InTurn
<1> QED BY <1>3, <1>4

LEMMA InTurnStep ==
  ASSUME Types, NEW M \in Nat, FitsOneTurn(M), InTurn(M), [Next]_vars
  PROVE  InTurn(M)'
<1>1. CASE UNCHANGED vars
  BY <1>1, InTurnSame DEF vars, rxVars
<1>2. ASSUME Runs, NEW f \in Frames, Arrive(f) PROVE InTurn(M)'
  BY <1>2, ArriveInTurn
<1>3. CASE Transmit
  <2>1. UNCHANGED <<rx, curOffset, stored, handled, arrived, crossed, status>>
    BY <1>3 DEF Transmit, rxVars
  <2>2. nic'.cbr = nic.cbr /\ nic'.isr = nic.isr \union {TOK} /\ TOK # ROK
    BY <1>3 DEF Transmit, Types, CardType, TOK, ROK
  <2> QED BY <2>1, <2>2, InTurnSame
<1>4. CASE Interrupt
  <2>1. UNCHANGED <<nic, rx, curOffset, stored, handled, arrived, crossed>>
    BY <1>4 DEF Interrupt, rxVars
  <2>2. status' = nic.isr \/ status' = status
    BY <1>4 DEF Interrupt
  <2> QED BY <2>1, <2>2, InTurnSame
<1>5. CASE Runs /\ RTL8139_IRQHandler
  BY <1>5, HandlerInTurn
<1>6. CASE MainStep
  <2>1. UNCHANGED <<rx, curOffset, stored, handled, arrived, crossed, status>>
    BY <1>6 DEF MainStep, Main, Reset, Enable, SetHandler, Ethernet_CreatePacket, FillRequest,
                Check, Copy, Start, Advance, rxVars
  <2>2. \/ nic' = nic \/ nic' = [nic EXCEPT !.enabled = {TOK, ROK}]
        \/ nic' = [nic EXCEPT !.receiving = TRUE] \/ nic' = HandOver(nic, transmitRegister)
    BY <1>6 DEF MainStep, Reset, Enable, SetHandler, Ethernet_CreatePacket, FillRequest,
                Check, Copy, Start, Advance
  <2>3. nic'.cbr = nic.cbr /\ nic'.isr = nic.isr
    BY <2>2 DEF HandOver, Types, CardType
  <2> QED BY <2>1, <2>3, InTurnSame
<1> QED BY <1>1, <1>2, <1>3, <1>4, <1>5, <1>6 DEF Next

LEMMA InitInTurn ==
  ASSUME Init, NEW M \in Nat, FitsOneTurn(M)
  PROVE  InTurn(M)
<1>1. Count = 0 /\ stored = <<>> /\ handled = <<>> /\ arrived = 0 /\ crossed = FALSE /\ curOffset = 0
  BY DEF Init, Count
<1>2. nic.cbr = 0 /\ nic.isr = {} /\ status = Idle /\ ROK \notin Idle
  BY DEF Init, ROK, Idle
<1>3. PICK pos : pos = [k \in 1..1 |-> 0]
  OBVIOUS
<1>4. 0 % RingSize = 0 /\ 0 % RX_BUFFER_SIZE = 0
  <2>1. RingSize \in Nat \ {0} /\ RX_BUFFER_SIZE \in Nat \ {0}
    BY SizesAre
  <2> QED BY <2>1, Within
<1>5. Laid(pos, M)
  <2>1. pos \in [1..(Count + 1) -> Nat] /\ pos[1] = 0
    BY <1>1, <1>3
  <2>2. \A k \in 1..(Count + 1) : pos[k] <= pos[Count + 1] /\ pos[k] % 4 = 0
    BY <1>1, <1>3
  <2>3. arrived \in 0..MaxFrames /\ pos[Count + 1] + (MaxFrames - arrived) * M <= RingSize
    <3>1. MaxFrames \in Nat /\ MaxFrames * M <= RingSize /\ MaxFrames * M \in Nat
      BY SizesAssumption DEF FitsOneTurn
    <3>2. MaxFrames - arrived = MaxFrames /\ pos[Count + 1] = 0
      BY <1>1, <1>3, <3>1
    <3> QED BY <1>1, <3>1, <3>2
  <2>4. nic.cbr = pos[Count + 1] % RingSize
    BY <1>1, <1>2, <1>3, <1>4
  <2> QED BY <1>1, <2>1, <2>2, <2>3, <2>4 DEF Laid
<1>6. Taken(pos)
  <2>1. Len(handled) = 0 /\ pos[0 + 1] = 0 /\ handled \in Seq(Frames)
    BY <1>1, <1>3
  <2> QED BY <1>1, <1>2, <1>4, <2>1 DEF Taken
<1> QED BY <1>1, <1>5, <1>6 DEF InTurn

\* Packets come out of the ring whole, each once and in the order in which the card
\* has put them there, however many of them share an interrupt, as long as all that
\* arrive fit into one turn of the ring.
THEOREM PacketsComeInOrder ==
  ASSUME OneTurn
  PROVE  Spec => []PacketsInOrder
<1>1. PICK M \in Nat : FitsOneTurn(M)
  BY DEF OneTurn
<1>2. Init => Types /\ InTurn(M)
  BY <1>1, InitTypes, InitInTurn
<1>3. Types /\ InTurn(M) /\ [Next]_vars => (Types /\ InTurn(M))'
  BY <1>1, TypesStep, InTurnStep
<1>4. Types /\ InTurn(M) => PacketsInOrder
  <2> SUFFICES ASSUME Types, InTurn(M) PROVE PacketsInOrder
    OBVIOUS
  <2>1. PICK pos : Taken(pos)
    BY DEF InTurn
  <2>2. /\ handled \in Seq(Frames) /\ stored \in Seq(Frames)
        /\ Len(handled) \in Nat /\ Len(stored) \in Nat /\ Len(handled) <= Len(stored)
        /\ \A k \in 1..Len(handled) : handled[k] = stored[k]
    BY <2>1, LenProperties DEF Taken, Types, Count
  <2>3. SubSeq(handled, 1, Len(handled)) = SubSeq(stored, 1, Len(handled))
    BY <2>2
  <2> QED BY <2>2, <2>3 DEF PacketsInOrder, IsPrefix
<1> QED BY <1>2, <1>3, <1>4, PTL DEF Spec
=============================================================================
