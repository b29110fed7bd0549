--------------------------- MODULE Console_proofs ---------------------------
(***************************************************************************)
(* For every size of the queues and of the screen, every set of keys and   *)
(* every set of commands: the queue between the interrupt handler and the  *)
(* shell keeps its promise, the screen shows the line that will be run and *)
(* the key map follows the keys.                                           *)
(***************************************************************************)
EXTENDS Console, FiniteSetTheorems, SequenceTheorems, TLAPS

-----------------------------------------------------------------------------
(***************************************************************************)
(* The inductive invariant.                                                *)
(***************************************************************************)
\* A queue of this many slots, whatever they hold.
QueueOf(S, size) ==
  [slots : [0..(size - 1) -> S], head : 0..(size - 1), tail : 0..(size - 1)]

\* How far a position is behind the head, going round.
Distance(q, p) == IF p >= q.head THEN p - q.head ELSE p - q.head + Cardinality(DOMAIN q.slots)

\* The slot so many places behind the head.
Place(q, d) == IF q.head + d >= Cardinality(DOMAIN q.slots)
               THEN q.head + d - Cardinality(DOMAIN q.slots) ELSE q.head + d

KeyNames == { scancodeMapping[code] : code \in 0..127 }
Chars == {<<>>} \cup (KeyNames \X BOOLEAN)
Events == {<<>>} \cup (KeyNames \X {"press", "release"})
Shown == Chars \cup ({">", "SPACE", "ENTER", "BACKSPACE", "MESSAGE", "NUL"} \X {FALSE})

\* What can be left of the accesses of a character that has been begun.
Draw5 == <<"row", "column", "put", "column", "right">>
Draw4 == <<"column", "put", "column", "right">>
Draw3 == <<"put", "column", "right">>
Draw2 == <<"column", "right">>
Draw1 == <<"right">>
Line3 == <<"row", "down", "first">>
Line2 == <<"down", "first">>
Line1 == <<"first">>
Back6 == <<"test", "column", "left", "row", "column", "put">>
Back5 == <<"column", "left", "row", "column", "put">>
Back4 == <<"left", "row", "column", "put">>
Back3 == <<"row", "column", "put">>
Back2 == <<"column", "put">>
Back1 == <<"put">>

Rests(c) == CASE c = BackSpace -> {<<>>, Back5, Back4, Back3, Back2, Back1}
              [] c = NewLine   -> {<<>>, Line2, Line1}
              [] OTHER         -> {<<>>, Draw4, Draw3, Draw2, Draw1}

Positions == (Nat \cup {-1}) \X Nat

Types ==
  /\ wire \in Seq(0..255) /\ keyStateMap \subseteq KeyNames
  /\ locks \subseteq {"scroll", "number", "caps"} /\ mode \in {"text", "color"}
  /\ characterQueue \in QueueOf(Chars, MAX_CHARACTER_QUEUE_SIZE)
  /\ eventQueue \in QueueOf(Events, MAX_EVENT_QUEUE_SIZE)
  /\ cursor \in Positions /\ at \in Positions
  /\ out \in Seq(Shown) /\ line \in Seq(Chars) /\ screen \in [DOMAIN Blank -> Shown]
  /\ IF out = <<>> THEN todo = <<>> ELSE todo \in Rests(Head(out))

\* Where the column can be -1: in a line the handler has printed into, until its
\* end.  Behind the test of a backspace it is not, nor is the column it reads.
Columns ==
  /\ cursor[1] = -1 => disturbed /\ (pc \in {"read", "advance"} \/ (pc = "run" /\ out # <<>>))
  /\ pc = "run" /\ out # <<>> => Len(out) = 1 /\ Head(out) = NewLine
  /\ pc # "read" => \A n \in 1..Len(out) : out[n] # BackSpace
  /\ todo = Back5 => cursor[1] > 0 \/ (cursor[1] = 0 /\ disturbed)
  /\ todo = Back4 => at[1] > 0 \/ (at[1] = 0 /\ disturbed)

\* What the shell has read of the queue, and the handler has left as it was.
Reading ==
  /\ pc = "advance" => /\ ~Keyboard_CharacterQueueEmpty(characterQueue)
                       /\ loaded = characterQueue.slots[characterQueue.head]
  /\ pc = "flushed" =>
       /\ loaded \in 0..(MAX_CHARACTER_QUEUE_SIZE - 1)
       /\ Distance(characterQueue, loaded) <= Distance(characterQueue, characterQueue.tail)

\* The prompt and the line behind it, by position.
TextLen(l) == 2 + Len(l)
Text(l, n) == IF n <= 2 THEN Prompt[n] ELSE l[n - 2]

\* So many characters of the line are where they belong, if that is on the screen.
DrawnTo(d) == \A n \in 1..d : start + n - 1 \in DOMAIN screen => screen[start + n - 1] = Text(line, n)

\* Between two characters, and inside of a putc ...
Drawing ==
  \E d \in 0..TextLen(line) :
    /\ Len(out) = TextLen(line) - d /\ \A n \in 1..Len(out) : out[n] = Text(line, d + n)
    /\ Cell(cursor) = start + d /\ d <= cursor[1] /\ DrawnTo(d)
    /\ todo \in {Draw2, Draw1} => DrawnTo(d + 1)
    /\ todo = Draw4 => at[2] = cursor[2]
    /\ todo = Draw3 => at = cursor
    /\ todo = Draw1 => at[1] = cursor[1]

\* ... of a character, or of a backspace, for which there is room in the row.
Erasing ==
  /\ Len(out) = 1 /\ out[1] = BackSpace /\ DrawnTo(TextLen(line))
  /\ LET past == IF todo \in {<<>>, Back5, Back4} THEN TextLen(line) + 1 ELSE TextLen(line)
     IN Cell(cursor) = start + past /\ past <= cursor[1]
  /\ todo = Back4 => at[1] = cursor[1]
  /\ todo = Back2 => at[2] = cursor[2]
  /\ todo = Back1 => at = cursor

Echo ==
  /\ pc # "graphics" => mode = "text"
  /\ pc \in {"read", "advance"} /\ ~disturbed =>
       /\ start \in Nat /\ \A n \in 1..TextLen(line) : Text(line, n) \notin {BackSpace, NewLine}
       /\ Drawing \/ Erasing

Agree(k) == k \in held <=> scancodeMapping[k.make[1]] \in keyStateMap

\* What is left of quiet codes, in the state of the decoder.
QuietFrom(codes, decoder) ==
  /\ decoder \in {"default", "E0"}
  /\ decoder = "E0" => codes # <<>> /\ codes[1] # 224
  /\ \A n \in 1..Len(codes) :
       IF codes[n] = 224 THEN n < Len(codes) /\ codes[n + 1] # 224
       ELSE \/ IF n = 1 THEN decoder = "E0" ELSE codes[n - 1] = 224
            \/ scancodeMapping[codes[n] % 128] = "INVALID"

\* Every key is as the map says; a key that is being struck may not be yet.
Struck ==
  \/ QuietFrom(wire, currentState) /\ \A k \in Keys : Named(k) => Agree(k)
  \/ /\ currentState = "default"
     /\ \E k \in Keys : /\ Named(k) /\ wire = IF k \in held THEN k.make ELSE k.break
                       /\ \A j \in Keys \ {k} : Named(j) => Agree(j)

IInv == Types /\ Columns /\ Reading /\ Echo /\ Struck

-----------------------------------------------------------------------------
(***************************************************************************)
(* The queues.                                                             *)
(***************************************************************************)
LEMMA QueueFacts ==
  ASSUME NEW S, NEW size \in Nat \ {0}, NEW q \in QueueOf(S, size)
  PROVE  /\ DOMAIN q.slots = 0..(size - 1) /\ Cardinality(DOMAIN q.slots) = size
         /\ q.head \in 0..(size - 1) /\ q.tail \in 0..(size - 1)
         /\ \A p \in 0..(size - 1) :
              /\ Distance(q, p) = IF p >= q.head THEN p - q.head ELSE p - q.head + size
              /\ After(q, p) = IF p + 1 = size THEN 0 ELSE p + 1
         /\ \A d : Place(q, d) = IF q.head + d >= size THEN q.head + d - size ELSE q.head + d
<1>1. DOMAIN q.slots = 0..(size - 1) /\ q.head \in 0..(size - 1) /\ q.tail \in 0..(size - 1)
  BY DEF QueueOf
<1>2. Cardinality(0..(size - 1)) = size
  BY FS_Interval
<1>3. \A p \in 0..(size - 1) : (p + 1) % size = IF p + 1 = size THEN 0 ELSE p + 1
  OBVIOUS
<1>4. \A p \in 0..(size - 1) : After(q, p) = IF p + 1 = size THEN 0 ELSE p + 1
  BY <1>1, <1>2, <1>3 DEF After
<1>5. \A p \in 0..(size - 1) :
        Distance(q, p) = IF p >= q.head THEN p - q.head ELSE p - q.head + size
  BY <1>1, <1>2 DEF Distance
<1>6. \A d : Place(q, d) = IF q.head + d >= size THEN q.head + d - size ELSE q.head + d
  BY <1>1, <1>2 DEF Place
<1> QED BY <1>1, <1>2, <1>4, <1>5, <1>6

\* Going round is what the remainders of the code do.
LEMMA Remainders ==
  ASSUME NEW size \in Nat \ {0}, NEW h \in 0..(size - 1), NEW p \in 0..(size - 1)
  PROVE  /\ (p - h) % size = IF p >= h THEN p - h ELSE p - h + size
         /\ (h + p) % size = IF h + p >= size THEN h + p - size ELSE h + p
OBVIOUS

\* What is in a queue, by position from the head.
LEMMA QueuedIs ==
  ASSUME NEW S, NEW size \in Nat \ {0}, NEW q \in QueueOf(S, size)
  PROVE  LET len == Distance(q, q.tail)
         IN /\ len \in 0..(size - 1) /\ Queued(q) \in Seq(S) /\ Len(Queued(q)) = len
            /\ Queued(q) = [n \in 1..len |-> q.slots[Place(q, n - 1)]]
<1> DEFINE len == Distance(q, q.tail)
<1> PICK h, t : h = q.head /\ t = q.tail
  OBVIOUS
<1>0. h \in 0..(size - 1) /\ t \in 0..(size - 1)
  BY QueueFacts
<1>1. len = (q.tail - q.head) % size /\ len \in 0..(size - 1)
  <2>1. (t - h) % size = IF t >= h THEN t - h ELSE t - h + size
    BY <1>0, Remainders
  <2>2. len = IF t >= h THEN t - h ELSE t - h + size
    BY <1>0, QueueFacts
  <2> QED BY <1>0, <2>1, <2>2
<1>2. ASSUME NEW n \in 1..len
      PROVE  (q.head + n - 1) % size = Place(q, n - 1) /\ Place(q, n - 1) \in 0..(size - 1)
  <2> PICK d \in 0..(size - 1) : d = n - 1
    BY <1>1
  <2>1. (h + d) % size = IF h + d >= size THEN h + d - size ELSE h + d
    BY <1>0, Remainders
  <2>2. Place(q, d) = IF h + d >= size THEN h + d - size ELSE h + d
    BY QueueFacts
  <2>3. h + n - 1 = h + d
    BY <1>0
  <2> QED BY <1>0, <2>1, <2>2, <2>3
<1> HIDE DEF len
<1>3. Queued(q) = [n \in 1..len |-> q.slots[Place(q, n - 1)]]
  <2>1. Cardinality(DOMAIN q.slots) = size
    BY QueueFacts
  <2> QED BY <1>1, <1>2, <2>1 DEF Queued
<1>4. Queued(q) \in [1..len -> S]
  BY <1>2, <1>3 DEF QueueOf
<1>5. Queued(q) \in Seq(S) /\ Len(Queued(q)) = len
  BY <1>1, <1>4, SeqDef, LenProperties
<1> QED BY <1>1, <1>3, <1>5 DEF len

\* A push to a queue that is not full.
LEMMA PushResult ==
  ASSUME NEW S, NEW size \in Nat \ {0}, NEW q \in QueueOf(S, size), NEW x \in S,
         NEW r, r = Keyboard_PushCharacter(q, x)
  PROVE  /\ r \in QueueOf(S, size) /\ r.head = q.head
         /\ \A p \in 0..(size - 1) : /\ Distance(r, p) = Distance(q, p)
                                     /\ p # q.tail => r.slots[p] = q.slots[p]
         /\ Full(q) <=> Distance(q, q.tail) = size - 1
         /\ Full(q) => r = q
         /\ ~Full(q) => /\ r # q /\ Distance(r, r.tail) = Distance(q, q.tail) + 1
                        /\ Queued(r) = Append(Queued(q), x)
<1>1. /\ DOMAIN q.slots = 0..(size - 1) /\ Cardinality(DOMAIN q.slots) = size
      /\ q.head \in 0..(size - 1) /\ q.tail \in 0..(size - 1)
      /\ After(q, q.tail) = IF q.tail + 1 = size THEN 0 ELSE q.tail + 1
      /\ After(q, q.tail) \in 0..(size - 1)
      /\ \A p \in 0..(size - 1) :
           Distance(q, p) = IF p >= q.head THEN p - q.head ELSE p - q.head + size
  <2>1. /\ DOMAIN q.slots = 0..(size - 1) /\ Cardinality(DOMAIN q.slots) = size
        /\ q.head \in 0..(size - 1) /\ q.tail \in 0..(size - 1)
    BY QueueFacts
  <2>2. \A p \in 0..(size - 1) : After(q, p) = IF p + 1 = size THEN 0 ELSE p + 1
    BY QueueFacts
  <2>3. \A p \in 0..(size - 1) :
          Distance(q, p) = IF p >= q.head THEN p - q.head ELSE p - q.head + size
    BY QueueFacts
  <2>4. After(q, q.tail) \in 0..(size - 1)
    BY <2>1, <2>2
  <2> QED BY <2>1, <2>2, <2>3, <2>4
<1>2. Full(q) <=> Distance(q, q.tail) = size - 1
  <2>1. /\ Distance(q, q.tail) = IF q.tail >= q.head THEN q.tail - q.head ELSE q.tail - q.head + size
        /\ q.head \in Nat /\ q.tail \in Nat /\ q.head < size /\ q.tail < size /\ size \in Nat
    BY <1>1
  <2>2. Full(q) <=> q.head = IF q.tail + 1 = size THEN 0 ELSE q.tail + 1
    BY <1>1 DEF Full
  <2> QED BY <2>1, <2>2
<1>3. Full(q) => r = q
  BY DEF Keyboard_PushCharacter
<1>4. ASSUME ~Full(q)
      PROVE  /\ r \in QueueOf(S, size) /\ r.head = q.head /\ r.tail = After(q, q.tail)
             /\ r.slots = [q.slots EXCEPT ![q.tail] = x]
  <2>1. r = [q EXCEPT !.slots[q.tail] = x, !.tail = After(q, q.tail)]
    BY <1>4 DEF Keyboard_PushCharacter
  <2>2. q = [slots |-> q.slots, head |-> q.head, tail |-> q.tail]
    BY DEF QueueOf
  <2>3. /\ r.head = q.head /\ r.tail = After(q, q.tail)
        /\ r.slots = [q.slots EXCEPT ![q.tail] = x]
        /\ r = [slots |-> r.slots, head |-> r.head, tail |-> r.tail]
    BY <2>1 DEF QueueOf
  <2>4. r.slots \in [0..(size - 1) -> S]
    BY <1>1, <2>3 DEF QueueOf
  <2> QED BY <1>1, <2>3, <2>4 DEF QueueOf
<1>5. r \in QueueOf(S, size) /\ r.head = q.head
  BY <1>3, <1>4
<1>6. \A p \in 0..(size - 1) :
        Distance(r, p) = IF p >= r.head THEN p - r.head ELSE p - r.head + size
  BY <1>5, QueueFacts
<1>7. \A p \in 0..(size - 1) : Distance(r, p) = Distance(q, p)
  BY <1>1, <1>5, <1>6
<1>8. \A p \in 0..(size - 1) : p # q.tail => r.slots[p] = q.slots[p]
  BY <1>1, <1>3, <1>4
<1>9. ASSUME ~Full(q)
      PROVE  r # q /\ Distance(r, r.tail) = Distance(q, q.tail) + 1
  <2>1. Distance(q, After(q, q.tail)) = Distance(q, q.tail) + 1
    BY <1>1, <1>9 DEF Full
  <2> QED BY <1>1, <1>4, <1>7, <1>9, <2>1
<1>10. ASSUME ~Full(q)
       PROVE  Queued(r) = Append(Queued(q), x)
  <2> PICK k, l : k = Distance(q, q.tail) /\ l = Distance(r, r.tail)
    OBVIOUS
  <2>1. /\ k \in Nat /\ l = k + 1 /\ l \in 0..(size - 1)
        /\ Queued(q) \in Seq(S) /\ Len(Queued(q)) = k
        /\ Queued(q) = [n \in 1..k |-> q.slots[Place(q, n - 1)]]
        /\ Queued(r) \in Seq(S) /\ Len(Queued(r)) = l
        /\ Queued(r) = [n \in 1..l |-> r.slots[Place(r, n - 1)]]
    BY <1>5, <1>9, <1>10, QueuedIs
  <2>2. \A d \in 0..k : Place(r, d) = Place(q, d)
    BY <1>5, QueueFacts
  <2>3. \A d \in 0..k : /\ Place(q, d) \in 0..(size - 1)
                        /\ Place(q, d) = q.tail <=> d = k
    <3> TAKE d \in 0..k
    <3>1. Place(q, d) = IF q.head + d >= size THEN q.head + d - size ELSE q.head + d
      BY QueueFacts
    <3>2. k = IF q.tail >= q.head THEN q.tail - q.head ELSE q.tail - q.head + size
      BY <1>1
    <3>3. q.head \in Int /\ q.tail \in Int /\ 0 <= q.head /\ q.head < size /\ 0 <= q.tail /\ q.tail < size
      BY <1>1
    <3>4. d \in Nat /\ k \in Nat /\ d <= k /\ k < size
      BY <2>1
    <3>5. Place(q, d) \in 0..(size - 1)
      BY <3>1, <3>3, <3>4
    <3>6. Place(q, d) = q.tail => d = k
      BY <3>1, <3>2, <3>3, <3>4
    <3>7. d = k => Place(q, d) = q.tail
      BY <3>1, <3>2, <3>3, <3>4
    <3> QED BY <3>5, <3>6, <3>7
  <2>4. \A n \in 1..l : Queued(r)[n] = IF n = l THEN x ELSE Queued(q)[n]
    <3> TAKE n \in 1..l
    <3> PICK d \in 0..k : d = n - 1
      BY <2>1
    <3>1. Queued(r)[n] = r.slots[Place(q, d)]
      BY <2>1, <2>2
    <3>2. r.slots[q.tail] = x
      BY <1>1, <1>4, <1>10
    <3>3. CASE n = l
      BY <2>1, <2>3, <3>1, <3>2, <3>3
    <3>4. CASE n # l
      <4>1. n \in 1..k /\ d # k
        BY <2>1, <3>4
      <4>2. r.slots[Place(q, d)] = q.slots[Place(q, d)]
        BY <1>8, <2>3, <4>1
      <4> QED BY <2>1, <3>1, <3>4, <4>1, <4>2
    <3> QED BY <3>3, <3>4
  <2>5. /\ Append(Queued(q), x) \in Seq(S) /\ Len(Append(Queued(q), x)) = l
        /\ \A n \in 1..l : Append(Queued(q), x)[n] = IF n = l THEN x ELSE Queued(q)[n]
    BY <2>1, AppendProperties
  <2>6. Len(Queued(r)) = Len(Append(Queued(q), x)) /\ \A n \in 1..Len(Queued(r)) : Queued(r)[n] = Append(Queued(q), x)[n]
    BY <2>1, <2>4, <2>5
  <2> QED BY <2>1, <2>5, <2>6, SeqEqual
<1> QED BY <1>2, <1>3, <1>5, <1>7, <1>8, <1>9, <1>10

\* The head moves on to a place that is in use, or to the tail.
LEMMA HeadMoves ==
  ASSUME NEW S, NEW size \in Nat \ {0}, NEW q \in QueueOf(S, size), NEW p \in 0..(size - 1),
         Distance(q, p) <= Distance(q, q.tail),
         NEW r \in QueueOf(S, size), r.head = p, r.tail = q.tail, r.slots = q.slots
  PROVE  Queued(r) = SubSeq(Queued(q), Distance(q, p) + 1, Len(Queued(q)))
<1>1. /\ q.head \in 0..(size - 1) /\ q.tail \in 0..(size - 1)
      /\ \A u \in 0..(size - 1) :
           Distance(q, u) = IF u >= q.head THEN u - q.head ELSE u - q.head + size
  BY QueueFacts
<1>2. r \in QueueOf(S, size) /\ r.head = p /\ r.tail = q.tail /\ r.slots = q.slots
  OBVIOUS
<1>3. \A u \in 0..(size - 1) : Distance(r, u) = IF u >= p THEN u - p ELSE u - p + size
  <2>1. \A u \in 0..(size - 1) : Distance(r, u) = IF u >= r.head THEN u - r.head ELSE u - r.head + size
    BY <1>2, QueueFacts
  <2> QED BY <1>2, <2>1
<1> PICK d, k, l : d = Distance(q, p) /\ k = Distance(q, q.tail) /\ l = Distance(r, r.tail)
  OBVIOUS
<1>4. d \in Nat /\ k \in Nat /\ l = k - d /\ l \in Nat /\ k < size
  BY <1>1, <1>2, <1>3
<1>5. /\ Queued(q) \in Seq(S) /\ Len(Queued(q)) = k
      /\ Queued(q) = [n \in 1..k |-> q.slots[Place(q, n - 1)]]
      /\ Queued(r) \in Seq(S) /\ Len(Queued(r)) = l
      /\ Queued(r) = [n \in 1..l |-> r.slots[Place(r, n - 1)]]
  <2>1. LET len == Distance(q, q.tail)
        IN /\ len \in 0..(size - 1) /\ Queued(q) \in Seq(S) /\ Len(Queued(q)) = len
           /\ Queued(q) = [n \in 1..len |-> q.slots[Place(q, n - 1)]]
    BY QueuedIs
  <2>2. LET len == Distance(r, r.tail)
        IN /\ len \in 0..(size - 1) /\ Queued(r) \in Seq(S) /\ Len(Queued(r)) = len
           /\ Queued(r) = [n \in 1..len |-> r.slots[Place(r, n - 1)]]
    BY <1>2, QueuedIs
  <2> QED BY <2>1, <2>2
<1>6. \A n \in 1..l : Place(r, n - 1) = Place(q, d + n - 1)
  <2> TAKE n \in 1..l
  <2>1. Place(r, n - 1) = IF p + (n - 1) >= size THEN p + (n - 1) - size ELSE p + (n - 1)
    <3>1. Place(r, n - 1) = IF r.head + (n - 1) >= size THEN r.head + (n - 1) - size ELSE r.head + (n - 1)
      BY <1>2, QueueFacts
    <3> QED BY <1>2, <3>1
  <2>2. Place(q, d + n - 1) = IF q.head + (d + n - 1) >= size THEN q.head + (d + n - 1) - size
                              ELSE q.head + (d + n - 1)
    BY QueueFacts
  <2> PICK h, t, e : h = q.head /\ t = q.tail /\ e = n - 1
    OBVIOUS
  <2>3. h \in Int /\ 0 <= h /\ h < size /\ p \in Int /\ 0 <= p /\ p < size /\ e \in Nat /\ size \in Nat
    BY <1>1
  <2>4. d = IF p >= h THEN p - h ELSE p - h + size
    BY <1>1
  <2>5. d + e < size /\ d + n - 1 = d + e
    BY <1>4, <2>3
  <2> QED BY <1>4, <2>1, <2>2, <2>3, <2>4, <2>5
<1>7. \A n \in 1..l : Queued(r)[n] = Queued(q)[d + n]
  <2> TAKE n \in 1..l
  <2>1. d + n \in 1..k /\ (d + n) - 1 = d + n - 1
    BY <1>4
  <2>2. Queued(q)[d + n] = q.slots[Place(q, d + n - 1)]
    BY <1>5, <2>1
  <2> QED BY <1>2, <1>5, <1>6, <2>2
<1>8. /\ SubSeq(Queued(q), d + 1, k) \in Seq(S) /\ Len(SubSeq(Queued(q), d + 1, k)) = l
      /\ \A n \in 1..l : SubSeq(Queued(q), d + 1, k)[n] = Queued(q)[d + n]
  <2>1. \A i \in (d + 1)..k : Queued(q)[i] \in S
    <3>1. \A i \in 1..k : Queued(q)[i] \in S
      BY <1>5, ElementOfSeq
    <3>2. \A i \in (d + 1)..k : i \in 1..k
      BY <1>4
    <3> QED BY <3>1, <3>2
  <2>2. d + 1 \in Int /\ k \in Int /\ k - (d + 1) + 1 = l /\ (d + 1 <= k <=> l # 0)
    BY <1>4
  <2>3. /\ SubSeq(Queued(q), d + 1, k) \in Seq(S)
        /\ Len(SubSeq(Queued(q), d + 1, k)) = IF d + 1 <= k THEN k - (d + 1) + 1 ELSE 0
        /\ \A i \in 1..(k - (d + 1) + 1) : SubSeq(Queued(q), d + 1, k)[i] = Queued(q)[(d + 1) + i - 1]
    BY <2>1, <2>2, SubSeqProperties
  <2>4. \A n \in 1..l : (d + 1) + n - 1 = d + n
    BY <1>4
  <2> QED BY <1>4, <2>2, <2>3, <2>4
<1>9. Queued(r) = SubSeq(Queued(q), d + 1, k)
  <2>1. Len(Queued(r)) = Len(SubSeq(Queued(q), d + 1, k))
    BY <1>5, <1>8
  <2>2. \A i \in 1..l : Queued(r)[i] = SubSeq(Queued(q), d + 1, k)[i]
    BY <1>7, <1>8
  <2>3. Len(Queued(r)) = l
    BY <1>5
  <2>4. \A i \in 1..Len(Queued(r)) : Queued(r)[i] = SubSeq(Queued(q), d + 1, k)[i]
    BY <2>2, <2>3
  <2> QED BY <1>5, <1>8, <2>1, <2>4, SeqEqual
<1> QED BY <1>2, <1>5, <1>9

-----------------------------------------------------------------------------
(***************************************************************************)
(* What is left of a putc.                                                 *)
(***************************************************************************)
\* The next access, what was left before it and what is left behind it.
DrawAccess(kind, from, to) ==
  \/ kind = "row" /\ from = <<>> /\ to = Draw4
  \/ kind = "column" /\ from = Draw4 /\ to = Draw3
  \/ kind = "put" /\ from = Draw3 /\ to = Draw2
  \/ kind = "column" /\ from = Draw2 /\ to = Draw1
  \/ kind = "right" /\ from = Draw1 /\ to = <<>>
LineAccess(kind, from, to) ==
  \/ kind = "row" /\ from = <<>> /\ to = Line2
  \/ kind = "down" /\ from = Line2 /\ to = Line1
  \/ kind = "first" /\ from = Line1 /\ to = <<>>
BackAccess(kind, from, to) ==
  \/ kind = "test" /\ from = <<>> /\ to = Back5
  \/ kind = "column" /\ from = Back5 /\ to = Back4
  \/ kind = "left" /\ from = Back4 /\ to = Back3
  \/ kind = "row" /\ from = Back3 /\ to = Back2
  \/ kind = "column" /\ from = Back2 /\ to = Back1
  \/ kind = "put" /\ from = Back1 /\ to = <<>>

LEMMA DrawTable ==
  /\ Head(Draw5) = "row" /\ Tail(Draw5) = Draw4 /\ Len(Draw5) = 5
  /\ Head(Draw4) = "column" /\ Tail(Draw4) = Draw3 /\ Len(Draw4) = 4
  /\ Head(Draw3) = "put" /\ Tail(Draw3) = Draw2 /\ Len(Draw3) = 3
  /\ Head(Draw2) = "column" /\ Tail(Draw2) = Draw1 /\ Len(Draw2) = 2
  /\ Head(Draw1) = "right" /\ Tail(Draw1) = <<>> /\ Len(Draw1) = 1
BY DEF Draw5, Draw4, Draw3, Draw2, Draw1

LEMMA LineTable ==
  /\ Head(Line3) = "row" /\ Tail(Line3) = Line2 /\ Len(Line3) = 3
  /\ Head(Line2) = "down" /\ Tail(Line2) = Line1 /\ Len(Line2) = 2
  /\ Head(Line1) = "first" /\ Tail(Line1) = <<>> /\ Len(Line1) = 1
BY DEF Line3, Line2, Line1

LEMMA BackTable ==
  /\ Head(Back6) = "test" /\ Tail(Back6) = Back5 /\ Len(Back6) = 6
  /\ Head(Back5) = "column" /\ Tail(Back5) = Back4 /\ Len(Back5) = 5
  /\ Head(Back4) = "left" /\ Tail(Back4) = Back3 /\ Len(Back4) = 4
  /\ Head(Back3) = "row" /\ Tail(Back3) = Back2 /\ Len(Back3) = 3
  /\ Head(Back2) = "column" /\ Tail(Back2) = Back1 /\ Len(Back2) = 2
  /\ Head(Back1) = "put" /\ Tail(Back1) = <<>> /\ Len(Back1) = 1
BY DEF Back6, Back5, Back4, Back3, Back2, Back1

\* What is left tells apart how far a putc is.
LEMMA Apart ==
  /\ Draw4 # <<>> /\ Draw3 # <<>> /\ Draw2 # <<>> /\ Draw1 # <<>> /\ Line2 # <<>> /\ Line1 # <<>>
  /\ Back5 # <<>> /\ Back4 # <<>> /\ Back3 # <<>> /\ Back2 # <<>> /\ Back1 # <<>>
  /\ Draw4 # Draw3 /\ Draw4 # Draw2 /\ Draw4 # Draw1 /\ Draw3 # Draw2 /\ Draw3 # Draw1
  /\ Draw2 # Draw1 /\ Back5 # Back4 /\ Back5 # Back3 /\ Back5 # Back2 /\ Back5 # Back1
  /\ Back4 # Back3 /\ Back4 # Back2 /\ Back4 # Back1 /\ Back3 # Back2 /\ Back3 # Back1
  /\ Back2 # Back1
  /\ {Back5, Back4} \cap {Draw4, Draw3, Draw2, Draw1, Line2, Line1} = {}
  /\ BackSpace # NewLine
<1>1. Len(<<>>) = 0
  OBVIOUS
<1>2. Head(Line2) # Head(Back4) /\ Head(Line1) # Head(Back4)
  BY LineTable, BackTable
<1>3. {Back5, Back4} \cap {Draw4, Draw3, Draw2, Draw1, Line2, Line1} = {}
  <2>1. Draw4 # Back4
    BY DrawTable, BackTable
  <2>2. Back5 \notin {Draw4, Draw3, Draw2, Draw1, Line2, Line1}
    BY DrawTable, LineTable, BackTable
  <2>3. Back4 \notin {Draw3, Draw2, Draw1, Line2, Line1}
    BY DrawTable, LineTable, BackTable
  <2> QED BY <2>1, <2>2, <2>3
<1>4. BackSpace # NewLine
  BY DEF BackSpace, NewLine
<1>5. /\ Draw4 # <<>> /\ Draw3 # <<>> /\ Draw2 # <<>> /\ Draw1 # <<>> /\ Line2 # <<>> /\ Line1 # <<>>
      /\ Back5 # <<>> /\ Back4 # <<>> /\ Back3 # <<>> /\ Back2 # <<>> /\ Back1 # <<>>
  BY <1>1, DrawTable, LineTable, BackTable
<1>6. /\ Draw4 # Draw3 /\ Draw4 # Draw2 /\ Draw4 # Draw1 /\ Draw3 # Draw2 /\ Draw3 # Draw1
      /\ Draw2 # Draw1
  BY DrawTable
<1>7. /\ Back5 # Back4 /\ Back5 # Back3 /\ Back5 # Back2 /\ Back5 # Back1
      /\ Back4 # Back3 /\ Back4 # Back2 /\ Back4 # Back1 /\ Back3 # Back2 /\ Back3 # Back1
      /\ Back2 # Back1
  BY BackTable
<1> QED BY <1>3, <1>4, <1>5, <1>6, <1>7

\* The accesses that are left, from the first to the last.
LEMMA LeftIs ==
  ASSUME Types, out # <<>>
  PROVE  /\ todo # <<>> => Left = todo
         /\ todo = <<>> /\ Head(out) = BackSpace => Left = Back6
         /\ todo = <<>> /\ Head(out) = NewLine => Left = Line3
         /\ todo = <<>> /\ Head(out) \notin {BackSpace, NewLine} => Left = Draw5
BY Apart DEF Left, Accesses, Back6, Line3, Draw5

\* One access of putc.
LEMMA AccessIs ==
  ASSUME Types, NEW kind, out # <<>>, Head(Left) = kind
  PROVE  /\ Head(out) = BackSpace => BackAccess(kind, todo, Tail(Left))
         /\ Head(out) = NewLine => LineAccess(kind, todo, Tail(Left))
         /\ Head(out) \notin {BackSpace, NewLine} => DrawAccess(kind, todo, Tail(Left))
<1>1. todo \in Rests(Head(out))
  BY DEF Types
<1>2. CASE Head(out) = BackSpace
  <2>1. todo \in {<<>>, Back5, Back4, Back3, Back2, Back1}
    BY <1>1, <1>2, Apart DEF Rests
  <2>2. Left = IF todo = <<>> THEN Back6 ELSE todo
    BY <1>2, LeftIs
  <2> QED BY <1>2, <2>1, <2>2, BackTable, Apart DEF BackAccess
<1>3. CASE Head(out) = NewLine
  <2>1. todo \in {<<>>, Line2, Line1}
    BY <1>1, <1>3, Apart DEF Rests
  <2>2. Left = IF todo = <<>> THEN Line3 ELSE todo
    BY <1>3, LeftIs, Apart
  <2> QED BY <1>3, <2>1, <2>2, LineTable, Apart DEF LineAccess
<1>4. CASE Head(out) \notin {BackSpace, NewLine}
  <2>1. todo \in {<<>>, Draw4, Draw3, Draw2, Draw1}
    BY <1>1, <1>4 DEF Rests
  <2>2. Left = IF todo = <<>> THEN Draw5 ELSE todo
    BY <1>4, LeftIs
  <2> QED BY <1>4, <2>1, <2>2, DrawTable, Apart DEF DrawAccess
<1> QED BY <1>2, <1>3, <1>4

LEMMA AccessDone ==
  ASSUME Types, NEW kind, Access(kind)
  PROVE  /\ out # <<>> /\ out' = IF todo' = <<>> THEN Tail(out) ELSE out
         /\ Head(out) = BackSpace => BackAccess(kind, todo, todo')
         /\ Head(out) = NewLine => LineAccess(kind, todo, todo')
         /\ Head(out) \notin {BackSpace, NewLine} => DrawAccess(kind, todo, todo')
<1>1. out # <<>> /\ Head(Left) = kind /\ todo' = Tail(Left)
      /\ out' = IF Tail(Left) = <<>> THEN Tail(out) ELSE out
  BY DEF Access, GoOn
<1> QED BY <1>1, AccessIs

\* Where putc reads the column or the row, goes down, or puts a character.
LEMMA ColumnRead ==
  ASSUME Types, ReadColumn
  PROVE  /\ out' = out
         /\ \/ Head(out) = BackSpace /\ todo = Back5 /\ todo' = Back4
            \/ Head(out) = BackSpace /\ todo = Back2 /\ todo' = Back1
            \/ Head(out) \notin {BackSpace, NewLine} /\ todo = Draw4 /\ todo' = Draw3
            \/ Head(out) \notin {BackSpace, NewLine} /\ todo = Draw2 /\ todo' = Draw1
<1>1. Access("column")
  BY DEF ReadColumn
<1>2. \/ Head(out) = BackSpace /\ todo = Back5 /\ todo' = Back4
      \/ Head(out) = BackSpace /\ todo = Back2 /\ todo' = Back1
      \/ Head(out) \notin {BackSpace, NewLine} /\ todo = Draw4 /\ todo' = Draw3
      \/ Head(out) \notin {BackSpace, NewLine} /\ todo = Draw2 /\ todo' = Draw1
  BY <1>1, AccessDone DEF BackAccess, LineAccess, DrawAccess
<1>3. todo' # <<>>
  BY <1>2, Apart
<1> QED BY <1>1, <1>2, <1>3, AccessDone

LEMMA RowRead ==
  ASSUME Types, ReadRow
  PROVE  /\ out' = out
         /\ \/ Head(out) = BackSpace /\ todo = Back3 /\ todo' = Back2
            \/ Head(out) = NewLine /\ todo = <<>> /\ todo' = Line2
            \/ Head(out) \notin {BackSpace, NewLine} /\ todo = <<>> /\ todo' = Draw4
<1>1. Access("row")
  BY DEF ReadRow
<1>2. \/ Head(out) = BackSpace /\ todo = Back3 /\ todo' = Back2
      \/ Head(out) = NewLine /\ todo = <<>> /\ todo' = Line2
      \/ Head(out) \notin {BackSpace, NewLine} /\ todo = <<>> /\ todo' = Draw4
  BY <1>1, AccessDone DEF BackAccess, LineAccess, DrawAccess
<1>3. todo' # <<>>
  BY <1>2, Apart
<1> QED BY <1>1, <1>2, <1>3, AccessDone

LEMMA DownMoved ==
  ASSUME Types, MoveDown
  PROVE  out' = out /\ todo' = Line1
<1>1. Access("down")
  BY DEF MoveDown
<1>2. todo' = Line1
  BY <1>1, AccessDone DEF BackAccess, LineAccess, DrawAccess
<1> QED BY <1>1, <1>2, AccessDone, Apart

LEMMA CharacterPut ==
  ASSUME Types, Put
  PROVE  \/ Head(out) = BackSpace /\ todo = Back1 /\ todo' = <<>> /\ out' = Tail(out)
         \/ Head(out) \notin {BackSpace, NewLine} /\ todo = Draw3 /\ todo' = Draw2 /\ out' = out
<1>1. Access("put")
  BY DEF Put
<1>2. \/ Head(out) = BackSpace /\ todo = Back1 /\ todo' = <<>>
      \/ Head(out) \notin {BackSpace, NewLine} /\ todo = Draw3 /\ todo' = Draw2
  BY <1>1, AccessDone DEF BackAccess, LineAccess, DrawAccess
<1> QED BY <1>1, <1>2, AccessDone, Apart

\* What putc leaves alone.
LEMMA PutcLeaves ==
  ASSUME putc
  PROVE  /\ UNCHANGED <<keyboard, state, characterQueue, taken, pc, loaded, line, mode, start, disturbed>>
         /\ out # <<>> /\ out' = IF todo' = <<>> THEN Tail(out) ELSE out
BY DEF putc, TestColumn, ReadColumn, ReadRow, MoveLeft, MoveRight, MoveDown, MoveFirst, Put, Access, GoOn

LEMMA PositionIs ==
  ASSUME NEW p \in Positions
  PROVE  /\ p = <<p[1], p[2]>> /\ p[1] \in Int /\ p[1] >= -1 /\ p[2] \in Nat
         /\ p[1] # -1 => p[1] \in Nat
BY DEF Positions

LEMMA PositionMade ==
  ASSUME NEW x \in Int, NEW y \in Nat, x >= -1
  PROVE  <<x, y>> \in Positions /\ <<x, y>>[1] = x /\ <<x, y>>[2] = y
BY DEF Positions

\* Only a character that can be left in this state is.
LEMMA PutcRest ==
  ASSUME Types, putc
  PROVE  IF out' = <<>> THEN todo' = <<>> ELSE todo' \in Rests(Head(out'))
<1>1. out # <<>> /\ out' = IF todo' = <<>> THEN Tail(out) ELSE out
  BY PutcLeaves
<1>2. todo' \in {Tail(Left), <<>>}
  BY DEF putc, TestColumn, ReadColumn, ReadRow, MoveLeft, MoveRight, MoveDown, MoveFirst, Put, Access, GoOn
<1>3. \A c : <<>> \in Rests(c)
  BY DEF Rests
<1>4. CASE todo' = <<>>
  BY <1>3, <1>4
<1>5. CASE todo' # <<>>
  <2>1. out' = out /\ todo' = Tail(Left)
    BY <1>1, <1>2, <1>5
  <2>2. /\ Head(out) = BackSpace => BackAccess(Head(Left), todo, todo')
        /\ Head(out) = NewLine => LineAccess(Head(Left), todo, todo')
        /\ Head(out) \notin {BackSpace, NewLine} => DrawAccess(Head(Left), todo, todo')
    BY <1>1, <2>1, AccessIs
  <2>3. todo' \in Rests(Head(out))
    <3>1. CASE Head(out) = BackSpace
      <4>1. todo' \in {<<>>, Back5, Back4, Back3, Back2, Back1}
        BY <2>2, <3>1 DEF BackAccess
      <4> QED BY <3>1, <4>1, Apart DEF Rests
    <3>2. CASE Head(out) = NewLine
      BY <2>2, <3>2, Apart DEF Rests, LineAccess
    <3>3. CASE Head(out) \notin {BackSpace, NewLine}
      BY <2>2, <3>3 DEF Rests, DrawAccess
    <3> QED BY <3>1, <3>2, <3>3
  <2> QED BY <1>1, <2>1, <2>3
<1> QED BY <1>4, <1>5

\* A backspace goes to the left only from a column it has found to be one.
LEMMA PutcPositions ==
  ASSUME Types, Columns, putc
  PROVE  cursor' \in Positions /\ at' \in Positions
<1>1. cursor \in Positions /\ at \in Positions
  BY DEF Types
<1>2. /\ cursor[1] \in Int /\ cursor[1] >= -1 /\ cursor[2] \in Nat
      /\ at[1] \in Int /\ at[1] >= -1 /\ at[2] \in Nat
  BY <1>1, PositionIs
<1>3. <<0, 0>> \in Positions
  BY DEF Positions
<1>4. CASE TestColumn
  BY <1>1, <1>4 DEF TestColumn
<1>5. CASE ReadColumn \/ ReadRow
  BY <1>1, <1>2, <1>5, PositionMade DEF ReadColumn, ReadRow
<1>6. CASE MoveLeft
  <2>1. todo = Back4
    BY <1>6, AccessDone DEF MoveLeft, BackAccess, LineAccess, DrawAccess
  <2>2. at[1] >= 0
    BY <1>2, <2>1 DEF Columns
  <2>3. at[1] - 1 \in Int /\ at[1] - 1 >= -1
    BY <1>2, <2>2
  <2>4. <<at[1] - 1, cursor[2]>> \in Positions
    BY <1>2, <2>3, PositionMade
  <2> QED BY <1>3, <1>6, <2>4 DEF MoveLeft, Write
<1>7. CASE MoveRight
  <2>1. at[1] + 1 \in Int /\ at[1] + 1 >= -1
    BY <1>2
  <2>2. <<at[1] + 1, cursor[2]>> \in Positions
    BY <1>2, <2>1, PositionMade
  <2> QED BY <1>3, <1>7, <2>2 DEF MoveRight, Write
<1>8. CASE MoveDown
  <2>1. at[2] + 1 \in Nat
    BY <1>2
  <2>2. <<cursor[1], at[2] + 1>> \in Positions
    BY <1>2, <2>1, PositionMade
  <2> QED BY <1>3, <1>8, <2>2 DEF MoveDown, Write
<1>9. CASE MoveFirst
  BY <1>2, <1>3, <1>9, PositionMade DEF MoveFirst, Write
<1>10. CASE Put
  BY <1>1, <1>3, <1>10 DEF Put, Write
<1> QED BY <1>4, <1>5, <1>6, <1>7, <1>8, <1>9, <1>10 DEF putc

-----------------------------------------------------------------------------
(***************************************************************************)
(* Types.                                                                  *)
(***************************************************************************)
LEMMA Sizes == /\ MAX_CHARACTER_QUEUE_SIZE \in Nat \ {0} /\ MAX_EVENT_QUEUE_SIZE \in Nat \ {0}
               /\ SCREEN_WIDTH \in Nat \ {0} /\ SCREEN_HEIGHT \in Nat \ {0}
BY SizesAssumption

LEMMA EmptyIs ==
  ASSUME NEW S, <<>> \in S, NEW size \in Nat \ {0}
  PROVE  /\ EmptyQueue(size) \in QueueOf(S, size)
         /\ EmptyQueue(size).head = 0 /\ EmptyQueue(size).tail = 0
BY DEF EmptyQueue, QueueOf

\* The bytes of a keyboard, one by one.
LEMMA WireByte ==
  ASSUME Types, wire # <<>>
  PROVE  /\ Head(wire) \in 0..255 /\ Tail(wire) \in Seq(0..255)
         /\ Len(wire) \in Nat \ {0} /\ Head(wire) = wire[1]
         /\ Len(Tail(wire)) = Len(wire) - 1
         /\ \A n \in 1..Len(Tail(wire)) : Tail(wire)[n] = wire[n + 1]
<1>1. wire \in Seq(0..255)
  BY DEF Types
<1> QED BY <1>1, HeadTailProperties

\* What the handler makes of a byte, a release being 128 more than a press.
LEMMA Codes ==
  ASSUME Types, wire # <<>>
  PROVE  /\ Head(wire) < 128 => Head(wire) \in 0..127 /\ Head(wire) % 128 = Head(wire)
         /\ Head(wire) >= 128 => Head(wire) - 128 \in 0..127 /\ Head(wire) % 128 = Head(wire) - 128
<1>1. Head(wire) \in 0..255
  BY WireByte
<1>2. \A b \in 0..255 : /\ b < 128 => b \in 0..127 /\ b % 128 = b
                       /\ b >= 128 => b - 128 \in 0..127 /\ b % 128 = b - 128
  OBVIOUS
<1>3. PICK b \in 0..255 : b = Head(wire)
  BY <1>1
<1>4. /\ b < 128 => b \in 0..127 /\ b % 128 = b
      /\ b >= 128 => b - 128 \in 0..127 /\ b % 128 = b - 128
  BY <1>2
<1> QED BY <1>3, <1>4

\* The name and the character of a code are ones the queues can hold.
LEMMA KeyTypes ==
  ASSUME NEW code \in 0..127
  PROVE  /\ scancodeMapping[code] \in KeyNames
         /\ <<scancodeMapping[code], "press">> \in Events
         /\ <<scancodeMapping[code], "release">> \in Events
         /\ \A down, on : LET c == Keyboard_KeyCodeToCharacter(scancodeMapping[code], down, on)
                          IN c = NUL \/ c \in Chars
<1>1. PICK key : key = scancodeMapping[code]
  OBVIOUS
<1>2. key \in KeyNames
  BY <1>1 DEF KeyNames
<1>3. ASSUME NEW down, NEW on
      PROVE  Keyboard_KeyCodeToCharacter(key, down, on) \in {NUL} \cup Chars
  <2>1. PICK shift \in BOOLEAN : shift = (("LSHIFT" \in down) # ("caps" \in on))
    OBVIOUS
  <2>2. <<key, FALSE>> \in Chars /\ <<key, shift>> \in Chars
    BY <1>2, <2>1 DEF Chars
  <2>3. Keyboard_KeyCodeToCharacter(key, down, on) \in {NUL, <<key, FALSE>>, <<key, shift>>}
    BY <2>1 DEF Keyboard_KeyCodeToCharacter
  <2> QED BY <2>2, <2>3
<1>4. <<key, "press">> \in Events /\ <<key, "release">> \in Events
  BY <1>2 DEF Events
<1> QED BY <1>1, <1>2, <1>3, <1>4

\* The handler pushes a character, or none.
LEMMA KeyDownPushes ==
  ASSUME Types, KeyDown
  PROVE  \/ characterQueue' = characterQueue /\ lost' = lost
         \/ \E c \in Chars : /\ characterQueue' = Keyboard_PushCharacter(characterQueue, c)
                            /\ lost' = IF Full(characterQueue) THEN lost + 1 ELSE lost
<1>1. wire # <<>> /\ Head(wire) < 128
  BY DEF KeyDown, Byte
<1>2. PICK byte \in 0..127 : byte = Head(wire)
  <2>1. Head(wire) \in 0..127
    BY <1>1, Codes
  <2> QED BY <2>1, Zenon
<1>3. PICK c : c = Keyboard_KeyCodeToCharacter(scancodeMapping[byte], keyStateMap', locks)
  OBVIOUS
<1>4. c = NUL \/ c \in Chars
  BY <1>2, <1>3, KeyTypes
<1>5. /\ characterQueue' = IF c = NUL THEN characterQueue ELSE Keyboard_PushCharacter(characterQueue, c)
      /\ lost' = IF c # NUL /\ characterQueue' = characterQueue THEN lost + 1 ELSE lost
  BY <1>2, <1>3 DEF KeyDown
<1>6. CASE c = NUL
  BY <1>5, <1>6
<1>7. CASE c # NUL
  <2>1. c \in Chars /\ characterQueue' = Keyboard_PushCharacter(characterQueue, c)
    BY <1>4, <1>5, <1>7
  <2>2. characterQueue \in QueueOf(Chars, MAX_CHARACTER_QUEUE_SIZE)
    BY DEF Types
  <2>3. Full(characterQueue) <=> characterQueue' = characterQueue
    BY <2>1, <2>2, Sizes, PushResult
  <2> QED BY <1>5, <1>7, <2>1, <2>3
<1> QED BY <1>6, <1>7

\* Events are pushed the same way.
LEMMA EventPush ==
  ASSUME Types, NEW e \in Events
  PROVE  Keyboard_PushEvent(eventQueue, e) \in QueueOf(Events, MAX_EVENT_QUEUE_SIZE)
<1>1. Keyboard_PushEvent(eventQueue, e) = Keyboard_PushCharacter(eventQueue, e)
  BY DEF Keyboard_PushEvent, Keyboard_PushCharacter
<1>2. eventQueue \in QueueOf(Events, MAX_EVENT_QUEUE_SIZE)
  BY DEF Types
<1> QED BY <1>1, <1>2, Sizes, PushResult

LEMMA Drawn ==
  ASSUME NEW cells \in [DOMAIN Blank -> Shown], NEW position, NEW c \in Shown
  PROVE  Display_PutChar(cells, position, c) \in [DOMAIN Blank -> Shown]
BY DEF Display_PutChar

LEMMA ShownIs ==
  /\ Chars \subseteq Shown /\ NUL \in Shown /\ NewLine \in Shown /\ BackSpace \in Shown
  /\ Message \in Seq(Shown) /\ Prompt \in Seq(Shown) /\ <<>> \in Seq(Shown)
  /\ Message[1] \in Shown /\ Blank \in [DOMAIN Blank -> Shown]
<1>1. Chars \subseteq Shown /\ NUL \in Shown /\ NewLine \in Shown /\ BackSpace \in Shown
  BY DEF Shown, NUL, NewLine, BackSpace
<1>2. << ">", FALSE >> \in Shown /\ << "SPACE", FALSE >> \in Shown /\ << "MESSAGE", FALSE >> \in Shown
  BY DEF Shown
<1>3. Message \in Seq(Shown) /\ Prompt \in Seq(Shown) /\ <<>> \in Seq(Shown) /\ Message[1] \in Shown
  BY <1>1, <1>2 DEF Message, Prompt
<1>4. Blank \in [DOMAIN Blank -> Shown]
  BY <1>1 DEF Blank
<1> QED BY <1>1, <1>3, <1>4

LEMMA InitTypes == Init => Types
<1> SUFFICES ASSUME Init PROVE Types
  OBVIOUS
<1>1. /\ characterQueue \in QueueOf(Chars, MAX_CHARACTER_QUEUE_SIZE)
      /\ eventQueue \in QueueOf(Events, MAX_EVENT_QUEUE_SIZE)
  <2>1. <<>> \in Chars /\ <<>> \in Events
    BY DEF Chars, Events
  <2> QED BY <2>1, EmptyIs, Sizes DEF Init
<1>2. screen \in [DOMAIN Blank -> Shown]
  BY ShownIs DEF Init
<1>3. cursor \in Positions /\ at \in Positions
  BY DEF Init, Positions
<1> QED BY <1>1, <1>2, <1>3 DEF Init, Types

LEMMA TypesStep == Types /\ Columns /\ Reading /\ [Next]_vars => Types'
<1> SUFFICES ASSUME Types, Columns, Reading, [Next]_vars PROVE Types'
  OBVIOUS
<1>1. /\ characterQueue \in QueueOf(Chars, MAX_CHARACTER_QUEUE_SIZE)
      /\ eventQueue \in QueueOf(Events, MAX_EVENT_QUEUE_SIZE)
      /\ cursor \in Positions /\ at \in Positions
      /\ screen \in [DOMAIN Blank -> Shown]
      /\ out \in Seq(Shown) /\ line \in Seq(Chars)
  BY DEF Types
<1>2. out # <<>> => Head(out) \in Shown /\ Tail(out) \in Seq(Shown)
  BY <1>1, HeadTailProperties
<1>3. CASE UNCHANGED vars
  BY <1>3 DEF Types, vars, keyboard, state, display
<1>4. ASSUME NEW k \in Keys, Press(k) \/ Release(k) PROVE Types'
  <2>1. wire' \in Seq(0..255)
    BY <1>4, KeysAssumption DEF Press, Release
  <2> QED BY <1>4, <2>1 DEF Types, Press, Release, state, shell, display
<1>5. CASE Prefix
  BY <1>5, WireByte DEF Types, Prefix, Byte, shell
<1>6. CASE KeyDown
  <2>1. wire # <<>> /\ Head(wire) < 128 /\ Tail(wire) \in Seq(0..255)
    BY <1>6, WireByte DEF KeyDown, Byte
  <2>2. Head(wire) \in 0..127
    BY <2>1, Codes
  <2>3. characterQueue' \in QueueOf(Chars, MAX_CHARACTER_QUEUE_SIZE)
    BY <1>1, <1>6, KeyDownPushes, PushResult, Sizes
  <2>4. eventQueue' \in QueueOf(Events, MAX_EVENT_QUEUE_SIZE)
    BY <1>6, <2>2, KeyTypes, EventPush DEF KeyDown
  <2>5. keyStateMap' \subseteq KeyNames
    BY <1>6, <2>2, KeyTypes DEF KeyDown, Types
  <2>6. locks' \subseteq {"scroll", "number", "caps"}
    BY <1>6 DEF KeyDown, Types, LockOf
  <2> QED BY <1>6, <2>1, <2>3, <2>4, <2>5, <2>6 DEF Types, KeyDown, Byte, shell
<1>7. CASE KeyUp
  <2>1. wire # <<>> /\ Head(wire) >= 128 /\ Tail(wire) \in Seq(0..255)
    BY <1>7, WireByte DEF KeyUp, Byte
  <2>2. Head(wire) - 128 \in 0..127
    BY <2>1, Codes
  <2>3. eventQueue' \in QueueOf(Events, MAX_EVENT_QUEUE_SIZE)
    BY <1>7, <2>2, KeyTypes, EventPush DEF KeyUp
  <2>4. keyStateMap' \subseteq KeyNames
    BY <1>7 DEF KeyUp, Types
  <2> QED BY <1>7, <2>1, <2>3, <2>4 DEF Types, KeyUp, Byte, shell
<1>8. CASE Compound
  <2>1. wire' \in Seq(0..255)
    BY <1>8, WireByte DEF Compound, Byte
  <2>2. screen' \in [DOMAIN Blank -> Shown] /\ cursor' \in Positions
    <3>1. screen' = Display_PutChar(screen, cursor, Message[1]) /\ cursor' = <<0, cursor[2] + 1>>
      BY <1>8 DEF Compound, Puts
    <3>2. Display_PutChar(screen, cursor, Message[1]) \in [DOMAIN Blank -> Shown]
      BY <1>1, Drawn, ShownIs
    <3>3. cursor[2] + 1 \in Nat
      BY <1>1, PositionIs
    <3> QED BY <3>1, <3>2, <3>3, PositionMade
  <2> QED BY <1>8, <2>1, <2>2 DEF Types, Compound, Byte, shell
<1>9. CASE putc
  <2>1. out # <<>> /\ out' \in Seq(Shown)
    BY <1>2, <1>9, PutcLeaves
  <2>2. screen' \in [DOMAIN Blank -> Shown]
    <3>1. CASE Put
      BY <1>1, <1>2, <2>1, <3>1, Drawn, ShownIs DEF Put
    <3>2. CASE ~Put
      BY <1>1, <1>9, <3>2 DEF putc, TestColumn, ReadColumn, ReadRow, MoveLeft, MoveRight, MoveDown, MoveFirst
    <3> QED BY <3>1, <3>2
  <2>3. /\ cursor' \in Positions /\ at' \in Positions
        /\ IF out' = <<>> THEN todo' = <<>> ELSE todo' \in Rests(Head(out'))
    BY <1>9, PutcPositions, PutcRest
  <2> QED BY <1>9, <2>1, <2>2, <2>3, PutcLeaves DEF Types, keyboard, state
<1>10. \A c : <<>> \in Rests(c)
  BY DEF Rests
<1>11. CASE ShowPrompt
  BY <1>10, <1>11, ShownIs DEF Types, ShowPrompt, Step, keyboard, state, display
<1>12. CASE Keyboard_GetCharacter
  BY <1>12 DEF Types, Keyboard_GetCharacter, Step, keyboard, state, display
<1>13. CASE TakeCharacter
  <2>1. loaded \in Chars
    <3>1. pc = "advance" /\ loaded = characterQueue.slots[characterQueue.head]
      BY <1>13 DEF TakeCharacter, Step, Reading
    <3> QED BY <1>1, <3>1, Sizes DEF QueueOf
  <2>2. line' \in Seq(Chars)
    <3>1. Append(line, loaded) \in Seq(Chars)
      BY <1>1, <2>1
    <3>2. line # <<>> => Front(line) \in Seq(Chars)
      BY <1>1 DEF Front
    <3> QED BY <1>1, <1>13, <3>1, <3>2 DEF TakeCharacter
  <2>3. out' \in Seq(Shown)
    BY <1>13, <2>1, ShownIs DEF TakeCharacter
  <2>4. characterQueue' \in QueueOf(Chars, MAX_CHARACTER_QUEUE_SIZE)
    <3>1. After(characterQueue, characterQueue.head) \in 0..(MAX_CHARACTER_QUEUE_SIZE - 1)
      BY <1>1, QueueFacts, Sizes
    <3> QED BY <1>1, <1>13, <3>1 DEF QueueOf, TakeCharacter
  <2>5. todo' = <<>> /\ todo' \in Rests(Head(out')) /\ at' = at
    BY <1>10, <1>13 DEF TakeCharacter, Step, Types
  <2> QED BY <1>13, <2>2, <2>3, <2>4, <2>5 DEF Types, TakeCharacter, Step, keyboard, state, display
<1>14. CASE RunCommand
  <2>1. /\ out' \in Seq(Shown) /\ mode' \in {"text", "color"}
        /\ todo' = <<>> /\ todo' \in Rests(Head(out'))
    BY <1>10, <1>14, ShownIs DEF RunCommand, Step, Types
  <2> QED BY <1>14, <2>1 DEF Types, RunCommand, Step, keyboard, state
<1>15. CASE EndGraphics
  BY <1>15, ShownIs DEF Types, EndGraphics, Step, keyboard, state
<1>16. CASE ReadTail
  BY <1>16 DEF Types, ReadTail, Step, keyboard, state, display
<1>17. CASE Keyboard_FlushCharacterQueue
  <2>1. loaded \in 0..(MAX_CHARACTER_QUEUE_SIZE - 1)
    BY <1>17 DEF Keyboard_FlushCharacterQueue, Step, Reading
  <2>2. characterQueue' \in QueueOf(Chars, MAX_CHARACTER_QUEUE_SIZE)
    BY <1>1, <1>17, <2>1 DEF QueueOf, Keyboard_FlushCharacterQueue
  <2> QED BY <1>17, <2>2 DEF Types, Keyboard_FlushCharacterQueue, Step, keyboard, state, display
<1>18. CASE Erase
  BY <1>18, ShownIs DEF Types, Erase, Step, keyboard, state
<1>19. CASE HomeColumn
  <2>1. cursor' \in Positions
    <3>1. cursor[2] \in Nat
      BY <1>1, PositionIs
    <3> QED BY <1>19, <3>1, PositionMade DEF HomeColumn
  <2> QED BY <1>19, <2>1 DEF Types, HomeColumn, Step, keyboard, state
<1>20. CASE HomeRow
  <2>1. cursor' \in Positions
    <3>1. cursor[1] \in Int /\ cursor[1] >= -1
      BY <1>1, PositionIs
    <3> QED BY <1>20, <3>1, PositionMade DEF HomeRow
  <2>2. out' \in Seq(Shown) /\ todo' = <<>> /\ todo' \in Rests(Head(out'))
    BY <1>10, <1>20, ShownIs DEF HomeRow, Step, Types
  <2> QED BY <1>20, <2>1, <2>2 DEF Types, HomeRow, Step, keyboard, state
<1> QED BY <1>3, <1>4, <1>5, <1>6, <1>7, <1>8, <1>9, <1>11, <1>12, <1>13, <1>14, <1>15,
           <1>16, <1>17, <1>18, <1>19, <1>20 DEF Next, Shell, Keyboard_HandleByte

LEMMA NoBackSpace == \A n \in 1..Len(Message) : Message[n] # BackSpace
<1>1. Len(Message) = 2 /\ Message[1] = <<"MESSAGE", FALSE>> /\ Message[2] = NewLine
  BY DEF Message
<1>2. Message[1] # BackSpace
  BY <1>1 DEF BackSpace
<1>3. Message[2] # BackSpace
  BY <1>1, Apart
<1>4. \A n \in 1..2 : n = 1 \/ n = 2
  OBVIOUS
<1> QED BY <1>1, <1>2, <1>3, <1>4

\* The test of a backspace and the step to the left do not miss the column -1.
LEMMA ColumnsPutc ==
  ASSUME Types, Columns, putc
  PROVE  Columns'
<1>1. /\ UNCHANGED <<pc, disturbed>> /\ out # <<>> /\ out' = IF todo' = <<>> THEN Tail(out) ELSE out
      /\ out \in Seq(Shown)
  BY PutcLeaves DEF Types
<1>2. /\ Len(out) \in Nat \ {0} /\ Head(out) = out[1] /\ Len(Tail(out)) = Len(out) - 1
      /\ \A n \in 1..Len(Tail(out)) : Tail(out)[n] = out[n + 1]
  BY <1>1, HeadTailProperties, EmptySeq, LenProperties
<1>3. /\ cursor[1] \in Int /\ cursor[1] >= -1 /\ cursor[2] \in Nat
      /\ at[1] \in Int /\ at[1] >= -1 /\ at[2] \in Nat
  BY PositionIs DEF Types
<1>4. Head(out) = BackSpace => pc = "read"
  BY <1>2 DEF Columns
<1>5. (pc = "run" /\ out # <<>> => Len(out) = 1 /\ Head(out) = NewLine)'
  <2>1. Len(out) = 1 => out' = out \/ out' = <<>>
    <3>1. Len(out) = 1 => Tail(out) = <<>>
      <4>1. Tail(out) \in Seq(Shown)
        BY <1>1, HeadTailProperties
      <4>2. Len(out) = 1 => Len(Tail(out)) = 0
        BY <1>2
      <4>3. Len(Tail(out)) = 0 => Tail(out) = <<>>
        BY <4>1, EmptySeq
      <4> QED BY <4>2, <4>3
    <3> QED BY <1>1, <3>1
  <2> QED BY <1>1, <2>1 DEF Columns
<1>6. (pc # "read" => \A n \in 1..Len(out) : out[n] # BackSpace)'
  <2> SUFFICES ASSUME pc # "read", NEW n \in 1..Len(out') PROVE out'[n] # BackSpace
    BY <1>1
  <2>1. CASE out' = out
    BY <2>1 DEF Columns
  <2>2. CASE out' # out
    <3>1. out' = Tail(out)
      BY <1>1, <2>2
    <3>2. n \in 1..Len(Tail(out)) /\ n + 1 \in 1..Len(out)
      BY <1>2, <3>1
    <3> QED BY <1>2, <3>1, <3>2 DEF Columns
  <2> QED BY <2>1, <2>2
<1>7. CASE TestColumn
  <2>1. Head(out) = BackSpace /\ todo = <<>> /\ Tail(Left) = Back5
    BY <1>1, <1>7, AccessIs DEF TestColumn, BackAccess, LineAccess, DrawAccess
  <2>2. /\ cursor' = cursor /\ todo' = IF cursor[1] > 0 THEN Back5 ELSE <<>>
    BY <1>7, <2>1 DEF TestColumn, GoOn
  <2> QED BY <1>1, <1>3, <1>4, <1>5, <1>6, <2>1, <2>2, Apart DEF Columns
<1>8. CASE ReadColumn
  <2>1. todo' # Back5 /\ (todo' = Back4 => todo = Back5)
    BY <1>8, ColumnRead, Apart
  <2>2. cursor' = cursor /\ at'[1] = cursor[1] /\ out' = out
    BY <1>8, ColumnRead DEF ReadColumn
  <2> QED BY <1>1, <1>5, <1>6, <2>1, <2>2 DEF Columns
<1>9. CASE ReadRow
  <2>1. todo' # Back5 /\ todo' # Back4
    BY <1>9, RowRead, Apart
  <2>2. cursor' = cursor /\ out' = out
    BY <1>9, RowRead DEF ReadRow
  <2> QED BY <1>1, <1>5, <1>6, <2>1, <2>2 DEF Columns
<1>10. CASE MoveLeft
  <2>1. Head(out) = BackSpace /\ todo = Back4 /\ todo' # Back5 /\ todo' # Back4
    BY <1>10, AccessDone, Apart DEF MoveLeft, BackAccess, LineAccess, DrawAccess
  <2>2. cursor'[1] = at[1] - 1
    BY <1>10 DEF MoveLeft
  <2>3. cursor'[1] = -1 => disturbed
    BY <1>3, <2>1, <2>2 DEF Columns
  <2> QED BY <1>1, <1>4, <1>5, <1>6, <2>1, <2>3 DEF Columns
<1>11. CASE MoveRight
  <2>1. todo' # Back5 /\ todo' # Back4
    BY <1>11, AccessDone, Apart DEF MoveRight, BackAccess, LineAccess, DrawAccess
  <2>2. cursor'[1] # -1
    BY <1>3, <1>11 DEF MoveRight
  <2> QED BY <1>5, <1>6, <2>1, <2>2 DEF Columns
<1>12. CASE MoveDown
  <2>1. todo' # Back5 /\ todo' # Back4
    BY <1>12, DownMoved, Apart
  <2>2. cursor'[1] = cursor[1] /\ out' = out
    BY <1>12, DownMoved DEF MoveDown
  <2> QED BY <1>1, <1>5, <1>6, <2>1, <2>2 DEF Columns
<1>13. CASE MoveFirst
  <2>1. todo' # Back5 /\ todo' # Back4
    BY <1>13, AccessDone, Apart DEF MoveFirst, BackAccess, LineAccess, DrawAccess
  <2>2. cursor'[1] # -1
    BY <1>13 DEF MoveFirst
  <2> QED BY <1>5, <1>6, <2>1, <2>2 DEF Columns
<1>14. CASE Put
  <2>1. todo' # Back5 /\ todo' # Back4 /\ (out' = out \/ Head(out) = BackSpace)
    BY <1>14, CharacterPut, Apart
  <2>2. cursor' = cursor
    BY <1>14 DEF Put
  <2> QED BY <1>1, <1>4, <1>5, <1>6, <2>1, <2>2 DEF Columns
<1> QED BY <1>7, <1>8, <1>9, <1>10, <1>11, <1>12, <1>13, <1>14 DEF putc

LEMMA ColumnsStep == Types /\ Columns /\ [Next]_vars => Columns'
<1> SUFFICES ASSUME Types, Columns, [Next]_vars PROVE Columns'
  OBVIOUS
<1>1. CASE UNCHANGED <<cursor, at, todo, pc, out, disturbed>>
  BY <1>1 DEF Columns
<1>2. CASE UNCHANGED vars
  BY <1>1, <1>2 DEF vars, display
<1>3. ASSUME NEW k \in Keys, Press(k) \/ Release(k) PROVE Columns'
  BY <1>1, <1>3 DEF Press, Release, shell, display
<1>4. CASE Prefix \/ KeyDown \/ KeyUp
  BY <1>1, <1>4 DEF Prefix, KeyDown, KeyUp, Byte, shell
<1>5. CASE Compound
  <2>1. cursor'[1] = 0 /\ disturbed' /\ UNCHANGED <<at, todo, pc, out>>
    BY <1>5 DEF Compound, Puts, Byte, shell
  <2> QED BY <2>1 DEF Columns
<1>6. CASE putc
  BY <1>6, ColumnsPutc
\* Between two characters.
<1>7. ASSUME out = <<>>, todo' = todo, cursor'[1] # -1 \/ (cursor' = cursor /\ disturbed' = disturbed),
             pc \in {"read", "advance"} => pc' \in {"read", "advance"},
             pc' # "run" \/ out' = <<>>, out' \in {<<>>, Message} \/ pc' = "read"
      PROVE  Columns'
  <2>1. todo' = <<>>
    BY <1>7 DEF Types
  <2>2. (pc # "read" => \A n \in 1..Len(out) : out[n] # BackSpace)'
    <3>1. Len(<<>>) = 0 /\ 1..0 = {}
      OBVIOUS
    <3> QED BY <1>7, <3>1, NoBackSpace
  <2>3. (cursor[1] = -1 => disturbed /\ (pc \in {"read", "advance"} \/ (pc = "run" /\ out # <<>>)))'
    BY <1>7 DEF Columns
  <2> QED BY <1>7, <2>1, <2>2, <2>3, Apart DEF Columns
<1>8. CASE ShowPrompt
  <2>1. cursor' = cursor /\ pc = "prompt" /\ pc' = "read" /\ out = <<>> /\ todo' = todo
    BY <1>8 DEF ShowPrompt, Step, display
  <2>2. cursor'[1] # -1
    BY <2>1 DEF Columns
  <2> QED BY <1>7, <2>1, <2>2
<1>9. CASE Keyboard_GetCharacter \/ EndGraphics \/ ReadTail \/ Keyboard_FlushCharacterQueue \/ Erase
  <2>1. /\ cursor' = cursor /\ disturbed' = disturbed /\ out = <<>> /\ out' = out /\ todo' = todo
        /\ pc' # "run" /\ (pc \in {"read", "advance"} => pc' \in {"read", "advance"})
    BY <1>9 DEF Keyboard_GetCharacter, EndGraphics, ReadTail, Keyboard_FlushCharacterQueue, Erase, Step, display
  <2> QED BY <1>7, <2>1
<1>10. CASE TakeCharacter
  <2>1. /\ cursor' = cursor /\ disturbed' = disturbed /\ out = <<>> /\ todo' = todo /\ pc = "advance"
        /\ pc' = IF loaded = NewLine THEN "run" ELSE "read"
        /\ loaded = NewLine => out' = <<NewLine>>
    BY <1>10, Apart DEF TakeCharacter, Step, display
  <2>2. todo' = <<>>
    BY <2>1 DEF Types
  <2>3. CASE loaded = NewLine
    <3>1. Len(out') = 1 /\ Head(out') = NewLine /\ out' # <<>> /\ \A n \in 1..1 : out'[n] = NewLine
      BY <2>1, <2>3
    <3> QED BY <2>1, <2>2, <2>3, <3>1, Apart DEF Columns
  <2>4. CASE loaded # NewLine
    BY <1>7, <2>1, <2>4
  <2> QED BY <2>3, <2>4
<1>11. CASE RunCommand
  <2>1. /\ cursor' = cursor /\ pc = "run" /\ pc' # "run" /\ out = <<>> /\ out' \in {<<>>, Message}
        /\ todo' = todo
    BY <1>11 DEF RunCommand, Step
  <2>2. cursor'[1] # -1
    BY <2>1 DEF Columns
  <2> QED BY <1>7, <2>1, <2>2
<1>12. CASE HomeColumn \/ HomeRow
  <2>1. /\ pc \in {"column", "row"} /\ pc' \in {"row", "prompt"} /\ out = <<>>
        /\ out' \in {<<>>, Message} /\ todo' = todo /\ (cursor'[1] = 0 \/ cursor'[1] = cursor[1])
    BY <1>12 DEF HomeColumn, HomeRow, Step
  <2>2. cursor'[1] # -1
    BY <2>1 DEF Columns
  <2> QED BY <1>7, <2>1, <2>2
<1> QED BY <1>2, <1>3, <1>4, <1>5, <1>6, <1>8, <1>9, <1>10, <1>11, <1>12
        DEF Next, Shell, Keyboard_HandleByte

-----------------------------------------------------------------------------
(***************************************************************************)
(* The queue between the handler and the shell.                            *)
(***************************************************************************)
\* What the shell has read is still so after the handler has pushed.
LEMMA ReadingStep == Types /\ Reading /\ [Next]_vars => Reading'
<1> SUFFICES ASSUME Types, Reading, [Next]_vars PROVE Reading'
  OBVIOUS
<1>1. characterQueue \in QueueOf(Chars, MAX_CHARACTER_QUEUE_SIZE)
  BY DEF Types
<1>2. /\ characterQueue.head \in 0..(MAX_CHARACTER_QUEUE_SIZE - 1)
      /\ characterQueue.tail \in 0..(MAX_CHARACTER_QUEUE_SIZE - 1)
      /\ Distance(characterQueue, characterQueue.tail) \in Int
  <2>1. Distance(characterQueue, characterQueue.tail) \in 0..(MAX_CHARACTER_QUEUE_SIZE - 1)
    BY <1>1, QueuedIs, Sizes
  <2>2. /\ characterQueue.head \in 0..(MAX_CHARACTER_QUEUE_SIZE - 1)
        /\ characterQueue.tail \in 0..(MAX_CHARACTER_QUEUE_SIZE - 1)
    BY <1>1, QueueFacts, Sizes
  <2> QED BY <2>1, <2>2
<1>3. CASE UNCHANGED <<pc, loaded, characterQueue>>
  BY <1>3 DEF Reading, Keyboard_CharacterQueueEmpty
<1>4. CASE UNCHANGED vars
  BY <1>3, <1>4 DEF vars
<1>5. ASSUME NEW k \in Keys, Press(k) \/ Release(k) PROVE Reading'
  BY <1>3, <1>5 DEF Press, Release, shell
<1>6. CASE Prefix \/ KeyUp \/ Compound
  BY <1>3, <1>6 DEF Prefix, KeyUp, Compound, Byte, shell
<1>7. CASE KeyDown
  <2>1. pc' = pc /\ loaded' = loaded
    BY <1>7 DEF KeyDown, Byte, shell
  <2>2. CASE characterQueue' = characterQueue
    BY <1>3, <2>1, <2>2
  <2>3. ASSUME NEW c \in Chars, characterQueue' = Keyboard_PushCharacter(characterQueue, c)
        PROVE  Reading'
    <3> PICK q, r : q = characterQueue /\ r = characterQueue'
      OBVIOUS
    <3>1. /\ r.head = q.head
          /\ \A p \in 0..(MAX_CHARACTER_QUEUE_SIZE - 1) :
               Distance(r, p) = Distance(q, p) /\ (p # q.tail => r.slots[p] = q.slots[p])
          /\ Full(q) => r = q
          /\ ~Full(q) => Distance(r, r.tail) = Distance(q, q.tail) + 1
      BY <1>1, <2>3, PushResult, Sizes
    <3>2. ~Full(q) => r.tail # q.head
      BY <2>3 DEF Full, Keyboard_PushCharacter
    <3>3. pc = "advance" => q.head # q.tail /\ loaded = q.slots[q.head]
      BY DEF Reading, Keyboard_CharacterQueueEmpty
    <3>4. pc = "advance" => r.head # r.tail /\ loaded = r.slots[r.head]
      BY <1>2, <3>1, <3>2, <3>3
    <3>5. pc = "flushed" => /\ loaded \in 0..(MAX_CHARACTER_QUEUE_SIZE - 1)
                            /\ Distance(q, loaded) <= Distance(q, q.tail)
      BY DEF Reading
    <3>6. pc = "flushed" => Distance(r, loaded) <= Distance(r, r.tail)
      <4>1. pc = "flushed" => Distance(q, loaded) \in Int
        <5>1. \A p \in 0..(MAX_CHARACTER_QUEUE_SIZE - 1) :
                Distance(q, p) = IF p >= q.head THEN p - q.head ELSE p - q.head + MAX_CHARACTER_QUEUE_SIZE
          BY <1>1, QueueFacts, Sizes
        <5> QED BY <1>2, <3>5, <5>1, Sizes
      <4> QED BY <1>2, <3>1, <3>5, <4>1
    <3>7. characterQueue' = r /\ characterQueue = q
      OBVIOUS
    <3> QED BY <2>1, <3>4, <3>5, <3>6, <3>7 DEF Reading, Keyboard_CharacterQueueEmpty
  <2> QED BY <1>7, <2>2, <2>3, KeyDownPushes
<1>8. CASE putc
  BY <1>3, <1>8, PutcLeaves
<1>9. CASE ShowPrompt
  BY <1>9 DEF ShowPrompt, Step, Reading
<1>10. CASE Keyboard_GetCharacter
  BY <1>10 DEF Keyboard_GetCharacter, Step, Reading, Keyboard_CharacterQueueEmpty
<1>11. CASE TakeCharacter
  BY <1>11 DEF TakeCharacter, Step, Reading
<1>12. CASE RunCommand \/ EndGraphics
  BY <1>12 DEF RunCommand, EndGraphics, Step, Reading
<1>13. CASE ReadTail
  BY <1>2, <1>13 DEF ReadTail, Step, Reading
<1>14. CASE Keyboard_FlushCharacterQueue
  BY <1>14 DEF Keyboard_FlushCharacterQueue, Step, Reading
<1>15. CASE Erase \/ HomeColumn \/ HomeRow
  BY <1>15 DEF Erase, HomeColumn, HomeRow, Step, Reading
<1> QED BY <1>4, <1>5, <1>6, <1>7, <1>8, <1>9, <1>10, <1>11, <1>12, <1>13, <1>14, <1>15
        DEF Next, Shell, Keyboard_HandleByte

\* A step of the program is a step of the abstract queue, or none.
LEMMA QueueStep ==
  Types /\ Reading /\ Types' /\ [Next]_vars => [Queue!Next]_(Queue!vars)
<1> SUFFICES ASSUME Types, Reading, Types', [Next]_vars PROVE [Queue!Next]_(Queue!vars)
  OBVIOUS
<1> DEFINE size == MAX_CHARACTER_QUEUE_SIZE
<1>1. size \in Nat \ {0} /\ characterQueue \in QueueOf(Chars, size)
  BY Sizes DEF Types
<1>2. characterQueue' \in QueueOf(Chars, size)
  BY DEF Types
<1> PICK q, r : q = characterQueue /\ r = characterQueue'
  OBVIOUS
<1> HIDE DEF size
<1>3. q \in QueueOf(Chars, size) /\ r \in QueueOf(Chars, size)
  BY <1>1, <1>2
<1>4. /\ Queued(q) \in Seq(Chars) /\ Len(Queued(q)) = Distance(q, q.tail)
      /\ Distance(q, q.tail) \in 0..(size - 1)
      /\ Queued(q) = [n \in 1..Distance(q, q.tail) |-> q.slots[Place(q, n - 1)]]
  BY <1>1, <1>3, QueuedIs
<1>5. CASE UNCHANGED <<characterQueue, taken, lost, pc, loaded>>
  BY <1>5 DEF Queue!vars, Queued, Leaving
<1>6. CASE UNCHANGED vars
  BY <1>5, <1>6 DEF vars, state
<1>7. ASSUME NEW k \in Keys, Press(k) \/ Release(k)
      PROVE  UNCHANGED <<characterQueue, taken, lost, pc, loaded>>
  BY <1>7 DEF Press, Release, shell, state
<1>8. CASE Prefix \/ KeyUp \/ Compound
  BY <1>5, <1>8 DEF Prefix, KeyUp, Compound, Byte, shell
<1>9. CASE KeyDown
  <2>1. taken' = taken /\ pc' = pc /\ loaded' = loaded
    BY <1>9 DEF KeyDown, Byte, shell
  <2>2. CASE characterQueue' = characterQueue /\ lost' = lost
    BY <1>5, <2>1, <2>2
  <2>3. ASSUME NEW c \in Chars, r = Keyboard_PushCharacter(q, c),
               lost' = IF Full(q) THEN lost + 1 ELSE lost
        PROVE  Queue!Next
    <3>1. /\ Full(q) <=> Distance(q, q.tail) = size - 1
          /\ Full(q) => r = q
          /\ ~Full(q) => Queued(r) = Append(Queued(q), c)
          /\ r.head = q.head
      BY <1>1, <1>3, <2>3, PushResult
    <3>4. Leaving' = Leaving
      BY <2>1, <3>1 DEF Leaving
    <3>2. CASE Full(q)
      <4>1. Queued(r) = Queued(q) /\ Len(Queued(q)) = size - 1 /\ lost' = lost + 1
        BY <1>4, <2>3, <3>1, <3>2
      <4> QED BY <2>1, <3>4, <4>1 DEF Queue!Next, Queue!Lose, Queued, size
    <3>3. CASE ~Full(q)
      <4>1. Queued(r) = Append(Queued(q), c) /\ lost' = lost
        BY <2>3, <3>1, <3>3
      <4>2. Len(Queued(q)) < size - 1
        BY <1>1, <1>4, <3>1, <3>3
      <4>3. Queued(r) # <<>> /\ Front(Queued(r)) = Queued(q)
        BY <1>4, <4>1, AppendProperties, HeadTailAppend DEF Front
      <4>4. Queue!Push
        <5>1. Front(Queued(r)) = Queue!Front(Queued(r))
          BY DEF Queue!Front, Front
        <5> QED BY <2>1, <3>4, <4>1, <4>2, <4>3, <5>1 DEF Queue!Push, size
      <4> QED BY <4>4 DEF Queue!Next
    <3> QED BY <3>2, <3>3
  <2>4. \/ characterQueue' = characterQueue /\ lost' = lost
        \/ \E c \in Chars : /\ r = Keyboard_PushCharacter(q, c)
                           /\ lost' = IF Full(q) THEN lost + 1 ELSE lost
    BY <1>9, KeyDownPushes
  <2> QED BY <2>2, <2>3, <2>4
<1>10. CASE putc
  BY <1>5, <1>10, PutcLeaves DEF state
<1>11. CASE ShowPrompt \/ Keyboard_GetCharacter \/ RunCommand \/ EndGraphics \/ Erase
            \/ HomeColumn \/ HomeRow
  <2>1. UNCHANGED <<characterQueue, taken, lost>> /\ pc # "flushed" /\ pc' # "flushed"
    BY <1>11 DEF ShowPrompt, Keyboard_GetCharacter, RunCommand, EndGraphics, Erase, HomeColumn, HomeRow,
                 Step, state
  <2> QED BY <2>1 DEF Queue!vars, Queued, Leaving
<1>14. CASE ReadTail
  <2>1. /\ pc = "flush" /\ pc' = "flushed" /\ loaded' = q.tail /\ r = q
        /\ UNCHANGED <<characterQueue, taken, lost>>
    BY <1>14 DEF ReadTail, Step, state
  <2> PICK h, t : h = q.head /\ t = q.tail
    OBVIOUS
  <2>2. h \in 0..(size - 1) /\ t \in 0..(size - 1)
    BY <1>1, <1>3, QueueFacts
  <2>3. (t - h) % size = IF t >= h THEN t - h ELSE t - h + size
    BY <1>1, <2>2, Remainders
  <2>4. Distance(q, t) = IF t >= h THEN t - h ELSE t - h + size
    BY <1>1, <1>3, <2>2, QueueFacts
  <2>5. Leaving = 0 /\ Leaving' = Len(Queued(q))
    BY <1>4, <2>1, <2>3, <2>4 DEF Leaving, size
  <2> QED BY <2>1, <2>5 DEF Queue!Next, Queue!BeginFlush, Queued
<1>12. CASE TakeCharacter
  <2>1. r = [q EXCEPT !.head = After(q, @)] /\ taken' = loaded /\ lost' = lost
    BY <1>12 DEF TakeCharacter, Step, state
  <2>2. q.head # q.tail /\ loaded = q.slots[q.head]
    BY <1>12 DEF TakeCharacter, Step, Reading, Keyboard_CharacterQueueEmpty
  <2>3. q.head \in 0..(size - 1) /\ q.tail \in 0..(size - 1)
    BY <1>1, <1>3, QueueFacts
  <2>4. After(q, q.head) = IF q.head + 1 = size THEN 0 ELSE q.head + 1
    BY <1>1, <1>3, <2>3, QueueFacts
  <2> PICK p : p = After(q, q.head)
    OBVIOUS
  <2>5. p \in 0..(size - 1)
    BY <1>1, <2>3, <2>4
  <2>6. Distance(q, p) = 1 /\ Distance(q, p) <= Distance(q, q.tail)
    <3>1. Distance(q, p) = IF p >= q.head THEN p - q.head ELSE p - q.head + size
      BY <1>1, <1>3, <2>5, QueueFacts
    <3>2. Distance(q, q.tail) = IF q.tail >= q.head THEN q.tail - q.head ELSE q.tail - q.head + size
      BY <1>1, <1>3, <2>3, QueueFacts
    <3> QED BY <1>1, <2>2, <2>3, <2>4, <2>5, <3>1, <3>2
  <2>7. r.head = p /\ r.tail = q.tail /\ r.slots = q.slots
    BY <1>3, <2>1 DEF QueueOf
  <2>8. Queued(r) = SubSeq(Queued(q), 2, Len(Queued(q)))
    BY <1>1, <1>3, <2>5, <2>6, <2>7, HeadMoves
  <2>9. Queued(q) # <<>> /\ Queued(r) = Tail(Queued(q))
    BY <1>4, <2>6, <2>8, TailIsSubSeq
  <2>10. Head(Queued(q)) = loaded
    <3>1. Place(q, 0) = q.head
      BY <1>1, <1>3, <2>3, QueueFacts
    <3>2. Queued(q)[1] = q.slots[Place(q, 0)]
      BY <1>4, <2>6
    <3> QED BY <1>4, <2>2, <2>9, <3>1, <3>2, HeadTailProperties
  <2>11. Leaving = 0 /\ Leaving' = 0
    BY <1>12 DEF TakeCharacter, Step, Leaving
  <2> QED BY <2>1, <2>9, <2>10, <2>11 DEF Queue!Next, Queue!Take, Queued
<1>13. CASE Keyboard_FlushCharacterQueue
  <2>1. r = [q EXCEPT !.head = loaded] /\ taken' = taken /\ lost' = lost
    BY <1>13 DEF Keyboard_FlushCharacterQueue, Step, state
  <2>2. loaded \in 0..(size - 1) /\ Distance(q, loaded) <= Distance(q, q.tail)
    BY <1>13 DEF Keyboard_FlushCharacterQueue, Step, Reading, size
  <2>3. r.head = loaded /\ r.tail = q.tail /\ r.slots = q.slots
    BY <1>3, <2>1 DEF QueueOf
  <2> PICK d : d = Distance(q, loaded)
    OBVIOUS
  <2>4. Queued(r) = SubSeq(Queued(q), d + 1, Len(Queued(q)))
    BY <1>1, <1>3, <2>2, <2>3, HeadMoves
  <2>5. d = IF loaded >= q.head THEN loaded - q.head ELSE loaded - q.head + size
    BY <1>1, <1>3, <2>2, QueueFacts
  <2>6. q.head \in 0..(size - 1)
    BY <1>1, <1>3, QueueFacts
  <2>7. d \in Nat /\ d <= Len(Queued(q))
    BY <1>1, <1>4, <2>2, <2>5, <2>6
  <2>10. Leaving = d /\ Leaving' = 0
    <3> PICK h, p : h = q.head /\ p = loaded
      OBVIOUS
    <3>1. (p - h) % size = IF p >= h THEN p - h ELSE p - h + size
      BY <1>1, <2>2, <2>6, Remainders
    <3>2. pc = "flushed" /\ pc' = "clear"
      BY <1>13 DEF Keyboard_FlushCharacterQueue, Step
    <3> QED BY <2>5, <3>1, <3>2 DEF Leaving, size
  <2>8. CASE d = 0
    <3>1. Queued(r) = Queued(q)
      BY <1>4, <2>4, <2>8, SubSeqFull
    <3> QED BY <2>1, <2>8, <2>10, <3>1 DEF Queue!vars, Queued
  <2>9. CASE d # 0
    <3>1. Queued(characterQueue) = Queued(q) /\ Queued(characterQueue)' = Queued(r)
      BY DEF Queued
    <3> QED BY <2>1, <2>4, <2>9, <2>10, <3>1 DEF Queue!Next, Queue!EndFlush
  <2> QED BY <2>8, <2>9
<1> QED BY <1>5, <1>6, <1>7, <1>8, <1>9, <1>10, <1>11, <1>12, <1>13, <1>14
        DEF Next, Shell, Keyboard_HandleByte

-----------------------------------------------------------------------------
(***************************************************************************)
(* What the screen shows.                                                  *)
(***************************************************************************)
LEMMA CellMoves ==
  ASSUME NEW x \in Nat, NEW y \in Nat
  PROVE  /\ Cell(<<x, y>>) \in Nat /\ Cell(<<x + 1, y>>) = Cell(<<x, y>>) + 1
         /\ x # 0 => Cell(<<x - 1, y>>) = Cell(<<x, y>>) - 1
<1>1. PICK row \in Nat : row = y * SCREEN_WIDTH
  BY Sizes
<1> QED BY <1>1 DEF Cell

LEMMA CursorIs ==
  ASSUME Types, cursor[1] # -1
  PROVE  /\ cursor = <<cursor[1], cursor[2]>> /\ cursor[1] \in Nat /\ cursor[2] \in Nat
         /\ Cell(cursor) \in Nat
         /\ Cell(<<cursor[1] + 1, cursor[2]>>) = Cell(cursor) + 1
         /\ cursor[1] # 0 => Cell(<<cursor[1] - 1, cursor[2]>>) = Cell(cursor) - 1
<1>1. PICK x \in Nat, y \in Nat : cursor = <<x, y>>
  <2>1. cursor = <<cursor[1], cursor[2]>> /\ cursor[1] \in Nat /\ cursor[2] \in Nat
    BY PositionIs DEF Types
  <2> QED BY <2>1
<1>2. cursor[1] = x /\ cursor[2] = y
  BY <1>1
<1>3. /\ Cell(<<x, y>>) \in Nat /\ Cell(<<x + 1, y>>) = Cell(<<x, y>>) + 1
      /\ x # 0 => Cell(<<x - 1, y>>) = Cell(<<x, y>>) - 1
  BY CellMoves
<1> QED BY <1>1, <1>2, <1>3

LEMMA OutIs ==
  ASSUME Types, out # <<>>
  PROVE  /\ Len(out) \in Nat \ {0} /\ Head(out) = out[1] /\ Head(out) \in Shown
         /\ Len(Tail(out)) = Len(out) - 1
         /\ \A n \in 1..Len(Tail(out)) : Tail(out)[n] = out[n + 1]
<1>1. out \in Seq(Shown)
  BY DEF Types
<1>2. Head(out) = out[1] /\ Head(out) \in Shown
  BY <1>1, HeadTailProperties
<1>3. Len(out) \in Nat \ {0}
  BY <1>1, EmptySeq, LenProperties
<1>4. /\ Len(Tail(out)) = Len(out) - 1
      /\ \A n \in 1..Len(Tail(out)) : Tail(out)[n] = out[n + 1]
  BY <1>1, HeadTailProperties
<1> QED BY <1>2, <1>3, <1>4

\* A character put behind what is drawn changes none of it.
LEMMA PutBehind ==
  ASSUME Types, mode = "text", start \in Nat, NEW d \in Nat, DrawnTo(d), Cell(cursor) = start + d,
         NEW c \in Shown, screen' = Display_PutChar(screen, cursor, c), UNCHANGED <<start, line>>
  PROVE  DrawnTo(d)' /\ (c = Text(line, d + 1) => DrawnTo(d + 1)')
<1>1. screen \in [DOMAIN Blank -> Shown] /\ DOMAIN screen = DOMAIN Blank
  BY DEF Types
<1>2. DOMAIN screen' = DOMAIN screen
  BY <1>1 DEF Display_PutChar
<1>3. \A n \in DOMAIN screen : screen'[n] = IF n = start + d THEN c ELSE screen[n]
  BY <1>1 DEF Display_PutChar
<1>4. DrawnTo(d)'
  <2> SUFFICES ASSUME NEW n \in 1..d, start + n - 1 \in DOMAIN screen
               PROVE  screen'[start + n - 1] = Text(line, n)
    BY <1>2 DEF DrawnTo
  <2>1. start + n - 1 # start + d
    OBVIOUS
  <2>2. screen[start + n - 1] = Text(line, n)
    BY DEF DrawnTo
  <2> QED BY <1>3, <2>1, <2>2
<1>5. ASSUME c = Text(line, d + 1) PROVE DrawnTo(d + 1)'
  <2> SUFFICES ASSUME NEW n \in 1..(d + 1), start + n - 1 \in DOMAIN screen
               PROVE  screen'[start + n - 1] = Text(line, n)
    BY <1>2 DEF DrawnTo
  <2>1. CASE n = d + 1
    <3>1. start + n - 1 = start + d
      BY <2>1
    <3>2. screen'[start + n - 1] = c
      BY <1>3, <3>1
    <3> QED BY <1>5, <2>1, <3>2
  <2>2. CASE n # d + 1
    <3>1. n \in 1..d /\ start + n - 1 # start + d
      BY <2>2
    <3>2. screen[start + n - 1] = Text(line, n)
      BY <3>1 DEF DrawnTo
    <3> QED BY <1>3, <3>1, <3>2
  <2> QED BY <2>1, <2>2
<1> QED BY <1>4, <1>5

\* The shell waits between two characters of its own or inside of a putc.
Waits == pc \in {"read", "advance"} /\ ~disturbed
LineOK == \A n \in 1..TextLen(line) : Text(line, n) \notin {BackSpace, NewLine}

LEMMA DrawingStep ==
  ASSUME Types, Echo, Waits, Drawing, putc
  PROVE  Drawing'
<1>1. /\ out # <<>> /\ out' = IF todo' = <<>> THEN Tail(out) ELSE out
      /\ UNCHANGED <<pc, line, start, mode, disturbed>>
  BY PutcLeaves
<1>2. mode = "text" /\ start \in Nat /\ LineOK
  BY DEF Echo, Waits, LineOK
<1>3. /\ Len(out) \in Nat \ {0} /\ Head(out) = out[1] /\ Head(out) \in Shown /\ Len(line) \in Nat
      /\ Len(Tail(out)) = Len(out) - 1 /\ \A n \in 1..Len(Tail(out)) : Tail(out)[n] = out[n + 1]
  BY <1>1, OutIs DEF Types
<1>4. PICK d \in 0..TextLen(line) :
        /\ Len(out) = TextLen(line) - d /\ \A n \in 1..Len(out) : out[n] = Text(line, d + n)
        /\ Cell(cursor) = start + d /\ d <= cursor[1] /\ DrawnTo(d)
        /\ todo \in {Draw2, Draw1} => DrawnTo(d + 1)
        /\ todo = Draw4 => at[2] = cursor[2]
        /\ todo = Draw3 => at = cursor
        /\ todo = Draw1 => at[1] = cursor[1]
  BY DEF Drawing
<1>5. d \in Nat /\ d + 1 \in 1..TextLen(line) /\ Head(out) = Text(line, d + 1)
  BY <1>3, <1>4 DEF TextLen
<1>6. Head(out) \notin {BackSpace, NewLine}
  BY <1>2, <1>5 DEF LineOK
<1>7. cursor = <<cursor[1], cursor[2]>> /\ cursor[1] \in Nat /\ cursor[1] # -1
  <2>1. cursor[1] \in Int /\ cursor = <<cursor[1], cursor[2]>>
    BY PositionIs DEF Types
  <2> QED BY <1>4, <1>5, <2>1
<1>8. ASSUME UNCHANGED <<cursor, out>>, DrawnTo(d)',
             todo' \in {Draw2, Draw1} => DrawnTo(d + 1)',
             todo' = Draw4 => at'[2] = cursor[2],
             todo' = Draw3 => at' = cursor,
             todo' = Draw1 => at'[1] = cursor[1]
      PROVE  Drawing'
  BY <1>1, <1>4, <1>8 DEF Drawing, Cell
<1>9. CASE ReadRow
  <2>1. todo' = Draw4 /\ out' = out
    BY <1>6, <1>9, RowRead
  <2>2. cursor' = cursor /\ at'[2] = cursor[2] /\ DrawnTo(d)'
    BY <1>1, <1>4, <1>9 DEF ReadRow, DrawnTo
  <2> QED BY <1>8, <2>1, <2>2, Apart
<1>10. CASE ReadColumn
  <2>1. ((todo = Draw4 /\ todo' = Draw3) \/ (todo = Draw2 /\ todo' = Draw1)) /\ out' = out
    BY <1>6, <1>10, ColumnRead
  <2>2. cursor' = cursor /\ at' = <<cursor[1], at[2]>> /\ DrawnTo(d)'
    BY <1>1, <1>4, <1>10 DEF ReadColumn, DrawnTo
  <2>3. CASE todo = Draw4
    <3>1. at' = cursor /\ todo' = Draw3
      BY <1>4, <1>7, <2>1, <2>2, <2>3, Apart
    <3> QED BY <1>8, <2>1, <2>2, <3>1, Apart
  <2>4. CASE todo = Draw2
    <3>1. at'[1] = cursor[1] /\ todo' = Draw1 /\ DrawnTo(d + 1)'
      BY <1>1, <1>4, <1>10, <2>1, <2>2, <2>4, Apart DEF ReadColumn, DrawnTo
    <3> QED BY <1>8, <2>1, <2>2, <3>1, Apart
  <2> QED BY <2>1, <2>3, <2>4
<1>11. CASE Put
  <2>1. todo = Draw3 /\ todo' = Draw2 /\ out' = out
    BY <1>6, <1>11, CharacterPut
  <2>2. cursor' = cursor /\ screen' = Display_PutChar(screen, cursor, Head(out))
    BY <1>4, <1>6, <1>11, <2>1 DEF Put
  <2>3. DrawnTo(d)' /\ DrawnTo(d + 1)'
    BY <1>1, <1>2, <1>3, <1>4, <1>5, <2>2, PutBehind
  <2> QED BY <1>8, <2>1, <2>2, <2>3, Apart
<1>12. CASE MoveRight
  <2>1. todo = Draw1 /\ todo' = <<>> /\ out' = Tail(out)
    BY <1>1, <1>6, <1>12, AccessDone, Apart DEF MoveRight, DrawAccess
  <2>2. cursor' = <<cursor[1] + 1, cursor[2]>> /\ screen' = screen
    BY <1>4, <1>12, <2>1 DEF MoveRight
  <2>3. Cell(cursor') = Cell(cursor) + 1 /\ cursor'[1] = cursor[1] + 1
    BY <1>7, <2>2, CursorIs
  <2>4. Cell(cursor') = start + (d + 1) /\ d + 1 <= cursor'[1]
    <3>1. start \in Nat /\ d \in Nat /\ cursor[1] \in Nat /\ Cell(cursor) = start + d /\ d <= cursor[1]
      BY <1>2, <1>4, <1>5, <1>7
    <3> QED BY <2>3, <3>1
  <2>5. DrawnTo(d + 1)'
    BY <1>1, <1>4, <2>1, <2>2 DEF DrawnTo
  <2>6. Len(out') = TextLen(line) - (d + 1)
    BY <1>3, <1>4, <1>5, <2>1 DEF TextLen
  <2>7. \A n \in 1..Len(out') : out'[n] = Text(line, (d + 1) + n)
    <3> SUFFICES ASSUME NEW n \in 1..Len(out') PROVE out'[n] = Text(line, (d + 1) + n)
      OBVIOUS
    <3>1. n + 1 \in 1..Len(out) /\ d + (n + 1) = (d + 1) + n
      BY <1>3, <1>5, <2>1
    <3>2. out'[n] = out[n + 1]
      BY <1>3, <2>1
    <3> QED BY <1>4, <3>1, <3>2
  <2>8. d + 1 \in 0..TextLen(line)
    BY <1>5
  <2> QED BY <1>1, <2>1, <2>4, <2>5, <2>6, <2>7, <2>8, Apart DEF Drawing, Cell
<1>13. CASE TestColumn
  BY <1>1, <1>6, <1>13, AccessIs DEF TestColumn, DrawAccess
<1>14. CASE MoveLeft \/ MoveDown \/ MoveFirst
  BY <1>1, <1>6, <1>14, AccessDone DEF MoveLeft, MoveDown, MoveFirst, DrawAccess
<1> QED BY <1>9, <1>10, <1>11, <1>12, <1>13, <1>14 DEF putc

LEMMA ErasingStep ==
  ASSUME Types, Echo, Waits, Erasing, putc
  PROVE  (Drawing \/ Erasing)'
<1>1. /\ out # <<>> /\ out' = IF todo' = <<>> THEN Tail(out) ELSE out
      /\ UNCHANGED <<pc, line, start, mode, disturbed>>
  BY PutcLeaves
<1>2. mode = "text" /\ start \in Nat
  BY DEF Echo, Waits
<1>3. Len(line) \in Nat /\ Len(out) = 1 /\ Head(out) = BackSpace
  BY <1>1, OutIs DEF Types, Erasing
<1> PICK d, c : d = TextLen(line) /\ c = cursor[1]
  OBVIOUS
<1>4. d \in Nat /\ d # 0
  BY <1>3 DEF TextLen
<1>5. /\ DrawnTo(d)
      /\ todo = Back4 => at[1] = c
      /\ todo = Back2 => at[2] = cursor[2]
      /\ todo = Back1 => at = cursor
  BY DEF Erasing
<1>6. /\ todo \in {<<>>, Back5, Back4} => Cell(cursor) = start + (d + 1) /\ d + 1 <= c
      /\ todo \notin {<<>>, Back5, Back4} => Cell(cursor) = start + d /\ d <= c
  BY DEF Erasing
<1>7. cursor = <<cursor[1], cursor[2]>> /\ c \in Nat /\ c # 0 /\ cursor[1] # -1
  <2>1. cursor[1] \in Int /\ cursor = <<cursor[1], cursor[2]>>
    BY PositionIs DEF Types
  <2> QED BY <1>4, <1>6, <2>1
<1>8. ASSUME out' = out, screen' = screen, NEW past \in {d, d + 1},
             past = IF todo' \in {<<>>, Back5, Back4} THEN d + 1 ELSE d,
             Cell(cursor') = start + past /\ past <= cursor'[1],
             todo' = Back4 => at'[1] = cursor'[1],
             todo' = Back2 => at'[2] = cursor'[2],
             todo' = Back1 => at' = cursor'
      PROVE  Erasing'
  <2>1. DrawnTo(d)'
    BY <1>1, <1>5, <1>8 DEF DrawnTo
  <2>2. Len(out') = 1 /\ out'[1] = BackSpace
    BY <1>8 DEF Erasing
  <2> QED BY <1>1, <1>8, <2>1, <2>2 DEF Erasing, Cell
<1>9. CASE TestColumn
  <2>1. todo = <<>> /\ Tail(Left) = Back5
    BY <1>1, <1>3, <1>9, AccessIs DEF TestColumn, BackAccess
  <2>2. cursor[1] > 0
    BY <1>7
  <2>3. todo' = Back5 /\ cursor' = cursor /\ screen' = screen
    BY <1>9, <2>1, <2>2 DEF TestColumn, GoOn
  <2>4. out' = out
    BY <1>1, <2>3, Apart
  <2> QED BY <1>6, <1>8, <2>1, <2>3, <2>4, Apart
<1>10. CASE ReadColumn
  <2>1. ((todo = Back5 /\ todo' = Back4) \/ (todo = Back2 /\ todo' = Back1)) /\ out' = out
    BY <1>3, <1>10, ColumnRead, Apart
  <2>2. cursor' = cursor /\ at' = <<cursor[1], at[2]>> /\ screen' = screen
    BY <1>10 DEF ReadColumn
  <2>3. CASE todo = Back5
    <3>1. at'[1] = cursor'[1] /\ todo' = Back4
      BY <2>1, <2>2, <2>3, Apart
    <3> QED BY <1>6, <1>8, <2>1, <2>2, <2>3, <3>1, Apart
  <2>4. CASE todo = Back2
    <3>1. at' = cursor' /\ todo' = Back1
      BY <1>5, <1>7, <2>1, <2>2, <2>4, Apart
    <3> QED BY <1>6, <1>8, <2>1, <2>2, <2>4, <3>1, Apart
  <2> QED BY <2>1, <2>3, <2>4
<1>11. CASE MoveLeft
  <2>1. todo = Back4 /\ todo' = Back3 /\ out' = out
    BY <1>1, <1>3, <1>11, AccessDone, Apart DEF MoveLeft, BackAccess
  <2>2. cursor' = <<cursor[1] - 1, cursor[2]>> /\ screen' = screen
    BY <1>5, <1>11, <2>1 DEF MoveLeft
  <2>3. Cell(cursor') = Cell(cursor) - 1 /\ cursor'[1] = c - 1
    BY <1>7, <2>2, CursorIs
  <2>4. Cell(cursor') = start + d /\ d <= cursor'[1]
    BY <1>2, <1>4, <1>6, <1>7, <2>1, <2>3
  <2> QED BY <1>8, <2>1, <2>2, <2>4, Apart
<1>12. CASE ReadRow
  <2>1. todo = Back3 /\ todo' = Back2 /\ out' = out
    BY <1>3, <1>12, RowRead, Apart
  <2>2. cursor' = cursor /\ at'[2] = cursor[2] /\ screen' = screen
    BY <1>12 DEF ReadRow
  <2> QED BY <1>6, <1>8, <2>1, <2>2, Apart
<1>13. CASE Put
  <2>1. todo = Back1 /\ todo' = <<>> /\ out' = Tail(out)
    BY <1>3, <1>13, CharacterPut, Apart
  <2>2. cursor' = cursor /\ screen' = Display_PutChar(screen, cursor, NUL)
    BY <1>3, <1>5, <1>13, <2>1 DEF Put
  <2>3. Cell(cursor) = start + d /\ d <= c
    BY <1>6, <2>1, Apart
  <2>4. DrawnTo(d)'
    BY <1>1, <1>2, <1>4, <1>5, <2>2, <2>3, PutBehind, ShownIs
  <2>5. Len(out') = TextLen(line) - d /\ 1..Len(out') = {} /\ d \in 0..TextLen(line)
    <3>1. Len(out') = 0
      BY <1>1, <1>3, <2>1, OutIs
    <3>2. TextLen(line) - d = 0 /\ 1..0 = {} /\ d \in 0..d
      BY <1>4
    <3> QED BY <3>1, <3>2
  <2> QED BY <1>1, <2>1, <2>2, <2>3, <2>4, <2>5, Apart DEF Drawing, Cell
<1>14. CASE MoveRight \/ MoveDown \/ MoveFirst
  BY <1>1, <1>3, <1>14, AccessDone DEF MoveRight, MoveDown, MoveFirst, BackAccess
<1> QED BY <1>9, <1>10, <1>11, <1>12, <1>13, <1>14 DEF putc

\* A new prompt: nothing of it is drawn.
LEMMA PromptStep ==
  ASSUME Types, Columns, ShowPrompt
  PROVE  start' \in Nat /\ LineOK' /\ Drawing'
<1>1. /\ out = <<>> /\ todo' = <<>> /\ out' = Prompt /\ line' = <<>> /\ start' = Cell(cursor)
      /\ cursor' = cursor /\ cursor[1] # -1
  BY DEF ShowPrompt, Step, Types, Columns, display
<1>2. /\ TextLen(line') = 2 /\ Len(out') = 2
      /\ \A n \in 1..2 : Text(line', n) = Prompt[n] /\ out'[n] = Text(line', 0 + n)
  BY <1>1 DEF TextLen, Text, Prompt
<1>3. start' \in Nat /\ Cell(cursor) = Cell(cursor) + 0 /\ 0 <= cursor[1]
  BY <1>1, CursorIs
<1>4. \A n \in 1..2 : Prompt[n] \notin {BackSpace, NewLine}
  <2>1. Prompt[1] = <<">", FALSE>> /\ Prompt[2] = <<"SPACE", FALSE>>
    BY DEF Prompt
  <2>2. Prompt[1] \notin {BackSpace, NewLine} /\ Prompt[2] \notin {BackSpace, NewLine}
    BY <2>1 DEF BackSpace, NewLine
  <2> QED BY <2>2
<1>5. LineOK'
  BY <1>2, <1>4 DEF LineOK
<1>6. DrawnTo(0)'
  BY DEF DrawnTo
<1>7. Drawing'
  <2>1. 0 \in 0..TextLen(line') /\ Len(out') = TextLen(line') - 0
    BY <1>2
  <2> QED BY <1>1, <1>2, <1>3, <1>6, <2>1, Apart DEF Drawing, Cell
<1> QED BY <1>3, <1>5, <1>7

\* A character that is taken over is still to be drawn; one taken back leaves
\* the line drawn, and a character behind it.
LEMMA TakeStep ==
  ASSUME Types, Types', Echo, TakeCharacter, Waits, pc' = "read"
  PROVE  LineOK' /\ (Drawing \/ Erasing)'
<1>1. /\ out = <<>> /\ todo = <<>> /\ todo' = <<>> /\ loaded # NewLine
      /\ UNCHANGED <<screen, cursor, start>>
  BY DEF TakeCharacter, Step, Types, display
<1>2. start \in Nat /\ LineOK
  BY DEF Echo, Waits, LineOK
<1>3. Len(out) = 0 /\ line \in Seq(Chars) /\ Len(line) \in Nat /\ line' \in Seq(Chars)
  BY <1>1 DEF Types
<1> PICK d : d = TextLen(line)
  OBVIOUS
<1>4. d = 2 + Len(line) /\ d \in Nat
  BY <1>3 DEF TextLen
<1>5. Cell(cursor) = start + d /\ d <= cursor[1] /\ DrawnTo(d)
  <2>1. Drawing
    BY <1>3 DEF Echo, Waits, Erasing
  <2> QED BY <1>3, <1>4, <2>1 DEF Drawing
<1>6. CASE loaded = BackSpace /\ line = <<>>
  <2>1. line' = line /\ out' = <<>>
    BY <1>6 DEF TakeCharacter, MayErase, BackSpace, NewLine
  <2>2. LineOK'
    BY <1>2, <2>1 DEF LineOK
  <2>3. Drawing'
    <3>1. DrawnTo(d)'
      BY <1>1, <1>5, <2>1 DEF DrawnTo
    <3>2. TextLen(line') = d /\ Len(out') = 0
      BY <2>1
    <3>3. d \in 0..d /\ 0 = d - d /\ 1..0 = {}
      BY <1>4
    <3> QED BY <1>1, <1>5, <3>1, <3>2, <3>3, Apart DEF Drawing, Cell
  <2> QED BY <2>2, <2>3
<1>7. CASE loaded = BackSpace /\ line # <<>>
  <2>1. line' = Front(line) /\ out' = <<loaded>>
    BY <1>7 DEF TakeCharacter, MayErase, BackSpace, NewLine
  <2>2. Len(line) # 0
    BY <1>3, <1>7, EmptySeq
  <2>3. Len(line') = Len(line) - 1 /\ \A n \in 1..(Len(line) - 1) : line'[n] = line[n]
    BY <1>3, <2>1, <2>2 DEF Front
  <2>4. TextLen(line') = d - 1 /\ \A n \in 1..(d - 1) : Text(line', n) = Text(line, n)
    <3>1. \A n \in 1..(d - 1) : n <= 2 \/ n - 2 \in 1..(Len(line) - 1)
      BY <1>3, <1>4
    <3> QED BY <1>3, <1>4, <2>3, <3>1 DEF TextLen, Text
  <2>5. LineOK'
    BY <1>2, <1>4, <2>4 DEF LineOK
  <2>6. DrawnTo(d - 1)'
    BY <1>1, <1>4, <1>5, <2>4 DEF DrawnTo
  <2>7. /\ Len(out') = 1 /\ out'[1] = BackSpace
        /\ TextLen(line') + 1 = d
    BY <1>4, <1>7, <2>1, <2>4
  <2>8. Erasing'
    BY <1>1, <1>5, <2>4, <2>6, <2>7, Apart DEF Erasing, Cell
  <2> QED BY <2>5, <2>8
<1>8. CASE loaded # BackSpace
  <2>1. line' = Append(line, loaded) /\ out' = <<loaded>>
    BY <1>1, <1>8 DEF TakeCharacter, MayErase, BackSpace, NewLine
  <2>2. Len(line') = Len(line) + 1 /\ line'[Len(line) + 1] = loaded
        /\ \A n \in 1..Len(line) : line'[n] = line[n]
    BY <1>3, <2>1, AppendProperties
  <2>3. TextLen(line') = d + 1 /\ Text(line', d + 1) = loaded
        /\ \A n \in 1..d : Text(line', n) = Text(line, n)
    <3>1. \A n \in 1..d : n <= 2 \/ n - 2 \in 1..Len(line)
      BY <1>3, <1>4
    <3>2. (d + 1) - 2 = Len(line) + 1 /\ ~(d + 1 <= 2)
      BY <1>3, <1>4
    <3> QED BY <1>3, <1>4, <2>2, <3>1, <3>2 DEF TextLen, Text
  <2>4. LineOK'
    <3> SUFFICES ASSUME NEW n \in 1..(d + 1) PROVE Text(line', n) \notin {BackSpace, NewLine}
      BY <2>3 DEF LineOK
    <3>1. CASE n = d + 1
      BY <1>1, <1>8, <2>3, <3>1
    <3>2. CASE n # d + 1
      <4>1. n \in 1..d
        BY <1>4, <3>2
      <4> QED BY <1>2, <2>3, <4>1 DEF LineOK
    <3> QED BY <3>1, <3>2
  <2>5. Drawing'
    <3>1. DrawnTo(d)'
      BY <1>1, <1>4, <1>5, <2>3 DEF DrawnTo
    <3>2. /\ d \in 0..TextLen(line') /\ Len(out') = TextLen(line') - d /\ Len(out') = 1
          /\ out'[1] = Text(line', d + 1)
      BY <1>4, <2>1, <2>3
    <3>3. \A n \in 1..Len(out') : out'[n] = Text(line', d + n)
      <4>1. \A n \in 1..Len(out') : n = 1
        <5>1. ASSUME NEW n \in 1..1 PROVE n = 1
          OBVIOUS
        <5> QED BY <3>2, <5>1
      <4> QED BY <3>2, <4>1
    <3> QED BY <1>1, <1>5, <3>1, <3>2, <3>3, Apart DEF Drawing, Cell
  <2> QED BY <2>4, <2>5
<1> QED BY <1>6, <1>7, <1>8

LEMMA EchoStep == Types /\ Types' /\ Columns /\ Echo /\ [Next]_vars => Echo'
<1> SUFFICES ASSUME Types, Types', Columns, Echo, [Next]_vars PROVE Echo'
  OBVIOUS
<1>1. CASE UNCHANGED <<pc, out, todo, at, line, screen, cursor, mode, start, disturbed>>
  BY <1>1 DEF Echo, Drawing, Erasing, DrawnTo, Cell
<1>2. CASE UNCHANGED vars
  BY <1>1, <1>2 DEF vars, display
<1>3. ASSUME NEW k \in Keys, Press(k) \/ Release(k) PROVE Echo'
  BY <1>1, <1>3 DEF Press, Release, shell, display
<1>4. CASE Prefix \/ KeyDown \/ KeyUp
  BY <1>1, <1>4 DEF Prefix, KeyDown, KeyUp, Byte, shell
<1>5. CASE Compound
  BY <1>5 DEF Compound, Byte, shell, Echo
<1>6. CASE putc
  <2>1. UNCHANGED <<pc, mode, start, line, disturbed>>
    BY <1>6, PutcLeaves
  <2>2. Waits => (Drawing \/ Erasing)'
    BY <1>6, DrawingStep, ErasingStep DEF Echo, Waits
  <2> QED BY <2>1, <2>2 DEF Echo, Waits
<1>8. CASE ShowPrompt
  <2>1. pc # "graphics" /\ mode' = mode
    BY <1>8 DEF ShowPrompt, Step, display
  <2> QED BY <1>8, <2>1, PromptStep DEF Echo, LineOK
<1>9. CASE Keyboard_GetCharacter
  BY <1>1, <1>9 DEF Keyboard_GetCharacter, Step, display, Echo, Drawing, Erasing, DrawnTo, Cell
<1>10. CASE TakeCharacter
  <2>1. pc = "advance" /\ pc' \in {"read", "run"} /\ UNCHANGED <<mode, start, disturbed>>
    BY <1>10 DEF TakeCharacter, Step, display
  <2>2. Waits /\ pc' = "read" => LineOK' /\ (Drawing \/ Erasing)'
    BY <1>10, TakeStep
  <2> QED BY <2>1, <2>2 DEF Echo, Waits, LineOK
<1>11. CASE RunCommand
  <2>1. pc = "run" /\ mode = "text" /\ pc' \in {"clear", "graphics", "prompt"}
    BY <1>11 DEF RunCommand, Step, Echo
  <2>2. mode' = "text" \/ pc' = "graphics"
    BY <1>11, <2>1 DEF RunCommand, Step, Graphical
  <2> QED BY <2>1, <2>2 DEF Echo
<1>12. CASE EndGraphics \/ ReadTail \/ Keyboard_FlushCharacterQueue \/ Erase \/ HomeColumn \/ HomeRow
  BY <1>12 DEF EndGraphics, ReadTail, Keyboard_FlushCharacterQueue, Erase, HomeColumn, HomeRow, Step,
     display, Echo
<1> QED BY <1>2, <1>3, <1>4, <1>5, <1>6, <1>8, <1>9, <1>10, <1>11, <1>12
        DEF Next, Shell, Keyboard_HandleByte

\* When nothing is left to be drawn, the cells are the prompt and the line.
LEMMA EchoImplied == Types /\ Echo => EchoMatches
<1> SUFFICES ASSUME Types, Echo, pc = "read", out = <<>>, ~disturbed,
                    Cell(cursor) <= Cardinality(DOMAIN screen)
             PROVE  [n \in 1..(Cell(cursor) - start) |-> screen[start + n - 1]] = Prompt \o line
  BY DEF EchoMatches
<1> PICK size : size = SCREEN_WIDTH * SCREEN_HEIGHT
  OBVIOUS
<1>1. size \in Nat /\ DOMAIN screen = 0..(size - 1)
  BY Sizes DEF Types, Blank
<1>2. Cell(cursor) <= size
  <2>1. Cardinality(0..(size - 1)) = size
    BY <1>1, FS_Interval
  <2> QED BY <1>1, <2>1
<1>3. start \in Nat /\ line \in Seq(Chars) /\ Len(line) \in Nat /\ Len(out) = 0
  BY DEF Echo, Types
<1> PICK d : d = TextLen(line)
  OBVIOUS
<1>4. Cell(cursor) = start + d /\ DrawnTo(d) /\ d \in Nat /\ d = 2 + Len(line)
  <2>1. Drawing
    BY <1>3 DEF Echo, Erasing
  <2> QED BY <1>3, <2>1 DEF Drawing, TextLen
<1>5. \A n \in 1..d : screen[start + n - 1] = Text(line, n)
  BY <1>1, <1>2, <1>3, <1>4 DEF DrawnTo
<1>6. Prompt \in Seq(Shown) /\ Len(Prompt) = 2 /\ line \in Seq(Shown)
  <2>1. line \in Seq(Shown)
    BY <1>3, ShownIs, SeqMonotonic
  <2> QED BY <2>1, ShownIs DEF Prompt
<1>7. /\ Prompt \o line \in Seq(Shown) /\ Len(Prompt \o line) = d
      /\ \A n \in 1..d : (Prompt \o line)[n] = Text(line, n)
  <2>1. /\ Prompt \o line \in Seq(Shown) /\ Len(Prompt \o line) = Len(Prompt) + Len(line)
        /\ \A n \in 1..(Len(Prompt) + Len(line)) :
             (Prompt \o line)[n] = IF n <= Len(Prompt) THEN Prompt[n] ELSE line[n - Len(Prompt)]
    BY <1>6, ConcatProperties
  <2>2. Len(Prompt) + Len(line) = d
    BY <1>3, <1>4, <1>6
  <2> QED BY <1>6, <2>1, <2>2 DEF Text
<1>8. Cell(cursor) - start = d
  BY <1>3, <1>4
<1>9. [n \in 1..d |-> screen[start + n - 1]] = [n \in 1..d |-> (Prompt \o line)[n]]
  BY <1>5, <1>7
<1>10. Prompt \o line = [n \in 1..d |-> (Prompt \o line)[n]]
  BY <1>7, LenProperties
<1> QED BY <1>8, <1>9, <1>10

-----------------------------------------------------------------------------
(***************************************************************************)
(* What the key map says.                                                  *)
(***************************************************************************)
LEMMA NamedStrokes ==
  ASSUME NEW k \in Keys, Named(k)
  PROVE  k.make # <<>> /\ k.break # <<>>
<1>1. k.make # <<>>
  BY KeysAssumption
<1>2. PICK code : k.break = <<code>>
  BY CodesAssumption
<1>3. <<code>> # <<>>
  OBVIOUS
<1> QED BY <1>1, <1>2, <1>3

\* A new stroke is of a key the map knows, or quiet.
LEMMA StrokeStarts ==
  ASSUME Types, Struck, NEW k \in Keys, Press(k) \/ Release(k)
  PROVE  Struck'
<1>1. wire = <<>> /\ UNCHANGED <<currentState, keyStateMap>>
  BY DEF Press, Release, state
<1>2. currentState = "default" /\ \A j \in Keys : Named(j) => Agree(j)
  <2>1. \A j \in Keys : Named(j) => j.make # <<>> /\ j.break # <<>>
    BY NamedStrokes
  <2>2. QuietFrom(wire, currentState) /\ \A j \in Keys : Named(j) => Agree(j)
    BY <1>1, <2>1 DEF Struck
  <2> QED BY <1>1, <2>2 DEF QuietFrom
<1>3. \A j \in Keys \ {k} : j \in held' <=> j \in held
  BY DEF Press, Release
<1>4. \A j \in Keys \ {k} : Named(j) => Agree(j)'
  BY <1>1, <1>2, <1>3 DEF Agree
<1>5. CASE Named(k)
  <2>1. k.break # <<>>
    BY <1>5, CodesAssumption
  <2>2. wire' = IF k \in held' THEN k.make ELSE k.break
    BY <2>1 DEF Press, Release
  <2> QED BY <1>1, <1>2, <1>4, <1>5, <2>2 DEF Struck
<1>6. CASE ~Named(k)
  <2>1. PICK codes \in Seq(0..255) : codes = wire' /\ Quiet(codes)
    BY <1>6, KeysAssumption, CodesAssumption DEF Press, Release
  <2>2. DOMAIN codes = 1..Len(codes)
    BY <2>1, LenProperties
  <2>3. QuietFrom(codes, "default")
    BY <2>1, <2>2 DEF Quiet, QuietFrom
  <2> QED BY <1>1, <1>2, <1>4, <1>6, <2>1, <2>3 DEF Struck
<1> QED BY <1>5, <1>6

\* A byte of a quiet stroke leaves the map as it is, for the keys it knows.
LEMMA QuietByte ==
  ASSUME Types, QuietFrom(wire, currentState), Keyboard_HandleByte
  PROVE  /\ QuietFrom(wire', currentState')
         /\ keyStateMap' \ {"INVALID"} = keyStateMap \ {"INVALID"}
<1>1. wire # <<>> /\ wire' = Tail(wire)
  BY DEF Keyboard_HandleByte, Prefix, KeyDown, KeyUp, Compound, Byte
<1> PICK byte, rest, len : byte = Head(wire) /\ rest = Tail(wire) /\ len = Len(wire)
  OBVIOUS
<1>2. /\ byte = wire[1] /\ len \in Nat \ {0} /\ Len(rest) = len - 1
      /\ \A n \in 1..(len - 1) : rest[n] = wire[n + 1]
      /\ rest \in Seq(0..255)
  BY <1>1, WireByte
<1>3. \A n \in 1..len :
        IF wire[n] = 224 THEN n < len /\ wire[n + 1] # 224
        ELSE \/ IF n = 1 THEN currentState = "E0" ELSE wire[n - 1] = 224
             \/ scancodeMapping[wire[n] % 128] = "INVALID"
  BY DEF QuietFrom
<1>4. /\ byte = 224 => 1 < len /\ wire[2] # 224
      /\ byte # 224 => currentState = "E0" \/ scancodeMapping[byte % 128] = "INVALID"
  BY <1>2, <1>3
<1>5. currentState = "E0" => byte # 224
  BY <1>2 DEF QuietFrom
\* The rest is quiet if the decoder is where this byte puts it.
<1>6. ASSUME NEW s \in {"default", "E0"}, s = "E0" <=> byte = 224
      PROVE  QuietFrom(rest, s)
  <2>1. s = "E0" => rest # <<>> /\ rest[1] # 224
    <3>1. s = "E0" => 1 \in 1..(len - 1) /\ wire[1 + 1] # 224
      BY <1>2, <1>4, <1>6
    <3>2. rest = <<>> => Len(rest) = 0
      OBVIOUS
    <3> QED BY <1>2, <3>1, <3>2
  <2>2. ASSUME NEW n \in 1..Len(rest)
        PROVE  IF rest[n] = 224 THEN n < Len(rest) /\ rest[n + 1] # 224
               ELSE \/ IF n = 1 THEN s = "E0" ELSE rest[n - 1] = 224
                    \/ scancodeMapping[rest[n] % 128] = "INVALID"
    <3>1. n \in 1..(len - 1) /\ n + 1 \in 1..len /\ n + 1 # 1 /\ (n + 1) - 1 = n
      BY <1>2
    <3>2. rest[n] = wire[n + 1]
      BY <1>2, <3>1
    <3>3. CASE rest[n] = 224
      <4>1. n + 1 < len /\ wire[(n + 1) + 1] # 224
        BY <1>3, <3>1, <3>2, <3>3
      <4>2. n + 1 \in 1..(len - 1)
        BY <1>2, <3>1, <4>1
      <4>3. rest[n + 1] = wire[(n + 1) + 1]
        BY <1>2, <4>2
      <4> QED BY <1>2, <3>1, <3>3, <4>1, <4>3
    <3>4. CASE rest[n] # 224
      <4>1. wire[n] = 224 \/ scancodeMapping[rest[n] % 128] = "INVALID"
        BY <1>3, <3>1, <3>2, <3>4
      <4>2. CASE n = 1
        BY <1>2, <1>6, <3>4, <4>1, <4>2
      <4>3. CASE n # 1
        <5>1. n - 1 \in 1..(len - 1) /\ (n - 1) + 1 = n
          BY <3>1, <4>3
        <5>2. rest[n - 1] = wire[n]
          BY <1>2, <5>1
        <5> QED BY <3>4, <4>1, <4>3, <5>2
      <4> QED BY <4>2, <4>3
    <3> QED BY <3>3, <3>4
  <2> QED BY <2>1, <2>2 DEF QuietFrom
<1>7. CASE Prefix
  <2>1. byte = 224 /\ currentState' = "E0" /\ keyStateMap' = keyStateMap
    BY <1>7 DEF Prefix, IsPrefixByte
  <2> QED BY <1>1, <1>6, <2>1
<1>8. CASE KeyDown
  <2>1. /\ byte # 224 /\ byte < 128 /\ currentState = "default" /\ currentState' = "default"
        /\ keyStateMap' = keyStateMap \cup {scancodeMapping[byte]}
    BY <1>8 DEF KeyDown, Byte, IsPrefixByte
  <2>2. byte % 128 = byte
    BY <1>1, <2>1, Codes
  <2> QED BY <1>1, <1>4, <1>6, <2>1, <2>2
<1>9. CASE KeyUp
  <2>1. /\ byte # 224 /\ byte >= 128 /\ currentState = "default" /\ currentState' = "default"
        /\ keyStateMap' = keyStateMap \ {scancodeMapping[byte - 128]}
    BY <1>9 DEF KeyUp, Byte, IsPrefixByte
  <2>2. byte % 128 = byte - 128
    BY <1>1, <2>1, Codes
  <2> QED BY <1>1, <1>4, <1>6, <2>1, <2>2
<1>10. CASE Compound
  <2>1. byte # 224 /\ currentState' = "default" /\ keyStateMap' = keyStateMap
    BY <1>5, <1>10 DEF Compound, Byte
  <2> QED BY <1>1, <1>6, <2>1
<1> QED BY <1>7, <1>8, <1>9, <1>10 DEF Keyboard_HandleByte

\* The one byte of a key the map knows brings the map up to date.
LEMMA NamedByte ==
  ASSUME Types, currentState = "default", NEW k \in Keys, Named(k),
         wire = (IF k \in held THEN k.make ELSE k.break), Keyboard_HandleByte,
         \A j \in Keys \ {k} : Named(j) => Agree(j)
  PROVE  Struck'
<1>1. wire' = Tail(wire) /\ wire # <<>> /\ held' = held
  BY DEF Keyboard_HandleByte, Prefix, KeyDown, KeyUp, Compound, Byte
<1>2. PICK code \in 0..127 : k.make = <<code>> /\ k.break = <<code + 128>> /\ code + 128 # 224
  <2>1. k.make \in Seq(0..255) /\ Len(k.make) = 1 /\ k.make[1] < 128
    BY KeysAssumption DEF Named
  <2>2. PICK code \in 0..255 : k.make = <<code>>
    <3>1. k.make[1] \in 0..255
      <4> PICK s : s = k.make
        OBVIOUS
      <4>1. s \in Seq(0..255) /\ 1 \in 1..Len(s)
        BY <2>1
      <4>2. s[1] \in 0..255
        BY <4>1, ElementOfSeq
      <4> QED BY <4>2
    <3> PICK c \in 0..255 : c = k.make[1]
      BY <3>1
    <3>2. <<c>> \in Seq(0..255) /\ Len(<<c>>) = 1 /\ <<c>>[1] = c
      OBVIOUS
    <3>3. \A i \in 1..Len(k.make) : k.make[i] = <<c>>[i]
      <4>1. \A i \in 1..Len(k.make) : i = 1
        BY <2>1
      <4> QED BY <3>2, <4>1
    <3>4. k.make = <<c>>
      BY <2>1, <3>2, <3>3, SeqEqual
    <3> QED BY <3>4
  <2>3. code < 128 /\ k.break = <<code + 128>> /\ k.break # <<224>>
    BY <2>1, <2>2, CodesAssumption
  <2> QED BY <2>2, <2>3
<1>3. scancodeMapping[code] # "INVALID"
  BY <1>2 DEF Named
<1>4. \A j \in Keys \ {k} : Named(j) => scancodeMapping[j.make[1]] # scancodeMapping[code]
  BY <1>2, CodesAssumption
<1>5. wire' = <<>>
  BY <1>1, <1>2
<1>6. CASE k \in held
  <2>1. Head(wire) = code
    BY <1>2, <1>6
  <2>2. KeyDown
    BY <1>2, <2>1 DEF Keyboard_HandleByte, Prefix, KeyUp, Compound, Byte, IsPrefixByte
  <2>3. keyStateMap' = keyStateMap \cup {scancodeMapping[code]} /\ currentState' = "default"
    BY <2>1, <2>2 DEF KeyDown
  <2>4. \A j \in Keys : Named(j) => Agree(j)'
    BY <1>1, <1>2, <1>4, <1>6, <2>3 DEF Agree
  <2> QED BY <1>5, <2>3, <2>4 DEF Struck, QuietFrom
<1>7. CASE k \notin held
  <2>1. Head(wire) = code + 128
    BY <1>2, <1>7
  <2>2. KeyUp
    BY <1>2, <2>1 DEF Keyboard_HandleByte, Prefix, KeyDown, Compound, Byte, IsPrefixByte
  <2>3. keyStateMap' = keyStateMap \ {scancodeMapping[code]} /\ currentState' = "default"
    <3>1. (code + 128) - 128 = code
      OBVIOUS
    <3> QED BY <2>1, <2>2, <3>1 DEF KeyUp
  <2>4. \A j \in Keys : Named(j) => Agree(j)'
    BY <1>1, <1>2, <1>4, <1>7, <2>3 DEF Agree
  <2> QED BY <1>5, <2>3, <2>4 DEF Struck, QuietFrom
<1> QED BY <1>6, <1>7

LEMMA StruckStep == Types /\ Struck /\ [Next]_vars => Struck'
<1> SUFFICES ASSUME Types, Struck, [Next]_vars PROVE Struck'
  OBVIOUS
<1>1. CASE UNCHANGED <<keyboard, currentState, keyStateMap>>
  BY <1>1 DEF Struck, Agree, keyboard
<1>2. CASE UNCHANGED vars
  BY <1>1, <1>2 DEF vars, state
<1>3. CASE Shell
  <2>1. CASE putc
    BY <1>1, <2>1, PutcLeaves DEF state
  <2>2. CASE ~putc
    BY <1>1, <1>3, <2>2 DEF Shell, ShowPrompt, Keyboard_GetCharacter, TakeCharacter, RunCommand,
       EndGraphics, ReadTail, Keyboard_FlushCharacterQueue, Erase, HomeColumn, HomeRow, Step, state
  <2> QED BY <2>1, <2>2
<1>4. ASSUME NEW k \in Keys, Press(k) \/ Release(k) PROVE Struck'
  BY <1>4, StrokeStarts
<1>5. CASE Keyboard_HandleByte
  <2>1. CASE QuietFrom(wire, currentState) /\ \A k \in Keys : Named(k) => Agree(k)
    <3>1. QuietFrom(wire', currentState') /\ keyStateMap' \ {"INVALID"} = keyStateMap \ {"INVALID"}
      BY <1>5, <2>1, QuietByte
    <3>2. held' = held
      BY <1>5 DEF Keyboard_HandleByte, Prefix, KeyDown, KeyUp, Compound, Byte
    <3>3. \A k \in Keys : Named(k) => Agree(k)'
      BY <2>1, <3>1, <3>2 DEF Agree, Named
    <3> QED BY <3>1, <3>3 DEF Struck
  <2>2. CASE ~(QuietFrom(wire, currentState) /\ \A k \in Keys : Named(k) => Agree(k))
    BY <1>5, <2>2, NamedByte DEF Struck
  <2> QED BY <2>1, <2>2
<1> QED BY <1>2, <1>3, <1>4, <1>5 DEF Next

-----------------------------------------------------------------------------
(***************************************************************************)
(* The theorems.                                                           *)
(***************************************************************************)
LEMMA InitInv == Init => IInv
<1> SUFFICES ASSUME Init PROVE IInv
  OBVIOUS
<1>1. Types
  BY InitTypes
<1>2. Reading
  BY DEF Init, Reading
<1>3. Echo
  BY DEF Init, Echo
<1>4. Columns
  BY Apart DEF Init, Columns
<1>5. Struck
  <2>1. QuietFrom(<<>>, "default")
    BY DEF QuietFrom
  <2>2. wire = <<>> /\ currentState = "default" /\ held = {} /\ keyStateMap = {}
    BY DEF Init
  <2> QED BY <2>1, <2>2 DEF Struck, Agree
<1> QED BY <1>1, <1>2, <1>3, <1>4, <1>5 DEF IInv

\* The inductive invariant: types, what the shell has read of the queue
\* (Keyboard_GetCharacter and Keyboard_FlushCharacterQueue), how far a line is
\* drawn (putc, access by access), and how the map lags behind the stroke that is being handled.
THEOREM Invariance == Spec => []IInv
<1>1. IInv /\ [Next]_vars => IInv'
  BY TypesStep, ColumnsStep, ReadingStep, EchoStep, StruckStep DEF IInv
<1> QED BY <1>1, InitInv, PTL DEF Spec

LEMMA TypesImplied == Types /\ Columns => TypeOK
<1> SUFFICES ASSUME Types, Columns PROVE TypeOK
  OBVIOUS
<1>1. {characterQueue.head, characterQueue.tail} \subseteq DOMAIN characterQueue.slots
  BY Sizes DEF Types, QueueOf
<1>2. {eventQueue.head, eventQueue.tail} \subseteq DOMAIN eventQueue.slots
  BY Sizes DEF Types, QueueOf
<1>3. cursor \in (Nat \cup {-1}) \X Nat /\ (cursor[1] = -1 => disturbed) /\ (out = <<>> => todo = <<>>)
  BY DEF Types, Columns, Positions
<1> QED BY <1>1, <1>2, <1>3 DEF Types, TypeOK, KeyNames

\* Every position of the two queues is a slot, and the rest is of its type.
THEOREM TypeCorrect == Spec => []TypeOK
BY Invariance, TypesImplied, PTL DEF IInv

\* The queue between the interrupt handler and the shell (keyboard.c lines 35 to
\* 61) delivers in order and once what it takes, refuses only when it is full, and
\* a flush takes away only what was in it when it read the tail.
THEOREM ImplementsQueue == Spec => ImplementsKeyQueue
<1>1. Init => Queued(characterQueue) = <<>> /\ lost = 0 /\ Leaving = 0
  <2> SUFFICES ASSUME Init PROVE Queued(characterQueue) = <<>>
    BY DEF Init, Leaving
  <2>1. /\ characterQueue \in QueueOf(Chars, MAX_CHARACTER_QUEUE_SIZE)
        /\ characterQueue.head = 0 /\ characterQueue.tail = 0
    <3>1. <<>> \in Chars
      BY DEF Chars
    <3> QED BY <3>1, EmptyIs, Sizes DEF Init
  <2>2. Distance(characterQueue, characterQueue.tail) = 0
    BY <2>1 DEF Distance
  <2>3. Queued(characterQueue) \in Seq(Chars) /\ Len(Queued(characterQueue)) = 0
    BY <2>1, <2>2, QueuedIs, Sizes
  <2> QED BY <2>3, EmptySeq
<1>2. IInv /\ IInv' /\ [Next]_vars => [Queue!Next]_(Queue!vars)
  BY QueueStep DEF IInv
<1> QED BY <1>1, <1>2, Invariance, PTL DEF Spec, ImplementsKeyQueue, Queue!Spec

\* While the shell waits for a key the screen shows the prompt and the line it
\* will run (shell.c lines 16 to 41, putc).
THEOREM EchoesTheLine == Spec => []EchoMatches
BY Invariance, EchoImplied, PTL DEF IInv

\* Between two strokes the map that Keyboard_IsKeyDown reads is right about every
\* key it knows (lines 162 to 205).
THEOREM MapFollowsKeys == Spec => []KeysMatch
<1>1. Struck => KeysMatch
  <2> SUFFICES ASSUME Struck, wire = <<>>, NEW k \in Keys, Named(k) PROVE Agree(k)
    BY DEF KeysMatch, Agree
  <2>1. \A j \in Keys : Named(j) => j.make # <<>> /\ j.break # <<>>
    BY NamedStrokes
  <2> QED BY <2>1 DEF Struck
<1> QED BY <1>1, Invariance, PTL DEF IInv
=============================================================================
