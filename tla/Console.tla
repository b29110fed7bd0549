------------------------------ MODULE Console ------------------------------
(***************************************************************************)
(* From the bytes of the keyboard to the characters on the screen:         *)
(* Keyboard_HandleByte and its queues (drivers/keyboard.c, keycode.c), the *)
(* shell (shell.c), putc, puts and clrscr (stdio.c) and the two modes of   *)
(* drivers/display.c.                                                      *)
(*                                                                         *)
(* Keyboard_HandleByte runs in the interrupt handler: one step, between    *)
(* any two of the shell's.  How its bytes get there, and what happens to   *)
(* the lamps, is module PS2's.                                             *)
(***************************************************************************)
EXTENDS Integers, Sequences, FiniteSets, SequencesExt

CONSTANTS
  Keys,              \* of the keyboard: [make, break], the bytes each sends
  Commands,          \* per line that is a command, the command
  MAX_CHARACTER_QUEUE_SIZE, MAX_EVENT_QUEUE_SIZE,  \* 256 both
  SCREEN_WIDTH, SCREEN_HEIGHT,                     \* 80 and 25
  MaxStrokes         \* bound: keys that are pressed or released

ASSUME SizesAssumption ==
  /\ MAX_CHARACTER_QUEUE_SIZE \in Nat \ {0} /\ MAX_EVENT_QUEUE_SIZE \in Nat \ {0}
  /\ SCREEN_WIDTH \in Nat \ {0} /\ SCREEN_HEIGHT \in Nat \ {0} /\ MaxStrokes \in Nat
ASSUME KeysAssumption ==
  \A k \in Keys : k.make \in Seq(0..255) \ {<<>>} /\ k.break \in Seq(0..255)

VARIABLES
  held,      \* the keys that are down
  wire,      \* bytes of the last stroke that were not handled yet
  strokes,   \* bound
  currentState, keyStateMap,
  locks,     \* of `scroll', `number' and `caps' those that are on
  characterQueue, eventQueue,
  taken,     \* ghost: the character the shell took last
  lost,      \* ghost: how many characters found the queue full
  pc,        \* the shell
  out,       \* what it is about to print
  todo,      \* inside of putc: how it will access cursor and screen yet
  at,        \* inside of putc: the column and the row it has read
  loaded,    \* a value it has read: of a slot, or of `tail'
  line,      \* inputBuffer up to inputBufferPtr
  screen, cursor, mode,
  start,     \* ghost: where the prompt began
  disturbed  \* ghost: the handler has printed since

keyboard == <<held, wire, strokes>>
state == <<currentState, keyStateMap, locks, eventQueue, lost>>
display == <<screen, cursor, mode>>
vars == <<keyboard, state, characterQueue, taken, pc, out, todo, at, loaded, line, display,
          start, disturbed>>

-----------------------------------------------------------------------------
(***************************************************************************)
(* The two queues.                                                         *)
(***************************************************************************)
EmptyQueue(size) == [slots |-> [n \in 0..(size - 1) |-> <<>>], head |-> 0, tail |-> 0]

\* Mutant: the position does not wrap.
After_Unwrapped(q, n) == n + 1

After(q, n) == (n + 1) % Cardinality(DOMAIN q.slots)

\* Mutant: a full queue is written.
Full_Never(q) == FALSE

Full(q) == q.head = After(q, q.tail)

Keyboard_CharacterQueueEmpty(q) == q.head = q.tail

Keyboard_PushCharacter(q, x) ==
  IF Full(q) THEN q ELSE [q EXCEPT !.slots[q.tail] = x, !.tail = After(q, q.tail)]

\* Nobody polls the events: the first ones stay.
Keyboard_PushEvent(q, event) ==
  IF Full(q) THEN q ELSE [q EXCEPT !.slots[q.tail] = event, !.tail = After(q, q.tail)]

Queued(q) ==
  LET size == Cardinality(DOMAIN q.slots)
  IN [n \in 1..((q.tail - q.head) % size) |-> q.slots[(q.head + n - 1) % size]]

-----------------------------------------------------------------------------
(***************************************************************************)
(* Key codes and characters: <<key, upper>>.                               *)
(***************************************************************************)
Rows == << <<2, <<"1", "2", "3", "4", "5", "6", "7", "8", "9", "0">>>>,
           <<14, <<"BACKSPACE">>>>,
           <<16, <<"Q", "W", "E", "R", "T", "Y", "U", "I", "O", "P">>>>,
           <<28, <<"ENTER">>>>,
           <<30, <<"A", "S", "D", "F", "G", "H", "J", "K", "L">>>>,
           <<42, <<"LSHIFT">>>>,
           <<44, <<"Z", "X", "C", "V", "B", "N", "M">>>>,
           <<57, <<"SPACE">>>> >>
InRow(row, code) == code - row[1] + 1 \in DOMAIN row[2]

scancodeMapping ==
  [code \in 0..127 |->
     IF \E r \in ToSet(Rows) : InRow(r, code)
     THEN LET r == CHOOSE r \in ToSet(Rows) : InRow(r, code) IN r[2][code - r[1] + 1]
     ELSE "INVALID"]

\* The keys that Keyboard_IsKeyDown can be asked about ...
Named(k) == Len(k.make) = 1 /\ k.make[1] < 128 /\ scancodeMapping[k.make[1]] # "INVALID"

\* ... and codes that, but for the bytes behind a prefix, speak of none of them.
Quiet(codes) ==
  \A n \in DOMAIN codes :
    IF codes[n] = 224 THEN n < Len(codes) /\ codes[n + 1] # 224
    ELSE \/ n # 1 /\ codes[n - 1] = 224
         \/ scancodeMapping[codes[n] % 128] = "INVALID"

ASSUME CodesAssumption ==
  \A k \in Keys :
    IF Named(k)
    THEN /\ k.break = << k.make[1] + 128 >> /\ k.break # <<224>>
         /\ \A j \in Keys \ {k} :
              Named(j) => scancodeMapping[j.make[1]] # scancodeMapping[k.make[1]]
    ELSE Quiet(k.make) /\ Quiet(k.break)

NUL == <<"NUL", FALSE>>
NewLine == <<"ENTER", FALSE>>
BackSpace == <<"BACKSPACE", FALSE>>
Prompt == << <<">", FALSE>>, <<"SPACE", FALSE>> >>

\* The upper character of the 3 was left out; shift has none.
Keyboard_KeyCodeToCharacter(key, down, on) ==
  LET shift == ("LSHIFT" \in down) # ("caps" \in on) IN
  CASE key \in {"INVALID", "LSHIFT"} \/ (key = "3" /\ shift) -> NUL
    [] key \in {"SPACE", "ENTER", "BACKSPACE"} -> <<key, FALSE>>
    [] OTHER -> <<key, shift>>

-----------------------------------------------------------------------------
(***************************************************************************)
(* The screen.                                                             *)
(***************************************************************************)
Blank == [c \in 0..(SCREEN_WIDTH * SCREEN_HEIGHT - 1) |-> NUL]
Cell(position) == position[2] * SCREEN_WIDTH + position[1]

\* In graphics mode the text buffer is not shown, and is cleared at its end.
Display_PutChar(cells, position, c) ==
  IF mode = "text" /\ Cell(position) \in DOMAIN cells
  THEN [cells EXCEPT ![Cell(position)] = c] ELSE cells

\* puts with a text that ends in a new line, of one character as far as shown.
Message == << <<"MESSAGE", FALSE>>, NewLine >>
Puts == /\ screen' = Display_PutChar(screen, cursor, Message[1])
        /\ cursor' = <<0, cursor[2] + 1>>

Init ==
  /\ held = {} /\ wire = <<>> /\ strokes = 0
  /\ currentState = "default" /\ keyStateMap = {} /\ locks = {}
  /\ characterQueue = EmptyQueue(MAX_CHARACTER_QUEUE_SIZE)
  /\ eventQueue = EmptyQueue(MAX_EVENT_QUEUE_SIZE)
  /\ taken = NUL /\ lost = 0 /\ pc = "prompt" /\ out = <<>> /\ todo = <<>> /\ at = <<0, 0>>
  /\ loaded = 0 /\ line = <<>>
  /\ screen = Blank /\ cursor = <<0, 0>> /\ mode = "text" /\ start = 0 /\ disturbed = FALSE

-----------------------------------------------------------------------------
(***************************************************************************)
(* The keyboard, and Keyboard_HandleByte.                                  *)
(***************************************************************************)
shell == <<pc, out, todo, at, loaded, line, taken>>

\* A key that stays down sends its code again.
Press(k) ==
  /\ wire = <<>> /\ strokes < MaxStrokes /\ strokes' = strokes + 1 /\ wire' = k.make
  /\ held' = IF k.break = <<>> THEN held ELSE held \union {k}
  /\ UNCHANGED <<state, characterQueue, shell, display, start, disturbed>>

Release(k) ==
  /\ wire = <<>> /\ k \in held /\ strokes < MaxStrokes /\ strokes' = strokes + 1
  /\ wire' = k.break /\ held' = held \ {k}
  /\ UNCHANGED <<state, characterQueue, shell, display, start, disturbed>>

Byte(from) ==
  /\ wire # <<>> /\ wire' = Tail(wire) /\ currentState = from
  /\ UNCHANGED <<held, strokes, shell, mode, start>>

\* Mutant: the byte is not told from a key's.
IsPrefixByte_Never(byte) == FALSE

IsPrefixByte(byte) == byte = 224

Prefix ==
  /\ Byte("default") /\ IsPrefixByte(Head(wire)) /\ currentState' = "E0"
  /\ UNCHANGED <<keyStateMap, locks, characterQueue, eventQueue, lost, screen, cursor, disturbed>>

LockOf(byte) == CASE byte = 70 -> {"scroll"} [] byte = 69 -> {"number"}
                  [] byte = 58 -> {"caps"} [] OTHER -> {}

KeyDown ==
  LET byte == Head(wire)
      key == scancodeMapping[byte]
      character == Keyboard_KeyCodeToCharacter(key, keyStateMap', locks)
  IN
  /\ Byte("default") /\ ~IsPrefixByte(byte) /\ byte < 128
  /\ keyStateMap' = keyStateMap \union {key}
  /\ characterQueue' = IF character = NUL THEN characterQueue
                       ELSE Keyboard_PushCharacter(characterQueue, character)
  /\ lost' = IF character # NUL /\ characterQueue' = characterQueue THEN lost + 1 ELSE lost
  /\ eventQueue' = Keyboard_PushEvent(eventQueue, <<key, "press">>)
  /\ locks' = (locks \ LockOf(byte)) \union (LockOf(byte) \ locks)
  /\ UNCHANGED <<currentState, screen, cursor, disturbed>>

KeyUp ==
  LET key == scancodeMapping[Head(wire) - 128] IN
  /\ Byte("default") /\ ~IsPrefixByte(Head(wire)) /\ Head(wire) >= 128
  /\ keyStateMap' = keyStateMap \ {key}
  /\ eventQueue' = Keyboard_PushEvent(eventQueue, <<key, "release">>)
  /\ UNCHANGED <<currentState, locks, characterQueue, lost, screen, cursor, disturbed>>

Compound ==
  /\ Byte("E0") /\ currentState' = "default"
  /\ Puts /\ disturbed' = TRUE
  /\ UNCHANGED <<keyStateMap, locks, characterQueue, eventQueue, lost>>

Keyboard_HandleByte == Prefix \/ KeyDown \/ KeyUp \/ Compound

-----------------------------------------------------------------------------
(***************************************************************************)
(* putc, one step for each time it reads or writes the cursor or the       *)
(* screen, in the order in which the build does (without optimisation, and *)
(* arguments from the last to the first): the handler may print a message  *)
(* between any two.                                                        *)
(***************************************************************************)
Accesses(c) ==
  CASE c = BackSpace -> <<"test", "column", "left", "row", "column", "put">>
    [] c = NewLine   -> <<"row", "down", "first">>
    [] OTHER         -> <<"row", "column", "put", "column", "right">>

\* The accesses that are left, of the character that is begun or the next one.
Left == IF todo = <<>> THEN Accesses(Head(out)) ELSE todo

\* putc goes on with these, or has done with its character.
GoOn(rest) ==
  /\ todo' = rest /\ out' = IF rest = <<>> THEN Tail(out) ELSE out
  /\ UNCHANGED <<keyboard, state, characterQueue, taken, pc, loaded, line, mode, start, disturbed>>

Access(kind) == out # <<>> /\ Head(Left) = kind /\ GoOn(Tail(Left))

TestColumn ==
  /\ out # <<>> /\ Head(Left) = "test"
  /\ GoOn(IF cursor[1] > 0 THEN Tail(Left) ELSE <<>>)
  /\ UNCHANGED <<at, screen, cursor>>

ReadColumn == Access("column") /\ at' = <<cursor[1], at[2]>> /\ UNCHANGED <<screen, cursor>>
ReadRow == Access("row") /\ at' = <<at[1], cursor[2]>> /\ UNCHANGED <<screen, cursor>>

\* What is written uses up what was read.
Write == at' = <<0, 0>>
MoveLeft == Access("left") /\ Write /\ cursor' = <<at[1] - 1, cursor[2]>> /\ UNCHANGED screen
MoveRight == Access("right") /\ Write /\ cursor' = <<at[1] + 1, cursor[2]>> /\ UNCHANGED screen
MoveDown == Access("down") /\ Write /\ cursor' = <<cursor[1], at[2] + 1>> /\ UNCHANGED screen
MoveFirst == Access("first") /\ Write /\ cursor' = <<0, cursor[2]>> /\ UNCHANGED screen

Put ==
  /\ Access("put") /\ Write
  /\ screen' = Display_PutChar(screen, at, IF Head(out) = BackSpace THEN NUL ELSE Head(out))
  /\ UNCHANGED cursor

putc == \/ TestColumn \/ ReadColumn \/ ReadRow \/ MoveLeft \/ MoveRight \/ MoveDown \/ MoveFirst \/ Put

-----------------------------------------------------------------------------
(***************************************************************************)
(* The shell.                                                              *)
(***************************************************************************)
Step(from, to) ==
  /\ out = <<>> /\ pc = from /\ pc' = to
  /\ UNCHANGED <<keyboard, state, todo, at>>

ShowPrompt ==
  /\ Step("prompt", "read")
  /\ out' = Prompt /\ line' = <<>> /\ start' = Cell(cursor) /\ disturbed' = FALSE
  /\ UNCHANGED <<characterQueue, taken, loaded, display>>

\* Keyboard_GetCharacter reads the slot, then advances the head.
Keyboard_GetCharacter ==
  /\ Step("read", "advance") /\ ~Keyboard_CharacterQueueEmpty(characterQueue)
  /\ loaded' = characterQueue.slots[characterQueue.head]
  /\ UNCHANGED <<characterQueue, taken, out, line, display, start, disturbed>>

\* Mutant: there is always a character to take back.
MayErase_Always(l) == TRUE

MayErase(l) == l # <<>>

\* The character is shown as it is taken over; a new line ends the input.
TakeCharacter ==
  /\ Step("advance", IF loaded = NewLine THEN "run" ELSE "read")
  /\ characterQueue' = [characterQueue EXCEPT !.head = After(characterQueue, @)]
  /\ taken' = loaded
  /\ line' = CASE loaded = BackSpace -> IF line = <<>> THEN line ELSE Front(line)
               [] loaded = NewLine   -> line
               [] OTHER              -> Append(line, loaded)
  /\ out' = IF loaded = BackSpace /\ ~MayErase(line) THEN <<>> ELSE <<loaded>>
  /\ UNCHANGED <<loaded, display, start, disturbed>>

Command == IF line \in DOMAIN Commands THEN Commands[line] ELSE "none"
Graphical == {"graphics", "raytracer", "CARLOS"}

RunCommand ==
  /\ Step("run", CASE Command = "clear"      -> "clear"
                   [] Command \in Graphical  -> "graphics"
                   [] OTHER                  -> "prompt")
  /\ out' = IF Command = "info" THEN Message ELSE <<>>
  /\ mode' = IF Command \in Graphical THEN "color" ELSE mode
  /\ UNCHANGED <<characterQueue, taken, loaded, line, screen, cursor, start, disturbed>>

\* The picture stays until a backspace is seen to be down.
EndGraphics ==
  /\ Step("graphics", "flush") /\ "BACKSPACE" \in keyStateMap
  /\ mode' = "text" /\ screen' = Blank
  /\ UNCHANGED <<characterQueue, taken, out, loaded, line, cursor, start, disturbed>>

\* Keyboard_FlushCharacterQueue reads the tail, then writes the head.
ReadTail ==
  /\ Step("flush", "flushed") /\ loaded' = characterQueue.tail
  /\ UNCHANGED <<characterQueue, taken, out, line, display, start, disturbed>>

Keyboard_FlushCharacterQueue ==
  /\ Step("flushed", "clear")
  /\ characterQueue' = [characterQueue EXCEPT !.head = loaded]
  /\ UNCHANGED <<taken, out, loaded, line, display, start, disturbed>>

\* clrscr: the cells, then the column and the row.
Erase ==
  /\ Step("clear", "column") /\ screen' = Blank
  /\ UNCHANGED <<characterQueue, taken, out, loaded, line, cursor, mode, start, disturbed>>

HomeColumn ==
  /\ Step("column", "row") /\ cursor' = <<0, cursor[2]>>
  /\ UNCHANGED <<characterQueue, taken, out, loaded, line, screen, mode, start, disturbed>>

HomeRow ==
  /\ Step("row", "prompt") /\ cursor' = <<cursor[1], 0>>
  /\ out' = IF Command = "CARLOS" THEN Message ELSE <<>>
  /\ UNCHANGED <<characterQueue, taken, loaded, line, screen, mode, start, disturbed>>

Shell == \/ ShowPrompt \/ Keyboard_GetCharacter \/ TakeCharacter \/ RunCommand \/ EndGraphics
         \/ ReadTail \/ Keyboard_FlushCharacterQueue \/ Erase \/ HomeColumn \/ HomeRow \/ putc

Next == Shell \/ Keyboard_HandleByte \/ \E k \in Keys : Press(k) \/ Release(k)

Spec == Init /\ [][Next]_vars

-----------------------------------------------------------------------------
\* Types.  The column gets to -1 when the handler ends a line of its own between
\* the test and the decrement of a backspace (stdio.c lines 30 and 31), and no
\* further: only in a line the handler has printed into.
TypeOK ==
  /\ {characterQueue.head, characterQueue.tail} \subseteq DOMAIN characterQueue.slots
  /\ {eventQueue.head, eventQueue.tail} \subseteq DOMAIN eventQueue.slots
  /\ keyStateMap \subseteq { scancodeMapping[code] : code \in 0..127 }
  /\ locks \subseteq {"scroll", "number", "caps"} /\ mode \in {"text", "color"}
  /\ cursor \in (Nat \union {-1}) \X Nat /\ (cursor[1] = -1 => disturbed)
  /\ out = <<>> => todo = <<>>

\* How many characters the flush that has read the tail will take away.
Leaving == IF pc = "flushed" THEN (loaded - characterQueue.head) % MAX_CHARACTER_QUEUE_SIZE ELSE 0

\* The character queue of keyboard.c, filled by the interrupt handler and read
\* and flushed by the shell without a lock (lines 35 to 61), loses a character
\* only when it is full, none is taken twice or out of order, and a flush takes
\* away those that were there when it began and no other.
Queue == INSTANCE KeyQueue WITH
  Capacity <- MAX_CHARACTER_QUEUE_SIZE - 1,
  q <- Queued(characterQueue), got <- taken, lost <- lost, leaving <- Leaving
ImplementsKeyQueue == Queue!Spec

\* While the shell waits for a key the screen shows the prompt and, after it,
\* the line as it will be run (shell.c lines 16 to 41): a backspace never
\* reaches the prompt.  Excused are a line the handler has printed into and
\* what has left the screen, which does not scroll.
EchoMatches ==
  pc = "read" /\ out = <<>> /\ ~disturbed /\ Cell(cursor) <= Cardinality(DOMAIN screen) =>
    [n \in 1..(Cell(cursor) - start) |-> screen[start + n - 1]] = Prompt \o line

\* When the bytes of a stroke are handled, the map that Keyboard_IsKeyDown reads
\* says which of the keys it knows are down (lines 162 to 205), whatever other
\* keys were used with them.
KeysMatch ==
  wire = <<>> =>
    \A k \in Keys : Named(k) => (k \in held) = (scancodeMapping[k.make[1]] \in keyStateMap)
=============================================================================
