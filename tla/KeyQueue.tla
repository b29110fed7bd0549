------------------------------ MODULE KeyQueue ------------------------------
(***************************************************************************)
(* What the keyboard's character queue promises: characters come out in    *)
(* the order in which they went in, each once; one is lost only when the   *)
(* queue is full, and a flush takes away what was in it when it began:     *)
(* a character that comes while it runs is kept.                           *)
(***************************************************************************)
EXTENDS Naturals, SequencesExt

CONSTANT Capacity

VARIABLES
  q,        \* what is in the queue
  got,      \* the character that was taken last
  lost,     \* how many were refused
  leaving   \* how many a flush that has begun will take away

vars == <<q, got, lost, leaving>>

Push ==
  /\ Len(q) < Capacity
  /\ q' # <<>> /\ Front(q') = q /\ UNCHANGED <<got, lost, leaving>>

Lose == Len(q) = Capacity /\ lost' = lost + 1 /\ UNCHANGED <<q, got, leaving>>

Take == leaving = 0 /\ q # <<>> /\ got' = Head(q) /\ q' = Tail(q) /\ UNCHANGED <<lost, leaving>>

BeginFlush == leaving = 0 /\ leaving' = Len(q) /\ UNCHANGED <<q, got, lost>>

EndFlush ==
  /\ leaving # 0 /\ q' = SubSeq(q, leaving + 1, Len(q)) /\ leaving' = 0
  /\ UNCHANGED <<got, lost>>

Next == Push \/ Lose \/ Take \/ BeginFlush \/ EndFlush

Spec == q = <<>> /\ lost = 0 /\ leaving = 0 /\ [][Next]_vars
=============================================================================
