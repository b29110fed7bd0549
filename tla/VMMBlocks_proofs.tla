-------------------------- MODULE VMMBlocks_proofs --------------------------
(***************************************************************************)
(* For every size of the heap: the free list of vmm.c stays sound, its     *)
(* structs suffice, and it implements the page allocator callers see.      *)
(***************************************************************************)
EXTENDS VMMBlocks, FiniteSetTheorems, WellFoundedInduction, TLAPS

Start(s) == memoryBuffer[s].start
Length(s) == memoryBuffer[s].size
NextOf(s) == memoryBuffer[s].next

-----------------------------------------------------------------------------
(***************************************************************************)
(* The inductive invariant.  ListOrdered compares a block with the next    *)
(* one only; what a step needs, and preserves, compares any two.           *)
(***************************************************************************)
BufferOK == /\ memoryBuffer \in [Slots -> [start : Heap \cup {Null}, size : 0..(Total - FirstPage),
                                           next : Slots \cup {Null}]]
            /\ used \subseteq Heap /\ answer \in Heap \cup {0} /\ crashed = FALSE

\* A page lies between any two blocks, and every block lies in the heap.
Apart ==
  \A s \in Live : /\ Length(s) > 0 /\ Start(s) + Length(s) <= Total
                  /\ \A t \in Live : s # t => \/ Start(s) + Length(s) < Start(t)
                                              \/ Start(t) + Length(t) < Start(s)

\* The list starts at the lowest block ...
Lowest == IF listStart = Null THEN Live = {}
          ELSE listStart \in Live /\ \A t \in Live : Start(listStart) <= Start(t)

\* ... goes on from each block to the one right behind it ...
Successors ==
  \A s \in Live :
    IF NextOf(s) = Null THEN \A t \in Live : Start(t) <= Start(s)
    ELSE /\ NextOf(s) \in Live /\ Start(s) < Start(NextOf(s))
         /\ \A t \in Live : Start(t) <= Start(s) \/ Start(NextOf(s)) <= Start(t)

\* ... and leaves out none, nor its end.
Reached == /\ \A s \in Live : s = listStart \/ \E p \in Live : NextOf(p) = s
           /\ listStart = Null \/ \E p \in Live : NextOf(p) = Null

\* A page is free when a block of the list holds it.
Accounted ==
  \A p \in Heap : p \notin used <=> \E s \in Live : Start(s) <= p /\ p < Start(s) + Length(s)

\* How far the walk of the call has come: past no block it could have used.
CallOK ==
  /\ call \in [op : {"none", "allocate", "free"}, address : Heap \cup {0},
               count : Counts \cup {1}, previous : Live \cup {Null},
               current : Live \cup {Null}]
  /\ call.op = "none" => call = NoCall
  /\ call.op # "none" => call.current = IF call.previous = Null THEN listStart
                                        ELSE NextOf(call.previous)
  /\ call.op = "allocate" =>
       /\ call.count \in Counts
       /\ call.previous # Null =>
            \A s \in Live : Start(s) <= Start(call.previous) => Length(s) < call.count
  /\ call.op = "free" =>
       /\ call.count \in Counts /\ call.address \in Heap
       /\ Run(call.address, call.count) \subseteq used
       /\ call.previous # Null => Start(call.previous) <= call.address

ListInv == Apart /\ Lowest /\ Successors /\ Reached /\ Accounted
IInv == BufferOK /\ ListInv /\ CallOK

-----------------------------------------------------------------------------
(***************************************************************************)
(* Arithmetic of the heap.                                                 *)
(***************************************************************************)
LEMMA HeapFacts ==
  /\ Total \in Nat /\ FirstPage \in Nat /\ HalfPages \in Nat
  /\ Heap \subseteq Nat /\ Null \notin Heap /\ Null \notin Slots
  /\ Slots \subseteq Nat /\ 1 \in Slots
  /\ \A c \in Counts \cup {1} : c \in Nat /\ 0 < c /\ c < Total
  /\ \A p \in Heap : FirstPage <= p /\ p < Total
  /\ FirstPage < Total /\ 0 < FirstPage
<1>1. HalfPages \div 2 \in Nat /\ 1 <= HalfPages \div 2
  BY SizesAssumption
<1> QED BY <1>1, SizesAssumption, CountsAssumption DEF Heap, Null, Slots

\* What a block of the list is.
LEMMA LiveFacts ==
  ASSUME BufferOK
  PROVE  /\ \A s \in Slots : /\ Length(s) \in Nat /\ NextOf(s) \in Slots \cup {Null}
                             /\ Start(s) \in Heap \cup {Null}
                             /\ s \in Live <=> Start(s) \in Heap
         /\ Live \subseteq Slots /\ Null \notin Live
         /\ \A s \in Live : Start(s) \in Heap /\ Start(s) \in Nat
<1>1. \A s \in Slots : /\ Length(s) \in 0..(Total - FirstPage) /\ NextOf(s) \in Slots \cup {Null}
                       /\ Start(s) \in Heap \cup {Null}
  BY DEF BufferOK, Start, Length, NextOf
<1>2. \A s \in Slots : s \in Live <=> Start(s) # Null
  BY DEF Live, Start
<1>3. Live \subseteq Slots
  BY DEF Live
<1>4. \A s \in Slots : Length(s) \in Nat
  BY <1>1, HeapFacts
<1>5. \A s \in Slots : s \in Live <=> Start(s) \in Heap
  BY <1>1, <1>2, HeapFacts
<1>6. \A s \in Live : Start(s) \in Heap /\ Start(s) \in Nat
  BY <1>3, <1>5, HeapFacts
<1> QED BY <1>1, <1>3, <1>4, <1>5, <1>6, HeapFacts

\* Blocks have different starts, and no two the same next one.
LEMMA ListFacts ==
  ASSUME BufferOK, ListInv
  PROVE  /\ \A s, t \in Live : Start(s) = Start(t) => s = t
         /\ \A s, t \in Live : NextOf(s) = NextOf(t) => s = t
         /\ \A s \in Live : NextOf(s) # Null =>
              NextOf(s) \in Live /\ NextOf(s) # s /\ NextOf(s) # listStart
              /\ Start(s) < Start(NextOf(s))
         /\ Live # {} => listStart \in Live
         /\ listStart \in Live \cup {Null}
<1>1. \A s \in Live : Start(s) \in Nat /\ Length(s) \in Nat /\ 0 < Length(s) /\ s # Null
  BY LiveFacts, HeapFacts DEF ListInv, Apart
<1>2. \A s, t \in Live : Start(s) = Start(t) => s = t
  BY <1>1 DEF ListInv, Apart
<1>3. \A s \in Live : NextOf(s) # Null => NextOf(s) \in Live /\ Start(s) < Start(NextOf(s))
  BY DEF ListInv, Successors
<1>4. \A s, t \in Live : NextOf(s) = NextOf(t) => Start(s) = Start(t)
  <2> SUFFICES ASSUME NEW s \in Live, NEW t \in Live, NextOf(s) = NextOf(t)
               PROVE  Start(s) = Start(t)
    OBVIOUS
  <2>1. CASE NextOf(s) = Null
    <3>1. Start(s) <= Start(t) /\ Start(t) <= Start(s)
      BY <2>1 DEF ListInv, Successors
    <3> QED BY <3>1, <1>1
  <2>2. CASE NextOf(s) # Null
    <3>1. NextOf(s) \in Live /\ Start(s) < Start(NextOf(s)) /\ Start(t) < Start(NextOf(s))
      BY <2>2, <1>3
    <3>2. /\ Start(t) <= Start(s) \/ Start(NextOf(s)) <= Start(t)
          /\ Start(s) <= Start(t) \/ Start(NextOf(s)) <= Start(s)
      BY <2>2 DEF ListInv, Successors
    <3> QED BY <3>1, <3>2, <1>1
  <2> QED BY <2>1, <2>2
<1>5. Live # {} => listStart \in Live
  BY DEF ListInv, Lowest
<1>6. listStart \in Live \cup {Null}
  BY DEF ListInv, Lowest
<1>7. \A s \in Live : NextOf(s) # Null => NextOf(s) # listStart /\ NextOf(s) # s
  <2> SUFFICES ASSUME NEW s \in Live, NextOf(s) # Null
               PROVE  NextOf(s) # listStart /\ NextOf(s) # s
    OBVIOUS
  <2>1. Start(s) \in Nat /\ Start(listStart) \in Nat /\ Start(listStart) <= Start(s)
    BY <1>1, <1>5 DEF ListInv, Lowest
  <2> QED BY <2>1, <1>3
<1> QED BY <1>2, <1>3, <1>4, <1>5, <1>6, <1>7

LEMMA InitInv == Init => IInv
<1> SUFFICES ASSUME Init PROVE IInv
  OBVIOUS
<1>1. BufferOK
  BY HeapFacts DEF Init, BufferOK, Null, Heap
<1>2. /\ \A s \in Slots : memoryBuffer[s].start = IF s = 1 THEN FirstPage ELSE Null
      /\ memoryBuffer[1].size = Total - FirstPage /\ memoryBuffer[1].next = Null
  BY HeapFacts DEF Init
<1>a. Live = {1} /\ Start(1) = FirstPage /\ Length(1) = Total - FirstPage /\ NextOf(1) = Null
  <2>1. Live = { s \in Slots : memoryBuffer[s].start # Null }
    BY DEF Live
  <2>2. \A s : s \in Live <=> s = 1
    <3>1. \A s : s \in Live <=> s \in Slots /\ memoryBuffer[s].start # Null
      BY <2>1
    <3>2. 1 \in Slots /\ FirstPage # Null
      BY HeapFacts DEF Null
    <3> QED BY <1>2, <3>1, <3>2
  <2> QED BY <1>2, <2>2, HeapFacts DEF Start, Length, NextOf
<1>3. ListInv
  BY <1>a, HeapFacts DEF Init, ListInv, Apart, Lowest, Successors, Reached, Accounted, Heap, Null
<1>4. CallOK
  BY HeapFacts DEF Init, CallOK, NoCall, Null
<1> QED BY <1>1, <1>3, <1>4 DEF IInv

-----------------------------------------------------------------------------
(***************************************************************************)
(* The order of the list after its links change.                           *)
(***************************************************************************)
Ordered == Lowest /\ Successors /\ Reached

\* A block moves or grows and stays where it is in the list.
LEMMA Reshaped ==
  ASSUME BufferOK, ListInv, UNCHANGED listStart,
         \A s : s \in Live' <=> s \in Live,
         \A s \in Slots : NextOf(s)' = NextOf(s),
         \A s \in Live : Start(s)' \in Nat,
         \A s, t \in Live : Start(s) < Start(t) => Start(s)' < Start(t)'
  PROVE  Ordered'
<1>1. \A s \in Live : Start(s) \in Nat /\ s \in Slots
  BY LiveFacts
<1>2. \A s, t \in Live : Start(s) <= Start(t) => Start(s)' <= Start(t)'
  BY <1>1, ListFacts
<1>3. Lowest'
  BY <1>2 DEF ListInv, Lowest
<1>4. Successors'
  <2> SUFFICES ASSUME NEW s \in Live
               PROVE  IF NextOf(s)' = Null THEN \A t \in Live' : Start(t)' <= Start(s)'
                      ELSE /\ NextOf(s)' \in Live' /\ Start(s)' < Start(NextOf(s))'
                           /\ \A t \in Live' : Start(t)' <= Start(s)' \/ Start(NextOf(s))' <= Start(t)'
    BY DEF Successors
  <2> PICK n : n = NextOf(s) /\ n = NextOf(s)'
    BY <1>1
  <2>1. CASE n = Null
    BY <2>1, <1>2 DEF ListInv, Successors
  <2>2. CASE n # Null
    <3>1. n \in Live /\ Start(s) < Start(n)
          /\ \A t \in Live : Start(t) <= Start(s) \/ Start(n) <= Start(t)
      BY <2>2 DEF ListInv, Successors
    <3>2. Start(NextOf(s))' = Start(n)'
      OBVIOUS
    <3> QED BY <2>2, <3>1, <3>2, <1>2
  <2> QED BY <2>1, <2>2
<1>5. Reached'
  BY <1>1 DEF ListInv, Reached
<1> QED BY <1>3, <1>4, <1>5 DEF Ordered

\* Where a walk can end.
AtBlock == /\ call.current \in Live \cup {Null} /\ call.previous \in Live \cup {Null}
           /\ call.current = IF call.previous = Null THEN listStart ELSE NextOf(call.previous)

\* The block the walk has come to leaves the list.
CurrentUnlinked ==
  /\ \A s : s \in Live' <=> s \in Live /\ s # call.current
  /\ \A s \in Live : s # call.current =>
       /\ Start(s)' = Start(s)
       /\ NextOf(s)' = IF s = call.previous THEN NextOf(call.current) ELSE NextOf(s)
  /\ listStart' = IF call.previous = Null THEN NextOf(call.current) ELSE listStart

LEMMA Unlinked ==
  ASSUME BufferOK, ListInv, AtBlock, call.current # Null, CurrentUnlinked
  PROVE  Ordered'
<1> PICK c, p, n : c = call.current /\ p = call.previous /\ n = NextOf(call.current)
  OBVIOUS
<1>0. /\ c \in Live /\ p \in Live \cup {Null} /\ n = NextOf(c)
      /\ c = IF p = Null THEN listStart ELSE NextOf(p)
      /\ \A s : s \in Live' <=> s \in Live /\ s # c
      /\ \A s \in Live : s # c => /\ Start(s)' = Start(s)
                                 /\ NextOf(s)' = IF s = p THEN n ELSE NextOf(s)
      /\ listStart' = IF p = Null THEN n ELSE listStart
  BY DEF AtBlock, CurrentUnlinked
<1>1. n \in Live \cup {Null} /\ (n # Null => n # c /\ Start(c) < Start(n))
  BY <1>0, LiveFacts, HeapFacts DEF ListInv, Successors
<1>2. \A s \in Live' : s \in Live /\ s # c /\ s \in Slots /\ Start(s)' = Start(s)
                         /\ Start(s) \in Nat
  BY <1>0, LiveFacts
<1>3. \A s \in Live : s # c => s \in Live'
  BY <1>0
<1>4. p # Null => p \in Live' /\ p \in Live /\ p # c /\ Start(p) < Start(c) /\ NextOf(p) = c
  BY <1>0, <1>3, ListFacts, LiveFacts, HeapFacts
<1>5. Start(c) \in Nat /\ listStart # Null /\ n # c
  BY <1>0, <1>1, ListFacts, LiveFacts, HeapFacts
<1>6. \A t \in Live' : IF n = Null THEN Start(t) < Start(c)
                        ELSE Start(t) < Start(c) \/ Start(n) <= Start(t)
  BY <1>0, <1>1, <1>2, <1>5, ListFacts DEF ListInv, Successors
<1>7. Lowest'
  <2>1. CASE p = Null
    <3>1. listStart' = n /\ c = listStart
      BY <1>0, <2>1
    <3>2. \A t \in Live' : Start(c) <= Start(t)
      BY <1>0, <3>1, <1>2, <1>5 DEF ListInv, Lowest
    <3>3. CASE n = Null
      BY <1>0, <3>1, <3>2, <3>3, <1>6, <1>2, <1>5 DEF Lowest
    <3>4. CASE n # Null
      <4>1. n \in Live' /\ Start(n)' = Start(n)
        BY <1>0, <3>4, <1>1, <1>2, <1>3
      <4>2. \A t \in Live' : Start(n) <= Start(t)
        BY <1>0, <3>4, <3>2, <1>6, <1>2, <1>5
      <4> QED BY <1>0, <3>1, <3>4, <4>1, <4>2, <1>2 DEF Lowest
    <3> QED BY <1>0, <3>3, <3>4
  <2>2. CASE p # Null
    <3>1. listStart' = listStart /\ listStart \in Live /\ Start(listStart) <= Start(p)
      BY <1>0, <2>2, <1>4, <1>5 DEF ListInv, Lowest
    <3>2. listStart # c
      BY <1>0, <3>1, <2>2, <1>4, <1>2, <1>5
    <3> QED BY <1>0, <3>1, <3>2, <1>2, <1>3, <1>5 DEF ListInv, Lowest
  <2> QED BY <1>0, <2>1, <2>2
<1>8. Successors'
  <2> SUFFICES ASSUME NEW s \in Live'
               PROVE  IF NextOf(s)' = Null THEN \A t \in Live' : Start(t)' <= Start(s)'
                      ELSE /\ NextOf(s)' \in Live' /\ Start(s)' < Start(NextOf(s))'
                           /\ \A t \in Live' : Start(t)' <= Start(s)' \/ Start(NextOf(s))' <= Start(t)'
    BY <1>0 DEF Successors
  <2>1. CASE s = p
    <3>1. NextOf(s)' = n /\ NextOf(p) = c /\ Start(p) < Start(c) /\ p # Null
      BY <1>0, <2>1, <1>2, <1>4, LiveFacts, HeapFacts
    <3>2. \A t \in Live' : Start(t) <= Start(p) \/ Start(c) <= Start(t)
      BY <1>0, <3>1, <2>1, <1>2, HeapFacts, <1>5, LiveFacts DEF ListInv, Successors
    <3>3. CASE n = Null
      BY <1>0, <3>1, <3>2, <3>3, <1>6, <1>2, <1>5, <2>1
    <3>4. CASE n # Null
      <4>1. n \in Live' /\ Start(n)' = Start(n) /\ Start(n) \in Nat /\ Start(c) < Start(n)
        BY <1>0, <3>4, <1>1, <1>2, <1>3
      <4>2. \A t \in Live' : Start(t) <= Start(p) \/ Start(n) <= Start(t)
        BY <1>0, <3>2, <3>4, <1>6, <1>2, <1>5, <4>1
      <4> QED BY <3>1, <3>4, <4>1, <4>2, <1>2, <1>5, <2>1
    <3> QED BY <1>0, <3>3, <3>4
  <2>2. CASE s # p
    <3>1. NextOf(s)' = NextOf(s) /\ s \in Live
      BY <1>0, <2>2, <1>2
    <3>2. NextOf(s) # c
      BY <1>0, <3>1, <2>2, <1>4, <1>5, ListFacts
    <3>3. CASE NextOf(s) = Null
      BY <1>0, <3>3, <3>1, <1>2 DEF ListInv, Successors
    <3>4. CASE NextOf(s) # Null
      <4>1. NextOf(s) \in Live' /\ Start(NextOf(s))' = Start(NextOf(s)) /\ Start(s) < Start(NextOf(s))
        BY <1>0, <3>4, <3>1, <3>2, <1>2, <1>3, ListFacts
      <4>2. \A t \in Live' : Start(t) <= Start(s) \/ Start(NextOf(s)) <= Start(t)
        BY <1>0, <3>4, <3>1, <1>2 DEF ListInv, Successors
      <4> QED BY <1>0, <3>4, <3>1, <4>1, <4>2, <1>2
    <3> QED BY <1>0, <3>3, <3>4
  <2> QED BY <1>0, <2>1, <2>2
<1>9. \A q \in Live : q # c => /\ q \in Live' /\ NextOf(q)' = IF q = p THEN n ELSE NextOf(q)
  BY <1>0, <1>3, <1>2
<1>10. Reached'
  <2>1. ASSUME NEW s \in Live' PROVE s = listStart' \/ \E q \in Live' : NextOf(q)' = s
    <3>1. CASE s = listStart
      BY <1>0, <3>1, <2>1, <1>2
    <3>2. CASE s # listStart
      <4>1. PICK q \in Live : NextOf(q) = s
        BY <1>0, <3>2, <2>1, <1>2 DEF ListInv, Reached
      <4>2. CASE q = c
        <5>1. s = n
          BY <1>0, <4>1, <4>2
        <5> QED BY <1>0, <5>1, <1>4, <1>9
      <4>3. CASE q # c
        BY <1>0, <4>1, <4>3, <2>1, <1>9, <1>2, <1>4, LiveFacts
      <4> QED BY <1>0, <4>2, <4>3
    <3> QED BY <1>0, <3>1, <3>2
  <2>2. listStart' = Null \/ \E q \in Live' : NextOf(q)' = Null
    <3>1. PICK q \in Live : NextOf(q) = Null
      BY <1>0, <1>5 DEF ListInv, Reached
    <3>2. CASE q = c
      <4>1. n = Null
        BY <1>0, <3>1, <3>2
      <4> QED BY <1>0, <4>1, <1>4, <1>9
    <3>3. CASE q # c
      BY <1>0, <3>1, <3>3, <1>9, <1>5, <1>4, HeapFacts, LiveFacts
    <3> QED BY <1>0, <3>2, <3>3
  <2> QED BY <1>0, <2>1, <2>2 DEF Reached
<1> QED BY <1>0, <1>7, <1>8, <1>10 DEF Ordered

-----------------------------------------------------------------------------
(***************************************************************************)
(* One lemma for each thing a call can do at the end of its walk.          *)
(***************************************************************************)
\* A call that has returned satisfies CallOK.
LEMMA NoCallOK == call' = NoCall => CallOK'
BY HeapFacts DEF CallOK, NoCall, Null

\* What is known when a walk is over.
LEMMA CallFacts ==
  ASSUME IInv, call.op # "none"
  PROVE  /\ call.current \in Live \cup {Null} /\ call.previous \in Live \cup {Null}
         /\ call.count \in Counts /\ call.count \in Nat /\ 0 < call.count
         /\ call.current = IF call.previous = Null THEN listStart ELSE NextOf(call.previous)
         /\ call.op \in {"allocate", "free"}
<1>1. call.op \in {"none", "allocate", "free"} /\ call.current \in Live \cup {Null}
      /\ call.previous \in Live \cup {Null}
  BY DEF IInv, CallOK
<1> QED BY <1>1, HeapFacts DEF IInv, CallOK

\* A block taken whole leaves the list, and its pages are held.
LEMMA AllocateExactInv ==
  ASSUME IInv, AllocateExact
  PROVE  IInv'
<1> PICK c, p, n : c = call.current /\ p = call.previous /\ n = NextOf(call.current)
  OBVIOUS
<1>0. ListInv /\ BufferOK
  BY DEF IInv
<1>1. /\ n = NextOf(c) /\ c \in Live /\ p \in Live \cup {Null} /\ Length(c) = call.count
      /\ c = IF p = Null THEN listStart ELSE NextOf(p)
      /\ call' = NoCall
  BY CallFacts DEF AllocateExact, At, Current, Length
<1>2. /\ \A s \in Slots : /\ Start(s)' = IF s = c THEN Null ELSE Start(s)
                          /\ Length(s)' = Length(s)
                          /\ NextOf(s)' = IF s = p THEN n ELSE NextOf(s)
      /\ listStart' = IF p = Null THEN n ELSE listStart
  <2>1. memoryBuffer \in [Slots -> [start : Heap \cup {Null}, size : 0..(Total - FirstPage),
                                   next : Slots \cup {Null}]]
    BY <1>0 DEF BufferOK
  <2>2. c \in Slots /\ p \in Slots \cup {Null} /\ Null \notin Slots
    BY <1>1, HeapFacts DEF Live
  <2>3. IF p = Null THEN memoryBuffer' = [memoryBuffer EXCEPT ![c].start = Null] /\ listStart' = n
        ELSE /\ memoryBuffer' = [memoryBuffer EXCEPT ![c].start = Null, ![p].next = n]
             /\ UNCHANGED listStart
    BY DEF AllocateExact, LinkPrevious, Current, NextOf
  <2> QED BY <2>1, <2>2, <2>3 DEF Start, Length, NextOf
<1>3. \A s : s \in Live' <=> s \in Live /\ s # c
  BY <1>2 DEF Live, Start
<1>4. used' = used \cup Run(Start(c), Length(c)) /\ crashed' = crashed /\ answer' = Start(c)
  BY <1>1 DEF AllocateExact, Granted, Current, Start
<1>c. \A s \in Live' : s \in Live /\ s # c /\ s \in Slots /\ Start(s)' = Start(s)
                         /\ Start(s) \in Nat /\ Length(s)' = Length(s)
  BY <1>2, <1>3, <1>0, LiveFacts
<1>d. Start(c) \in Nat /\ \A s \in Live : s # c => s \in Live'
  BY <1>1, <1>3, <1>0, LiveFacts
<1>b. Start(c) \in Heap /\ Run(Start(c), Length(c)) \subseteq Heap
  <2>1. Start(c) \in Heap /\ Length(c) \in Nat /\ Start(c) + Length(c) <= Total
    BY <1>1, <1>0, LiveFacts DEF ListInv, Apart
  <2> QED BY <2>1, SizesAssumption DEF Run, Heap
<1>5. BufferOK'
  <2>1. memoryBuffer' \in [Slots -> [start : Heap \cup {Null}, size : 0..(Total - FirstPage),
                                     next : Slots \cup {Null}]]
    <3> DEFINE buf == [memoryBuffer EXCEPT ![call.current].start = Null]
    <3>1. buf \in [Slots -> [start : Heap \cup {Null}, size : 0..(Total - FirstPage),
                             next : Slots \cup {Null}]]
      BY <1>0, <1>1 DEF BufferOK
    <3>2. Current.next \in Slots \cup {Null}
      BY <1>1, LiveFacts, <1>0 DEF Current, NextOf
    <3>3. LinkPrevious(buf, Current.next)
      BY DEF AllocateExact
    <3> HIDE DEF buf
    <3> QED BY <3>1, <3>2, <3>3, <1>1 DEF LinkPrevious
  <2> QED BY <2>1, <1>0, <1>4, <1>b DEF BufferOK
<1>6. Apart'
  <2>1. \A s \in Live' : s \in Live /\ s \in Slots /\ Start(s)' = Start(s) /\ Length(s)' = Length(s)
    BY <1>2, <1>3, <1>0, LiveFacts
  <2> QED BY <2>1, <1>0 DEF ListInv, Apart
<1>7. Ordered'
  <2>1. CurrentUnlinked
    BY <1>1, <1>2, <1>3, <1>0, LiveFacts DEF CurrentUnlinked
  <2>2. AtBlock /\ call.current # Null
    BY <1>1, <1>0, LiveFacts DEF AtBlock
  <2> QED BY <2>1, <2>2, <1>0, Unlinked
<1>8. Accounted'
  <2> SUFFICES ASSUME NEW x \in Heap
               PROVE  x \notin used' <=> \E s \in Live' : Start(s)' <= x /\ x < Start(s)' + Length(s)'
    BY DEF Accounted
  <2>1. x \in Nat /\ Length(c) \in Nat
    BY HeapFacts, LiveFacts, <1>0, <1>1
  <2>2. x \notin used' <=> x \notin used /\ ~(Start(c) <= x /\ x < Start(c) + Length(c))
    BY <2>1, <1>4, <1>d DEF Run
  <2>3. x \notin used <=> \E s \in Live : Start(s) <= x /\ x < Start(s) + Length(s)
    BY <1>0 DEF ListInv, Accounted
  <2>4. \A s \in Live' : Start(s) <= x /\ x < Start(s) + Length(s)
                            => ~(Start(c) <= x /\ x < Start(c) + Length(c))
    <3>1. \A s \in Live' : \/ Start(s) + Length(s) < Start(c)
                           \/ Start(c) + Length(c) < Start(s)
      BY <1>c, <1>1, <1>0 DEF ListInv, Apart
    <3>2. \A s \in Live' : Length(s) \in Nat /\ Start(s) \in Nat
      BY <1>c, LiveFacts, <1>0
    <3> QED BY <3>1, <3>2, <2>1, <1>d
  <2> QED BY <2>2, <2>3, <2>4, <1>c, <1>d
<1> QED BY <1>1, <1>5, <1>6, <1>7, <1>8, NoCallOK DEF IInv, ListInv, Ordered

\* The front of a block leaves the free pages, and the block starts behind it.
LEMMA AllocateFrontInv ==
  ASSUME IInv, AllocateFront
  PROVE  IInv'
<1> PICK c, k : c = call.current /\ k = call.count
  OBVIOUS
<1>0. ListInv /\ BufferOK
  BY DEF IInv
<1>1. c \in Live /\ k < Length(c) /\ call' = NoCall /\ k \in Nat /\ 0 < k
  BY CallFacts DEF AllocateFront, At, Current, Length
<1>2. /\ \A s \in Slots : /\ Start(s)' = IF s = c THEN Start(s) + k ELSE Start(s)
                          /\ Length(s)' = IF s = c THEN Length(s) - k ELSE Length(s)
                          /\ NextOf(s)' = NextOf(s)
      /\ listStart' = listStart
  BY <1>0, LiveFacts, HeapFacts DEF BufferOK, AllocateFront, Current, Start, Length, NextOf
<1>3. used' = used \cup Run(Start(c), k) /\ crashed' = crashed /\ answer' = Start(c)
  BY DEF AllocateFront, Granted, Current, Start
<1>4. /\ Start(c) \in Heap /\ Start(c) \in Nat /\ Length(c) \in Nat /\ Start(c) + Length(c) <= Total
      /\ Length(c) \in 0..(Total - FirstPage)
  <2>1. Length(c) \in 0..(Total - FirstPage)
    BY <1>0, <1>1, LiveFacts DEF BufferOK, Length
  <2> QED BY <2>1, <1>0, <1>1, LiveFacts DEF ListInv, Apart
<1>5. Start(c) + k \in Heap /\ Run(Start(c), k) \subseteq Heap /\ Length(c) - k \in 0..(Total - FirstPage)
  BY <1>1, <1>4, SizesAssumption DEF Heap, Run
<1>6. \A s : s \in Live' <=> s \in Live
  <2>1. \A s \in Slots : Start(s)' # Null <=> Start(s) # Null
    BY <1>2, <1>5, <1>4, HeapFacts
  <2> QED BY <2>1 DEF Live, Start
<1>7. BufferOK'
  <2>1. memoryBuffer[c].start + k \in Heap /\ memoryBuffer[c].size - k \in 0..(Total - FirstPage)
    BY <1>5 DEF Start, Length
  <2>2. memoryBuffer' \in [Slots -> [start : Heap \cup {Null}, size : 0..(Total - FirstPage),
                                     next : Slots \cup {Null}]]
    BY <2>1, <1>0 DEF BufferOK, AllocateFront
  <2> QED BY <2>2, <1>0, <1>3, <1>4, <1>5 DEF BufferOK
<1>8. \A s \in Live : s # c => \/ Start(s) + Length(s) < Start(c)
                               \/ Start(c) + Length(c) < Start(s)
  BY <1>0, <1>1 DEF ListInv, Apart
<1>9. \A s \in Live : s \in Slots /\ Start(s) \in Nat /\ Length(s) \in Nat
  BY <1>0, LiveFacts
<1>10. Apart'
  BY <1>0, <1>1, <1>2, <1>4, <1>6, <1>8, <1>9 DEF ListInv, Apart
<1>11. Ordered'
  <2>1. \A s \in Live : Start(s)' \in Nat
    BY <1>1, <1>2, <1>9
  <2>2. \A s, t \in Live : Start(s) < Start(t) => Start(s)' < Start(t)'
    BY <1>1, <1>2, <1>8, <1>9
  <2> QED BY <2>1, <2>2, <1>0, <1>2, <1>6, Reshaped
<1>12. Accounted'
  <2> SUFFICES ASSUME NEW x \in Heap
               PROVE  x \notin used' <=> \E s \in Live : Start(s)' <= x /\ x < Start(s)' + Length(s)'
    BY <1>6 DEF Accounted
  <2>1. x \in Nat
    BY HeapFacts
  <2>2. x \notin used' <=> x \notin used /\ ~(Start(c) <= x /\ x < Start(c) + k)
    BY <2>1, <1>1, <1>3, <1>4 DEF Run
  <2>3. x \notin used <=> \E s \in Live : Start(s) <= x /\ x < Start(s) + Length(s)
    BY <1>0 DEF ListInv, Accounted
  <2>4. ASSUME NEW s \in Live
        PROVE  Start(s)' <= x /\ x < Start(s)' + Length(s)' <=>
                 /\ Start(s) <= x /\ x < Start(s) + Length(s)
                 /\ ~(Start(c) <= x /\ x < Start(c) + k)
    BY <2>1, <1>1, <1>2, <1>4, <1>8, <1>9
  <2> QED BY <2>2, <2>3, <2>4
<1> QED BY <1>1, <1>7, <1>10, <1>11, <1>12, NoCallOK DEF IInv, ListInv, Ordered

\* A request that fails changes nothing but the answer.
LEMMA AllocateNoneInv ==
  ASSUME IInv, AllocateNone
  PROVE  IInv'
<1>1. UNCHANGED <<memoryBuffer, listStart, used, crashed>> /\ answer' = 0 /\ call' = NoCall
  BY DEF AllocateNone, At
<1>2. BufferOK'
  BY <1>1 DEF IInv, BufferOK
<1>3. ListInv'
  BY <1>1 DEF IInv, ListInv, Apart, Lowest, Successors, Reached, Accounted, Live, Start, Length, NextOf
<1> QED BY <1>1, <1>2, <1>3, NoCallOK DEF IInv

-----------------------------------------------------------------------------
(***************************************************************************)
(* What is known of the pages given back once the walk has found their     *)
(* place: they lie between the block before and the current one.           *)
(***************************************************************************)
LEMMA FreeFacts ==
  ASSUME IInv, At("free")
  PROVE  /\ call.address \in Nat /\ call.address \in Heap /\ call.count \in Nat /\ 0 < call.count
         /\ call.address + call.count <= Total /\ FirstPage <= call.address
         /\ Run(call.address, call.count) \subseteq used
         /\ AtBlock
         /\ call.previous # Null =>
              Start(call.previous) + Length(call.previous) <= call.address
         /\ call.current # Null =>
              call.address + call.count <= Start(call.current)
         /\ CoalesceLeft <=> /\ call.previous # Null
                             /\ Start(call.previous) + Length(call.previous) = call.address
         /\ CoalesceRight <=> /\ call.current # Null
                              /\ Start(call.current) = call.address + call.count
         /\ \A s \in Live :
              \/ s = call.previous \/ s = call.current
              \/ call.previous # Null /\ Start(s) + Length(s) < Start(call.previous)
              \/ call.current # Null /\ Start(call.current) + Length(call.current) < Start(s)
<1> PICK c, p, a, k : c = call.current /\ p = call.previous /\ a = call.address /\ k = call.count
  OBVIOUS
<1>0. ListInv /\ BufferOK
  BY DEF IInv
<1>1. /\ c \in Live \cup {Null} /\ p \in Live \cup {Null} /\ k \in Nat /\ 0 < k
      /\ c = IF p = Null THEN listStart ELSE NextOf(p)
      /\ a \in Heap /\ Run(a, k) \subseteq used
      /\ p # Null => Start(p) <= a
      /\ c # Null => ~(Start(c) <= a)
  BY CallFacts DEF IInv, CallOK, At, PassesBy, Current, Start
<1>2. a \in Nat /\ FirstPage <= a /\ a < Total
  BY <1>1, HeapFacts
<1>3. \A x : a <= x /\ x < a + k /\ x \in Nat => x \in used /\ x \in Heap
  <2>1. used \subseteq Heap
    BY <1>0 DEF BufferOK
  <2> QED BY <2>1, <1>1, <1>2 DEF Run
<1>4. a + k <= Total
  <2>1. a + k - 1 \in Heap
    BY <1>1, <1>2, <1>3
  <2> QED BY <2>1, <1>1, <1>2, HeapFacts
<1>5. \A s \in Live : /\ Start(s) \in Nat /\ Length(s) \in Nat /\ 0 < Length(s) /\ s # Null
                      /\ Start(s) + Length(s) <= Total /\ Start(s) \in Heap
                      /\ Start(s) < Total
  BY <1>0, LiveFacts, HeapFacts DEF ListInv, Apart
<1>6. ASSUME NEW s \in Live PROVE Start(s) + Length(s) <= a \/ a + k <= Start(s)
  <2>1. \A x \in Heap : Start(s) <= x /\ x < Start(s) + Length(s) => x \notin used
    BY <1>0 DEF ListInv, Accounted
  <2>2. CASE a <= Start(s)
    BY <2>1, <2>2, <1>1, <1>2, <1>3, <1>5
  <2>3. CASE Start(s) < a
    BY <2>1, <2>3, <1>1, <1>2, <1>3, <1>5
  <2> QED BY <2>2, <2>3, <1>2, <1>5
<1>7. /\ p # Null => Start(p) + Length(p) <= a
      /\ c # Null => a + k <= Start(c)
  BY <1>1, <1>2, <1>5, <1>6
<1>8. Total \in Nat /\ 0 < Total
  BY HeapFacts
<1>9. \A x \in Nat : x <= Total => Wrap(x) = IF x = Total THEN 0 ELSE x
  BY <1>8 DEF Wrap
<1>10. CoalesceLeft <=> p # Null /\ Start(p) + Length(p) = a
  <2>1. CoalesceLeft <=> p # Null /\ Wrap(Start(p) + Length(p)) = a
    BY DEF CoalesceLeft, Previous, Start, Length
  <2> QED BY <2>1, <1>1, <1>2, <1>5, <1>9, HeapFacts
<1>11. CoalesceRight <=> c # Null /\ Start(c) = a + k
  <2>1. CoalesceRight <=> c # Null /\ Start(c) = Wrap(a + k)
    BY DEF CoalesceRight, Current, Start
  <2> QED BY <2>1, <1>1, <1>2, <1>4, <1>5, <1>9, HeapFacts DEF Null
<1>12. \A s \in Live : \/ s = p \/ s = c
                       \/ p # Null /\ Start(s) + Length(s) < Start(p)
                       \/ c # Null /\ Start(c) + Length(c) < Start(s)
  <2> SUFFICES ASSUME NEW s \in Live, s # p, s # c
               PROVE  \/ p # Null /\ Start(s) + Length(s) < Start(p)
                      \/ c # Null /\ Start(c) + Length(c) < Start(s)
    OBVIOUS
  <2>1. /\ p # Null => Start(s) + Length(s) < Start(p) \/ Start(p) + Length(p) < Start(s)
        /\ c # Null => Start(s) + Length(s) < Start(c) \/ Start(c) + Length(c) < Start(s)
    BY <1>0, <1>1 DEF ListInv, Apart
  <2>2. CASE p = Null
    <3>1. c \in Live /\ Start(c) <= Start(s)
      BY <2>2, <1>0, <1>1 DEF ListInv, Lowest
    <3> QED BY <3>1, <2>1, <1>5
  <2>3. CASE p # Null
    <3>1. c = NextOf(p) /\ p \in Live
      BY <2>3, <1>1
    <3>2. Start(s) <= Start(p) \/ (c # Null /\ Start(c) <= Start(s))
      BY <3>1, <1>0 DEF ListInv, Successors
    <3> QED BY <3>1, <3>2, <2>1, <2>3, <1>1, <1>5
  <2> QED BY <2>2, <2>3
<1> QED BY <1>1, <1>2, <1>4, <1>7, <1>10, <1>11, <1>12 DEF AtBlock

-----------------------------------------------------------------------------
(***************************************************************************)
(* The four ways pages given back join the list.                           *)
(***************************************************************************)
\* A page is held unless a block holds it, and the pages given back no more.
LEMMA ReturnedFacts ==
  ASSUME IInv, At("free"), Returned, NEW x \in Heap
  PROVE  x \notin used' <=> \/ call.address <= x /\ x < call.address + call.count
                            \/ \E s \in Live : Start(s) <= x /\ x < Start(s) + Length(s)
<1>1. x \notin used' <=> x \notin used \/ (call.address <= x /\ x < call.address + call.count)
  BY FreeFacts, HeapFacts DEF Returned, Run
<1>2. x \notin used <=> \E s \in Live : Start(s) <= x /\ x < Start(s) + Length(s)
  BY DEF IInv, ListInv, Accounted
<1> QED BY <1>1, <1>2

\* Pages right behind a block make it longer.
LEMMA FreeBehindInv ==
  ASSUME IInv, FreeBehind
  PROVE  IInv'
<1> PICK c, p, a, k : c = call.current /\ p = call.previous /\ a = call.address /\ k = call.count
  OBVIOUS
<1>0. ListInv /\ BufferOK /\ At("free") /\ Returned /\ CoalesceLeft /\ ~CoalesceRight
      /\ call' = NoCall /\ crashed' = crashed /\ listStart' = listStart
  BY DEF IInv, FreeBehind, At
<1>1. /\ a \in Nat /\ k \in Nat /\ 0 < k /\ a + k <= Total /\ FirstPage <= a
      /\ p \in Live /\ Start(p) + Length(p) = a
      /\ c # Null => c \in Live /\ a + k < Start(c)
      /\ \A s \in Live : \/ s = p \/ s = c
                         \/ Start(s) + Length(s) < Start(p)
                         \/ c # Null /\ Start(c) + Length(c) < Start(s)
  <2>1. c # Null => c \in Live /\ a + k <= Start(c) /\ Start(c) # a + k
    BY <1>0, FreeFacts DEF AtBlock
  <2>2. c # Null => Start(c) \in Nat
    BY <2>1, <1>0, LiveFacts
  <2>3. a \in Nat /\ k \in Nat /\ 0 < k /\ a + k <= Total /\ FirstPage <= a
    BY <1>0, FreeFacts
  <2>4. p \in Live /\ Start(p) + Length(p) = a
    BY <1>0, FreeFacts DEF AtBlock
  <2> QED BY <2>1, <2>2, <2>3, <2>4, <1>0, FreeFacts
<1>2. \A s \in Slots : /\ Start(s)' = Start(s)
                       /\ Length(s)' = IF s = p THEN Length(s) + k ELSE Length(s)
                       /\ NextOf(s)' = NextOf(s)
  BY <1>0, LiveFacts, HeapFacts DEF BufferOK, FreeBehind, Start, Length, NextOf
<1>3. \A s : s \in Live' <=> s \in Live
  BY <1>2 DEF Live, Start
<1>4. \A s \in Live : /\ s \in Slots /\ Start(s) \in Nat /\ Length(s) \in Nat /\ 0 < Length(s)
                      /\ Start(s) + Length(s) <= Total /\ FirstPage <= Start(s) /\ s # Null
  BY <1>0, LiveFacts, HeapFacts DEF ListInv, Apart
<1>5. BufferOK'
  <2>1. memoryBuffer[p].size + k \in 0..(Total - FirstPage)
    BY <1>1, <1>4, SizesAssumption DEF Start, Length
  <2>2. memoryBuffer' \in [Slots -> [start : Heap \cup {Null}, size : 0..(Total - FirstPage),
                                     next : Slots \cup {Null}]]
    BY <2>1, <1>0 DEF BufferOK, FreeBehind
  <2> QED BY <2>2, <1>0 DEF BufferOK, Returned
<1>6. Apart'
  <2>1. \A s \in Live : s # p => \/ Start(s) + Length(s) < Start(p)
                                 \/ a + k < Start(s)
    BY <1>1, <1>4
  <2> QED BY <2>1, <1>0, <1>1, <1>2, <1>3, <1>4 DEF ListInv, Apart
<1>7. Ordered'
  <2>1. /\ \A s \in Live : Start(s)' \in Nat
        /\ \A s, t \in Live : Start(s) < Start(t) => Start(s)' < Start(t)'
    BY <1>2, <1>4
  <2> QED BY <2>1, <1>0, <1>2, <1>3, Reshaped
<1>8. Accounted'
  <2> SUFFICES ASSUME NEW x \in Heap
               PROVE  x \notin used' <=> \E s \in Live : Start(s)' <= x /\ x < Start(s)' + Length(s)'
    BY <1>3 DEF Accounted
  <2>1. x \notin used' <=> \/ a <= x /\ x < a + k
                           \/ \E s \in Live : Start(s) <= x /\ x < Start(s) + Length(s)
    BY <1>0, ReturnedFacts
  <2>2. x \in Nat
    BY HeapFacts
  <2> QED BY <2>1, <2>2, <1>1, <1>2, <1>4
<1> QED BY <1>0, <1>5, <1>6, <1>7, <1>8, NoCallOK DEF IInv, ListInv, Ordered

\* Pages right in front of a block move its start back.
LEMMA FreeInFrontInv ==
  ASSUME IInv, FreeInFront
  PROVE  IInv'
<1> PICK c, p, a, k : c = call.current /\ p = call.previous /\ a = call.address /\ k = call.count
  OBVIOUS
<1>0. ListInv /\ BufferOK /\ At("free") /\ Returned /\ ~CoalesceLeft /\ CoalesceRight
      /\ call' = NoCall /\ crashed' = crashed /\ listStart' = listStart
  BY DEF IInv, FreeInFront, At
<1>1. /\ a \in Nat /\ k \in Nat /\ 0 < k /\ a + k <= Total /\ FirstPage <= a /\ a \in Heap
      /\ c \in Live /\ Start(c) = a + k
      /\ p # Null => p \in Live /\ Start(p) + Length(p) < a
      /\ \A s \in Live : \/ s = p \/ s = c
                         \/ p # Null /\ Start(s) + Length(s) < Start(p)
                         \/ Start(c) + Length(c) < Start(s)
  <2>1. p # Null => p \in Live /\ Start(p) + Length(p) <= a /\ Start(p) + Length(p) # a
    BY <1>0, FreeFacts DEF AtBlock
  <2>2. p # Null => Start(p) \in Nat /\ Length(p) \in Nat
    BY <2>1, <1>0, LiveFacts
  <2>3. a \in Nat /\ k \in Nat /\ 0 < k /\ a + k <= Total /\ FirstPage <= a /\ a \in Heap
    BY <1>0, FreeFacts
  <2>4. c \in Live /\ Start(c) = a + k
    BY <1>0, FreeFacts DEF AtBlock
  <2> QED BY <2>1, <2>2, <2>3, <2>4, <1>0, FreeFacts
<1>2. \A s \in Slots : /\ Start(s)' = IF s = c THEN Start(s) - k ELSE Start(s)
                       /\ Length(s)' = IF s = c THEN Length(s) + k ELSE Length(s)
                       /\ NextOf(s)' = NextOf(s)
  BY <1>0, LiveFacts, HeapFacts DEF BufferOK, FreeInFront, Start, Length, NextOf
<1>3. \A s : s \in Live' <=> s \in Live
  <2>1. \A s \in Slots : Start(s)' # Null <=> Start(s) # Null
    BY <1>2, <1>1, <1>0, LiveFacts, HeapFacts
  <2> QED BY <2>1 DEF Live, Start
<1>4. \A s \in Live : /\ s \in Slots /\ Start(s) \in Nat /\ Length(s) \in Nat /\ 0 < Length(s)
                      /\ Start(s) + Length(s) <= Total /\ FirstPage <= Start(s) /\ s # Null
  BY <1>0, LiveFacts, HeapFacts DEF ListInv, Apart
<1>5. BufferOK'
  <2>1. memoryBuffer[c].size + k \in 0..(Total - FirstPage) /\ memoryBuffer[c].start - k \in Heap
    BY <1>1, <1>4, SizesAssumption DEF Start, Length
  <2>2. memoryBuffer' \in [Slots -> [start : Heap \cup {Null}, size : 0..(Total - FirstPage),
                                     next : Slots \cup {Null}]]
    BY <2>1, <1>0 DEF BufferOK, FreeInFront
  <2> QED BY <2>2, <1>0 DEF BufferOK, Returned
<1>9. \A s \in Live : s # c => \/ Start(s) + Length(s) < a
                               \/ Start(c) + Length(c) < Start(s)
  BY <1>1, <1>4
<1>6. Apart'
  BY <1>9, <1>0, <1>1, <1>2, <1>3, <1>4 DEF ListInv, Apart
<1>7. Ordered'
  <2>1. /\ \A s \in Live : Start(s)' \in Nat
        /\ \A s, t \in Live : Start(s) < Start(t) => Start(s)' < Start(t)'
    BY <1>1, <1>2, <1>4, <1>9
  <2> QED BY <2>1, <1>0, <1>2, <1>3, Reshaped
<1>8. Accounted'
  <2> SUFFICES ASSUME NEW x \in Heap
               PROVE  x \notin used' <=> \E s \in Live : Start(s)' <= x /\ x < Start(s)' + Length(s)'
    BY <1>3 DEF Accounted
  <2>1. x \notin used' <=> \/ a <= x /\ x < a + k
                           \/ \E s \in Live : Start(s) <= x /\ x < Start(s) + Length(s)
    BY <1>0, ReturnedFacts
  <2>2. x \in Nat
    BY HeapFacts
  <2> QED BY <2>1, <2>2, <1>1, <1>2, <1>4
<1> QED BY <1>0, <1>5, <1>6, <1>7, <1>8, NoCallOK DEF IInv, ListInv, Ordered

Buffers(Sizes) == [Slots -> [start : Heap \cup {Null}, size : Sizes, next : Slots \cup {Null}]]

LEMMA JoinedBuffer ==
  ASSUME NEW Sizes, NEW b \in Buffers(Sizes), NEW s \in Slots, NEW t \in Slots,
         NEW size \in Sizes, NEW next \in Slots \cup {Null}
  PROVE  [b EXCEPT ![s].size = size, ![s].next = next, ![t].start = Null] \in Buffers(Sizes)
<1>1. PICK b1 : b1 = [b EXCEPT ![s].size = size]
  OBVIOUS
<1>2. PICK b2 : b2 = [b1 EXCEPT ![s].next = next]
  OBVIOUS
<1>3. b1 \in Buffers(Sizes)
  BY <1>1 DEF Buffers
<1>4. b2 \in Buffers(Sizes)
  BY <1>2, <1>3 DEF Buffers
<1>5. [b2 EXCEPT ![t].start = Null] \in Buffers(Sizes)
  BY <1>4 DEF Buffers
<1> QED BY <1>1, <1>2, <1>5

\* Pages between two blocks join them into one, and one struct is free again.
LEMMA FreeBetweenInv ==
  ASSUME IInv, FreeBetween
  PROVE  IInv'
<1> PICK c, p, a, k : c = call.current /\ p = call.previous /\ a = call.address /\ k = call.count
  OBVIOUS
<1>0. ListInv /\ BufferOK /\ At("free") /\ Returned /\ CoalesceLeft /\ CoalesceRight
      /\ call' = NoCall /\ crashed' = crashed /\ listStart' = listStart
  BY DEF IInv, FreeBetween, At
<1>4. \A s \in Live : /\ s \in Slots /\ Start(s) \in Nat /\ Length(s) \in Nat /\ 0 < Length(s)
                      /\ Start(s) + Length(s) <= Total /\ FirstPage <= Start(s) /\ s # Null
  BY <1>0, LiveFacts, HeapFacts DEF ListInv, Apart
<1>1. /\ a \in Nat /\ k \in Nat /\ 0 < k /\ a + k <= Total /\ FirstPage <= a
      /\ p \in Live /\ Start(p) + Length(p) = a
      /\ c \in Live /\ Start(c) = a + k
      /\ c = NextOf(p) /\ p # c
      /\ \A s \in Live : \/ s = p \/ s = c
                         \/ Start(s) + Length(s) < Start(p)
                         \/ Start(c) + Length(c) < Start(s)
  <2>1. p \in Live /\ Start(p) + Length(p) = a /\ c \in Live /\ Start(c) = a + k
    BY <1>0, FreeFacts DEF AtBlock
  <2>2. a \in Nat /\ k \in Nat /\ 0 < k /\ a + k <= Total /\ FirstPage <= a
    BY <1>0, FreeFacts
  <2>3. c = NextOf(p)
    BY <1>0, <1>4, <2>1, FreeFacts DEF AtBlock
  <2> QED BY <2>1, <2>2, <2>3, <1>0, <1>4, FreeFacts
<1>2. \A s \in Slots : /\ Start(s)' = IF s = c THEN Null ELSE Start(s)
                       /\ Length(s)' = IF s = p THEN Length(s) + k + Length(c) ELSE Length(s)
                       /\ NextOf(s)' = IF s = p THEN NextOf(c) ELSE NextOf(s)
  <2>1. memoryBuffer \in [Slots -> [start : Heap \cup {Null}, size : 0..(Total - FirstPage),
                                   next : Slots \cup {Null}]]
    BY <1>0 DEF BufferOK
  <2>2. memoryBuffer' = [memoryBuffer EXCEPT ![p].size = @ + k + Length(c),
                                             ![p].next = NextOf(c), ![c].start = Null]
    BY DEF FreeBetween, Current, Length, NextOf
  <2>3. p \in Slots /\ c \in Slots /\ p # c
    BY <1>1, <1>4
  <2> QED BY <2>1, <2>2, <2>3 DEF Start, Length, NextOf
<1>3. \A s : s \in Live' <=> s \in Live /\ s # c
  BY <1>2 DEF Live, Start
<1>5. BufferOK'
  <2>1. memoryBuffer[p].size + k + memoryBuffer[c].size \in 0..(Total - FirstPage)
    BY <1>1, <1>4, SizesAssumption DEF Start, Length
  <2>2. memoryBuffer[c].next \in Slots \cup {Null}
    BY <1>0, <1>1, <1>4 DEF BufferOK
  <2>3. memoryBuffer' = [memoryBuffer EXCEPT ![p].size = @ + k + memoryBuffer[c].size,
                                             ![p].next = memoryBuffer[c].next,
                                             ![c].start = Null]
    BY DEF FreeBetween, Current
  <2>4. memoryBuffer' \in [Slots -> [start : Heap \cup {Null}, size : 0..(Total - FirstPage),
                                     next : Slots \cup {Null}]]
    <3>1. PICK size, next : /\ size = memoryBuffer[p].size + k + memoryBuffer[c].size
                            /\ next = memoryBuffer[c].next
      OBVIOUS
    <3>2. memoryBuffer \in Buffers(0..(Total - FirstPage))
      BY <1>0 DEF BufferOK, Buffers
    <3>3. p \in Slots /\ c \in Slots /\ size \in 0..(Total - FirstPage) /\ next \in Slots \cup {Null}
      BY <1>1, <1>4, <2>1, <2>2, <3>1
    <3>4. memoryBuffer' = [memoryBuffer EXCEPT ![p].size = size, ![p].next = next, ![c].start = Null]
      <4>1. memoryBuffer = [s \in Slots |-> memoryBuffer[s]]
        BY <3>2 DEF Buffers
      <4> QED BY <2>3, <3>1, <3>3, <4>1
    <3>5. memoryBuffer' \in Buffers(0..(Total - FirstPage))
      BY <3>2, <3>3, <3>4, JoinedBuffer
    <3> QED BY <3>5 DEF Buffers
  <2> QED BY <2>4, <1>0 DEF BufferOK, Returned
<1>6. Apart'
  BY <1>0, <1>1, <1>2, <1>3, <1>4 DEF ListInv, Apart
<1>7. Ordered'
  <2>1. CurrentUnlinked
    BY <1>0, <1>1, <1>2, <1>3, <1>4 DEF CurrentUnlinked
  <2>2. AtBlock /\ call.current # Null
    BY <1>0, <1>1, <1>4, FreeFacts
  <2> QED BY <2>1, <2>2, <1>0, Unlinked
<1>8. Accounted'
  <2> SUFFICES ASSUME NEW x \in Heap
               PROVE  x \notin used' <=> \E s \in Live' : Start(s)' <= x /\ x < Start(s)' + Length(s)'
    BY DEF Accounted
  <2>1. x \notin used' <=> \/ a <= x /\ x < a + k
                           \/ \E s \in Live : Start(s) <= x /\ x < Start(s) + Length(s)
    BY <1>0, ReturnedFacts
  <2>2. x \in Nat
    BY HeapFacts
  <2>3. Start(p)' <= x /\ x < Start(p)' + Length(p)' <=>
          \/ a <= x /\ x < a + k
          \/ Start(p) <= x /\ x < Start(p) + Length(p)
          \/ Start(c) <= x /\ x < Start(c) + Length(c)
    <3>1. Start(p)' = Start(p) /\ Length(p)' = Length(p) + k + Length(c)
      BY <1>1, <1>2, <1>4
    <3> QED BY <3>1, <2>2, <1>1, <1>4
  <2>4. \A s \in Live : s # p /\ s # c => s \in Live' /\ Start(s)' = Start(s) /\ Length(s)' = Length(s)
    BY <1>2, <1>3, <1>4
  <2> QED BY <2>1, <2>3, <2>4, <1>1, <1>3
<1> QED BY <1>0, <1>5, <1>6, <1>7, <1>8, NoCallOK DEF IInv, ListInv, Ordered

-----------------------------------------------------------------------------
(***************************************************************************)
(* A page lies between any two blocks, and between the pages given back    *)
(* and the blocks they do not join: two pages for each of them, and one    *)
(* struct for two pages is enough.                                         *)
(***************************************************************************)
LEMMA StructLeft ==
  ASSUME IInv, At("free"), ~CoalesceLeft, ~CoalesceRight
  PROVE  Unused # {}
<1> SUFFICES ASSUME Unused = {} PROVE FALSE
  OBVIOUS
<1> PICK c, p, a, k : c = call.current /\ p = call.previous /\ a = call.address /\ k = call.count
  OBVIOUS
<1> DEFINE N == HalfPages \div 2
           Base(s) == IF s = 0 THEN a ELSE Start(s)
           half == [s \in 0..N |-> (Base(s) - FirstPage) \div 2]
<1>1. Live = Slots
  BY DEF Unused, Live
<1>2. \A s \in Slots : /\ Start(s) \in Nat /\ Length(s) \in Nat /\ 0 < Length(s) /\ s # Null
                       /\ Start(s) + Length(s) <= Total /\ FirstPage <= Start(s)
  BY <1>1, LiveFacts, HeapFacts DEF IInv, ListInv, Apart
<1>3. \A s, t \in Slots : s # t => Start(s) + 2 <= Start(t) \/ Start(t) + 2 <= Start(s)
  BY <1>1, <1>2 DEF IInv, ListInv, Apart
<1>4. a \in Nat /\ k \in Nat /\ 0 < k /\ a + k <= Total /\ FirstPage <= a
  BY FreeFacts
<1>5. \A s \in Slots : Start(s) + 2 <= a \/ a + 2 <= Start(s)
  <2>1. p # Null => p \in Slots /\ Start(p) + Length(p) < a
    <3>1. p # Null => p \in Slots /\ Start(p) + Length(p) <= a /\ Start(p) + Length(p) # a
      BY <1>1, FreeFacts DEF AtBlock
    <3> QED BY <3>1, <1>2, <1>4
  <2>2. c # Null => c \in Slots /\ a + k < Start(c)
    <3>1. c # Null => c \in Slots /\ a + k <= Start(c) /\ Start(c) # a + k
      BY <1>1, FreeFacts DEF AtBlock
    <3> QED BY <3>1, <1>2, <1>4
  <2>3. \A s \in Slots :
           \/ s = p \/ s = c
           \/ p # Null /\ Start(s) + Length(s) < Start(p)
           \/ c # Null /\ Start(c) + Length(c) < Start(s)
    BY <1>1, FreeFacts
  <2> QED BY <2>1, <2>2, <2>3, <1>2, <1>4
<1>6. /\ N \in Nat /\ 0 < N /\ HalfPages <= N + N + 1 /\ Slots = 1..N
      /\ FirstPage \in Nat /\ Total - FirstPage < HalfPages /\ Total \in Nat
  BY SizesAssumption, HeapFacts DEF Slots
<1> HIDE DEF N
<1>7. \A s \in 0..N : Base(s) \in Nat /\ FirstPage <= Base(s) /\ Base(s) < Total
  <2> SUFFICES ASSUME NEW s \in 0..N
               PROVE  Base(s) \in Nat /\ FirstPage <= Base(s) /\ Base(s) < Total
    OBVIOUS
  <2>1. CASE s = 0
    BY <2>1, <1>4, <1>6
  <2>2. CASE s # 0
    <3>1. s \in Slots
      BY <2>2, <1>6
    <3> QED BY <2>2, <3>1, <1>2, <1>6
  <2> QED BY <2>1, <2>2
<1>8. \A s, t \in 0..N : s # t => Base(s) + 2 <= Base(t) \/ Base(t) + 2 <= Base(s)
  <2> SUFFICES ASSUME NEW s \in 0..N, NEW t \in 0..N, s # t
               PROVE  Base(s) + 2 <= Base(t) \/ Base(t) + 2 <= Base(s)
    OBVIOUS
  <2>1. /\ s # 0 => s \in Slots
        /\ t # 0 => t \in Slots
    BY <1>6
  <2> QED BY <2>1, <1>3, <1>5
<1> HIDE DEF Base
<1>9. \A s \in 0..N : /\ half[s] \in Nat
                      /\ half[s] + half[s] <= Base(s) - FirstPage
                      /\ Base(s) - FirstPage <= half[s] + half[s] + 1
  <2> SUFFICES ASSUME NEW s \in 0..N
               PROVE  /\ half[s] \in Nat
                      /\ half[s] + half[s] <= Base(s) - FirstPage
                      /\ Base(s) - FirstPage <= half[s] + half[s] + 1
    OBVIOUS
  <2>1. PICK x \in Nat : x = Base(s) - FirstPage
    BY <1>6, <1>7
  <2>2. half[s] = x \div 2
    BY <2>1
  <2> QED BY <2>1, <2>2
<1>12. half = [s \in 0..N |-> half[s]]
  OBVIOUS
<1> HIDE DEF half
<1>10. \A s \in 0..N : half[s] \in 0..(N - 1)
  <2> SUFFICES ASSUME NEW s \in 0..N PROVE half[s] \in 0..(N - 1)
    OBVIOUS
  <2> PICK x, y : x = half[s] /\ y = Base(s)
    OBVIOUS
  <2>1. x \in Nat /\ x + x <= y - FirstPage /\ y \in Nat /\ y < Total
    BY <1>7, <1>9
  <2>2. HalfPages \in Nat /\ Total - FirstPage < HalfPages /\ HalfPages <= N + N + 1 /\ N \in Nat
        /\ FirstPage \in Nat /\ Total \in Nat
    BY <1>6, HeapFacts
  <2>3. x + 1 <= N
    BY <2>1, <2>2
  <2>4. x \in 0..(N - 1)
    BY <2>1, <2>2, <2>3
  <2> QED BY <2>4
<1>11. \A s, t \in 0..N : s # t => half[s] # half[t]
  <2> SUFFICES ASSUME NEW s \in 0..N, NEW t \in 0..N, s # t, half[s] = half[t]
               PROVE  FALSE
    OBVIOUS
  <2> PICK x, y, z : x = half[s] /\ y = Base(s) /\ z = Base(t)
    OBVIOUS
  <2>1. /\ x \in Nat /\ x + x <= y - FirstPage /\ y - FirstPage <= x + x + 1
        /\ x + x <= z - FirstPage /\ z - FirstPage <= x + x + 1
        /\ y \in Nat /\ z \in Nat
    BY <1>7, <1>9
  <2>2. y + 2 <= z \/ z + 2 <= y
    BY <1>8
  <2>3. FirstPage \in Nat
    BY <1>6
  <2> QED BY <2>1, <2>2, <2>3
<1>16. half \in [0..N -> 0..(N - 1)]
  BY <1>10, <1>12
<1>13. /\ IsFiniteSet(0..N) /\ Cardinality(0..N) = N + 1
       /\ IsFiniteSet(0..(N - 1)) /\ Cardinality(0..(N - 1)) = N
  <2>1. 0 \in Int /\ N \in Int /\ N - 1 \in Int /\ ~(0 > N) /\ ~(0 > N - 1)
    BY <1>6
  <2>2. IsFiniteSet(0..N) /\ Cardinality(0..N) = N - 0 + 1
    BY <2>1, FS_Interval
  <2>3. IsFiniteSet(0..(N - 1)) /\ Cardinality(0..(N - 1)) = (N - 1) - 0 + 1
    BY <2>1, FS_Interval
  <2> QED BY <2>2, <2>3, <1>6
<1>14. Cardinality(0..(N - 1)) < Cardinality(0..N)
  BY <1>6, <1>13
<1>15. \E s, t \in 0..N : s # t /\ half[s] = half[t]
  BY <1>16, <1>13, <1>14, FS_PigeonHole
<1> QED BY <1>11, <1>15

\* VMM_FindBlockStruct returns an unused struct when there is one.
LEMMA FirstUnusedFacts ==
  ASSUME Unused # {}
  PROVE  FirstUnused \in Slots /\ FirstUnused \notin Live
<1>1. Unused \subseteq Slots /\ Unused \in SUBSET Nat
  BY HeapFacts DEF Unused
<1>2. PICK b \in Unused : \A t \in Unused : <<t, b>> \notin OpToRel(<, Nat)
  BY <1>1, NatLessThanWellFounded, WFMin, Zenon
<1>3. \A t \in Unused : ~(t < b)
  BY <1>1, <1>2, Zenon DEF OpToRel
<1>4. \A t \in Unused : b <= t
  BY <1>1, <1>3
<1>5. FirstUnused \in Unused
  BY <1>4 DEF FirstUnused
<1> QED BY <1>1, <1>5 DEF Unused, Live

\* Pages that touch no block become a block of their own in their place.
LEMMA FreeAloneInv ==
  ASSUME IInv, FreeAlone
  PROVE  IInv'
<1> PICK c, p, a, k, u : /\ c = call.current /\ p = call.previous /\ a = call.address /\ k = call.count
                         /\ u = FirstUnused
  OBVIOUS
<1>a. ListInv /\ BufferOK /\ At("free") /\ ~CoalesceLeft /\ ~CoalesceRight /\ call' = NoCall
  BY DEF IInv, FreeAlone, At
<1>b. Unused # {}
  BY <1>a, StructLeft
<1>0. /\ ListInv /\ BufferOK /\ At("free") /\ ~CoalesceLeft /\ ~CoalesceRight /\ call' = NoCall
      /\ Returned /\ crashed' = crashed /\ u \in Slots /\ u \notin Live
      /\ LinkPrevious([memoryBuffer EXCEPT ![u] = [start |-> a, size |-> k, next |-> c]], u)
  BY <1>a, <1>b, FirstUnusedFacts DEF FreeAlone
<1>4. \A s \in Live : /\ s \in Slots /\ Start(s) \in Nat /\ Length(s) \in Nat /\ 0 < Length(s)
                      /\ Start(s) + Length(s) <= Total /\ FirstPage <= Start(s) /\ s # Null
  BY <1>0, LiveFacts, HeapFacts DEF ListInv, Apart
<1>1. /\ a \in Nat /\ k \in Nat /\ 0 < k /\ a + k <= Total /\ FirstPage <= a /\ a \in Heap
      /\ p \in Live \cup {Null} /\ c \in Live \cup {Null}
      /\ c = IF p = Null THEN listStart ELSE NextOf(p)
      /\ p # Null => p \in Live /\ Start(p) + Length(p) < a
      /\ c # Null => c \in Live /\ a + k < Start(c)
      /\ \A s \in Live : \/ s = p \/ s = c
                         \/ p # Null /\ Start(s) + Length(s) < Start(p)
                         \/ c # Null /\ Start(c) + Length(c) < Start(s)
  <2>1. p # Null => p \in Live /\ Start(p) + Length(p) <= a /\ Start(p) + Length(p) # a
    BY <1>0, FreeFacts DEF AtBlock
  <2>2. c # Null => c \in Live /\ a + k <= Start(c) /\ Start(c) # a + k
    BY <1>0, FreeFacts DEF AtBlock
  <2>3. a \in Nat /\ k \in Nat /\ 0 < k /\ a + k <= Total /\ FirstPage <= a /\ a \in Heap
    BY <1>0, FreeFacts
  <2>4. /\ p \in Live \cup {Null} /\ c \in Live \cup {Null}
        /\ c = IF p = Null THEN listStart ELSE NextOf(p)
    BY <1>0, FreeFacts DEF AtBlock
  <2> QED BY <2>1, <2>2, <2>3, <2>4, <1>0, <1>4, FreeFacts
<1>2. /\ \A s \in Slots : /\ Start(s)' = IF s = u THEN a ELSE Start(s)
                          /\ Length(s)' = IF s = u THEN k ELSE Length(s)
                          /\ NextOf(s)' = IF s = u THEN c ELSE IF s = p THEN u ELSE NextOf(s)
      /\ listStart' = IF p = Null THEN u ELSE listStart
  BY <1>0, <1>1, <1>4, HeapFacts DEF BufferOK, LinkPrevious, Start, Length, NextOf
<1>3. \A s : s \in Live' <=> s \in Live \/ s = u
  <2>1. \A s \in Slots : Start(s)' # Null <=> Start(s) # Null \/ s = u
    BY <1>1, <1>2, HeapFacts
  <2> QED BY <2>1, <1>0 DEF Live, Start
<1>5. BufferOK'
  <2> DEFINE buf == [memoryBuffer EXCEPT ![u] = [start |-> a, size |-> k, next |-> c]]
  <2>1. k \in 0..(Total - FirstPage) /\ c \in Slots \cup {Null} /\ p \in Slots \cup {Null}
    BY <1>1, <1>4, SizesAssumption
  <2>2. buf \in [Slots -> [start : Heap \cup {Null}, size : 0..(Total - FirstPage),
                           next : Slots \cup {Null}]]
    BY <2>1, <1>0, <1>1 DEF BufferOK
  <2>3. LinkPrevious(buf, u)
    BY <1>0
  <2> HIDE DEF buf
  <2>4. memoryBuffer' \in [Slots -> [start : Heap \cup {Null}, size : 0..(Total - FirstPage),
                                     next : Slots \cup {Null}]]
    BY <2>1, <2>2, <2>3, <1>0 DEF LinkPrevious
  <2> QED BY <2>4, <1>0 DEF BufferOK, Returned
<1>6. \A s \in Live : /\ s # u /\ s \in Live' /\ Start(s)' = Start(s) /\ Length(s)' = Length(s)
                      /\ NextOf(s)' = IF s = p THEN u ELSE NextOf(s)
  BY <1>0, <1>2, <1>3, <1>4
<1>7. u \in Live' /\ Start(u)' = a /\ Length(u)' = k /\ NextOf(u)' = c /\ u # Null
  <2>1. u \in Slots /\ u # Null
    BY <1>0, HeapFacts
  <2>2. \A s \in Slots : s = u => Start(s)' = a /\ Length(s)' = k /\ NextOf(s)' = c
    BY <1>2
  <2> QED BY <2>1, <2>2, <1>3
<1>8. \A s \in Live : \/ p # Null /\ Start(s) <= Start(p) /\ Start(s) + Length(s) < a
                      \/ c # Null /\ Start(c) <= Start(s) /\ a + k < Start(s)
  BY <1>1, <1>4
<1>9. Apart'
  BY <1>0, <1>1, <1>3, <1>4, <1>6, <1>7, <1>8 DEF ListInv, Apart
<1>10. Lowest'
  <2>1. CASE p = Null
    <3>1. listStart' = u /\ \A t \in Live : a <= Start(t)
      BY <2>1, <1>1, <1>2, <1>4, <1>8
    <3>2. \A t \in Live' : a <= Start(t)'
      BY <3>1, <1>1, <1>3, <1>6, <1>7
    <3> QED BY <3>1, <3>2, <1>7 DEF Lowest
  <2>2. CASE p # Null
    <3> PICK f : f = listStart
      OBVIOUS
    <3>1. listStart' = f /\ f \in Live /\ \A t \in Live : Start(f) <= Start(t)
      BY <2>2, <1>0, <1>1, <1>2, ListFacts DEF ListInv, Lowest
    <3>2. Start(f) <= a
      BY <3>1, <2>2, <1>1, <1>4
    <3>3. f \in Live' /\ f # Null /\ \A t \in Live' : Start(f)' <= Start(t)'
      BY <3>1, <3>2, <1>3, <1>4, <1>6, <1>7
    <3>4. Start(listStart)' = Start(f)'
      BY <3>1
    <3> QED BY <3>1, <3>3, <3>4 DEF Lowest
  <2> QED BY <2>1, <2>2
<1>11. Successors'
  <2> SUFFICES ASSUME NEW s \in Live'
               PROVE  IF NextOf(s)' = Null THEN \A t \in Live' : Start(t)' <= Start(s)'
                      ELSE /\ NextOf(s)' \in Live' /\ Start(s)' < Start(NextOf(s))'
                           /\ \A t \in Live' : Start(t)' <= Start(s)' \/ Start(NextOf(s))' <= Start(t)'
    BY DEF Successors
  <2> PICK n : n = NextOf(s)'
    OBVIOUS
  <2> SUFFICES IF n = Null THEN \A t \in Live' : Start(t)' <= Start(s)'
               ELSE /\ n \in Live' /\ Start(s)' < Start(n)'
                    /\ \A t \in Live' : Start(t)' <= Start(s)' \/ Start(n)' <= Start(t)'
    OBVIOUS
  <2>1. CASE s = u
    <3>1. n = c /\ Start(s)' = a
      BY <2>1, <1>7
    <3>2. CASE c = Null
      <4>1. \A t \in Live : Start(t)' <= a
        BY <3>2, <1>1, <1>4, <1>6, <1>8
      <4> QED BY <3>1, <3>2, <4>1, <1>1, <1>3, <1>7
    <3>3. CASE c # Null
      <4>1. c \in Live' /\ Start(c)' = Start(c) /\ a < Start(c)
        BY <3>3, <1>1, <1>4, <1>6
      <4>2. \A t \in Live : Start(t) <= a \/ Start(c) <= Start(t)
        BY <3>3, <1>1, <1>4, <1>8
      <4> QED BY <3>1, <3>3, <4>1, <4>2, <1>1, <1>3, <1>6, <1>7
    <3> QED BY <3>2, <3>3
  <2>2. CASE s # u /\ s = p
    <3>1. s \in Live /\ n = u /\ Start(s)' = Start(p) /\ Start(p) < a /\ p # Null
      BY <2>2, <1>1, <1>3, <1>4, <1>6
    <3>2. \A t \in Live : Start(t) <= Start(p) \/ a <= Start(t)
      BY <3>1, <1>1, <1>4, <1>8
    <3> QED BY <3>1, <3>2, <1>1, <1>3, <1>6, <1>7
  <2>3. CASE s # u /\ s # p
    <3>1. s \in Live /\ n = NextOf(s) /\ Start(s)' = Start(s)
      BY <2>3, <1>3, <1>6
    <3>2. \/ p # Null /\ p \in Live /\ Start(s) < Start(p) /\ Start(p) < a
          \/ a < Start(s)
      BY <3>1, <2>3, <1>0, <1>1, <1>4, <1>8, ListFacts
    <3>3. CASE n = Null
      <4>1. \A t \in Live : Start(t) <= Start(s)
        BY <3>1, <3>3, <1>0 DEF ListInv, Successors
      <4>2. a <= Start(s)
        BY <3>1, <3>2, <4>1, <1>1, <1>4
      <4> QED BY <3>1, <3>3, <4>1, <4>2, <1>3, <1>6, <1>7
    <3>4. CASE n # Null
      <4>1. /\ n \in Live /\ Start(s) < Start(n)
            /\ \A t \in Live : Start(t) <= Start(s) \/ Start(n) <= Start(t)
        BY <3>1, <3>4, <1>0 DEF ListInv, Successors
      <4>2. a <= Start(s) \/ Start(n) <= a
        BY <3>1, <3>2, <4>1, <1>1, <1>4
      <4> QED BY <3>1, <3>4, <4>1, <4>2, <1>3, <1>6, <1>7
    <3> QED BY <3>3, <3>4
  <2> QED BY <2>1, <2>2, <2>3
<1>12. Reached'
  <2>1. ASSUME NEW s \in Live' PROVE s = listStart' \/ \E q \in Live' : NextOf(q)' = s
    <3>1. CASE s = u
      BY <3>1, <1>1, <1>2, <1>6
    <3>2. CASE s \in Live /\ s = listStart
      BY <3>2, <1>1, <1>2, <1>7
    <3>3. CASE s \in Live /\ s # listStart
      <4>1. PICK q \in Live : NextOf(q) = s
        BY <3>3, <1>0 DEF ListInv, Reached
      <4>2. CASE q = p
        BY <4>1, <4>2, <1>1, <1>4, <1>7
      <4>3. CASE q # p
        BY <4>1, <4>3, <1>6
      <4> QED BY <4>2, <4>3
    <3> QED BY <3>1, <3>2, <3>3, <1>3
  <2>2. \E q \in Live' : NextOf(q)' = Null
    <3>1. CASE c = Null
      BY <3>1, <1>7
    <3>2. CASE c # Null
      <4>1. listStart # Null
        BY <3>2, <1>0, <1>1, <1>4, ListFacts
      <4>2. PICK q \in Live : NextOf(q) = Null
        BY <4>1, <1>0 DEF ListInv, Reached
      <4>3. q # p
        BY <3>2, <4>2, <1>1, <1>4
      <4> QED BY <4>2, <4>3, <1>6
    <3> QED BY <3>1, <3>2
  <2> QED BY <2>1, <2>2 DEF Reached
<1>13. Accounted'
  <2> SUFFICES ASSUME NEW x \in Heap
               PROVE  x \notin used' <=> \E s \in Live' : Start(s)' <= x /\ x < Start(s)' + Length(s)'
    BY DEF Accounted
  <2>1. x \notin used' <=> \/ a <= x /\ x < a + k
                           \/ \E s \in Live : Start(s) <= x /\ x < Start(s) + Length(s)
    BY <1>0, ReturnedFacts
  <2> QED BY <2>1, <1>3, <1>6, <1>7
<1> QED BY <1>0, <1>5, <1>9, <1>10, <1>11, <1>12, <1>13, NoCallOK DEF IInv, ListInv

-----------------------------------------------------------------------------
(***************************************************************************)
(* The start of a call and its walk leave the list alone.                  *)
(***************************************************************************)
LEMMA ListUnchanged ==
  ASSUME IInv, UNCHANGED <<memoryBuffer, listStart, used, answer, crashed>>
  PROVE  BufferOK' /\ ListInv'
BY DEF IInv, BufferOK, ListInv, Apart, Lowest, Successors, Reached, Accounted, Live, Start, Length, NextOf

\* No block before the current one is left out by the walk.
LEMMA BlocksBefore ==
  ASSUME IInv, AtBlock
  PROVE  \A s \in Live : \/ call.previous # Null /\ Start(s) <= Start(call.previous)
                         \/ call.current # Null /\ Start(call.current) <= Start(s)
<1>1. CASE call.previous = Null
  BY <1>1, ListFacts DEF AtBlock, IInv, ListInv, Lowest
<1>2. CASE call.previous # Null
  <2>1. call.previous \in Live /\ call.current = NextOf(call.previous)
    BY <1>2 DEF AtBlock
  <2> QED BY <1>2, <2>1 DEF IInv, ListInv, Successors
<1> QED BY <1>1, <1>2

LEMMA WalkInv ==
  ASSUME IInv, Walk
  PROVE  IInv'
<1> PICK c : c = call.current
  OBVIOUS
<1>1. /\ c \in Live /\ AtBlock /\ call.op \in {"allocate", "free"} /\ PassesBy(Current)
      /\ call' = [call EXCEPT !.previous = c, !.current = NextOf(c)]
      /\ UNCHANGED <<memoryBuffer, listStart, used, answer, crashed>>
  BY CallFacts DEF Walk, AtBlock, Current, NextOf
<1>2. Live' = Live /\ \A s \in Slots : Start(s)' = Start(s) /\ Length(s)' = Length(s) /\ NextOf(s)' = NextOf(s)
  BY <1>1 DEF Live, Start, Length, NextOf
<1>3. NextOf(c) \in Live \cup {Null} /\ c \in Slots /\ c # Null
  BY <1>1, ListFacts, LiveFacts DEF IInv
<1>4. call \in [op : {"none", "allocate", "free"}, address : Heap \cup {0},
                count : Counts \cup {1}, previous : Live \cup {Null},
                current : Live \cup {Null}]
  BY DEF IInv, CallOK
<1>5. /\ call'.op = call.op /\ call'.count = call.count /\ call'.address = call.address
      /\ call'.previous = c /\ call'.current = NextOf(c)
  BY <1>1, <1>4
<1>6. call' \in [op : {"none", "allocate", "free"}, address : Heap \cup {0},
                 count : Counts \cup {1}, previous : Live \cup {Null},
                 current : Live \cup {Null}]
  BY <1>1, <1>3, <1>4
<1>7. call.op = "allocate" =>
        call.count \in Counts /\ \A s \in Live : Start(s) <= Start(c) => Length(s) < call.count
  <2> SUFFICES ASSUME call.op = "allocate", NEW s \in Live, Start(s) <= Start(c)
               PROVE  call.count \in Counts /\ Length(s) < call.count
    BY DEF IInv, CallOK
  <2>1. call.count \in Counts /\ Length(c) < call.count
    BY <1>1 DEF IInv, CallOK, PassesBy, Current, Length
  <2>2. CASE s = c
    BY <2>1, <2>2
  <2>3. CASE s # c
    <3>1. Start(s) # Start(c) /\ Start(s) \in Nat /\ Start(c) \in Nat
      BY <2>3, <1>1, ListFacts, LiveFacts DEF IInv
    <3>2. call.previous # Null /\ Start(s) <= Start(call.previous)
      BY <3>1, <1>1, BlocksBefore
    <3> QED BY <3>2, <2>1 DEF IInv, CallOK
  <2> QED BY <2>2, <2>3
<1>8. call.op = "free" =>
        /\ call.count \in Counts /\ call.address \in Heap
        /\ Run(call.address, call.count) \subseteq used /\ Start(c) <= call.address
  BY <1>1 DEF IInv, CallOK, PassesBy, Current, Start
<1>9. CallOK'
  <2>1. /\ call'.op # "none" /\ used' = used
        /\ Start(call.previous)' = Start(c)' /\ NextOf(call.previous)' = NextOf(c)'
    BY <1>1, <1>5
  <2>2. NextOf(c)' = NextOf(c) /\ Start(c)' = Start(c)
    BY <1>2, <1>3
  <2>3. \A s \in Live' : s \in Live /\ Start(s)' = Start(s) /\ Length(s)' = Length(s)
    BY <1>2, LiveFacts DEF IInv
  <2> QED BY <2>1, <2>2, <2>3, <1>2, <1>3, <1>5, <1>6, <1>7, <1>8 DEF CallOK
<1> QED BY <1>1, <1>9, ListUnchanged DEF IInv

LEMMA BeginInv ==
  ASSUME IInv, NEW count \in Counts,
         BeginAllocate(count) \/ \E address \in used : BeginFree(address, count)
  PROVE  IInv'
<1>1. PICK op, address : /\ Begin(op, address, count)
                         /\ \/ op = "allocate" /\ address = 0
                            \/ op = "free" /\ address \in used /\ Run(address, count) \subseteq used
  BY DEF BeginAllocate, BeginFree
<1>2. UNCHANGED <<memoryBuffer, listStart, used, answer, crashed>>
      /\ call' = [op |-> op, address |-> address, count |-> count,
                  previous |-> Null, current |-> listStart]
  BY <1>1 DEF Begin
<1>3. Live' = Live
  BY <1>2 DEF Live
<1>4. listStart \in Live \cup {Null} /\ address \in Heap \cup {0} /\ (op = "free" => address \in Heap)
  BY <1>1, ListFacts DEF IInv, BufferOK
<1>5. CallOK'
  BY <1>1, <1>2, <1>3, <1>4 DEF CallOK
<1> QED BY <1>2, <1>5, ListUnchanged DEF IInv

LEMMA NextInv == IInv /\ [Next]_vars => IInv'
<1> SUFFICES ASSUME IInv, [Next]_vars PROVE IInv'
  OBVIOUS
<1>1. CASE \E count \in Counts :
             BeginAllocate(count) \/ \E address \in used : BeginFree(address, count)
  BY <1>1, BeginInv
<1>2. CASE Walk
  BY <1>2, WalkInv
<1>3. CASE AllocateExact
  BY <1>3, AllocateExactInv
<1>4. CASE AllocateFront
  BY <1>4, AllocateFrontInv
<1>5. CASE AllocateNone
  BY <1>5, AllocateNoneInv
<1>6. CASE FreeAlone
  BY <1>6, FreeAloneInv
<1>7. CASE FreeBetween
  BY <1>7, FreeBetweenInv
<1>8. CASE FreeBehind
  BY <1>8, FreeBehindInv
<1>9. CASE FreeInFront
  BY <1>9, FreeInFrontInv
<1>10. CASE UNCHANGED vars
  <2>1. call' = call /\ Live' = Live
    BY <1>10 DEF vars, Live
  <2>2. CallOK'
    BY <1>10, <2>1 DEF vars, IInv, CallOK, Start, Length, NextOf
  <2> QED BY <1>10, <2>2, ListUnchanged DEF vars, IInv
<1> QED BY <1>1, <1>2, <1>3, <1>4, <1>5, <1>6, <1>7, <1>8, <1>9, <1>10 DEF Next, Step

LEMMA Invariant == Spec => []IInv
BY InitInv, NextInv, PTL DEF Spec

-----------------------------------------------------------------------------
(***************************************************************************)
(* What the invariant says of the list.                                    *)
(***************************************************************************)
\* Every variable keeps its type, and a walk stands on blocks of the list.
THEOREM TypeCorrect == Spec => []TypeOK
<1>1. IInv => TypeOK
  BY DEF IInv, BufferOK, ListInv, Lowest, CallOK, TypeOK, Live
<1> QED BY <1>1, Invariant, PTL

LEMMA SoundByInv == IInv => ListSound
<1> SUFFICES ASSUME IInv PROVE ListSound
  OBVIOUS
<1>0. BufferOK /\ ListInv
  BY DEF IInv
<1>1. \A s \in Live : memoryBuffer[s].next = NextOf(s) /\ memoryBuffer[s].start = Start(s)
                      /\ memoryBuffer[s].size = Length(s) /\ BlockEnd(s) = Start(s) + Length(s)
  BY DEF NextOf, Start, Length, BlockEnd
<1>2. \A s \in Live : Start(s) \in Nat /\ Length(s) \in Nat /\ 0 < Length(s)
                      /\ FirstPage <= Start(s) /\ Start(s) + Length(s) <= Total
  BY <1>0, LiveFacts, HeapFacts DEF ListInv, Apart
<1>3. ListComplete
  <2>1. {listStart} \cup { memoryBuffer[s].next : s \in Live } \subseteq Live \cup {Null}
    BY <1>0, <1>1, ListFacts
  <2>2. Live \cup {Null} \subseteq {listStart} \cup { memoryBuffer[s].next : s \in Live }
    <3>1. \A s \in Live : s = listStart \/ \E p \in Live : memoryBuffer[p].next = s
      BY <1>0, <1>1 DEF ListInv, Reached
    <3>2. Null = listStart \/ \E p \in Live : memoryBuffer[p].next = Null
      BY <1>0, <1>1 DEF ListInv, Reached
    <3> QED BY <3>1, <3>2
  <2>3. \A s, t \in Live : memoryBuffer[s].next = memoryBuffer[t].next => s = t
    BY <1>0, <1>1, ListFacts
  <2> QED BY <2>1, <2>2, <2>3 DEF ListComplete
<1>4. ListOrdered
  <2> SUFFICES ASSUME NEW s \in Live
               PROVE  /\ memoryBuffer[s].size > 0 /\ BlockEnd(s) <= Total
                      /\ memoryBuffer[s].next # Null =>
                           BlockEnd(s) < memoryBuffer[memoryBuffer[s].next].start
    BY DEF ListOrdered
  <2>1. memoryBuffer[s].size > 0 /\ BlockEnd(s) <= Total
    BY <1>1, <1>2
  <2>2. ASSUME NextOf(s) # Null
        PROVE  Start(s) + Length(s) < Start(NextOf(s))
    <3>1. NextOf(s) \in Live /\ Start(s) < Start(NextOf(s)) /\ NextOf(s) # s
      BY <2>2, <1>0, ListFacts
    <3> QED BY <3>1, <1>0, <1>2 DEF ListInv, Apart
  <2> QED BY <2>1, <2>2, <1>1 DEF NextOf, Start
<1>5. PagesAccounted
  <2>1. \A x : x \in FreePages <=> \E s \in Live : x \in Run(Start(s), Length(s))
    BY <1>1 DEF FreePages
  <2>2. \A s \in Live : \A x : x \in Run(Start(s), Length(s))
                           <=> x \in Heap /\ Start(s) <= x /\ x < Start(s) + Length(s)
    BY <1>2, SizesAssumption DEF Run, Heap
  <2>3. \A x : x \in FreePages <=> x \in Heap /\ x \notin used
    BY <2>1, <2>2, <1>0 DEF ListInv, Accounted
  <2> QED BY <2>3 DEF PagesAccounted
<1> QED BY <1>3, <1>4, <1>5 DEF ListSound

\* Whatever is allocated and freed in whatever order, the list is complete,
\* ordered and coalesced and holds exactly the pages nobody holds.
THEOREM FreeListSound == Spec => []ListSound
BY SoundByInv, Invariant, PTL

\* VMM_FindBlockStruct always finds a struct: half as many as pages suffice.
THEOREM StructsAreEnough == Spec => []StructsSuffice
<1>1. IInv => StructsSuffice
  BY DEF IInv, BufferOK, StructsSuffice
<1> QED BY <1>1, Invariant, PTL

-----------------------------------------------------------------------------
(***************************************************************************)
(* The list implements the allocator callers see.                          *)
(***************************************************************************)
\* Blocks do not touch, so a free run lies within one of them.
LEMMA RunInBlock ==
  ASSUME IInv, NEW b \in Heap, NEW k \in Nat, 0 < k, Abstract!IsFree(b, k)
  PROVE  \E s \in Live : Start(s) <= b /\ b + k <= Start(s) + Length(s)
<1>1. b \in Nat /\ \A x \in Nat : b <= x /\ x < b + k => x \in Heap /\ x \notin used
  BY HeapFacts DEF Abstract!IsFree, Abstract!Run
<1>2. PICK s \in Live : Start(s) <= b /\ b < Start(s) + Length(s)
  BY <1>1 DEF IInv, ListInv, Accounted
<1>3. \A t \in Live : Start(t) \in Nat /\ Length(t) \in Nat
  BY LiveFacts DEF IInv
<1>4. SUFFICES ASSUME Start(s) + Length(s) < b + k PROVE FALSE
  BY <1>1, <1>2, <1>3
<1>5. PICK x \in Nat : x = Start(s) + Length(s)
  BY <1>3
<1>6. x \in Heap /\ x \notin used
  BY <1>1, <1>2, <1>3, <1>4, <1>5
<1>7. PICK t \in Live : Start(t) <= x /\ x < Start(t) + Length(t)
  BY <1>6 DEF IInv, ListInv, Accounted
<1>8. s # t
  BY <1>5, <1>7
<1>9. Start(s) + Length(s) < Start(t) \/ Start(t) + Length(t) < Start(s)
  BY <1>8 DEF IInv, ListInv, Apart
<1> QED BY <1>3, <1>5, <1>7, <1>9

\* The block the walk ends at is the lowest run that fits.
LEMMA TakenIsLowest ==
  ASSUME IInv, At("allocate"), call.current # Null, call.count <= Length(call.current)
  PROVE  /\ Abstract!IsFree(Start(call.current), call.count)
         /\ \A b \in Heap : b < Start(call.current) => ~Abstract!IsFree(b, call.count)
<1> PICK c, k : c = call.current /\ k = call.count
  OBVIOUS
<1>1. c \in Live /\ AtBlock /\ k \in Nat /\ 0 < k
  BY CallFacts DEF At, AtBlock
<1>2. \A s \in Live : Start(s) \in Nat /\ Length(s) \in Nat /\ FirstPage <= Start(s)
                      /\ Start(s) + Length(s) <= Total
  BY LiveFacts, HeapFacts DEF IInv, ListInv, Apart
<1>3. Abstract!IsFree(Start(c), k)
  <2>1. \A x \in Run(Start(c), k) : x \in Heap /\ Start(c) <= x /\ x < Start(c) + Length(c)
    BY <1>1, <1>2, SizesAssumption DEF Run, Heap
  <2> QED BY <2>1, <1>1 DEF IInv, ListInv, Accounted, Abstract!IsFree, Abstract!Run, Run
<1>4. ASSUME NEW b \in Heap, b < Start(c), Abstract!IsFree(b, k)
      PROVE  FALSE
  <2>1. PICK s \in Live : Start(s) <= b /\ b + k <= Start(s) + Length(s)
    BY <1>1, <1>4, RunInBlock
  <2>2. b \in Nat /\ Start(s) < Start(c) /\ k <= Length(s)
    BY <2>1, <1>1, <1>2, <1>4, HeapFacts
  <2>3. call.previous # Null /\ Start(s) <= Start(call.previous)
    BY <2>2, <1>1, <1>2, BlocksBefore
  <2>4. Length(s) < k
    BY <2>3 DEF IInv, CallOK, At
  <2> QED BY <2>2, <2>4, <1>1, <1>2
<1> QED BY <1>3, <1>4

\* A walk to the end of the list has found every block too small.
LEMMA NoneFits ==
  ASSUME IInv, At("allocate"), call.current = Null, NEW b \in Heap
  PROVE  ~Abstract!IsFree(b, call.count)
<1>1. AtBlock /\ call.count \in Nat /\ 0 < call.count
  BY CallFacts DEF At, AtBlock
<1>2. SUFFICES ASSUME Abstract!IsFree(b, call.count) PROVE FALSE
  OBVIOUS
<1>3. PICK s \in Live : Start(s) <= b /\ b + call.count <= Start(s) + Length(s)
  BY <1>1, <1>2, RunInBlock
<1>4. call.previous # Null /\ Start(s) <= Start(call.previous)
  BY <1>1, BlocksBefore
<1>5. Length(s) < call.count
  BY <1>4 DEF IInv, CallOK, At
<1>6. b \in Nat /\ Start(s) \in Nat /\ Length(s) \in Nat
  BY LiveFacts, HeapFacts DEF IInv
<1> QED BY <1>1, <1>3, <1>5, <1>6

LEMMA AbstractStep ==
  ASSUME IInv, [Next]_vars
  PROVE  [Abstract!Next]_<<used, answer>>
<1>1. CASE AllocateExact \/ AllocateFront
  <2>1. /\ At("allocate") /\ call.current # Null /\ call.count <= Length(call.current)
        /\ used' = used \cup Run(Start(call.current), call.count) /\ answer' = Start(call.current)
    <3>1. call.current \in Live /\ call.count \in Nat /\ Length(call.current) \in Nat
      BY <1>1, CallFacts, LiveFacts DEF IInv, AllocateExact, AllocateFront, At
    <3> QED BY <1>1, <3>1 DEF AllocateExact, AllocateFront, Granted, Current, Start, Length
  <2>2. call.current \in Live /\ call.count \in Counts
    BY <2>1, CallFacts DEF At
  <2>3. Start(call.current) \in Heap
    BY <2>2, LiveFacts DEF IInv
  <2>4. Abstract!Allocate(Start(call.current), call.count)
    BY <2>1, TakenIsLowest DEF Abstract!Allocate, Abstract!Run, Run
  <2> QED BY <2>2, <2>3, <2>4 DEF Abstract!Next
<1>2. CASE AllocateNone
  <2>1. call.count \in Counts
    BY <1>2, CallFacts DEF AllocateNone, At
  <2>2. Abstract!Fail(call.count)
    BY <1>2, NoneFits DEF AllocateNone, Abstract!Fail
  <2> QED BY <2>1, <2>2 DEF Abstract!Next
<1>3. CASE FreeAlone \/ FreeBetween \/ FreeBehind \/ FreeInFront
  <2>1. At("free") /\ Returned
    <3>1. FreeAlone => Unused # {}
      BY StructLeft DEF FreeAlone
    <3> QED BY <1>3, <3>1 DEF FreeAlone, FreeBetween, FreeBehind, FreeInFront
  <2>2. call.count \in Counts /\ call.address \in Heap
        /\ Run(call.address, call.count) \subseteq used
    BY <2>1, CallFacts, FreeFacts DEF At
  <2>3. Abstract!Release(call.address, call.count)
    BY <2>1, <2>2 DEF Returned, Abstract!Release, Abstract!Run, Run
  <2> QED BY <2>2, <2>3 DEF Abstract!Next
<1>4. CASE UNCHANGED <<used, answer>>
  BY <1>4
<1>5. \/ AllocateExact \/ AllocateFront \/ AllocateNone
      \/ FreeAlone \/ FreeBetween \/ FreeBehind \/ FreeInFront
      \/ UNCHANGED <<used, answer>>
  BY DEF Next, Step, Walk, BeginAllocate, BeginFree, Begin, vars
<1> QED BY <1>1, <1>2, <1>3, <1>4, <1>5

\* A run goes to one caller at a time, the lowest that fits is taken, and a
\* request fails only when none fits.
THEOREM Implements == Spec => ImplementsPageAllocator
<1>1. Init => Abstract!Init
  BY DEF Init, Abstract!Init
<1>2. IInv /\ [Next]_vars => [Abstract!Next]_<<used, answer>>
  BY AbstractStep
<1> QED BY <1>1, <1>2, Invariant, PTL DEF Spec, ImplementsPageAllocator, Abstract!Spec

=============================================================================
