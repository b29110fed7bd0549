---------------------------- MODULE BlockDevice ----------------------------
(***************************************************************************)
(* What IDE_Access promises to who calls it: a transfer touches the        *)
(* sectors it was asked for, in their order, and success means that all of *)
(* them were transferred.  A transfer that fails has done a first part.    *)
(***************************************************************************)
EXTENDS Integers, Sequences

CONSTANT NoCall

VARIABLES
  disk,    \* per drive, the sectors that were written
  call,    \* [place, direction, lba, count], or NoCall
  done,    \* how many sectors were transferred
  buffer,  \* what a reader has been given
  answer   \* "ok" or "error", of the last call

vars == <<disk, call, done, buffer, answer>>

\* A sector nobody has written holds what it always held.
Contents(place, s) ==
  IF s \in DOMAIN disk[place] THEN disk[place][s] ELSE <<"old", place, s>>

\* A part of the call is left to do, on a drive that exists.
Going(direction) ==
  call # NoCall /\ call.direction = direction /\ done < call.count /\ call.place \in DOMAIN disk

Ask ==
  /\ call = NoCall /\ call' # NoCall
  /\ done' = 0 /\ buffer' = <<>> /\ UNCHANGED <<disk, answer>>

Deliver ==
  /\ Going("read")
  /\ buffer' = Append(buffer, Contents(call.place, call.lba + done))
  /\ done' = done + 1 /\ UNCHANGED <<disk, call, answer>>

\* Exactly one sector changes, and holds what the caller gave for it.
Store ==
  /\ Going("write")
  /\ disk' = [disk EXCEPT ![call.place] =
                [s \in DOMAIN @ \union {call.lba + done} |->
                   IF s = call.lba + done THEN <<"new", done>> ELSE @[s]]]
  /\ done' = done + 1 /\ UNCHANGED <<call, buffer, answer>>

Return ==
  /\ call # NoCall /\ call' = NoCall
  /\ \/ answer' = "ok" /\ done = call.count
     \/ answer' = "error"
  /\ UNCHANGED <<disk, done, buffer>>

Next == Ask \/ Deliver \/ Store \/ Return

Spec == call = NoCall /\ buffer = <<>> /\ done = 0 /\ [][Next]_vars
=============================================================================
