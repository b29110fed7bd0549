----------------------------- MODULE FileSystem -----------------------------
(***************************************************************************)
(* What the FAT reader of the boot loader promises its callers: an open    *)
(* gives the file its path leads to, and reads deliver its contents in     *)
(* order, as many units as were asked for.  An open gives nothing only for *)
(* a path that leads nowhere, or when the disk has failed.                 *)
(***************************************************************************)
EXTENDS Sequences, Integers

CONSTANTS
  Handles,     \* names of open files
  Paths,
  Counts,      \* how many units a caller reads at once
  Resolve,     \* path -> the entry it leads to, or None
  Content,     \* entry -> the units its file consists of
  None

VARIABLES
  held,      \* the entry behind each handle, or None
  position,  \* the next unit to be read
  call,      \* what has been asked for and not yet answered
  answer     \* of the last call: the handle opened, the units read, a disk error

vars == <<held, position, call, answer>>

NoCall == [op |-> "none"]

NoAnswer == [opened |-> {}, out |-> <<>>, error |-> FALSE]

Init ==
  /\ held = [h \in Handles |-> None]
  /\ position = [h \in Handles |-> 0]
  /\ call = NoCall
  /\ answer = NoAnswer

-----------------------------------------------------------------------------
\* The last answer is forgotten when a call begins.
Begin(request) ==
  /\ call = NoCall
  /\ call' = request
  /\ answer' = NoAnswer
  /\ UNCHANGED <<held, position>>

BeginOpen(path) == Begin([op |-> "open", path |-> path])

BeginRead(h, count) ==
  held[h] # None /\ Begin([op |-> "read", handle |-> h, count |-> count])

Close(h) ==
  /\ call = NoCall /\ held[h] # None
  /\ held' = [held EXCEPT ![h] = None]
  /\ position' = [position EXCEPT ![h] = 0]
  /\ answer' = NoAnswer
  /\ UNCHANGED call

-----------------------------------------------------------------------------
\* The open that was asked for gives this entry's file, or nothing.
Gives(entry) ==
  /\ call.op = "open"
  /\ \E h \in Handles, error \in BOOLEAN :
       /\ held[h] = None
       /\ held' = [held EXCEPT ![h] = entry]
       /\ position' = [position EXCEPT ![h] = 0]
       /\ answer' = [opened |-> {h}, out |-> <<>>, error |-> error]
  /\ call' = NoCall

GivesNothing(error) ==
  /\ call.op = "open"
  /\ answer' = [opened |-> {}, out |-> <<>>, error |-> error]
  /\ call' = NoCall
  /\ UNCHANGED <<held, position>>

Open == Resolve[call.path] # None /\ Gives(Resolve[call.path])

Fail == \E error \in BOOLEAN :
          GivesNothing(error) /\ (error \/ Resolve[call.path] = None)

\* After a disk error a read may deliver less than there is.
Read ==
  LET h == call.handle
      there == Len(Content[held[h]]) - position[h]
      all == IF call.count < there THEN call.count ELSE there
  IN /\ call.op = "read"
     /\ \E n \in 0..all, error \in BOOLEAN :
          /\ error \/ n = all
          /\ position' = [position EXCEPT ![h] = @ + n]
          /\ answer' = [opened |-> {}, error |-> error,
                        out |-> SubSeq(Content[held[h]], position[h] + 1, position[h] + n)]
     /\ call' = NoCall
     /\ UNCHANGED held

Next == \/ \E path \in Paths : BeginOpen(path)
        \/ \E h \in Handles : Close(h) \/ \E count \in Counts : BeginRead(h, count)
        \/ call.op = "open" /\ (Open \/ Fail)
        \/ Read

Spec == Init /\ [][Next]_vars
=============================================================================
