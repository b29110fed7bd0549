----------------------------- MODULE MCConsole -----------------------------
(***************************************************************************)
(* A letter, shift and caps lock, the keys the shell looks for, and two    *)
(* that send more than a byte: Print Screen, whose codes hold the one of   *)
(* shift, and Pause, which has no code for its release.                    *)
(***************************************************************************)
EXTENDS Console

Key(code) == [make |-> <<code>>, break |-> <<code + 128>>]
PrintScreen == [make |-> <<224, 42, 224, 55>>, break |-> <<224, 183, 224, 170>>]
Pause == [make |-> <<225, 29, 69, 225, 157, 197>>, break |-> <<>>]
MCKeys == { Key(30), Key(42), Key(58), Key(28), Key(14), PrintScreen, Pause }

a == <<"A", FALSE>>
A == <<"A", TRUE>>
MCLines == { <<a>>, <<a, a>>, <<A>>, <<A, A>> }
MCCommands ==
  [ l \in MCLines |-> CASE l = <<a>> -> "graphics" [] l = <<a, a>> -> "clear"
                        [] l = <<A>> -> "CARLOS" [] OTHER -> "info" ]
=============================================================================
