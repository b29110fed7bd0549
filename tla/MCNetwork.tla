----------------------------- MODULE MCNetwork -----------------------------
(* What two peers may send.  No length is a multiple of a word. *)
EXTENDS Network

Frame(type, op, target, from, length) ==
  [type |-> type, op |-> op, target |-> target, from |-> from, length |-> length]

MCFrames ==
  { Frame("arp", "request", LocalIP, "p1", 6), Frame("arp", "request", LocalIP, "p2", 6),
    Frame("arp", "request", "p1", "p2", 6),
    Frame("ip", "icmp", LocalIP, "p2", 9) }

\* The second of these reaches the end of both rings from anywhere behind the first.
MCLongFrames == { Frame("arp", "request", "p1", "p2", 21) }
=============================================================================
