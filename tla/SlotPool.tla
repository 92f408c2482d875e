------------------------------ MODULE SlotPool ------------------------------
(***************************************************************************)
(* What the daemon's limits promise, whatever they are made of (a channel  *)
(* of tokens, an atomic counter): of the clients at most Capacity have a   *)
(* slot at a time, one takes a slot only while one is free, and a slot     *)
(* comes back from who has it.  MediaSessions, ArchiveResolver and         *)
(* IndexService implement it.                                              *)
(***************************************************************************)
EXTENDS Integers, FiniteSets

CONSTANTS Clients, Capacity

VARIABLE holders    \* the clients that have a slot

Init == holders = {}

Take(c) ==
    /\ c \notin holders /\ Cardinality(holders) < Capacity
    /\ holders' = holders \union {c}

Give(c) ==
    /\ c \in holders
    /\ holders' = holders \ {c}

Next == \E c \in Clients : Take(c) \/ Give(c)

Spec == Init /\ [][Next]_holders

WithinCapacity == holders \subseteq Clients /\ Cardinality(holders) <= Capacity
=============================================================================
