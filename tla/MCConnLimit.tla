---------------------------- MODULE MCConnLimit ----------------------------
(* ConnLimit with a few visitors and two hosts of one client.              *)
EXTENDS ConnLimit, TLC

CONSTANT c1

MadeForOne == [h \in Hosts |-> c1]

Symmetric == Permutations(Visitors) \cup Permutations(Hosts)
=============================================================================
