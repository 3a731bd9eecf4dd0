--------------------------- MODULE MCClientLimits ---------------------------
(* ClientLimits with two visitors of two hosts, both made for one of two   *)
(* clients, and one web request beside the ticker.                         *)
EXTENDS ClientLimits

CONSTANT c1

MadeForOne == [h \in Hosts |-> c1]
=============================================================================
