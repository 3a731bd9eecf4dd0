--------------------------- MODULE MCTargetHealth ---------------------------
(* TargetHealth with a tunnel of one target.                               *)
EXTENDS TargetHealth, TLC

CONSTANT t1

One == <<t1>>
=============================================================================
