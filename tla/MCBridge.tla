------------------------------ MODULE MCBridge ------------------------------
(* Bridge with a handful of connections, for TLC.                          *)
EXTENDS Bridge, TLC

Symmetric == Permutations(Conns) \cup Permutations(Admins)
=============================================================================
