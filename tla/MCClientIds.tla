---------------------------- MODULE MCClientIds ----------------------------
(* ClientIds with three ids and two requests at a time.                     *)
EXTENDS ClientIds, TLC
=============================================================================
