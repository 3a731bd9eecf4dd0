---------------------------- MODULE MCJsonStore ----------------------------
(* JsonStore with two writers and two records.                             *)
EXTENDS JsonStore, TLC
=============================================================================
