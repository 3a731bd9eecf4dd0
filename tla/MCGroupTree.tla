---------------------------- MODULE MCGroupTree ----------------------------
(* GroupTree with a few groups, clients and requests.                      *)
EXTENDS GroupTree, TLC
=============================================================================
