------------------------------ MODULE MCTasks ------------------------------
(* Tasks with a few tasks, ports and requests, for TLC.                    *)
EXTENDS Tasks, TLC

Symmetric == Permutations(Services) \cup Permutations(Reqs)
=============================================================================
