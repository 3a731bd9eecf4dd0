----------------------------- MODULE StableStore -----------------------------
(***************************************************************************)
(* What a map of JsonDb and its file promise together, whatever goroutines *)
(* store it and however a store goes about it: records change in memory,   *)
(* a save brings the file forward, a restart takes the map back to the     *)
(* file.                                                                   *)
(*                                                                         *)
(* A save is not a snapshot of one moment.  Each record of the file is one *)
(* the map had since the last save, but two of them need not have been in  *)
(* the map together.                                                       *)
(***************************************************************************)
EXTENDS Naturals

CONSTANTS Ids, MaxVersion

VARIABLES
  mem,        \* id -> version in the map
  disk        \* id -> version a restart finds

vars == <<mem, disk>>

Records == [Ids -> 0 .. MaxVersion]

Init ==
  /\ mem = [i \in Ids |-> 0]
  /\ disk = [i \in Ids |-> 0]

Update(i) ==
  /\ mem[i] < MaxVersion
  /\ mem' = [mem EXCEPT ![i] = @ + 1]
  /\ UNCHANGED disk

Save ==
  /\ disk' \in Records
  /\ \A i \in Ids : disk[i] <= disk'[i] /\ disk'[i] <= mem[i]
  /\ UNCHANGED mem

Restart ==
  /\ mem' = disk
  /\ UNCHANGED disk

Next == (\E i \in Ids : Update(i)) \/ Save \/ Restart

Spec == Init /\ [][Next]_vars
=============================================================================
