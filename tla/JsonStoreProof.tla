--------------------------- MODULE JsonStoreProof ---------------------------
(***************************************************************************)
(* Proofs about JsonStore, for every set of records and of writers and     *)
(* however often they change.                                              *)
(*                                                                         *)
(* Whatever fails, the file a restart reads is whole: the lock leaves the  *)
(* .tmp file to one writer, and it is renamed when no record is missing.   *)
(*                                                                         *)
(* With crashes and panics, until a rename fails, it also has all that was *)
(* answered but the changes of ChangeStatus: the records already written   *)
(* lie between those of the file and those of the map, and a change is in  *)
(* the map as long as its request waits.                                   *)
(***************************************************************************)
EXTENDS JsonStore, TLAPS

\* Only the holder of the lock is storing.
Exclusive ==
  \A w \in Writers : pc[w] \in {"open", "write", "unlock"} => lock = w

\* A record of the .tmp file is missing only if its writer has yet to come to it.
Complete ==
  \A w \in Writers : pc[w] = "write" => \A i \in Ids \ todo[w] : tmp[i] # Lost

WholeInv == TypeOK /\ Exclusive /\ FileIsWhole /\ Complete

\* The map is never behind the file, nor the file behind an answer.
MapAhead == \A i \in Ids \ Unsaved : acked[i] <= file[i] /\ file[i] <= mem[i]

\* A change under way is in the map, and in the file before it is answered.
Changed ==
  \A w \in Writers, i \in Ids \ Unsaved : arg[w] = i =>
    /\ pc[w] # "idle" => ver[w] <= mem[i]
    /\ pc[w] = "unlock" => ver[w] <= file[i]

\* A record already written is no older than that of the file, nor than the
\* change it is stored for.
Written ==
  \A w \in Writers : pc[w] = "write" => \A i \in Ids \ (Unsaved \cup todo[w]) :
    /\ file[i] <= tmp[i] /\ tmp[i] <= mem[i]
    /\ arg[w] = i => ver[w] <= tmp[i]

Answers == MapAhead /\ Changed /\ Written

IInv == WholeInv /\ (failed \/ Answers)

-----------------------------------------------------------------------------
(* The file is whole, whatever fails                                       *)

\* The program starts with an empty map and an empty file.
LEMMA WholeInit == Init => WholeInv
<1> SUFFICES ASSUME Init PROVE WholeInv
  OBVIOUS
<1>1. TypeOK
  <2>1. failed \in BOOLEAN
    BY Zenon DEF Init
  <2> QED
    BY <2>1, StoreAssumption DEF Init, TypeOK, Versions, Lost
<1>2. Exclusive /\ FileIsWhole /\ Complete
  BY StoreAssumption DEF Init, Exclusive, FileIsWhole, Complete, Lost
<1> QED
  BY <1>1, <1>2 DEF WholeInv

\* Every step, faults included, keeps the file whole.
LEMMA WholeStep == WholeInv /\ [Next]_vars => WholeInv'
<1> SUFFICES ASSUME WholeInv, [Next]_vars PROVE WholeInv'
  OBVIOUS
<1> USE StoreAssumption DEF WholeInv, TypeOK, Exclusive, FileIsWhole, Complete,
                            Versions, Lost, Goto
<1>1. CASE UNCHANGED vars
  BY <1>1 DEF vars, locals
<1>2. ASSUME NEW w \in Writers, NEW i \in Ids, Change(w, i) PROVE WholeInv'
  BY <1>2 DEF Change
<1>3. ASSUME NEW w \in Writers, NEW i \in Ids, ChangeStatus(w, i) PROVE WholeInv'
  BY <1>3 DEF ChangeStatus, locals
<1>4. ASSUME NEW w \in Writers, Store(w) PROVE WholeInv'
  <2>1. CASE Lock(w)
    BY <2>1 DEF Lock
  <2>2. CASE Create(w)
    BY <2>2 DEF Create
  <2>3. ASSUME NEW i \in Ids, Write(w, i) PROVE WholeInv'
    BY <2>3 DEF Write
  <2>4. CASE Rename(w)
    BY <2>4 DEF Rename
  <2>5. CASE Unlock(w)
    BY <2>5 DEF Unlock
  <2> QED
    BY <1>4, <2>1, <2>2, <2>3, <2>4, <2>5 DEF Store
<1>5. ASSUME NEW w \in Writers, Flush(w) PROVE WholeInv'
  BY <1>5 DEF Flush
<1>6. ASSUME NEW w \in Writers, RenameFails(w) PROVE WholeInv'
  BY <1>6 DEF RenameFails
<1>7. ASSUME NEW w \in Writers, Panic(w) PROVE WholeInv'
  BY <1>7 DEF Panic
<1>8. CASE Crash
  BY <1>8 DEF Crash
<1> QED
  BY <1>1, <1>2, <1>3, <1>4, <1>5, <1>6, <1>7, <1>8 DEF Next

\* The map, the files and the goroutines keep their types.  A restart loads
\* the file, so that the file is whole is part of the argument.
THEOREM TypeCorrect == Spec => []TypeOK
<1>1. WholeInv => TypeOK
  BY DEF WholeInv
<1> QED
  BY WholeInit, WholeStep, <1>1, PTL DEF Spec

\* storeSyncMapToFile never leaves a file with records missing, whichever of
\* its steps fails or is the last of the process.
THEOREM FileStaysWhole == Spec => []FileIsWhole
<1>1. WholeInv => FileIsWhole
  BY DEF WholeInv
<1> QED
  BY WholeInit, WholeStep, <1>1, PTL DEF Spec

-----------------------------------------------------------------------------
(* What was answered is in the file                                        *)

\* Nothing is answered when the program starts.
LEMMA DurableInit == Init => IInv
BY WholeInit, StoreAssumption
DEF Init, IInv, Answers, MapAhead, Changed, Written, WholeInv, TypeOK, Versions

\* A rename that failed is not forgotten.
LEMMA FailedStays == failed /\ [Next]_vars => failed'
<1> SUFFICES ASSUME failed, [Next]_vars PROVE failed'
  OBVIOUS
<1>1. CASE UNCHANGED vars
  BY <1>1 DEF vars
<1>2. CASE Next
  BY <1>2 DEF Next, Change, ChangeStatus, Store, Lock, Create, Write, Rename,
              Unlock, Flush, RenameFails, Panic, Crash
<1> QED
  BY <1>1, <1>2

\* Every step but a failing rename keeps the answers in the file.
LEMMA AnswersStep == WholeInv /\ Answers /\ [Next]_vars => failed' \/ Answers'
<1> SUFFICES ASSUME WholeInv, Answers, [Next]_vars PROVE failed' \/ Answers'
  OBVIOUS
<1> USE StoreAssumption
    DEF WholeInv, TypeOK, Exclusive, FileIsWhole, Complete,
        Answers, MapAhead, Changed, Written, Versions, Lost, Goto
<1>1. CASE UNCHANGED vars
  BY <1>1 DEF vars, locals
<1>2. ASSUME NEW w \in Writers, NEW i \in Ids, Change(w, i) PROVE Answers'
  BY <1>2 DEF Change
<1>3. ASSUME NEW w \in Writers, NEW i \in Ids, ChangeStatus(w, i) PROVE Answers'
  BY <1>3 DEF ChangeStatus, locals
<1>4. ASSUME NEW w \in Writers, Store(w) PROVE Answers'
  <2>1. CASE Lock(w)
    BY <2>1 DEF Lock
  <2>2. CASE Create(w)
    BY <2>2 DEF Create
  <2>3. ASSUME NEW i \in Ids, Write(w, i) PROVE Answers'
    BY <2>3 DEF Write
  <2>4. CASE Rename(w)
    BY <2>4 DEF Rename
  <2>5. CASE Unlock(w)
    BY <2>5 DEF Unlock
  <2> QED
    BY <1>4, <2>1, <2>2, <2>3, <2>4, <2>5 DEF Store
<1>5. ASSUME NEW w \in Writers, Flush(w) PROVE Answers'
  BY <1>5 DEF Flush
<1>6. ASSUME NEW w \in Writers, Panic(w) PROVE Answers'
  BY <1>6 DEF Panic
<1>7. CASE Crash
  BY <1>7 DEF Crash
<1>8. ASSUME NEW w \in Writers, RenameFails(w) PROVE failed'
  BY <1>8 DEF RenameFails
<1> HIDE DEF Answers
<1> QED
  BY <1>1, <1>2, <1>3, <1>4, <1>5, <1>6, <1>7, <1>8 DEF Next

\* A change a request was told is stored survives crashes and panics, as long
\* as no rename failed; the changes of ChangeStatus are the only exception.
THEOREM AnswersAreDurable == Spec => []AckedIsDurable
<1>1. Init => IInv
  BY DurableInit
<1>2. IInv /\ [Next]_vars => IInv'
  BY WholeStep, FailedStays, AnswersStep DEF IInv
<1>3. IInv => AckedIsDurable
  BY DEF IInv, WholeInv, TypeOK, FileIsWhole, Answers, MapAhead, AckedIsDurable,
         Versions, Lost
<1> QED
  BY <1>1, <1>2, <1>3, PTL DEF Spec

-----------------------------------------------------------------------------
(* The stable store                                                        *)

\* The file is behind the map, and a record already written lies between them.
Between ==
  /\ \A i \in Ids : file[i] <= mem[i]
  /\ \A w \in Writers : pc[w] = "write" => \A i \in Ids \ todo[w] :
       file[i] <= tmp[i] /\ tmp[i] <= mem[i]

StableInv == WholeInv /\ Between

\* Init: map and file start equal, so the abstract store may start there.
LEMMA StableInit == Init => StableInv
BY WholeInit, StoreAssumption
DEF Init, StableInv, Between, WholeInv, TypeOK, Versions

\* No fault takes the file ahead of the map or back.
LEMMA BetweenStep == StableInv /\ [Next]_vars => Between'
<1> SUFFICES ASSUME StableInv, [Next]_vars PROVE Between'
  OBVIOUS
<1> USE StoreAssumption
    DEF StableInv, WholeInv, TypeOK, Exclusive, FileIsWhole, Complete, Between,
        Versions, Lost, Goto
<1>1. CASE UNCHANGED vars
  BY <1>1 DEF vars, locals
<1>2. ASSUME NEW w \in Writers, NEW i \in Ids, Change(w, i) \/ ChangeStatus(w, i)
      PROVE  Between'
  BY <1>2 DEF Change, ChangeStatus, locals
<1>3. ASSUME NEW w \in Writers, Store(w) PROVE Between'
  <2>1. CASE Lock(w)
    BY <2>1 DEF Lock
  <2>2. CASE Create(w)
    BY <2>2 DEF Create
  <2>3. ASSUME NEW i \in Ids, Write(w, i) PROVE Between'
    BY <2>3 DEF Write
  <2>4. CASE Rename(w)
    BY <2>4 DEF Rename
  <2>5. CASE Unlock(w)
    BY <2>5 DEF Unlock
  <2> QED
    BY <1>3, <2>1, <2>2, <2>3, <2>4, <2>5 DEF Store
<1>4. ASSUME NEW w \in Writers, Flush(w) \/ RenameFails(w) \/ Panic(w)
      PROVE  Between'
  BY <1>4 DEF Flush, RenameFails, Panic
<1>5. CASE Crash
  BY <1>5 DEF Crash
<1> HIDE DEF Between
<1> QED
  BY <1>1, <1>2, <1>3, <1>4, <1>5 DEF Next

\* Renaming is the save, a change of the map the update, and the other steps of
\* a store change neither the map nor the file.
LEMMA StoreStep == StableInv /\ [Next]_vars => [Stable!Next]_(Stable!vars)
<1> SUFFICES ASSUME StableInv, [Next]_vars PROVE [Stable!Next]_(Stable!vars)
  OBVIOUS
<1> USE DEF Stable!Next, Stable!vars
<1>1. CASE UNCHANGED vars
  BY <1>1 DEF vars
<1>2. ASSUME NEW w \in Writers, NEW i \in Ids, Change(w, i) \/ ChangeStatus(w, i)
      PROVE  Stable!Update(i)
  BY <1>2 DEF Change, ChangeStatus, Stable!Update
<1>3. ASSUME NEW w \in Writers, Rename(w) PROVE Stable!Save
  <2>1. file' = tmp /\ UNCHANGED mem /\ pc[w] = "write" /\ todo[w] = {}
    BY <1>3 DEF Rename
  <2>2. \A i \in Ids : tmp[i] # Lost /\ file[i] <= tmp[i] /\ tmp[i] <= mem[i]
    BY <2>1 DEF StableInv, Between, WholeInv, Complete
  <2>3. tmp \in [Ids -> Versions]
    BY <2>2 DEF StableInv, WholeInv, TypeOK
  <2> QED
    BY <2>1, <2>2, <2>3 DEF Stable!Save, Stable!Records, Versions
<1>4. ASSUME NEW w \in Writers, Store(w), ~Rename(w) PROVE UNCHANGED <<mem, file>>
  BY <1>4 DEF Store, Lock, Create, Write, Unlock
<1>5. ASSUME NEW w \in Writers, Flush(w) \/ RenameFails(w) \/ Panic(w)
      PROVE  UNCHANGED <<mem, file>>
  BY <1>5 DEF Flush, RenameFails, Panic
<1>6. CASE Crash
  BY <1>6 DEF Crash, Stable!Restart
<1> QED
  BY <1>1, <1>2, <1>3, <1>4, <1>5, <1>6 DEF Next

\* However many goroutines store a map, and whatever fails, map and file are a
\* stable store.
THEOREM StoreIsStable == Spec => ImplementsStable
<1>1. Init => Stable!Init
  BY DEF Init, Stable!Init
<1>2. StableInv /\ [Next]_vars => StableInv'
  BY WholeStep, BetweenStep DEF StableInv
<1> QED
  BY StableInit, StoreStep, <1>1, <1>2, PTL DEF Spec, ImplementsStable, Stable!Spec
=============================================================================
