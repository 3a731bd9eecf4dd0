----------------------------- MODULE JsonStore -----------------------------
(***************************************************************************)
(* How one map of JsonDb (tasks, hosts, clients or groups) is kept in its  *)
(* file: lib/file/file.go.  A call of DbUtils changes the map and then     *)
(* stores all of it: under the lock of the file the records are written    *)
(* one by one to a .tmp file, which is then renamed.  flowSession stores   *)
(* the map every few minutes with nothing to change.                       *)
(*                                                                         *)
(* The map is a sync.Map handed over by value; the copy shares its trie    *)
(* with the original, so Range sees each record as it is when its turn     *)
(* comes.                                                                  *)
(*                                                                         *)
(* A record is its version, deletion being a version too; 0 is a record    *)
(* nobody stored yet.  NoStore records never get here.                     *)
(*                                                                         *)
(* Bound: MaxVersion changes of a record.                                  *)
(***************************************************************************)
EXTENDS Naturals

CONSTANTS
  Ids,
  Writers,    \* goroutines: web requests, the bridge, flowSession
  Unsaved,    \* ids ChangeStatus may change
  Faults,     \* of "crash", "panic", "rename"
  MaxVersion,
  None,
  Leaked

Lost == MaxVersion + 1    \* what a file has in place of a record not written

ASSUME StoreAssumption ==
  /\ MaxVersion \in Nat
  /\ None \notin Writers \cup Ids
  /\ Leaked \notin Writers \cup {None}
  /\ Unsaved \subseteq Ids
  /\ Faults \subseteq {"crash", "panic", "rename"}

VARIABLES
  mem,        \* id -> version in the map
  file,       \* id -> version in the file
  tmp,        \* id -> version in the .tmp file
  lock,       \* hostLock, taskLock, clientLock or groupLock; Leaked after a panic
  pc,         \* writer -> its next step
  arg, ver,   \* writer -> the record it changed, and the version it made of it
  todo,       \* writer -> records it has yet to write
  acked,      \* history: id -> last version whose request was answered
  failed      \* history: a rename has failed

locals == <<pc, arg, ver, todo>>
vars == <<mem, file, tmp, lock, locals, acked, failed>>

Versions == 0 .. MaxVersion

TypeOK ==
  /\ mem \in [Ids -> Versions]
  /\ file \in [Ids -> Versions \cup {Lost}]
  /\ tmp \in [Ids -> Versions \cup {Lost}]
  /\ lock \in Writers \cup {None, Leaked}
  /\ pc \in [Writers -> {"idle", "save", "open", "write", "unlock"}]
  /\ arg \in [Writers -> Ids \cup {None}]
  /\ ver \in [Writers -> Versions]
  /\ todo \in [Writers -> SUBSET Ids]
  /\ acked \in [Ids -> Versions]
  /\ failed \in BOOLEAN

Init ==
  /\ mem = [i \in Ids |-> 0]
  /\ file = [i \in Ids |-> 0]
  /\ tmp = [i \in Ids |-> Lost]
  /\ lock = None
  /\ pc = [w \in Writers |-> "idle"]
  /\ arg = [w \in Writers |-> None]
  /\ ver = [w \in Writers |-> 0]
  /\ todo = [w \in Writers |-> {}]
  /\ acked = [i \in Ids |-> 0]
  /\ failed = FALSE

Goto(w, step) == pc' = [pc EXCEPT ![w] = step]

-----------------------------------------------------------------------------
\* NewTask, UpdateTask, DelTask, NewHost, NewClient, MoveClientToGroup, the
\* Edit handlers ...: the map first, then the file.
Change(w, i) ==
  /\ pc[w] = "idle"
  /\ mem[i] < MaxVersion
  /\ mem' = [mem EXCEPT ![i] = @ + 1]
  /\ arg' = [arg EXCEPT ![w] = i]
  /\ ver' = [ver EXCEPT ![w] = mem[i] + 1]
  /\ Goto(w, "save")
  /\ UNCHANGED <<file, tmp, lock, todo, acked, failed>>

\* flowSession.
Flush(w) ==
  /\ pc[w] = "idle"
  /\ arg' = [arg EXCEPT ![w] = None]
  /\ Goto(w, "save")
  /\ UNCHANGED <<mem, file, tmp, lock, ver, todo, acked, failed>>

\* ChangeStatus answers "modified success" and stores nothing.
ChangeStatus(w, i) ==
  /\ i \in Unsaved
  /\ pc[w] = "idle"
  /\ mem[i] < MaxVersion
  /\ mem' = [mem EXCEPT ![i] = @ + 1]
  /\ acked' = [acked EXCEPT ![i] = mem[i] + 1]
  /\ UNCHANGED <<file, tmp, lock, locals, failed>>

\* A mutant of Lock: who finds the file being stored leaves it to the other.
LockSkips(w) ==
  \/ /\ pc[w] = "save" /\ lock = None
     /\ lock' = w
     /\ Goto(w, "open")
     /\ UNCHANGED <<mem, file, tmp, arg, ver, todo, acked, failed>>
  \/ /\ pc[w] = "save" /\ lock # None
     /\ acked' = IF arg[w] = None THEN acked ELSE [acked EXCEPT ![arg[w]] = ver[w]]
     /\ Goto(w, "idle")
     /\ UNCHANGED <<mem, file, tmp, lock, arg, ver, todo, failed>>

\* Store...ToJsonFile: the lock of the file.
Lock(w) ==
  /\ pc[w] = "save" /\ lock = None
  /\ lock' = w
  /\ Goto(w, "open")
  /\ UNCHANGED <<mem, file, tmp, arg, ver, todo, acked, failed>>

-----------------------------------------------------------------------------
(* storeSyncMapToFile                                                      *)

\* os.Create empties the .tmp file, m.Range begins.
Create(w) ==
  /\ pc[w] = "open"
  /\ tmp' = [i \in Ids |-> Lost]
  /\ todo' = [todo EXCEPT ![w] = Ids]
  /\ Goto(w, "write")
  /\ UNCHANGED <<mem, file, lock, arg, ver, acked, failed>>

\* One record, as it is now, in any order.
Write(w, i) ==
  /\ pc[w] = "write" /\ i \in todo[w]
  /\ tmp' = [tmp EXCEPT ![i] = mem[i]]
  /\ todo' = [todo EXCEPT ![w] = @ \ {i}]
  /\ UNCHANGED <<mem, file, lock, pc, arg, ver, acked, failed>>

\* A mutant of Rename: the .tmp file is renamed before it is complete.
RenameEarly(w) ==
  /\ pc[w] = "write"
  /\ file' = tmp
  /\ Goto(w, "unlock")
  /\ UNCHANGED <<mem, tmp, lock, arg, ver, todo, acked, failed>>

\* Sync, Close and Rename, which replaces the file at once.
Rename(w) ==
  /\ pc[w] = "write" /\ todo[w] = {}
  /\ file' = tmp
  /\ Goto(w, "unlock")
  /\ UNCHANGED <<mem, tmp, lock, arg, ver, todo, acked, failed>>

\* An error of Rename is only logged.
RenameFails(w) ==
  /\ "rename" \in Faults
  /\ pc[w] = "write" /\ todo[w] = {}
  /\ failed' = TRUE
  /\ Goto(w, "unlock")
  /\ UNCHANGED <<mem, file, tmp, lock, arg, ver, todo, acked>>

\* A mutant of Unlock: the lock is kept.
UnlockNot(w) ==
  /\ pc[w] = "unlock"
  /\ acked' = IF arg[w] = None \/ ver[w] <= acked[arg[w]] THEN acked
              ELSE [acked EXCEPT ![arg[w]] = ver[w]]
  /\ Goto(w, "idle")
  /\ UNCHANGED <<mem, file, tmp, lock, arg, ver, todo, failed>>

\* The lock is given back and the request is answered.
Unlock(w) ==
  /\ pc[w] = "unlock"
  /\ lock' = None
  /\ acked' = IF arg[w] = None \/ ver[w] <= acked[arg[w]] THEN acked
              ELSE [acked EXCEPT ![arg[w]] = ver[w]]
  /\ Goto(w, "idle")
  /\ UNCHANGED <<mem, file, tmp, arg, ver, todo, failed>>

\* Create or Write fails: the panic ends the request with an error, the lock
\* is never given back.
Panic(w) ==
  /\ "panic" \in Faults
  /\ pc[w] \in {"open", "write"}
  /\ lock' = Leaked
  /\ Goto(w, "idle")
  /\ UNCHANGED <<mem, file, tmp, arg, ver, todo, acked, failed>>

\* A mutant of Crash: a record the file does not have whole is loaded, from the .tmp file.
CrashAnyFile ==
  /\ "crash" \in Faults
  /\ mem' = tmp
  /\ lock' = None
  /\ pc' = [w \in Writers |-> "idle"]
  /\ todo' = [w \in Writers |-> {}]
  /\ UNCHANGED <<file, tmp, arg, ver, acked, failed>>

\* A mutant of Crash: the program starts without reading the file.
CrashEmpty ==
  /\ "crash" \in Faults
  /\ mem' = [i \in Ids |-> 0]
  /\ lock' = None
  /\ pc' = [w \in Writers |-> "idle"]
  /\ todo' = [w \in Writers |-> {}]
  /\ UNCHANGED <<file, tmp, arg, ver, acked, failed>>

\* The process dies and is started again: LoadClientFromJsonFile and the
\* others read the file.
Crash ==
  /\ "crash" \in Faults
  /\ mem' = file
  /\ lock' = None
  /\ pc' = [w \in Writers |-> "idle"]
  /\ todo' = [w \in Writers |-> {}]
  /\ UNCHANGED <<file, tmp, arg, ver, acked, failed>>

-----------------------------------------------------------------------------
Store(w) ==
  \/ Lock(w) \/ Create(w) \/ (\E i \in Ids : Write(w, i)) \/ Rename(w) \/ Unlock(w)

Next ==
  \/ \E w \in Writers :
       \/ \E i \in Ids : Change(w, i) \/ ChangeStatus(w, i)
       \/ Store(w) \/ Flush(w) \/ RenameFails(w) \/ Panic(w)
  \/ Crash

Spec == Init /\ [][Next]_vars

\* A goroutine that can go on does, and a mutex that is given back again and
\* again is got in the end.
FairSpec ==
  Spec /\ \A w \in Writers : WF_vars(Store(w)) /\ SF_vars(Lock(w))

-----------------------------------------------------------------------------
(* Properties                                                              *)

\* What a request was told is stored survives the process: the file has that
\* version of the record or a later one, through crashes and panics.  Only an
\* answer after a failed rename, and that of ChangeStatus, promise too much.
AckedIsDurable ==
  failed \/ \A i \in Ids \ Unsaved : file[i] # Lost /\ file[i] >= acked[i]

\* Whenever the process dies, the file it starts from is whole: each record is
\* there.
FileIsWhole == \A i \in Ids : file[i] # Lost

\* The goroutines, the lock and the .tmp file are one stable store: the file
\* only ever goes forward, to records the map has had, and a restart loses
\* nothing but what was never saved.  No fault is excluded.
Stable == INSTANCE StableStore WITH disk <- file
ImplementsStable == Stable!Spec

\* A call that stores a map returns, however often others store it, unless a
\* panic leaked the lock.
StoreReturns == \A w \in Writers : []<>(pc[w] = "idle" \/ lock = Leaked)
=============================================================================
