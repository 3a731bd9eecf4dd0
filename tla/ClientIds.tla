------------------------------ MODULE ClientIds ------------------------------
(***************************************************************************)
(* Which client a stored task belongs to.  A task record names its client  *)
(* by id only.  Ids come from counters that a restart takes back to the    *)
(* largest id it loads (lib/file/file.go), so an id can be given out again.*)
(* The client and its tasks are in two files, and deleting a client is a   *)
(* sequence of changes of both.  Hosts are kept and deleted like tasks.    *)
(*                                                                         *)
(* A client is told from every other by its birth, the number of clients   *)
(* created before it.  A store is one step, in which the file becomes what *)
(* the map is; JsonStore has the records of a store one by one.  Tasks of  *)
(* a configuration connection are never stored and are left out.           *)
(*                                                                         *)
(* Bounds: MaxClient and MaxTask ids, MaxBirth clients.                    *)
(***************************************************************************)
EXTENDS Naturals

CONSTANTS
  MaxClient, MaxTask, MaxBirth,
  Reqs,       \* goroutines that answer web requests, DealBridgeTask
  PublicKey,  \* TRUE: public_vkey is set
  None

ASSUME ClientIdsAssumption ==
  /\ MaxClient \in Nat \ {0} /\ MaxTask \in Nat /\ MaxBirth \in Nat \ {0}
  /\ PublicKey \in BOOLEAN
  /\ None \notin Nat /\ None \notin [client : Nat, birth : Nat \cup {None}]

ClientIdsSet == 1 .. MaxClient
TaskIds == 1 .. MaxTask
Births == 1 .. MaxBirth
Tasks == [client : ClientIdsSet, birth : Births \cup {None}]

VARIABLES
  clients,      \* Clients: id -> birth, None when there is no such client
  noStore,      \* ids whose NoStore is set
  tasks,        \* Tasks: id -> the id of its client, and who that was
  clientFile, taskFile,
  clientId, taskId,   \* ClientIncreaseId, TaskIncreaseId
  births,       \* history: clients created so far
  pc,           \* request -> its next step
  arg,          \* request -> the client it is about, as a task names it
  orderly       \* history: no step so far was one of Disorder

mem == <<clients, noStore, tasks, clientId, taskId, births>>
files == <<clientFile, taskFile>>
vars == <<mem, files, pc, arg, orderly>>

TypeOK ==
  /\ clients \in [ClientIdsSet -> Births \cup {None}]
  /\ noStore \subseteq ClientIdsSet
  /\ tasks \in [TaskIds -> Tasks \cup {None}]
  /\ clientFile \in [ClientIdsSet -> Births \cup {None}]
  /\ taskFile \in [TaskIds -> Tasks \cup {None}]
  /\ clientId \in 0 .. MaxClient /\ taskId \in 0 .. MaxTask
  /\ births \in 0 .. MaxBirth
  /\ pc \in [Reqs -> {"idle", "added", "deleted", "delTasks", "newTask", "saveTasks"}]
  /\ arg \in [Reqs -> Tasks \cup {None}]
  /\ orderly \in BOOLEAN

\* The first start: the files are empty, the public client gets the first id.
Init ==
  LET first == IF PublicKey THEN 1 ELSE 0
  IN /\ births = first /\ clientId = first /\ taskId = 0
     /\ clients = [i \in ClientIdsSet |-> IF i = first THEN 1 ELSE None]
     /\ noStore = {first} \ {0}
     /\ tasks = [t \in TaskIds |-> None]
     /\ clientFile = [i \in ClientIdsSet |-> None]
     /\ taskFile = tasks
     /\ pc = [r \in Reqs |-> "idle"]
     /\ arg = [r \in Reqs |-> None]
     /\ orderly = TRUE

Goto(r, step) == pc' = [pc EXCEPT ![r] = step]

\* The answer ends the request.
Answer(r) ==
  /\ Goto(r, "idle")
  /\ arg' = [arg EXCEPT ![r] = None]

\* What the steps of an orderly history never do: a request comes while another
\* one is under way, the process ends in the middle of one (Restart), DelTask of
\* a client's task fails (DelTasks), the client of a configuration connection
\* gets a stored task (GetClient).
Quiet == \A r \in Reqs : pc[r] = "idle"
Disorder(bad) == orderly' = (orderly /\ ~bad)

-----------------------------------------------------------------------------
(* Clients                                                                 *)

\* GetClientId and NewClient: ClientController.Add, Register, and NEW_CONF,
\* whose client has NoStore.
NewClient(r, id, temporary) ==
  /\ pc[r] = "idle" /\ Disorder(~Quiet)
  /\ id = clientId + 1 /\ births < MaxBirth
  /\ clientId' = id
  /\ births' = births + 1
  /\ clients' = [clients EXCEPT ![id] = births + 1]
  /\ noStore' = IF temporary THEN noStore \cup {id} ELSE noStore
  /\ Goto(r, "added")
  /\ UNCHANGED <<tasks, taskId, files, arg>>

\* DbUtils.DelClient, called by ClientController.Del, which does not ask
\* whether there is such a client.
DelClient(r, id) ==
  /\ pc[r] = "idle" /\ Disorder(~Quiet)
  /\ clients' = [clients EXCEPT ![id] = None]
  /\ arg' = [arg EXCEPT ![r] = [client |-> id, birth |-> clients[id]]]
  /\ Goto(r, "deleted")
  /\ UNCHANGED <<noStore, tasks, clientId, taskId, births, files>>

\* DealBridgeTask when the session of a temporary client is gone: its stored
\* tasks stay (justDelNoStore).
DealCloseClient(r, id) ==
  /\ pc[r] = "idle" /\ Disorder(~Quiet)
  /\ id \in noStore /\ clients[id] # None
  /\ clients' = [clients EXCEPT ![id] = None]
  /\ Goto(r, "added")
  /\ UNCHANGED <<noStore, tasks, clientId, taskId, births, files, arg>>

StoreClients ==
  clientFile' = [i \in ClientIdsSet |-> IF i \in noStore THEN None ELSE clients[i]]

\* StoreClientsToJsonFile; Del goes on with the tasks.
SaveClients(r) ==
  /\ pc[r] \in {"added", "deleted"}
  /\ StoreClients
  /\ IF pc[r] = "added" THEN Answer(r) ELSE Goto(r, "delTasks") /\ UNCHANGED arg
  /\ UNCHANGED <<mem, taskFile, orderly>>

-----------------------------------------------------------------------------
(* Tasks                                                                   *)

\* IndexController.Add finds the client of the form ...
GetClient(r, id) ==
  /\ pc[r] = "idle" /\ Disorder(~Quiet \/ id \in noStore)
  /\ clients[id] # None
  /\ arg' = [arg EXCEPT ![r] = [client |-> id, birth |-> clients[id]]]
  /\ Goto(r, "newTask")
  /\ UNCHANGED <<mem, files>>

\* ... and stores the task.
NewTask(r) ==
  /\ pc[r] = "newTask"
  /\ taskId < MaxTask
  /\ taskId' = taskId + 1
  /\ tasks' = [tasks EXCEPT ![taskId + 1] = arg[r]]
  /\ Goto(r, "saveTasks")
  /\ UNCHANGED <<clients, noStore, clientId, births, files, arg, orderly>>

\* A mutant of DelTasks: the tasks are kept without a client.
DelTasksUnlink(r, kept) ==
  LET own == {t \in TaskIds : tasks[t] # None /\ tasks[t].client = arg[r].client}
  IN /\ pc[r] = "delTasks"
     /\ kept = {} /\ UNCHANGED orderly
     /\ tasks' = [t \in TaskIds |->
                    IF t \in own THEN [tasks[t] EXCEPT !.client = 0] ELSE tasks[t]]
     /\ IF own = {} THEN Answer(r) ELSE Goto(r, "saveTasks") /\ UNCHANGED arg
     /\ UNCHANGED <<clients, noStore, clientId, taskId, births, files>>

\* DelTask of each task of the client: those of kept stay, StopServer could
\* not close them.
DelTasks(r, kept) ==
  LET own == {t \in TaskIds : tasks[t] # None /\ tasks[t].client = arg[r].client}
  IN /\ pc[r] = "delTasks"
     /\ kept \subseteq own
     /\ Disorder(kept # {})
     /\ tasks' = [t \in TaskIds |-> IF t \in own \ kept THEN None ELSE tasks[t]]
     /\ IF own = kept THEN Answer(r) ELSE Goto(r, "saveTasks") /\ UNCHANGED arg
     /\ UNCHANGED <<clients, noStore, clientId, taskId, births, files>>

\* A mutant of SaveTasks: the store is left to flowSession.
SaveTasksLater(r) ==
  /\ pc[r] = "saveTasks"
  /\ Answer(r)
  /\ UNCHANGED <<mem, files, orderly>>

\* StoreTasksToJsonFile.
SaveTasks(r) ==
  /\ pc[r] = "saveTasks"
  /\ taskFile' = tasks
  /\ Answer(r)
  /\ UNCHANGED <<mem, clientFile, orderly>>

\* flowSession.
FlushTasks ==
  /\ taskFile' = tasks
  /\ UNCHANGED <<mem, clientFile, pc, arg, orderly>>

FlushClients ==
  /\ StoreClients
  /\ UNCHANGED <<mem, taskFile, pc, arg, orderly>>

-----------------------------------------------------------------------------
(* A restart                                                               *)

\* A task whose client is not in the file is not loaded.
Loaded(t) == taskFile[t] # None /\ clientFile[taskFile[t].client] # None

\* A mutant of LastOf: the id of the record that was loaded last.
LastRead(S, n) == IF S = {} THEN n = 0 ELSE n \in S

\* What a counter is after loading the ids of S, none of them above it.
LastOf(S, n) == n \in S \cup {0} /\ \A i \in S : i <= n

\* The process ends, between two requests or in the middle of them.  GetDb
\* loads the files and InitFromCsv creates the public client.
Restart(c, t) ==
  /\ Disorder(~Quiet)
  /\ LastOf({i \in ClientIdsSet : clientFile[i] # None}, c)
  /\ LastOf({i \in TaskIds : Loaded(i)}, t)
  /\ tasks' = [i \in TaskIds |-> IF Loaded(i) THEN taskFile[i] ELSE None]
  /\ taskId' = t
  /\ IF PublicKey
     THEN /\ c < MaxClient /\ births < MaxBirth
          /\ clientId' = c + 1 /\ births' = births + 1
          /\ clients' = [clientFile EXCEPT ![c + 1] = births + 1]
          /\ noStore' = {c + 1}
     ELSE /\ clientId' = c /\ clients' = clientFile /\ noStore' = {}
          /\ UNCHANGED births
  /\ pc' = [r \in Reqs |-> "idle"]
  /\ arg' = [r \in Reqs |-> None]
  /\ UNCHANGED files

-----------------------------------------------------------------------------
Request(r) ==
  \/ \E id \in ClientIdsSet :
       \/ \E temporary \in BOOLEAN : NewClient(r, id, temporary)
       \/ DelClient(r, id) \/ DealCloseClient(r, id) \/ GetClient(r, id)
  \/ SaveClients(r) \/ NewTask(r) \/ SaveTasks(r)
  \/ \E kept \in SUBSET TaskIds : DelTasks(r, kept)

Next ==
  \/ \E r \in Reqs : Request(r)
  \/ FlushTasks \/ FlushClients
  \/ \E c \in 0 .. MaxClient, t \in 0 .. MaxTask : Restart(c, t)

Spec == Init /\ [][Next]_vars

-----------------------------------------------------------------------------
(* Properties                                                              *)

\* A client that is created never takes the id of one that exists, nor a task
\* that of another: what the counters are for, whatever was deleted, lost or
\* dropped in the lives of the process before.  The public client of a restart
\* leaves those of the file alone.
Restarts == \E c \in 0 .. MaxClient, t \in 0 .. MaxTask : Restart(c, t)
NeverOverwritten ==
  [][IF Restarts
     THEN \A i \in ClientIdsSet :
            clientFile[i] # None => clients'[i] = clientFile[i]
     ELSE /\ \A i \in ClientIdsSet :
               clients[i] # None => clients'[i] \in {clients[i], None}
          /\ \A i \in TaskIds :
               tasks[i] # None => tasks'[i] \in {tasks[i], None}]_vars

\* A task is served for the client it was made for, and never for one that got
\* the id later (server.go:320, "delete all host and tasks by client id"): it
\* takes a disorder to break that, no restart between requests does.
TaskKeepsOwner ==
  orderly => \A t \in TaskIds : tasks[t] # None =>
    clients[tasks[t].client] \in {tasks[t].birth, None}
=============================================================================
