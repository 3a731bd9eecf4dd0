--------------------------- MODULE ClientIdsProof ---------------------------
(***************************************************************************)
(* Proofs about ClientIds, for any number of ids, of clients created and   *)
(* of requests at a time: the counters stay above every id in use, so no   *)
(* record is ever overwritten by a new one.                                *)
(***************************************************************************)
EXTENDS ClientIds, TLAPS

\* The counters are never behind the records in memory.
Ahead ==
  /\ \A i \in ClientIdsSet : clients[i] # None => i <= clientId
  /\ \A t \in TaskIds : tasks[t] # None => t <= taskId

IInv == TypeOK /\ Ahead

\* The records survive a step, as NeverOverwritten has it.
Kept ==
  IF Restarts
  THEN \A i \in ClientIdsSet : clientFile[i] # None => clients'[i] = clientFile[i]
  ELSE /\ \A i \in ClientIdsSet : clients[i] # None => clients'[i] \in {clients[i], None}
       /\ \A i \in TaskIds : tasks[i] # None => tasks'[i] \in {tasks[i], None}

-----------------------------------------------------------------------------
\* The first start gives at most one id, to the public client.
LEMMA IdsInit == Init => IInv
BY ClientIdsAssumption
DEF Init, IInv, TypeOK, Ahead, ClientIdsSet, TaskIds, Births, Tasks

\* Every step keeps the types, and the counters ahead.
LEMMA IdsStep == IInv /\ [Next]_vars => IInv'
<1> SUFFICES ASSUME IInv, [Next]_vars PROVE IInv'
  OBVIOUS
<1> USE ClientIdsAssumption
    DEF IInv, TypeOK, Ahead, ClientIdsSet, TaskIds, Births, Tasks, Goto, Answer,
        mem, files, Disorder
<1>0. (orderly \in BOOLEAN)'
  <2>1. CASE UNCHANGED vars
    BY <2>1 DEF vars
  <2>2. CASE Next
    BY <2>2, Zenon
       DEF Next, Request, NewClient, DelClient, DealCloseClient, SaveClients,
           GetClient, NewTask, DelTasks, SaveTasks, FlushTasks, FlushClients,
           Restart
  <2> QED
    BY <2>1, <2>2
<1>1. CASE UNCHANGED vars
  BY <1>1 DEF vars
<1>2. ASSUME NEW r \in Reqs, NEW id \in ClientIdsSet, NEW temporary \in BOOLEAN,
             NewClient(r, id, temporary)
      PROVE  IInv'
  BY <1>2 DEF NewClient
<1>3. ASSUME NEW r \in Reqs, NEW id \in ClientIdsSet, DelClient(r, id)
      PROVE  IInv'
  BY <1>3 DEF DelClient
<1>4. ASSUME NEW r \in Reqs, NEW id \in ClientIdsSet, DealCloseClient(r, id)
      PROVE  IInv'
  BY <1>4 DEF DealCloseClient
<1>5. ASSUME NEW r \in Reqs, NEW id \in ClientIdsSet, GetClient(r, id)
      PROVE  IInv'
  BY <1>5 DEF GetClient
<1>6. ASSUME NEW r \in Reqs, SaveClients(r) PROVE IInv'
  BY <1>6 DEF SaveClients, StoreClients
<1>7. ASSUME NEW r \in Reqs, NewTask(r) PROVE IInv'
  BY <1>7 DEF NewTask
<1>8. ASSUME NEW r \in Reqs, SaveTasks(r) PROVE IInv'
  BY <1>8 DEF SaveTasks
<1>9. ASSUME NEW r \in Reqs, NEW kept \in SUBSET TaskIds, DelTasks(r, kept)
      PROVE  IInv'
  BY <1>9 DEF DelTasks
<1>10. CASE FlushTasks
  BY <1>10 DEF FlushTasks
<1>11. CASE FlushClients
  BY <1>11 DEF FlushClients, StoreClients
<1>12. ASSUME NEW c \in 0 .. MaxClient, NEW t \in 0 .. MaxTask, Restart(c, t)
       PROVE  IInv'
  <2>1. \A i \in ClientIdsSet : clientFile[i] # None => i <= c
    BY <1>12 DEF Restart, LastOf
  <2>2. \A i \in TaskIds : Loaded(i) => i <= t /\ taskFile[i] # None
    BY <1>12 DEF Restart, LastOf, Loaded
  <2>3. tasks' = [i \in TaskIds |-> IF Loaded(i) THEN taskFile[i] ELSE None]
        /\ taskId' = t
    BY <1>12 DEF Restart
  <2>4. (tasks \in [TaskIds -> Tasks \cup {None}])'
    BY <2>3
  <2>5. \A i \in TaskIds : tasks'[i] # None => i <= taskId'
    BY <2>2, <2>3
  <2>6. UNCHANGED <<clientFile, taskFile>> /\ pc' = [r \in Reqs |-> "idle"]
        /\ arg' = [r \in Reqs |-> None]
    BY <1>12 DEF Restart
  <2>7. CASE PublicKey
    <3>1. clientId' = c + 1 /\ c + 1 \in ClientIdsSet
          /\ clients' = [clientFile EXCEPT ![c + 1] = births + 1]
          /\ noStore' = {c + 1} /\ births' = births + 1 /\ births < MaxBirth
      BY <1>12, <2>7 DEF Restart
    <3>2. \A i \in ClientIdsSet : clients'[i] # None => i <= clientId'
      BY <2>1, <3>1
    <3>3. TypeOK'
      <4>1. births + 1 \in Births /\ births + 1 \in 0 .. MaxBirth
        BY <3>1
      <4>2. (clients \in [ClientIdsSet -> Births \cup {None}])'
        BY <3>1, <4>1
      <4>3. clientId' \in 0 .. MaxClient /\ births' \in 0 .. MaxBirth
        BY <3>1, <4>1
      <4> QED
        BY <1>0, <2>3, <2>4, <2>6, <3>1, <4>2, <4>3
    <3> QED
      BY <2>5, <3>2, <3>3
  <2>8. CASE ~PublicKey
    <3>1. clientId' = c /\ clients' = clientFile /\ noStore' = {} /\ births' = births
      BY <1>12, <2>8 DEF Restart
    <3> QED
      <4>1. TypeOK'
        BY <1>0, <2>3, <2>4, <2>6, <3>1
      <4>2. \A i \in ClientIdsSet : clients'[i] # None => i <= clientId'
        BY <2>1, <3>1
      <4> QED
        BY <2>5, <4>1, <4>2
  <2> QED
    BY <2>7, <2>8
<1> HIDE DEF IInv
<1> QED
  BY <1>1, <1>2, <1>3, <1>4, <1>5, <1>6, <1>7, <1>8, <1>9, <1>10, <1>11, <1>12
  DEF Next, Request

\* A counter that is ahead gives out an id nobody has.
LEMMA StepKeeps == IInv /\ [Next]_vars => [Kept]_vars
<1> SUFFICES ASSUME IInv, Next PROVE Kept
  OBVIOUS
<1> USE ClientIdsAssumption
    DEF IInv, TypeOK, Ahead, ClientIdsSet, TaskIds, Births, Tasks, mem, files
<1>1. CASE Restarts
  <2>1. PICK c \in 0 .. MaxClient, t \in 0 .. MaxTask : Restart(c, t)
    BY <1>1 DEF Restarts
  <2>2. ASSUME NEW i \in ClientIdsSet, clientFile[i] # None
        PROVE  i <= c /\ i # c + 1
    BY <2>1, <2>2 DEF Restart, LastOf
  <2>3. ASSUME NEW i \in ClientIdsSet, clientFile[i] # None
        PROVE  clients'[i] = clientFile[i]
    BY <2>1, <2>2, <2>3 DEF Restart
  <2> QED
    BY <1>1, <2>3 DEF Kept
<1>2. CASE ~Restarts
  <2>1. ASSUME NEW r \in Reqs, NEW id \in ClientIdsSet, NEW temporary \in BOOLEAN,
               NewClient(r, id, temporary)
        PROVE  Kept
    BY <1>2, <2>1 DEF NewClient, Kept
  <2>2. ASSUME NEW r \in Reqs, NEW id \in ClientIdsSet,
               DelClient(r, id) \/ DealCloseClient(r, id) \/ GetClient(r, id)
        PROVE  Kept
    BY <1>2, <2>2 DEF DelClient, DealCloseClient, GetClient, Kept
  <2>3. ASSUME NEW r \in Reqs, NewTask(r) PROVE Kept
    BY <1>2, <2>3 DEF NewTask, Kept
  <2>4. ASSUME NEW r \in Reqs, SaveClients(r) \/ SaveTasks(r) PROVE Kept
    BY <1>2, <2>4 DEF SaveClients, SaveTasks, Kept
  <2>5. ASSUME NEW r \in Reqs, NEW kept \in SUBSET TaskIds, DelTasks(r, kept)
        PROVE  Kept
    BY <1>2, <2>5 DEF DelTasks, Kept
  <2>6. CASE FlushTasks \/ FlushClients
    BY <1>2, <2>6 DEF FlushTasks, FlushClients, Kept
  <2> QED
    BY <1>2, <2>1, <2>2, <2>3, <2>4, <2>5, <2>6 DEF Next, Request, Restarts
<1> QED
  BY <1>1, <1>2

\* The records, files and counters keep their types.
THEOREM TypeCorrect == Spec => []TypeOK
<1>1. IInv => TypeOK
  BY DEF IInv
<1> QED
  BY IdsInit, IdsStep, <1>1, PTL DEF Spec

\* A new client or task never replaces another, in any number of lives of the
\* process.
THEOREM NothingOverwritten == Spec => NeverOverwritten
<1>1. Init => IInv
  BY IdsInit
<1>2. IInv /\ [Next]_vars => IInv' /\ [Kept]_vars
  BY IdsStep, StepKeeps
<1> QED
  BY <1>1, <1>2, PTL DEF Spec, NeverOverwritten, Kept

-----------------------------------------------------------------------------
(* An orderly history                                                      *)

OneAtATime == \A q, r \in Reqs : pc[q] # "idle" /\ pc[r] # "idle" => q = r

\* The client of i was deleted by a request that has its tasks still to delete.
Leaving(i) ==
  \E r \in Reqs : pc[r] \in {"deleted", "delTasks"} /\ arg[r].client = i

\* A stored task has its client, and a client that is stored.
HasClient(x) == clients[x.client] = x.birth /\ x.birth # None /\ x.client \notin noStore
TasksHaveClients ==
  \A t \in TaskIds : tasks[t] # None =>
    HasClient(tasks[t]) \/ (clients[tasks[t].client] = None /\ Leaving(tasks[t].client))

\* The argument of a request is what its step relies on.
ArgsOK ==
  \A r \in Reqs :
    /\ pc[r] \in {"deleted", "delTasks", "newTask"} => arg[r] # None
    /\ pc[r] = "newTask" => HasClient(arg[r])

\* Between two requests the files are what the maps are.
TasksSaved == (\A r \in Reqs : pc[r] # "saveTasks") => taskFile = tasks
ClientsSaved ==
  (\A r \in Reqs : pc[r] \notin {"added", "deleted"}) =>
    \A i \in ClientIdsSet : clientFile[i] = IF i \in noStore THEN None ELSE clients[i]

OrderlyInv ==
  /\ \A i \in noStore : i <= clientId
  /\ orderly => /\ OneAtATime /\ TasksHaveClients /\ ArgsOK
               /\ TasksSaved /\ ClientsSaved

LEMMA OrderlyInit == Init => OrderlyInv
BY ClientIdsAssumption
DEF Init, OrderlyInv, OneAtATime, TasksHaveClients, ArgsOK, TasksSaved, ClientsSaved,
    ClientIdsSet, TaskIds

\* Every step keeps what an orderly history relies on.
LEMMA OrderlyStep == IInv /\ OrderlyInv /\ [Next]_vars => OrderlyInv'
<1> SUFFICES ASSUME IInv, OrderlyInv, [Next]_vars PROVE OrderlyInv'
  OBVIOUS
<1> USE ClientIdsAssumption
    DEF IInv, TypeOK, Ahead, ClientIdsSet, TaskIds, Births, Tasks, Goto, Answer, mem, files,
        Disorder, Quiet
<1> DEFINE Parts == OneAtATime /\ TasksHaveClients /\ ArgsOK /\ TasksSaved /\ ClientsSaved
<1>1. CASE UNCHANGED vars
  BY <1>1 DEF vars, OrderlyInv, OneAtATime, TasksHaveClients, HasClient, Leaving, ArgsOK,
              TasksSaved, ClientsSaved
<1>2. ASSUME NEW r \in Reqs, NEW id \in ClientIdsSet, NEW temporary \in BOOLEAN, NewClient(r, id, temporary)
      PROVE  OrderlyInv'
  <2>1. \A i \in noStore' : i <= clientId'
    BY <1>2 DEF NewClient, OrderlyInv
  <2>2. orderly' => orderly /\ Parts
    BY <1>2 DEF NewClient, OrderlyInv
  <2>3. ASSUME orderly' PROVE OneAtATime'
    <3>1. \A q \in Reqs \ {r} : pc'[q] = "idle"
      BY <1>2, <2>3 DEF NewClient
    <3> QED
      BY <3>1 DEF OneAtATime
  <2>4. ASSUME orderly' PROVE TasksHaveClients'
    <3> SUFFICES ASSUME NEW t \in TaskIds, tasks[t] # None PROVE HasClient(tasks[t])'
      BY <1>2 DEF NewClient, TasksHaveClients
    <3>1. tasks[t] \in Tasks /\ HasClient(tasks[t])
      BY <1>2, <2>2, <2>4 DEF NewClient, TasksHaveClients, Leaving
    <3>2. tasks[t].client # id
      BY <1>2, <3>1 DEF NewClient, HasClient
    <3> QED
      BY <1>2, <3>1, <3>2 DEF NewClient, HasClient
  <2>5. ASSUME orderly' PROVE ArgsOK'
    BY <1>2, <2>2, <2>5 DEF NewClient, ArgsOK, OneAtATime, HasClient
  <2>6. ASSUME orderly' PROVE TasksSaved'
    BY <1>2, <2>2, <2>6 DEF NewClient, TasksSaved, OneAtATime
  <2>7. ASSUME orderly' PROVE ClientsSaved'
    BY <1>2, <2>2, <2>7 DEF NewClient, ClientsSaved, OneAtATime
  <2> QED
    BY <2>1, <2>3, <2>4, <2>5, <2>6, <2>7 DEF OrderlyInv
<1>3. ASSUME NEW r \in Reqs, NEW id \in ClientIdsSet, DelClient(r, id)
      PROVE  OrderlyInv'
  <2>1. \A i \in noStore' : i <= clientId'
    BY <1>3 DEF DelClient, OrderlyInv
  <2>2. orderly' => orderly /\ Parts
    BY <1>3 DEF DelClient, OrderlyInv
  <2>3. ASSUME orderly' PROVE OneAtATime'
    <3>1. \A q \in Reqs \ {r} : pc'[q] = "idle"
      BY <1>3, <2>3 DEF DelClient
    <3> QED
      BY <3>1 DEF OneAtATime
  <2>4. ASSUME orderly' PROVE TasksHaveClients'
    <3> SUFFICES ASSUME NEW t \in TaskIds, tasks[t] # None
                 PROVE  \/ HasClient(tasks[t])'
                        \/ clients'[tasks[t].client] = None /\ Leaving(tasks[t].client)'
      BY <1>3 DEF DelClient, TasksHaveClients
    <3>1. tasks[t] \in Tasks /\ HasClient(tasks[t])
      BY <1>3, <2>2, <2>4 DEF DelClient, TasksHaveClients, Leaving
    <3>2. CASE tasks[t].client = id
      <4>1. /\ pc'[r] = "deleted" /\ arg'[r].client = id
            /\ clients'[id] = None /\ tasks' = tasks
        BY <1>3 DEF DelClient
      <4> QED
        BY <3>2, <4>1 DEF Leaving
    <3>3. CASE tasks[t].client # id
      BY <1>3, <3>1, <3>3 DEF DelClient, HasClient
    <3> QED
      BY <3>2, <3>3
  <2>5. ASSUME orderly' PROVE ArgsOK'
    <3>1. pc'[r] = "deleted" /\ arg'[r] = [client |-> id, birth |-> clients[id]]
      BY <1>3 DEF DelClient
    <3>2. arg'[r] # None
      BY <3>1
    <3>3. \A q \in Reqs \ {r} : pc'[q] = "idle"
      BY <1>3, <2>2, <2>5 DEF DelClient
    <3> QED
      BY <3>1, <3>2, <3>3 DEF ArgsOK
  <2>6. ASSUME orderly' PROVE TasksSaved'
    BY <1>3, <2>2, <2>6 DEF DelClient, TasksSaved, OneAtATime
  <2>7. ASSUME orderly' PROVE ClientsSaved'
    BY <1>3, <2>2, <2>7 DEF DelClient, ClientsSaved, OneAtATime
  <2> QED
    BY <2>1, <2>3, <2>4, <2>5, <2>6, <2>7 DEF OrderlyInv
<1>4. ASSUME NEW r \in Reqs, NEW id \in ClientIdsSet, DealCloseClient(r, id)
      PROVE  OrderlyInv'
  <2>1. \A i \in noStore' : i <= clientId'
    BY <1>4 DEF DealCloseClient, OrderlyInv
  <2>2. orderly' => orderly /\ Parts
    BY <1>4 DEF DealCloseClient, OrderlyInv
  <2>3. ASSUME orderly' PROVE OneAtATime'
    <3>1. \A q \in Reqs \ {r} : pc'[q] = "idle"
      BY <1>4, <2>3 DEF DealCloseClient
    <3> QED
      BY <3>1 DEF OneAtATime
  <2>4. ASSUME orderly' PROVE TasksHaveClients'
    BY <1>4, <2>2, <2>4 DEF DealCloseClient, TasksHaveClients, OneAtATime, HasClient, Leaving, ArgsOK
  <2>5. ASSUME orderly' PROVE ArgsOK'
    BY <1>4, <2>2, <2>5 DEF DealCloseClient, ArgsOK, OneAtATime, HasClient
  <2>6. ASSUME orderly' PROVE TasksSaved'
    BY <1>4, <2>2, <2>6 DEF DealCloseClient, TasksSaved, OneAtATime
  <2>7. ASSUME orderly' PROVE ClientsSaved'
    BY <1>4, <2>2, <2>7 DEF DealCloseClient, ClientsSaved, OneAtATime
  <2> QED
    BY <2>1, <2>3, <2>4, <2>5, <2>6, <2>7 DEF OrderlyInv
<1>5. ASSUME NEW r \in Reqs, NEW id \in ClientIdsSet, GetClient(r, id)
      PROVE  OrderlyInv'
  <2>1. \A i \in noStore' : i <= clientId'
    BY <1>5 DEF GetClient, OrderlyInv
  <2>2. orderly' => orderly /\ Parts
    BY <1>5 DEF GetClient, OrderlyInv
  <2>3. ASSUME orderly' PROVE OneAtATime'
    <3>1. \A q \in Reqs \ {r} : pc'[q] = "idle"
      BY <1>5, <2>3 DEF GetClient
    <3> QED
      BY <3>1 DEF OneAtATime
  <2>4. ASSUME orderly' PROVE TasksHaveClients'
    BY <1>5, <2>2, <2>4 DEF GetClient, TasksHaveClients, OneAtATime, HasClient, Leaving, ArgsOK
  <2>5. ASSUME orderly' PROVE ArgsOK'
    <3>1. pc'[r] = "newTask" /\ arg'[r] = [client |-> id, birth |-> clients[id]]
      BY <1>5 DEF GetClient
    <3>2. arg'[r] # None
      BY <3>1
    <3>3. clients[id] # None /\ id \notin noStore /\ UNCHANGED <<clients, noStore>>
      BY <1>5, <2>5 DEF GetClient
    <3>4. HasClient(arg[r])'
      BY <3>1, <3>3 DEF HasClient
    <3>5. \A q \in Reqs \ {r} : pc'[q] = "idle"
      BY <1>5, <2>2, <2>5 DEF GetClient
    <3> QED
      BY <3>1, <3>2, <3>4, <3>5 DEF ArgsOK
  <2>6. ASSUME orderly' PROVE TasksSaved'
    BY <1>5, <2>2, <2>6 DEF GetClient, TasksSaved, OneAtATime
  <2>7. ASSUME orderly' PROVE ClientsSaved'
    BY <1>5, <2>2, <2>7 DEF GetClient, ClientsSaved, OneAtATime
  <2> QED
    BY <2>1, <2>3, <2>4, <2>5, <2>6, <2>7 DEF OrderlyInv
<1>6. ASSUME NEW r \in Reqs, SaveClients(r)
      PROVE  OrderlyInv'
  <2>1. \A i \in noStore' : i <= clientId'
    BY <1>6 DEF SaveClients, StoreClients, OrderlyInv
  <2>2. orderly' => orderly /\ Parts
    BY <1>6 DEF SaveClients, StoreClients, OrderlyInv
  <2>3. ASSUME orderly' PROVE OneAtATime'
    <3>1. pc[r] # "idle" /\ \A q \in Reqs \ {r} : pc'[q] = pc[q]
      BY <1>6 DEF SaveClients
    <3> QED
      BY <2>2, <2>3, <3>1 DEF OneAtATime
  <2>4. ASSUME orderly' PROVE TasksHaveClients'
    <3>1. UNCHANGED <<clients, tasks, noStore>>
      BY <1>6 DEF SaveClients
    <3>2. \A q \in Reqs : pc[q] \in {"deleted", "delTasks"} =>
                           pc'[q] = "delTasks" /\ arg'[q] = arg[q]
      <4>1. ASSUME NEW q \in Reqs \ {r}, pc[q] # "idle" PROVE FALSE
        BY <1>6, <2>2, <2>4, <4>1 DEF SaveClients, OneAtATime
      <4>2. pc[r] = "deleted" => pc'[r] = "delTasks" /\ arg'[r] = arg[r]
        BY <1>6 DEF SaveClients
      <4>3. pc[r] \in {"added", "deleted"}
        BY <1>6 DEF SaveClients
      <4> QED
        BY <4>1, <4>2, <4>3
    <3>3. ASSUME NEW i, Leaving(i) PROVE Leaving(i)'
      BY <3>2, <3>3 DEF Leaving
    <3> QED
      BY <2>2, <2>4, <3>1, <3>3 DEF TasksHaveClients, HasClient
  <2>5. ASSUME orderly' PROVE ArgsOK'
    <3>1. pc[r] # "idle" /\ pc'[r] \in {"idle", "delTasks"} /\ UNCHANGED <<clients, noStore>>
      BY <1>6 DEF SaveClients
    <3>2. pc'[r] = "delTasks" => pc[r] = "deleted" /\ arg' = arg
      BY <1>6 DEF SaveClients
    <3>3. \A q \in Reqs \ {r} : pc'[q] = "idle"
      BY <1>6, <2>2, <2>5, <3>1 DEF SaveClients, OneAtATime
    <3> QED
      BY <2>2, <2>5, <3>1, <3>2, <3>3 DEF ArgsOK, HasClient
  <2>6. ASSUME orderly' PROVE TasksSaved'
    BY <1>6, <2>2, <2>6 DEF SaveClients, StoreClients, TasksSaved, OneAtATime
  <2>7. ASSUME orderly' PROVE ClientsSaved'
    BY <1>6, <2>2, <2>7 DEF SaveClients, StoreClients, ClientsSaved, OneAtATime
  <2> QED
    BY <2>1, <2>3, <2>4, <2>5, <2>6, <2>7 DEF OrderlyInv
<1>7. ASSUME NEW r \in Reqs, NewTask(r)
      PROVE  OrderlyInv'
  <2>1. \A i \in noStore' : i <= clientId'
    BY <1>7 DEF NewTask, OrderlyInv
  <2>2. orderly' => orderly /\ Parts
    BY <1>7 DEF NewTask, OrderlyInv
  <2>3. ASSUME orderly' PROVE OneAtATime'
    BY <1>7, <2>2, <2>3 DEF NewTask, OneAtATime
  <2>4. ASSUME orderly' PROVE TasksHaveClients'
    <3>1. HasClient(arg[r]) /\ UNCHANGED <<clients, noStore, arg>>
      BY <1>7, <2>2, <2>4 DEF NewTask, ArgsOK
    <3>2. \A q \in Reqs : pc[q] \notin {"deleted", "delTasks"}
      BY <1>7, <2>2, <2>4 DEF NewTask, OneAtATime
    <3>3. \A t \in TaskIds : tasks'[t] # None => tasks'[t] \in {tasks[t], arg[r]}
      BY <1>7 DEF NewTask
    <3> QED
      BY <2>2, <2>4, <3>1, <3>2, <3>3 DEF TasksHaveClients, HasClient, Leaving
  <2>5. ASSUME orderly' PROVE ArgsOK'
    BY <1>7, <2>2, <2>5 DEF NewTask, ArgsOK, OneAtATime, HasClient
  <2>6. ASSUME orderly' PROVE TasksSaved'
    BY <1>7, <2>2, <2>6 DEF NewTask, TasksSaved, OneAtATime
  <2>7. ASSUME orderly' PROVE ClientsSaved'
    BY <1>7, <2>2, <2>7 DEF NewTask, ClientsSaved, OneAtATime
  <2> QED
    BY <2>1, <2>3, <2>4, <2>5, <2>6, <2>7 DEF OrderlyInv
<1>8. ASSUME NEW r \in Reqs, SaveTasks(r)
      PROVE  OrderlyInv'
  <2>1. \A i \in noStore' : i <= clientId'
    BY <1>8 DEF SaveTasks, OrderlyInv
  <2>2. orderly' => orderly /\ Parts
    BY <1>8 DEF SaveTasks, OrderlyInv
  <2>3. ASSUME orderly' PROVE OneAtATime'
    BY <1>8, <2>2, <2>3 DEF SaveTasks, OneAtATime
  <2>4. ASSUME orderly' PROVE TasksHaveClients'
    BY <1>8, <2>2, <2>4 DEF SaveTasks, TasksHaveClients, OneAtATime, HasClient, Leaving, ArgsOK
  <2>5. ASSUME orderly' PROVE ArgsOK'
    BY <1>8, <2>2, <2>5 DEF SaveTasks, ArgsOK, OneAtATime, HasClient
  <2>6. ASSUME orderly' PROVE TasksSaved'
    BY <1>8, <2>2, <2>6 DEF SaveTasks, TasksSaved, OneAtATime
  <2>7. ASSUME orderly' PROVE ClientsSaved'
    BY <1>8, <2>2, <2>7 DEF SaveTasks, ClientsSaved, OneAtATime
  <2> QED
    BY <2>1, <2>3, <2>4, <2>5, <2>6, <2>7 DEF OrderlyInv
<1>9. ASSUME NEW r \in Reqs, NEW kept \in SUBSET TaskIds, DelTasks(r, kept)
      PROVE  OrderlyInv'
  <2>1. \A i \in noStore' : i <= clientId'
    BY <1>9 DEF DelTasks, OrderlyInv
  <2>2. orderly' => orderly /\ Parts
    BY <1>9 DEF DelTasks, OrderlyInv
  <2>3. ASSUME orderly' PROVE OneAtATime'
    <3>1. pc[r] # "idle" /\ \A q \in Reqs \ {r} : pc'[q] = pc[q]
      BY <1>9 DEF DelTasks
    <3> QED
      BY <2>2, <2>3, <3>1 DEF OneAtATime
  <2>4. ASSUME orderly' PROVE TasksHaveClients'
    BY <1>9, <2>2, <2>4 DEF DelTasks, TasksHaveClients, OneAtATime, HasClient, Leaving, ArgsOK
  <2>5. ASSUME orderly' PROVE ArgsOK'
    BY <1>9, <2>2, <2>5 DEF DelTasks, ArgsOK, OneAtATime, HasClient
  <2>6. ASSUME orderly' PROVE TasksSaved'
    BY <1>9, <2>2, <2>6 DEF DelTasks, TasksSaved, OneAtATime
  <2>7. ASSUME orderly' PROVE ClientsSaved'
    BY <1>9, <2>2, <2>7 DEF DelTasks, ClientsSaved, OneAtATime
  <2> QED
    BY <2>1, <2>3, <2>4, <2>5, <2>6, <2>7 DEF OrderlyInv
<1>10. CASE FlushTasks
  BY <1>10 DEF FlushTasks, OrderlyInv, OneAtATime, TasksHaveClients, HasClient, Leaving, ArgsOK, TasksSaved, ClientsSaved
<1>11. CASE FlushClients
  BY <1>11 DEF FlushClients, StoreClients, OrderlyInv, OneAtATime, TasksHaveClients, HasClient, Leaving, ArgsOK, TasksSaved, ClientsSaved
<1>12. ASSUME NEW c \in 0 .. MaxClient, NEW t \in 0 .. MaxTask, Restart(c, t)
      PROVE  OrderlyInv'
  <2>1. \A i \in noStore' : i <= clientId'
    BY <1>12 DEF Restart
  <2>2. SUFFICES ASSUME orderly' PROVE Parts'
    BY <2>1 DEF OrderlyInv
  <2>3. orderly /\ Quiet /\ Parts
    BY <1>12, <2>2 DEF Restart, OrderlyInv
  <2>4. taskFile = tasks
    BY <2>3 DEF TasksSaved
  <2>5. \A i \in ClientIdsSet : clientFile[i] = IF i \in noStore THEN None ELSE clients[i]
    BY <2>3 DEF ClientsSaved
  <2>6. \A u \in TaskIds : tasks[u] # None => HasClient(tasks[u])
    BY <2>3 DEF TasksHaveClients, Leaving
  <2>7. tasks' = tasks
    BY <1>12, <2>4, <2>5, <2>6 DEF Restart, Loaded, HasClient
  <2>8. \A i \in ClientIdsSet : clientFile[i] # None => clients'[i] = clientFile[i] /\ i \notin noStore'
    BY <1>12 DEF Restart, LastOf
  <2>9. TasksHaveClients'
    BY <2>5, <2>6, <2>7, <2>8 DEF TasksHaveClients, HasClient
  <2>10. ClientsSaved'
    BY <1>12 DEF Restart, LastOf, ClientsSaved
  <2>11. TasksSaved'
    BY <1>12, <2>4, <2>7 DEF Restart, TasksSaved
  <2>12. OneAtATime' /\ ArgsOK'
    BY <1>12 DEF Restart, OneAtATime, ArgsOK
  <2> QED
    BY <2>9, <2>10, <2>11, <2>12
<1> HIDE DEF IInv
<1> QED
  BY <1>1, <1>2, <1>3, <1>4, <1>5, <1>6, <1>7, <1>8, <1>9, <1>10, <1>11, <1>12 DEF Next, Request

\* Whatever was created, deleted, stored and restarted, in an orderly history no
\* task is ever served for a client that got the id of its own.
THEOREM TasksKeepOwners == Spec => []TaskKeepsOwner
<1>1. OrderlyInv => TaskKeepsOwner
  BY DEF OrderlyInv, TasksHaveClients, HasClient, TaskKeepsOwner
<1> QED
  BY IdsInit, IdsStep, OrderlyInit, OrderlyStep, <1>1, PTL DEF Spec
=============================================================================
