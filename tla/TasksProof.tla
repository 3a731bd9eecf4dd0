----------------------------- MODULE TasksProof -----------------------------
(***************************************************************************)
(* Theorems about Tasks: type correctness and FailedNotListed for every    *)
(* behaviour, ListenerIsListed and DeletedIsDown for the serial            *)
(* environment, with any number of tasks, ports, services and requests.    *)
(***************************************************************************)
EXTENDS Tasks, TLAPS

\* The arguments of a call are there while it runs, and a service that was
\* allocated has a task.
ArgsOK ==
  /\ \A p \in Procs : pc[p] \notin {"idle", "next", "done"} => id[p] \in TaskIds
  /\ \A p \in Procs : pc[p] = "form" => form[p] \in Conf
  /\ \A s \in Services : state[s] # "free" => owner[s] \in TaskIds

\* A listed service belongs to the task it is listed under, and neither waits
\* to be allocated nor has taken itself off the list.
ListedIsOwned ==
  \A t \in TaskIds : runList[t] \in Services =>
    owner[runList[t]] = t /\ state[runList[t]] \notin {"free", "gone"}

Inv == TypeOK /\ ArgsOK /\ ListedIsOwned

-----------------------------------------------------------------------------
(* The serial environment                                                  *)

Live(s) == state[s] \in {"new", "up", "failed"}
Active(r) == pc[r] \notin {"idle", "done"}
NoneLive(t) == \A s \in Services : Live(s) => owner[s] # t

\* Nothing is sent over a configuration connection.
DealRests == pc[Deal] = "idle" /\ opening = {}

\* A request waits for the one before it ...
OneAtATime == \A q, r \in Reqs : Active(q) /\ Active(r) => q = r

\* ... and for the listeners; only its own AddTask starts another.
Settled ==
  \A r \in Reqs : Active(r) /\ pc[r] # "status" =>
    \A s \in Services : state[s] \notin {"new", "failed"}

\* A service that listens or is about to is listed, its task stored.
LiveIsListed ==
  \A s \in Services : Live(s) => runList[owner[s]] = s /\ owner[s] \in stored

\* Edit gives a task another port and mode before it stops the listener it has.
Moving(t) ==
  \E r \in Reqs : id[r] = t /\ op[r] = "Edit" /\ pc[r] \in {"stop", "close"}
LiveIsAsSet ==
  \A s \in Services : Live(s) /\ ~Moving(owner[s]) =>
    /\ kind[s] = conf[owner[s]].mode /\ kind[s] # "secret"
    /\ state[s] = "up" => bound[s] = conf[owner[s]].port

\* What a request has found out by the step it is at.
StepOK(r) ==
  /\ pc[r] = "form" => op[r] = "Edit" \/ (op[r] = "Add" /\ id[r] \notin stored)
  /\ pc[r] = "test" => id[r] \in stored
  /\ pc[r] = "close" => svr[r] = runList[id[r]]
  /\ pc[r] \in {"get", "put", "unlist", "delete"} => NoneLive(id[r])

SerialInv ==
  /\ DealRests /\ OneAtATime /\ Settled /\ LiveIsListed /\ LiveIsAsSet
  /\ \A r \in Reqs : StepOK(r)
-----------------------------------------------------------------------------
(* Type correctness, and no failed service listed                          *)

LEMMA InitInv == Init => Inv
<1> SUFFICES ASSUME Init PROVE Inv
  OBVIOUS
<1>1. TypeOK
  <2>1. kind \in [Services -> Modes \cup {None}]
    BY DEF Init, Conf
  <2> QED
    BY <2>1 DEF Init, TypeOK
<1>2. ArgsOK
  BY DEF Init, ArgsOK
<1>3. ListedIsOwned
  BY TasksAssumption DEF Init, Booted, ListedIsOwned
<1> QED
  BY <1>1, <1>2, <1>3 DEF Inv

\* One step of a call.
LEMMA StepInv ==
  ASSUME Inv, NEW p \in Procs, Step(p)
  PROVE  Inv'
<1> USE TasksAssumption DEF Inv, TypeOK, ArgsOK, ListedIsOwned, Procs, Calls, db, made, procs, chan
<1>1. CASE FormStore(p)
  BY <1>1 DEF FormStore, Goto
<1>2. CASE StartGetTask(p)
  BY <1>2 DEF StartGetTask, Goto, Over
<1>3. CASE AddSecret(p)
  BY <1>3 DEF AddSecret, Goto, AfterAdd, Over
<1>4. CASE AddRefused(p)
  BY <1>4 DEF AddRefused, Goto, AfterAdd, Over
<1>5. CASE StartStatus(p)
  BY <1>5 DEF StartStatus, Goto, Over
<1>6. CASE DelTaskLoad(p)
  BY <1>6 DEF DelTaskLoad, Goto
<1>7. CASE StopNotRunning(p)
  BY <1>7 DEF StopNotRunning, Goto, AfterStop, Over
<1>8. CASE StopLoad(p)
  BY <1>8 DEF StopLoad, Goto
<1>9. CASE StopClose(p)
  BY <1>9 DEF StopClose, Goto
<1>10. CASE StopCloseError(p)
  BY <1>10 DEF StopCloseError, Goto, AfterStop, Over
<1>11. CASE StopCloseNil(p)
  BY <1>11 DEF StopCloseNil, Goto
<1>12. CASE StopGet(p)
  BY <1>12 DEF StopGet, Goto, AfterStop, Over
<1>13. CASE StopPut(p)
  BY <1>13 DEF StopPut, Goto
<1>14. CASE StopUnlist(p)
  BY <1>14 DEF StopUnlist, Goto, AfterStop, Over
<1>15. CASE DelTaskDelete(p)
  BY <1>15 DEF DelTaskDelete, Goto, Over
<1>16. ASSUME NEW s \in Services, AddService(p, s) PROVE Inv'
  BY <1>16 DEF AddService, Goto, AfterAdd, Over, Conf
<1> QED
  BY <1>1, <1>2, <1>3, <1>4, <1>5, <1>6, <1>7, <1>8, <1>9, <1>10, <1>11, <1>12, <1>13, <1>14, <1>15, <1>16 DEF Step

\* A listener of its own accord.
LEMMA ServiceInv ==
  ASSUME Inv, NEW s \in Services, Service(s)
  PROVE  Inv'
<1> USE TasksAssumption DEF Inv, TypeOK, ArgsOK, ListedIsOwned, Procs, db, made, procs, chan
<1>1. CASE ServiceUp(s)
  BY <1>1 DEF ServiceUp, Conf
<1>2. CASE ServiceFails(s)
  BY <1>2 DEF ServiceFails
<1>3. CASE ServiceUnlists(s)
  BY <1>3 DEF ServiceUnlists
<1> QED
  BY <1>1, <1>2, <1>3 DEF Service

\* A request of an operator.
LEMMA WebInv ==
  ASSUME Inv, NEW r \in Reqs, NEW t \in TaskIds, Web(r, t)
  PROVE  Inv'
<1> USE TasksAssumption DEF Inv, TypeOK, ArgsOK, ListedIsOwned, Procs, Calls, db, made, procs, chan,
                          Request, Goto
<1>1. CASE WebStart(r, t)
  BY <1>1 DEF WebStart
<1>2. CASE WebStop(r, t)
  BY <1>2 DEF WebStop
<1>3. CASE WebDel(r, t)
  BY <1>3 DEF WebDel
<1>4. ASSUME NEW f \in Conf, WebAdd(r, t, f) PROVE Inv'
  BY <1>4 DEF WebAdd
<1>5. ASSUME NEW f \in Conf, WebEdit(r, t, f) PROVE Inv'
  BY <1>5 DEF WebEdit
<1> QED
  BY <1>1, <1>2, <1>3, <1>4, <1>5 DEF Web

\* The configuration connection and DealBridgeTask.
LEMMA DealInv ==
  ASSUME Inv, DealTask \/ DealClose \/ \E t \in Temporary, f \in Conf : ConfigTask(t, f)
  PROVE  Inv'
<1> USE TasksAssumption DEF Inv, TypeOK, ArgsOK, ListedIsOwned, Procs, Calls, db, made, procs, chan
<1>1. CASE DealNext
  BY <1>1 DEF DealNext, Goto
<1>2. ASSUME NEW t \in Temporary, DealOpen(t) PROVE Inv'
  BY <1>2 DEF DealOpen, Goto
<1>3. CASE DealClose
  BY <1>3 DEF DealClose, Goto
<1>4. ASSUME NEW t \in Temporary, NEW f \in Conf, ConfigTask(t, f) PROVE Inv'
  BY <1>4 DEF ConfigTask
<1> QED
  BY <1>1, <1>2, <1>3, <1>4 DEF DealTask

LEMMA NextInv == Inv /\ [Next]_vars => Inv'
<1> SUFFICES ASSUME Inv, [Next]_vars PROVE Inv'
  OBVIOUS
<1>1. CASE UNCHANGED vars
  BY <1>1 DEF Inv, TypeOK, ArgsOK, ListedIsOwned, vars, db, made, procs, chan
<1>2. CASE Next
  BY <1>2, StepInv, ServiceInv, WebInv, DealInv DEF Next
<1> QED
  BY <1>1, <1>2

\* Every behaviour keeps the records, the list, the services and the calls in
\* their sets.
THEOREM TasksTypeCorrect == Spec => []TypeOK
<1>1. Inv => TypeOK
  BY DEF Inv
<1> QED
  BY InitInv, NextInv, <1>1, PTL DEF Spec

\* RunList.Delete of a failed start takes its own service off the list: no
\* task is ever listed with a service that has given up.
THEOREM FailedStartLeavesList == Spec => []FailedNotListed
<1>1. Inv => FailedNotListed
  BY DEF Inv, ListedIsOwned, FailedNotListed
<1> QED
  BY InitInv, NextInv, <1>1, PTL DEF Spec

-----------------------------------------------------------------------------
(* The serial environment: the list has every listener                     *)

LEMMA InitSerial == Init => SerialInv
<1> SUFFICES ASSUME Init PROVE SerialInv
  OBVIOUS
<1>1. DealRests /\ OneAtATime /\ Settled
  BY DEF Init, DealRests, OneAtATime, Settled, Active, Procs
<1>2. LiveIsListed
  BY DEF Init, Booted, LiveIsListed, Live
<1>3. LiveIsAsSet
  BY DEF Init, Booted, LiveIsAsSet, Live
<1>4. \A r \in Reqs : StepOK(r)
  BY DEF Init, StepOK, Procs
<1> QED
  BY <1>1, <1>2, <1>3, <1>4 DEF SerialInv

LEMMA StepSerial ==
  ASSUME Inv, SerialInv, NEW p \in Reqs, Step(p)
  PROVE  SerialInv'
<1> USE TasksAssumption DEF Inv, TypeOK, ArgsOK, Procs, Calls, db, made, procs, chan,
      SerialInv, DealRests, OneAtATime, Settled, LiveIsListed, LiveIsAsSet, StepOK,
      Active, Live, NoneLive, Moving
<1>1. CASE FormStore(p)
  BY <1>1 DEF FormStore, Goto
<1>2. CASE StartGetTask(p)
  BY <1>2 DEF StartGetTask, Goto, Over
<1>3. CASE AddSecret(p)
  BY <1>3 DEF AddSecret, Goto, AfterAdd, Over
<1>4. CASE AddRefused(p)
  BY <1>4 DEF AddRefused, Goto, AfterAdd, Over
<1>5. CASE StartStatus(p)
  BY <1>5 DEF StartStatus, Goto, Over
<1>6. CASE DelTaskLoad(p)
  BY <1>6 DEF DelTaskLoad, Goto
<1>7. CASE StopNotRunning(p)
  BY <1>7 DEF StopNotRunning, Goto, AfterStop, Over
<1>8. CASE StopLoad(p)
  BY <1>8 DEF StopLoad, Goto
<1>9. CASE StopClose(p)
  BY <1>9 DEF StopClose, Goto
<1>10. CASE StopCloseError(p)
  BY <1>10 DEF StopCloseError, Goto, AfterStop, Over
<1>11. CASE StopCloseNil(p)
  BY <1>11 DEF StopCloseNil, Goto
<1>12. CASE StopGet(p)
  BY <1>12 DEF StopGet, Goto, AfterStop, Over
<1>13. CASE StopPut(p)
  BY <1>13 DEF StopPut, Goto
<1>14. CASE StopUnlist(p)
  BY <1>14 DEF StopUnlist, Goto, AfterStop, Over
<1>15. CASE DelTaskDelete(p)
  BY <1>15 DEF DelTaskDelete, Goto, Over
<1>16. ASSUME NEW s \in Services, AddService(p, s) PROVE SerialInv'
  BY <1>16 DEF AddService, Goto, AfterAdd, Over, PortFree
<1> QED
  BY <1>1, <1>2, <1>3, <1>4, <1>5, <1>6, <1>7, <1>8, <1>9, <1>10, <1>11, <1>12, <1>13, <1>14, <1>15, <1>16 DEF Step

LEMMA ServiceSerial ==
  ASSUME Inv, SerialInv, NEW s \in Services, Service(s)
  PROVE  SerialInv'
<1> USE TasksAssumption DEF Inv, TypeOK, ArgsOK, Procs, db, made, procs, chan,
      SerialInv, DealRests, OneAtATime, Settled, LiveIsListed, LiveIsAsSet, StepOK,
      Active, Live, NoneLive, Moving
<1>1. CASE ServiceUp(s)
  BY <1>1 DEF ServiceUp
<1>2. CASE ServiceFails(s)
  BY <1>2 DEF ServiceFails
<1>3. CASE ServiceUnlists(s)
  BY <1>3 DEF ServiceUnlists
<1> QED
  BY <1>1, <1>2, <1>3 DEF Service

LEMMA WebSerial ==
  ASSUME Serial, Inv, SerialInv, NEW r \in Reqs, NEW t \in TaskIds, Web(r, t)
  PROVE  SerialInv'
<1> USE TasksAssumption DEF Inv, TypeOK, ArgsOK, Procs, Calls, db, made, procs, chan,
      SerialInv, DealRests, OneAtATime, Settled, LiveIsListed, LiveIsAsSet, StepOK,
      Active, Live, NoneLive, Moving, Request, Goto, Quiet
<1>1. CASE WebStart(r, t)
  BY <1>1 DEF WebStart
<1>2. CASE WebStop(r, t)
  BY <1>2 DEF WebStop
<1>3. CASE WebDel(r, t)
  BY <1>3 DEF WebDel
<1>4. ASSUME NEW f \in Conf, WebAdd(r, t, f) PROVE SerialInv'
  BY <1>4 DEF WebAdd
<1>5. ASSUME NEW f \in Conf, WebEdit(r, t, f) PROVE SerialInv'
  <2>1. (DealRests /\ OneAtATime /\ Settled)'
    BY <1>5 DEF WebEdit
  <2>2. LiveIsListed'
    BY <1>5 DEF WebEdit
  <2>3. LiveIsAsSet'
    BY <1>5 DEF WebEdit
  <2>4. (\A q \in Reqs : StepOK(q))'
    BY <1>5 DEF WebEdit
  <2> QED
    BY <2>1, <2>2, <2>3, <2>4
<1> QED
  BY <1>1, <1>2, <1>3, <1>4, <1>5 DEF Web

LEMMA NextSerial ==
  ASSUME Serial, Temporary = {}, Inv, SerialInv, [Next]_vars
  PROVE  SerialInv'
<1>1. CASE UNCHANGED vars
  BY <1>1 DEF SerialInv, DealRests, OneAtATime, Settled, LiveIsListed, LiveIsAsSet,
              StepOK, Active, Live, NoneLive, Moving, vars, db, made, procs, chan
<1>2. ASSUME NEW s \in Services, Service(s) PROVE SerialInv'
  BY <1>2, ServiceSerial
<1>3. ASSUME NEW p \in Procs, Step(p) PROVE SerialInv'
  <2>1. CASE p \in Reqs
    BY <1>3, <2>1, StepSerial
  <2>2. CASE p = Deal
    BY <1>3, <2>2 DEF SerialInv, DealRests, Step, FormStore, StartGetTask, AddSecret,
      AddRefused, AddService, StartStatus, DelTaskLoad, StopNotRunning, StopLoad,
      StopClose, StopCloseError, StopCloseNil, StopGet, StopPut, StopUnlist, DelTaskDelete
  <2> QED
    BY <2>1, <2>2 DEF Procs
<1>4. ASSUME NEW r \in Reqs, NEW t \in TaskIds, Web(r, t) PROVE SerialInv'
  BY <1>4, WebSerial
<1>5. ~(DealTask \/ DealClose)
  BY DEF SerialInv, DealRests, DealTask, DealNext, DealOpen, DealClose
<1> QED
  BY <1>1, <1>2, <1>3, <1>4, <1>5 DEF Next

LEMMA SerialCorrect ==
  ASSUME Serial, Temporary = {}
  PROVE  Spec => [](Inv /\ SerialInv)
<1>1. Init => Inv /\ SerialInv
  BY InitInv, InitSerial
<1>2. (Inv /\ SerialInv) /\ [Next]_vars => (Inv /\ SerialInv)'
  BY NextInv, NextSerial
<1> QED
  BY <1>1, <1>2, PTL DEF Spec

\* Requests one at a time: whatever was started, edited, stopped and deleted
\* before, RunList has every listener, so StopServer can close it.
THEOREM ListenersStayListed ==
  ASSUME Serial, Temporary = {}
  PROVE  Spec => []ListenerIsListed
<1>1. SerialInv => ListenerIsListed
  BY DEF SerialInv, LiveIsListed, Live, ListenerIsListed
<1> QED
  BY SerialCorrect, <1>1, PTL

\* Requests one at a time: after DelTask no service listens for the task, nor
\* is one about to.
THEOREM DeletedTasksAreDown ==
  ASSUME Serial, Temporary = {}
  PROVE  Spec => []DeletedIsDown
<1>1. SerialInv => DeletedIsDown
  BY DEF SerialInv, LiveIsListed, Live, DeletedIsDown
<1> QED
  BY SerialCorrect, <1>1, PTL
=============================================================================
