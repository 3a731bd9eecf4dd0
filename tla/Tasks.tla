------------------------------- MODULE Tasks -------------------------------
(***************************************************************************)
(* Starting and stopping tunnels: server/server.go, the handlers of        *)
(* web/controllers/index.go that call it, and the part of getConfig and    *)
(* DealBridgeTask that opens and removes the tasks of a temporary client.  *)
(*                                                                         *)
(* A task is a record of JsonDb.Tasks; RunList maps the id of a running    *)
(* task to its proxy.Service, or to nil for a secret or p2p task, which    *)
(* has no listener.  AddTask stores the service first and starts it in a   *)
(* goroutine of its own, so a service can be closed, doubled or replaced   *)
(* before it listens.                                                      *)
(*                                                                         *)
(* Bounds: a web request (Reqs) is one call; Services bounds the calls of  *)
(* NewMode.                                                                *)
(*                                                                         *)
(* Left out: the tasks of mode webServer and httpHostServer, which serve   *)
(* the panel and the hosts under id 0, and the client of a task.           *)
(***************************************************************************)
EXTENDS Naturals, FiniteSets

CONSTANTS
  TaskIds,    \* ids of tasks
  Temporary,  \* NoStore tasks, sent over a configuration connection
  Ports,
  Modes,      \* "tcp" also stands for socks5, httpProxy and file, "secret"
              \* for p2p
  Services,   \* objects NewMode allocates
  Reqs,       \* web requests
  Deal,       \* the goroutine of DealBridgeTask
  None,
  Serial      \* TRUE: web requests wait for each other and for listeners

Procs == Reqs \cup {Deal}

\* What a form says of a task.
Conf == [port : Ports, mode : Modes]

ASSUME TasksAssumption ==
  /\ Temporary \subseteq TaskIds
  /\ Modes \subseteq {"tcp", "udp", "secret"}
  /\ Deal \notin Reqs
  /\ None \notin Services \cup TaskIds
  /\ None \notin Modes /\ None \notin Ports
  /\ "nil" \notin Services \cup {None}
  /\ Serial \in BOOLEAN

VARIABLES
  stored,     \* ids in JsonDb.Tasks
  running,    \* ids whose Status is true
  conf,       \* id -> Port and Mode
  runList,    \* id -> service, "nil" or None
  state,      \* service -> "free", "new", "up", "failed", "gone" or "closed"
  owner,      \* service -> its task
  kind,       \* service -> the mode NewMode made it for
  bound,      \* service -> the port it listens on
  pc, op, id, \* process -> next step, call, argument
  form,       \* process -> the form of the request
  svr,        \* process -> the service StopServer loaded and is about to close
  opening,    \* temporary tasks on their way through OpenTask
  doomed,     \* temporary tasks DealBridgeTask is about to delete
  crashed     \* a goroutine nobody recovers has panicked

db    == <<stored, running, conf>>
made  == <<owner, kind>>
procs == <<pc, op, id, form, svr>>
chan  == <<opening, doomed, crashed>>
vars  == <<db, runList, state, made, bound, procs, chan>>

Calls == {"Add", "Edit", "Start", "Stop", "Del", "Open", "Close"}

TypeOK ==
  /\ stored \subseteq TaskIds /\ running \subseteq TaskIds
  /\ conf \in [TaskIds -> Conf]
  /\ runList \in [TaskIds -> Services \cup {"nil", None}]
  /\ state \in [Services -> {"free", "new", "up", "failed", "gone", "closed"}]
  /\ owner \in [Services -> TaskIds \cup {None}]
  /\ kind \in [Services -> Modes \cup {None}]
  /\ bound \in [Services -> Ports \cup {None}]
  /\ pc \in [Procs -> {"idle", "form", "restart", "test", "status", "load", "stop",
                       "close", "get", "put", "unlist", "delete", "next",
                       "done"}]
  /\ op \in [Procs -> Calls \cup {None}]
  /\ id \in [Procs -> TaskIds \cup {None}]
  /\ form \in [Procs -> Conf \cup {None}]
  /\ svr \in [Procs -> Services \cup {"nil", None}]
  /\ opening \subseteq Temporary /\ doomed \subseteq Temporary
  /\ crashed \in BOOLEAN

\* InitFromCsv has called AddTask for the tasks that were running when the file
\* was written; it lists the public client as if it were a task, too.
Booted(public) ==
  /\ \A t \in TaskIds :
       /\ runList[t] \in Services => t \in running /\ owner[runList[t]] = t
       /\ runList[t] = "nil" => t \in running \/ t = public
  /\ \A s \in Services : owner[s] # None => runList[owner[s]] = s

Init ==
  /\ stored \in SUBSET (TaskIds \ Temporary)
  /\ running \in SUBSET stored
  /\ runList \in [TaskIds -> Services \cup {"nil", None}]
  /\ owner \in [Services -> TaskIds \cup {None}]
  /\ \E public \in TaskIds \cup {None} : Booted(public)
  /\ conf \in [TaskIds -> Conf]
  /\ \A t \in TaskIds : runList[t] \in Services => conf[t].mode # "secret"
  /\ kind = [s \in Services |-> IF owner[s] = None THEN None ELSE conf[owner[s]].mode]
  /\ state = [s \in Services |-> IF owner[s] = None THEN "free" ELSE "new"]
  /\ bound = [s \in Services |-> None]
  /\ pc = [p \in Procs |-> "idle"]
  /\ op = [p \in Procs |-> None]
  /\ id = [p \in Procs |-> None]
  /\ form = [p \in Procs |-> None]
  /\ svr = [p \in Procs |-> None]
  /\ opening = {} /\ doomed = {} /\ crashed = FALSE

\* TestServerPort: listen on the port and close it again.  tcp and udp ports
\* do not conflict.
PortFree(n, m) == ~\E s \in Services : state[s] = "up" /\ bound[s] = n /\ kind[s] = m
PortOk(n, m) == m = "secret" \/ PortFree(n, m)

-----------------------------------------------------------------------------
(* proxy.Service                                                           *)

\* The goroutine AddTask starts: svr.Start() opens the listener.
ServiceUp(s) ==
  /\ state[s] = "new" /\ ~crashed
  /\ PortFree(conf[owner[s]].port, kind[s])
  /\ state' = [state EXCEPT ![s] = "up"]
  /\ bound' = [bound EXCEPT ![s] = conf[owner[s]].port]
  /\ UNCHANGED <<db, runList, made, procs, chan>>

\* Start returns an error: the port is taken, or the ServerIp is not one of
\* this host.
ServiceFails(s) ==
  /\ state[s] = "new" /\ ~crashed
  /\ state' = [state EXCEPT ![s] = "failed"]
  /\ UNCHANGED <<db, runList, made, bound, procs, chan>>

\* A mutant of ServiceUnlists: the error of Start is only logged.
ServiceUnlistsNothing(s) ==
  /\ state[s] = "failed" /\ ~crashed
  /\ state' = [state EXCEPT ![s] = "gone"]
  /\ UNCHANGED <<db, runList, made, bound, procs, chan>>

\* RunList.Delete(t.Id): by key, whoever is listed there by now.
ServiceUnlists(s) ==
  /\ state[s] = "failed" /\ ~crashed
  /\ state' = [state EXCEPT ![s] = "gone"]
  /\ runList' = [runList EXCEPT ![owner[s]] = None]
  /\ UNCHANGED <<db, made, bound, procs, chan>>

-----------------------------------------------------------------------------
(* The calls.  A call c on task t by process p goes through the steps of    *)
(* the functions it calls; pc[p] is the next one.                           *)

\* Nothing runs in a process that has died.
Goto(p, step) == ~crashed /\ pc' = [pc EXCEPT ![p] = step]

\* Where p goes when its call is over.
Over(p) == IF p = Deal THEN "next" ELSE "done"

\* In the serial environment an operator waits until the last request has been
\* answered and every listener has settled.
Quiet ==
  Serial => /\ \A r \in Reqs : pc[r] \in {"idle", "done"}
            /\ \A s \in Services : state[s] \notin {"new", "failed"}

Request(r, c, t, f) ==
  /\ pc[r] = "idle" /\ Quiet
  /\ op' = [op EXCEPT ![r] = c]
  /\ id' = [id EXCEPT ![r] = t]
  /\ form' = [form EXCEPT ![r] = f]
  /\ UNCHANGED <<db, runList, state, made, bound, svr, chan>>

\* IndexController.Add under a new id, after the port of the form was tested.
WebAdd(r, t, f) ==
  /\ t \notin stored \cup Temporary
  /\ \A q \in Reqs : id[q] # t
  /\ PortOk(f.port, f.mode)
  /\ Request(r, "Add", t, f)
  /\ Goto(r, "form")

\* IndexController.Edit; a port that changes was tested, in the mode the task
\* had before.
WebEdit(r, t, f) ==
  /\ t \in stored
  /\ f.port # conf[t].port => PortOk(f.port, conf[t].mode)
  /\ Request(r, "Edit", t, f)
  /\ Goto(r, "form")

WebStart(r, t) == Request(r, "Start", t, None) /\ Goto(r, "restart")
WebStop(r, t)  == Request(r, "Stop", t, None) /\ Goto(r, "stop")
WebDel(r, t)   == Request(r, "Del", t, None) /\ Goto(r, "load")

\* NewTask, or the assignments of Edit followed by UpdateTask.
FormStore(p) ==
  /\ pc[p] = "form"
  /\ stored' = stored \cup {id[p]}
  /\ conf' = [conf EXCEPT ![id[p]] = form[p]]
  /\ running' = IF op[p] = "Add" THEN running \cup {id[p]} ELSE running
  /\ form' = [form EXCEPT ![p] = None]
  /\ Goto(p, IF op[p] = "Add" THEN "test" ELSE "stop")
  /\ UNCHANGED <<runList, state, made, bound, op, id, svr, chan>>

-----------------------------------------------------------------------------
(* AddTask and StartTask                                                   *)

\* StartTask: GetTask.
StartGetTask(p) ==
  /\ pc[p] = "restart"
  /\ Goto(p, IF id[p] \in stored THEN "test" ELSE Over(p))
  /\ UNCHANGED <<db, runList, state, made, bound, op, id, form, svr, chan>>

\* StartTask goes on to set Status, whatever AddTask returned.
AfterAdd(p) == IF op[p] \in {"Start", "Edit"} THEN "status" ELSE Over(p)

AddSecret(p) ==
  /\ pc[p] = "test" /\ conf[id[p]].mode = "secret"
  /\ runList' = [runList EXCEPT ![id[p]] = "nil"]
  /\ Goto(p, AfterAdd(p))
  /\ UNCHANGED <<db, state, made, bound, op, id, form, svr, chan>>

\* The port is taken, out of range or not among allow_ports, or NewMode does
\* not know the mode.
AddRefused(p) ==
  /\ pc[p] = "test" /\ conf[id[p]].mode # "secret"
  /\ Goto(p, AfterAdd(p))
  /\ UNCHANGED <<db, runList, state, made, bound, op, id, form, svr, chan>>

\* A mutant of AddService: the port is not tested.
AddServiceUntested(p, s) ==
  /\ pc[p] = "test" /\ conf[id[p]].mode # "secret"
  /\ state[s] = "free"
  /\ state' = [state EXCEPT ![s] = "new"]
  /\ owner' = [owner EXCEPT ![s] = id[p]]
  /\ kind' = [kind EXCEPT ![s] = conf[id[p]].mode]
  /\ runList' = [runList EXCEPT ![id[p]] = s]
  /\ Goto(p, AfterAdd(p))
  /\ UNCHANGED <<db, bound, op, id, form, svr, chan>>

\* The port is free: NewMode, RunList.Store, go svr.Start().
AddService(p, s) ==
  /\ pc[p] = "test" /\ conf[id[p]].mode # "secret"
  /\ PortFree(conf[id[p]].port, conf[id[p]].mode)
  /\ state[s] = "free"
  /\ state' = [state EXCEPT ![s] = "new"]
  /\ owner' = [owner EXCEPT ![s] = id[p]]
  /\ kind' = [kind EXCEPT ![s] = conf[id[p]].mode]
  /\ runList' = [runList EXCEPT ![id[p]] = s]
  /\ Goto(p, AfterAdd(p))
  /\ UNCHANGED <<db, bound, op, id, form, svr, chan>>

\* t.Status = true, UpdateTask(t).
StartStatus(p) ==
  /\ pc[p] = "status"
  /\ running' = running \cup {id[p]}
  /\ stored' = stored \cup {id[p]}
  /\ Goto(p, Over(p))
  /\ UNCHANGED <<conf, runList, state, made, bound, op, id, form, svr, chan>>

-----------------------------------------------------------------------------
(* StopServer and DelTask                                                  *)

\* Where the caller of StopServer goes on: Edit ignores the result, DelTask
\* deletes the record only after a success.
AfterStop(p, ok) ==
  IF op[p] = "Edit" THEN "restart"
  ELSE IF ok /\ op[p] \in {"Del", "Close"} THEN "delete" ELSE Over(p)

\* A mutant of DelTaskLoad: the record is deleted, its service goes on.
DelTaskLoadSkips(p) ==
  /\ pc[p] = "load"
  /\ Goto(p, "delete")
  /\ UNCHANGED <<db, runList, state, made, bound, op, id, form, svr, chan>>

\* DelTask: is there an entry in RunList at all?
DelTaskLoad(p) ==
  /\ pc[p] = "load"
  /\ Goto(p, IF runList[id[p]] = None THEN "delete" ELSE "stop")
  /\ UNCHANGED <<db, runList, state, made, bound, op, id, form, svr, chan>>

\* StopServer: "task is not running".
StopNotRunning(p) ==
  /\ pc[p] = "stop" /\ runList[id[p]] = None
  /\ Goto(p, AfterStop(p, FALSE))
  /\ UNCHANGED <<db, runList, state, made, bound, op, id, form, svr, chan>>

\* StopServer: RunList.Load.
StopLoad(p) ==
  /\ pc[p] = "stop" /\ runList[id[p]] # None
  /\ svr' = [svr EXCEPT ![p] = runList[id[p]]]
  /\ Goto(p, "close")
  /\ UNCHANGED <<db, runList, state, made, bound, op, id, form, chan>>

\* svr.Close() of a listener that is up; nil has nothing to close.
StopClose(p) ==
  /\ pc[p] = "close"
  /\ svr[p] # "nil" => state[svr[p]] = "up"
  /\ state' = IF svr[p] = "nil" THEN state ELSE [state EXCEPT ![svr[p]] = "closed"]
  /\ svr' = [svr EXCEPT ![p] = None]
  /\ Goto(p, "get")
  /\ UNCHANGED <<db, runList, made, bound, op, id, form, chan>>

\* Close on a listener that is closed already, or on a UDP socket that was
\* never opened, is an error.
StopCloseError(p) ==
  /\ pc[p] = "close" /\ svr[p] # "nil"
  /\ \/ state[svr[p]] = "closed"
     \/ state[svr[p]] \in {"new", "failed", "gone"} /\ kind[svr[p]] = "udp"
  /\ svr' = [svr EXCEPT ![p] = None]
  /\ Goto(p, AfterStop(p, FALSE))
  /\ UNCHANGED <<db, runList, state, made, bound, op, id, form, chan>>

\* Close on a TCP server that has no listener dereferences nil.  The web
\* framework recovers the panic of a request, nobody that of DealBridgeTask.
StopCloseNil(p) ==
  /\ pc[p] = "close" /\ svr[p] # "nil"
  /\ state[svr[p]] \in {"new", "failed", "gone"} /\ kind[svr[p]] # "udp"
  /\ crashed' = (p = Deal)
  /\ svr' = [svr EXCEPT ![p] = None]
  /\ Goto(p, "done")
  /\ UNCHANGED <<db, runList, state, made, bound, op, id, form,
                 opening, doomed>>

\* GetTask and t.Status = false; the entry of RunList stays when the record
\* is gone.
StopGet(p) ==
  /\ pc[p] = "get"
  /\ running' = running \ {id[p]}
  /\ Goto(p, IF id[p] \in stored THEN "put" ELSE AfterStop(p, FALSE))
  /\ UNCHANGED <<stored, conf, runList, state, made, bound, op, id, form,
                 svr, chan>>

\* UpdateTask: stores the record, even if it was deleted meanwhile.
StopPut(p) ==
  /\ pc[p] = "put"
  /\ stored' = stored \cup {id[p]}
  /\ Goto(p, "unlist")
  /\ UNCHANGED <<running, conf, runList, state, made, bound, op, id, form,
                 svr, chan>>

StopUnlist(p) ==
  /\ pc[p] = "unlist"
  /\ runList' = [runList EXCEPT ![id[p]] = None]
  /\ Goto(p, AfterStop(p, TRUE))
  /\ UNCHANGED <<db, state, made, bound, op, id, form, svr, chan>>

DelTaskDelete(p) ==
  /\ pc[p] = "delete"
  /\ stored' = stored \ {id[p]}
  /\ Goto(p, Over(p))
  /\ UNCHANGED <<running, conf, runList, state, made, bound, op, id, form,
                 svr, chan>>

-----------------------------------------------------------------------------
(* Temporary tasks                                                         *)

\* getConfig, NEW_TASK: NewTask, then TestServerPort, which may refuse the port
\* for other reasons too, then OpenTask <- tl.  A configuration connection has
\* one task under way.
ConfigTask(t, f) ==
  /\ t \in Temporary \ stored /\ ~crashed
  /\ opening = {} /\ \A s \in Services : owner[s] # t
  /\ stored' = stored \cup {t}
  /\ running' = running \cup {t}
  /\ conf' = [conf EXCEPT ![t] = f]
  /\ \/ PortOk(f.port, f.mode) /\ opening' = {t}
     \/ f.mode # "secret" /\ opening' = {}
  /\ UNCHANGED <<runList, state, made, bound, procs, doomed, crashed>>

\* Two cases of the select receive from OpenTask; one calls AddTask(t), the
\* other StartTask(t.Id).
DealOpen(t) ==
  /\ pc[Deal] = "idle"
  /\ t \in opening
  /\ opening' = {}
  /\ id' = [id EXCEPT ![Deal] = t]
  /\ \/ op' = [op EXCEPT ![Deal] = "Open"] /\ Goto(Deal, "test")
     \/ op' = [op EXCEPT ![Deal] = "Start"] /\ Goto(Deal, "restart")
  /\ UNCHANGED <<db, runList, state, made, bound, form, svr, doomed, crashed>>

\* case id := <-Bridge.CloseClient: DelTunnelAndHostByClientId(id, true)
\* collects the NoStore tasks of the client.
DealClose ==
  /\ pc[Deal] = "idle"
  /\ stored \cap Temporary # {}
  /\ doomed' = stored \cap Temporary
  /\ op' = [op EXCEPT ![Deal] = "Close"]
  /\ Goto(Deal, "next")
  /\ UNCHANGED <<db, runList, state, made, bound, id, form, svr, opening,
                 crashed>>

\* A mutant of DealNext: a task whose DelTask failed is tried again.
DealNextRetries ==
  /\ pc[Deal] = "next"
  /\ \/ \E t \in doomed :
          /\ doomed' = doomed \cap stored
          /\ id' = [id EXCEPT ![Deal] = t]
          /\ Goto(Deal, "load")
          /\ UNCHANGED op
     \/ /\ doomed = {}
        /\ op' = [op EXCEPT ![Deal] = None]
        /\ id' = [id EXCEPT ![Deal] = None]
        /\ Goto(Deal, "idle")
        /\ UNCHANGED doomed
  /\ UNCHANGED <<db, runList, state, made, bound, form, svr, opening, crashed>>

\* DelTask of the next one, or back to the select.
DealNext ==
  /\ pc[Deal] = "next"
  /\ \/ \E t \in doomed :
          /\ doomed' = doomed \ {t}
          /\ id' = [id EXCEPT ![Deal] = t]
          /\ Goto(Deal, "load")
          /\ UNCHANGED op
     \/ /\ doomed = {}
        /\ op' = [op EXCEPT ![Deal] = None]
        /\ id' = [id EXCEPT ![Deal] = None]
        /\ Goto(Deal, "idle")
        /\ UNCHANGED doomed
  /\ UNCHANGED <<db, runList, state, made, bound, form, svr, opening, crashed>>

-----------------------------------------------------------------------------
Service(s) == ServiceUp(s) \/ ServiceFails(s) \/ ServiceUnlists(s)

Step(p) ==
  \/ FormStore(p) \/ StartGetTask(p)
  \/ AddSecret(p) \/ AddRefused(p) \/ \E s \in Services : AddService(p, s)
  \/ StartStatus(p) \/ DelTaskLoad(p) \/ StopNotRunning(p) \/ StopLoad(p)
  \/ StopClose(p) \/ StopCloseError(p) \/ StopCloseNil(p)
  \/ StopGet(p) \/ StopPut(p) \/ StopUnlist(p) \/ DelTaskDelete(p)

Web(r, t) ==
  \/ WebStart(r, t) \/ WebStop(r, t) \/ WebDel(r, t)
  \/ \E f \in Conf : WebAdd(r, t, f) \/ WebEdit(r, t, f)

DealTask == DealNext \/ \E t \in Temporary : DealOpen(t)

Next ==
  \/ \E s \in Services : Service(s)
  \/ \E p \in Procs : Step(p)
  \/ \E r \in Reqs, t \in TaskIds : Web(r, t)
  \/ \E t \in Temporary, f \in Conf : ConfigTask(t, f)
  \/ DealTask
  \/ DealClose

Spec == Init /\ [][Next]_vars

\* Goroutines that can run do run.
Fairness ==
  /\ \A s \in Services : WF_vars(Service(s))
  /\ \A p \in Procs : WF_vars(Step(p))
  /\ WF_vars(DealTask)

FairSpec == Spec /\ Fairness

-----------------------------------------------------------------------------
(* Properties                                                              *)

\* A service whose start failed leaves RunList, however its id was reused
\* meanwhile: RunList never reports a task as running because of it.
FailedNotListed ==
  \A t \in TaskIds : runList[t] \in Services => state[runList[t]] # "gone"

\* Every listener can be stopped: RunList has its service, whatever was started
\* and stopped before (requests one at a time; two starts at once lose one).
ListenerIsListed ==
  \A s \in Services : state[s] = "up" => runList[owner[s]] = s

\* A task that was deleted does not listen.
DeletedIsDown ==
  \A s \in Services : state[s] \in {"new", "up"} => owner[s] \in stored

\* DealBridgeTask gets back to its select, unless the process has died.
DealReturns == []<>(pc[Deal] = "idle" \/ crashed)
=============================================================================
