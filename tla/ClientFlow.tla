---------------------------- MODULE ClientFlow ----------------------------
(***************************************************************************)
(* The traffic of a client and its limit: Flow.Add of its tunnels and      *)
(* hosts (lib/file/obj.go), dealClientData (server/server.go), which       *)
(* clears the client's flow and sums it up again from them, and the flow   *)
(* half of CheckFlowAndConnNum (server/proxy/base.go).                     *)
(*                                                                         *)
(* dealClientData runs once a minute (dealClientFlow) and for each web     *)
(* request of the client list and of the dashboard, without a lock: runs   *)
(* overlap, and each += on the flow of a client is a load and a store.     *)
(*                                                                         *)
(* Inlet and export flow are one number here, in units of the limit.  A    *)
(* host made during a run is not visited by it.                            *)
(*                                                                         *)
(* Bounds: a tunnel carries at most MaxUsed units and is not given back to *)
(* a client that had it; of Runs, the ticker goes on for ever, the others  *)
(* are web requests that each run once.                                    *)
(***************************************************************************)
EXTENDS ClientHosts, Naturals, FiniteSets

CONSTANTS
  Runs,       \* goroutines that run dealClientData
  Ticker,     \* the one of dealClientFlow, the others are web requests
  Limit,      \* FlowLimit of every client, 0 for none
  MaxUsed,
  NoClient

ASSUME FlowAssumption ==
  /\ Limit \in Nat /\ MaxUsed \in Nat
  /\ IsFiniteSet(Hosts)
  /\ Ticker \in Runs
  /\ NoClient \notin Clients

VARIABLES
  alive,      \* hosts in the database
  used,       \* host -> its Flow
  flow,       \* client -> its Flow
  clients,    \* run -> clients it has yet to visit
  now,        \* run -> the client it is summing up
  todo,       \* run -> hosts not visited yet for that client
  sum,        \* run -> the sum it is about to store, as a set
  had,        \* history: host -> its clients so far
  mixed       \* history: clients whose flow two runs worked on at once, until
              \* a run that is alone on it clears it

runs == <<clients, now, todo, sum>>
flowVars == <<owner, alive, used, flow, runs, had, mixed>>

FlowTypeOK ==
  /\ OwnerOK
  /\ alive \subseteq Hosts
  /\ used \in [Hosts -> 0 .. MaxUsed]
  /\ flow \in [Clients -> Nat]
  /\ clients \in [Runs -> SUBSET Clients]
  /\ now \in [Runs -> Clients \cup {NoClient}]
  /\ todo \in [Runs -> SUBSET Hosts]
  /\ sum \in [Runs -> SUBSET Nat]
  /\ had \in [Hosts -> SUBSET Clients]
  /\ mixed \subseteq Clients
  /\ \A r \in Runs : (todo[r] # {} \/ sum[r] # {}) => now[r] # NoClient

FlowInit ==
  /\ owner = MadeFor
  /\ alive = {}
  /\ used = [p \in Hosts |-> 0]
  /\ flow = [c \in Clients |-> 0]
  /\ clients = [r \in Runs |-> IF r = Ticker THEN {} ELSE Clients]
  /\ now = [r \in Runs |-> NoClient]
  /\ todo = [r \in Runs |-> {}]
  /\ sum = [r \in Runs |-> {}]
  /\ had = [p \in Hosts |-> {MadeFor[p]}]
  /\ mixed = {}

-----------------------------------------------------------------------------
\* NewTask, NewHost: t.Flow = new(Flow).
NewHost(p) ==
  /\ p \notin alive /\ used[p] = 0
  /\ alive' = alive \cup {p}
  /\ UNCHANGED <<owner, used, flow, runs, had, mixed>>

\* DelTask, DelHost: the flow of the record goes with it.
DelHost(p) ==
  /\ p \in alive
  /\ alive' = alive \ {p}
  /\ UNCHANGED <<owner, used, flow, runs, had, mixed>>

\* Edit, EditHost: the host and its flow go to another client.
FlowEdit(p, c) ==
  /\ p \in alive /\ c \notin had[p]
  /\ GiveTo(p, c)
  /\ had' = [had EXCEPT ![p] = @ \cup {c}]
  /\ UNCHANGED <<alive, used, flow, runs, mixed>>

\* Flow.Add at the end of a copy.
FlowAdd(p) ==
  /\ p \in alive /\ used[p] < MaxUsed
  /\ used' = [used EXCEPT ![p] = @ + 1]
  /\ UNCHANGED <<owner, alive, flow, runs, had, mixed>>

\* CheckFlowAndConnNum: "Traffic exceeded".
Exceeded(c) == Limit > 0 /\ Limit < flow[c]

-----------------------------------------------------------------------------
(* dealClientData                                                          *)

\* The ticker of dealClientFlow; GetClientList and GetDashboardData come here
\* once for each request.
Tick ==
  /\ clients[Ticker] = {} /\ now[Ticker] = NoClient
  /\ clients' = [clients EXCEPT ![Ticker] = Clients]
  /\ UNCHANGED <<owner, alive, used, flow, now, todo, sum, had, mixed>>

Alone(r, c) == \A q \in Runs \ {r} : now[q] # c

\* A mutant of Zero: the old sum is kept.
ZeroKeeps(r, c) ==
  /\ c \in clients[r] /\ now[r] = NoClient
  /\ clients' = [clients EXCEPT ![r] = @ \ {c}]
  /\ now' = [now EXCEPT ![r] = c]
  /\ todo' = [todo EXCEPT ![r] = alive]
  /\ mixed' = IF Alone(r, c) THEN mixed \ {c} ELSE mixed \cup {c}
  /\ UNCHANGED <<owner, alive, used, flow, sum, had>>

\* The next client of the range: its flow is set to zero.
Zero(r, c) ==
  /\ c \in clients[r] /\ now[r] = NoClient
  /\ clients' = [clients EXCEPT ![r] = @ \ {c}]
  /\ now' = [now EXCEPT ![r] = c]
  /\ todo' = [todo EXCEPT ![r] = alive]
  /\ flow' = [flow EXCEPT ![c] = 0]
  /\ mixed' = IF Alone(r, c) THEN mixed \ {c} ELSE mixed \cup {c}
  /\ UNCHANGED <<owner, alive, used, sum, had>>

\* One host or tunnel, in any order: it is passed over if it is another
\* client's; one that was deleted meanwhile may be visited or not.
Pass(r, p) ==
  /\ p \in todo[r] /\ sum[r] = {}
  /\ owner[p] # now[r] \/ p \notin alive
  /\ todo' = [todo EXCEPT ![r] = @ \ {p}]
  /\ UNCHANGED <<owner, alive, used, flow, clients, now, sum, had, mixed>>

\* A mutant of Load: the host is not what was there before plus the host's.
LoadLast(r, p) ==
  /\ p \in todo[r] /\ sum[r] = {}
  /\ owner[p] = now[r]
  /\ todo' = [todo EXCEPT ![r] = @ \ {p}]
  /\ sum' = [sum EXCEPT ![r] = {used[p]}]
  /\ UNCHANGED <<owner, alive, used, flow, clients, now, had, mixed>>

\* v.Flow += h.Flow: both are loaded ...
Load(r, p) ==
  /\ p \in todo[r] /\ sum[r] = {}
  /\ owner[p] = now[r]
  /\ todo' = [todo EXCEPT ![r] = @ \ {p}]
  /\ sum' = [sum EXCEPT ![r] = {flow[now[r]] + used[p]}]
  /\ UNCHANGED <<owner, alive, used, flow, clients, now, had, mixed>>

\* ... and the sum is stored, whatever another run stored in between.
Store(r) ==
  \E n \in sum[r] :
    /\ flow' = [flow EXCEPT ![now[r]] = n]
    /\ sum' = [sum EXCEPT ![r] = {}]
    /\ UNCHANGED <<owner, alive, used, clients, now, todo, had, mixed>>

SumDone(r) ==
  /\ now[r] # NoClient /\ todo[r] = {} /\ sum[r] = {}
  /\ now' = [now EXCEPT ![r] = NoClient]
  /\ UNCHANGED <<owner, alive, used, flow, clients, todo, sum, had, mixed>>

Run(r) ==
  \/ r = Ticker /\ Tick
  \/ Store(r) \/ SumDone(r)
  \/ \E c \in Clients : Zero(r, c)
  \/ \E p \in Hosts : Pass(r, p) \/ Load(r, p)

FlowNext ==
  \/ \E p \in Hosts : NewHost(p) \/ DelHost(p) \/ FlowAdd(p)
  \/ \E p \in Hosts, c \in Clients : FlowEdit(p, c)
  \/ \E r \in Runs : Run(r)

-----------------------------------------------------------------------------
(* Properties                                                              *)

Of(c) == {p \in alive : owner[p] = c}
Ever(c) == {p \in Hosts : c \in had[p]}

\* What the hosts of S transferred, unit by unit.
Traffic(S) == Cardinality({u \in S \X (1 .. MaxUsed) : u[2] <= used[u[1]]})

\* Traffic that goes on while dealClientData sums up is never counted twice,
\* nor that of a host deleted or given away meanwhile, whatever clients other
\* runs are on: only a client that two runs work on at once is left out, until
\* a run that is alone on it has cleared its flow.
NeverOvercounted == \A c \in Clients \ mixed : flow[c] <= Traffic(Ever(c))

OnlyTicker == \A r \in Runs \ {Ticker} : clients[r] = {} /\ now[r] = NoClient

\* A client whose hosts stay above the limit is refused again and again,
\* unless web requests keep clearing its flow: the errors that overlapping
\* runs leave behind do not outlast them.
ExcessIsSeen ==
  \A c \in Clients :
    <>[](OnlyTicker /\ Limit > 0 /\ Traffic(Of(c)) > Limit) => []<>Exceeded(c)
=============================================================================
