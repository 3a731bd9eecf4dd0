---------------------------- MODULE ClientLimits ----------------------------
(***************************************************************************)
(* The two limits of a client that CheckFlowAndConnNum compares            *)
(* (server/proxy/base.go): its connections (ConnLimit) and its traffic     *)
(* (ClientFlow).  They share the clients, their hosts and whose each host  *)
(* is, but no other variable, so a behaviour is about the visitors or      *)
(* about the traffic, with the edits of the hosts in both; that a client   *)
(* with exceeded traffic is refused is a Refuse at any time in ConnLimit.  *)
(***************************************************************************)
EXTENDS ConnLimit, ClientFlow

VARIABLE about   \* "visitors" or "traffic"

\* The variables of each limit but the shared owner.
connOnly == <<disturbed, nowConn, pc, kind, host, payer, http>>
flowOnly == <<alive, used, flow, runs, had, mixed>>

limitVars == <<about, owner, connOnly, flowOnly>>

LimitsInit == about \in {"visitors", "traffic"} /\ Init /\ FlowInit

LimitsNext ==
  \/ about = "visitors" /\ Next /\ UNCHANGED <<about, flowOnly>>
  \/ about = "traffic" /\ FlowNext /\ UNCHANGED <<about, connOnly>>

\* The ticker of dealClientFlow goes on and every run of dealClientData ends.
LimitsSpec ==
  /\ LimitsInit /\ [][LimitsNext]_limitVars
  /\ \A r \in Runs :
       WF_limitVars(about = "traffic" /\ Run(r) /\ UNCHANGED <<about, connOnly>>)

\* Every variable of both limits stays in its set.
LimitsTypeOK == TypeOK /\ FlowTypeOK
=============================================================================
