----------------------------- MODULE ConnLimit -----------------------------
(***************************************************************************)
(* The connection limit of a client: CheckFlowAndConnNum and DealClient    *)
(* (server/proxy/base.go), Client.GetConn, CutConn and AddConn             *)
(* (lib/file/obj.go) and the handlers that call them for a visitor.        *)
(*                                                                         *)
(* NowConn goes up by one for each visitor admitted (CutConn) and down by  *)
(* one when its handler returns (AddConn).  Which client is paid back      *)
(* depends on the handler: the tcp, socks5 and http proxy ones read        *)
(* task.Client again when the visitor leaves, the others defer the call    *)
(* on the client of the host as it is right after the check.  handleHttp   *)
(* keeps one visitor connection through requests for several hosts: when   *)
(* the host changes it jumps back to the label reset, gives a slot back    *)
(* and takes another.  Edit may give a host to another client at any time. *)
(*                                                                         *)
(* Bounds: every visitor connects once; an http visitor changes its host   *)
(* at most Resets times.                                                   *)
(***************************************************************************)
EXTENDS ClientHosts, Integers, FiniteSets, FiniteSetsExt

CONSTANTS
  Visitors,
  Asked,      \* the hosts that they ask for
  Kinds,      \* of "tcp" (also socks5 and http proxy), "udp" (also https), "http"
              \* and "secret"
  MaxConn,    \* the limit of every client, 0 for none
  Resets,
  None

ASSUME ConnAssumption ==
  /\ IsFiniteSet(Visitors)
  /\ Asked \subseteq Hosts
  /\ Kinds \subseteq {"tcp", "udp", "http", "secret"}
  /\ MaxConn \in Nat /\ Resets \in Nat
  /\ None \notin Kinds \cup Hosts \cup Clients

VARIABLES
  nowConn,    \* client -> NowConn
  pc,         \* visitor -> where its handler is
  kind,       \* visitor -> the handler
  host,       \* visitor -> the host it asks for
  payer,      \* visitor -> the client that CheckFlowAndConnNum was called for
  deferred,   \* visitor -> client -> AddConn calls that its handler deferred
  isReset,    \* visitor -> the variable of handleHttp
  late,       \* visitor -> response readers that have not run their first line
  resets,     \* visitor -> host changes so far
  disturbed   \* history: clients between which a host went while a visitor on
              \* it was charged for one and would pay back the other

http == <<deferred, isReset, late, resets>>
edits == <<owner, disturbed>>
vars == <<edits, nowConn, pc, kind, host, payer, http>>

\* The handlers that defer AddConn: s.task.Client.AddConn (udp.go),
\* host.Client.AddConn (https.go, http.go).
Deferring == {"udp", "http"}

\* The client of the host as a handler reads it now.
Client(v) == owner[host[v]]

TypeOK ==
  /\ OwnerOK /\ disturbed \subseteq Clients
  /\ nowConn \in [Clients -> Int]
  /\ pc \in [Visitors -> {"idle", "check", "cut", "defer", "link", "serve",
                          "reset", "done"}]
  /\ kind \in [Visitors -> Kinds \cup {None}]
  /\ host \in [Visitors -> Hosts \cup {None}]
  /\ payer \in [Visitors -> Clients \cup {None}]
  /\ deferred \in [Visitors -> [Clients -> 0 .. Resets + 1]]
  /\ isReset \in [Visitors -> BOOLEAN]
  /\ late \in [Visitors -> 0 .. Resets + 1]
  /\ resets \in [Visitors -> 0 .. Resets]
  /\ \A v \in Visitors :
       /\ pc[v] \notin {"idle", "done"} => kind[v] # None /\ host[v] # None
       /\ pc[v] = "reset" => kind[v] = "http"
       /\ pc[v] = "defer" => kind[v] \in Deferring
       /\ pc[v] \in {"cut", "defer"} => payer[v] # None

Init ==
  /\ owner = MadeFor /\ disturbed = {}
  /\ nowConn = [c \in Clients |-> 0]
  /\ pc = [v \in Visitors |-> "idle"]
  /\ kind = [v \in Visitors |-> None]
  /\ host = [v \in Visitors |-> None]
  /\ payer = [v \in Visitors |-> None]
  /\ deferred = [v \in Visitors |-> [c \in Clients |-> 0]]
  /\ isReset = [v \in Visitors |-> FALSE]
  /\ late = [v \in Visitors |-> 0]
  /\ resets = [v \in Visitors |-> 0]

Goto(v, step) == pc' = [pc EXCEPT ![v] = step]

\* AddConn: one connection more is allowed.
AddConn(c) == nowConn' = [nowConn EXCEPT ![c] = @ - 1]

RunDeferred(v) == nowConn' = [c \in Clients |-> nowConn[c] - deferred[v][c]]

\* The handler returns; its variables are gone, nobody reads what a late
\* response reader writes.
Return(v) ==
  /\ Goto(v, "done")
  /\ kind' = [kind EXCEPT ![v] = None]
  /\ host' = [host EXCEPT ![v] = None]
  /\ payer' = [payer EXCEPT ![v] = None]
  /\ deferred' = [deferred EXCEPT ![v] = [c \in Clients |-> 0]]
  /\ isReset' = [isReset EXCEPT ![v] = FALSE]
  /\ late' = [late EXCEPT ![v] = 0]
  /\ UNCHANGED <<edits, resets>>

-----------------------------------------------------------------------------
(* CheckFlowAndConnNum and DealClient                                      *)

\* A visitor connects.  DealBridgeTask passes a secret one to DealClient
\* directly.
Arrive(v, k, h) ==
  /\ pc[v] = "idle"
  /\ kind' = [kind EXCEPT ![v] = k]
  /\ host' = [host EXCEPT ![v] = h]
  /\ Goto(v, IF k = "secret" THEN "link" ELSE "check")
  /\ UNCHANGED <<edits, nowConn, payer, http>>

\* The traffic or the connections are exceeded, or GetInfoByHost finds no host
\* any more.  handleHttp has AddConn calls deferred here after a reset.
Refuse(v) ==
  /\ pc[v] = "check"
  /\ RunDeferred(v) /\ Return(v)

\* GetConn reads NowConn of the client it was called for ...
HasRoom(v) ==
  /\ pc[v] = "check"
  /\ MaxConn = 0 \/ nowConn[Client(v)] < MaxConn
  /\ payer' = [payer EXCEPT ![v] = Client(v)]
  /\ Goto(v, "cut")
  /\ UNCHANGED <<edits, nowConn, kind, host, http>>

\* A mutant of CutConn: every handler goes on as handleHttp does.
CutConnDefers(v) ==
  /\ pc[v] = "cut"
  /\ nowConn' = [nowConn EXCEPT ![payer[v]] = @ + 1]
  /\ Goto(v, "defer")
  /\ UNCHANGED <<edits, kind, host, payer, http>>

\* ... and calls its CutConn.
CutConn(v) ==
  /\ pc[v] = "cut"
  /\ nowConn' = [nowConn EXCEPT ![payer[v]] = @ + 1]
  /\ Goto(v, IF kind[v] \in Deferring THEN "defer" ELSE "link")
  /\ UNCHANGED <<edits, kind, host, payer, http>>

\* defer host.Client.AddConn(): the client is read now, not by the check.
\* handleHttp does so only if !isReset.
Defer(v) ==
  /\ pc[v] = "defer"
  /\ deferred' = IF isReset[v] THEN deferred
                 ELSE [deferred EXCEPT ![v][Client(v)] = @ + 1]
  /\ Goto(v, "link")
  /\ UNCHANGED <<edits, nowConn, kind, host, payer, isReset, late, resets>>

\* SendLinkInfo succeeds and the bytes are copied.  handleHttp starts the
\* goroutine that reads the responses.
Serve(v) ==
  /\ pc[v] = "link"
  /\ Goto(v, "serve")
  /\ late' = [late EXCEPT ![v] = IF kind[v] = "http" THEN @ + 1 ELSE @]
  /\ UNCHANGED <<edits, nowConn, kind, host, payer, deferred, isReset, resets>>

\* A mutant of Leave: a handler that returns gives nothing back.
LeaveKeeps(v) ==
  /\ pc[v] \in {"link", "serve"}
  /\ UNCHANGED nowConn /\ Return(v)

\* A mutant of Leave: a slot that an edit has moved is given back by nobody.
LeaveUnlessEdited(v) ==
  /\ pc[v] \in {"link", "serve"}
  /\ CASE kind[v] # "tcp" -> RunDeferred(v)
       [] kind[v] = "tcp" /\ payer[v] = Client(v) -> AddConn(Client(v))
       [] OTHER -> UNCHANGED nowConn
  /\ Return(v)

\* The password is wrong, no target is up or SendLinkInfo fails, or all bytes
\* are copied: the handler returns and what it deferred runs.  A tcp one calls
\* s.task.Client.AddConn() instead, on the client that the task has by then;
\* nothing was taken for a secret visitor.
Leave(v) ==
  /\ pc[v] \in {"link", "serve"}
  /\ IF kind[v] = "tcp" THEN AddConn(Client(v)) ELSE RunDeferred(v)
  /\ Return(v)

-----------------------------------------------------------------------------
(* handleHttp                                                              *)

\* The first line of the response reader writes the variable the main loop
\* reads, with nothing to order the two.
ReaderStarts(v) ==
  /\ late[v] > 0
  /\ late' = [late EXCEPT ![v] = @ - 1]
  /\ isReset' = [isReset EXCEPT ![v] = FALSE]
  /\ UNCHANGED <<edits, nowConn, pc, kind, host, payer, deferred, resets>>

\* The next request on the connection is for another host.
NextHost(v, h) ==
  /\ pc[v] = "serve" /\ kind[v] = "http"
  /\ h # host[v]
  /\ resets[v] < Resets
  /\ resets' = [resets EXCEPT ![v] = @ + 1]
  /\ host' = [host EXCEPT ![v] = h]
  /\ isReset' = [isReset EXCEPT ![v] = TRUE]
  /\ Goto(v, "reset")
  /\ UNCHANGED <<edits, nowConn, kind, payer, deferred, late>>

\* A mutant of Reset: nothing is given back before the next check.
ResetKeeps(v) ==
  /\ pc[v] = "reset"
  /\ Goto(v, "check")
  /\ UNCHANGED <<edits, nowConn, kind, host, payer, http>>

\* The label reset: host is the new one by now and its client gets a slot.
\* GetInfoByHost finds it, or another one when the hosts were edited since.
Reset(v) ==
  /\ pc[v] = "reset"
  /\ IF isReset[v] THEN AddConn(Client(v)) ELSE UNCHANGED nowConn
  /\ Goto(v, "check")
  /\ \E h \in Asked :
       /\ host' = [host EXCEPT ![v] = h]
       /\ disturbed' = disturbed \cup
            IF isReset[v] /\ owner[h] # Client(v) THEN {owner[h], Client(v)} ELSE {}
  /\ UNCHANGED <<owner, kind, payer, http>>

-----------------------------------------------------------------------------
(* Edit and EditHost (web/controllers/index.go)                            *)

\* The handler of v has read the client of its host and will read it again
\* for the same slot.
ReadsAgain(v) ==
  \/ pc[v] \in {"cut", "defer"}
  \/ pc[v] = "check" /\ isReset[v]
  \/ kind[v] = "tcp" /\ pc[v] \in {"link", "serve"}

\* The host is given to another client.
Edit(h, c) ==
  /\ GiveTo(h, c)
  /\ disturbed' = disturbed \cup
       IF \E v \in Visitors : host[v] = h /\ ReadsAgain(v) THEN {owner[h], c} ELSE {}
  /\ UNCHANGED <<nowConn, pc, kind, host, payer, http>>

-----------------------------------------------------------------------------
\* A step of the handler of v.
Handle(v) ==
  \/ \E k \in Kinds, h \in Asked : Arrive(v, k, h)
  \/ \E h \in Asked : NextHost(v, h)
  \/ Refuse(v) \/ HasRoom(v) \/ CutConn(v) \/ Defer(v)
  \/ Serve(v) \/ Leave(v)
  \/ ReaderStarts(v) \/ Reset(v)

Next ==
  \/ \E v \in Visitors : Handle(v)
  \/ \E h \in Hosts, c \in Clients : Edit(h, c)

Spec == Init /\ [][Next]_vars

-----------------------------------------------------------------------------
(* Properties                                                              *)

\* The handler of v took a slot that it has not given back.
LetIn(v) == payer[v] # None /\ pc[v] \in {"defer", "link", "serve"}

Charged(c) == {v \in Visitors : LetIn(v) /\ payer[v] = c}

Quiet == \A v \in Visitors : pc[v] \in {"idle", "done"}

SameHost == \A v \in Visitors : resets[v] = 0

\* No client loses a slot for good: once every handler has returned NowConn is
\* not above zero, whatever hosts the http visitors went through.  Clients
\* are left out once a host went from one to the other between the moment a
\* visitor's client was read to charge it and the moment it was read again.
NoSlotLost == Quiet => \A c \in Clients \ disturbed : nowConn[c] <= 0

\* obj.go:57, NowConn is "the connection num of now": when nothing is under
\* way no connection is counted.
NowConnSettles == Quiet => \A c \in Clients : nowConn[c] = 0

\* Without a change of host NowConn is the number of visitors let in and not
\* gone, on every path out of the handlers (an http visitor that was refused
\* gives back nothing), for every client but those disturbed by an edit.
NowConnIsCount ==
  SameHost => \A c \in Clients \ disturbed : nowConn[c] = Cardinality(Charged(c))

\* The tcpCount of the dashboard, the sum of all NowConn, is the number of
\* visitors let in and not gone while none of them changes its host: an edit
\* under a visitor moves a slot from one client to the other, it makes none
\* and drops none.
TcpCountIsExact ==
  SameHost =>
    MapThenSumSet(LAMBDA c : nowConn[c], Clients) = Cardinality({v \in Visitors : LetIn(v)})
=============================================================================
