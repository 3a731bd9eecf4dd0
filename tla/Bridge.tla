------------------------------- MODULE Bridge -------------------------------
(***************************************************************************)
(* The session table of the nps server (bridge/bridge.go).                 *)
(*                                                                         *)
(* Every npc opens a signal connection (WORK_MAIN) and a tunnel connection *)
(* (WORK_CHAN), possibly a file tunnel (WORK_FILE) and a configuration     *)
(* connection (WORK_CONFIG).  Their handlers are goroutines of their own   *)
(* and meet in Bridge.Client, a sync.Map from client ids to *Client.       *)
(* Four kinds of goroutines remove an entry, all of them through           *)
(* DelClient: the reader of a signal connection (GetHealthFromClient), the *)
(* ping loop, a web request and a failed configuration connection.         *)
(* DelClient reports the removal over the unbuffered channel CloseClient   *)
(* to the one goroutine that runs DealBridgeTask (server/server.go).       *)
(*                                                                         *)
(* A *Client object is named by the connection whose handler allocated it, *)
(* so the heap fields signal, tunnel, file and retryTime are indexed by    *)
(* Conns.  Bounds: a member of Conns is accepted once, a member of Admins  *)
(* is one request; retryTime saturates at RetryLimit, the only value the   *)
(* code compares it with.                                                  *)
(***************************************************************************)
EXTENDS Naturals

CONSTANTS
  Ids,        \* client ids of the database
  PubIds,     \* the client of public_vkey (NoDisplay)
  Conns,      \* connections accepted on the bridge port
  Kinds,      \* the work flags npcs send, among WorkFlags
  Admins,     \* web requests that run DelClientConnect
  Known,      \* clients in the database when nps starts
  Ping,       \* the goroutine that runs Bridge.ping
  None,       \* nil
  RetryLimit  \* pings a half-open session survives, 3 in the code

Procs == Conns \cup Admins \cup {Ping}

WorkFlags == {"main", "chan", "file", "config"}

\* The steps of DelClient.
DelSteps == {"load", "close", "delete", "send"}

ASSUME BridgeAssumption ==
  /\ PubIds \subseteq Known /\ Known \subseteq Ids
  /\ Kinds \subseteq WorkFlags
  /\ RetryLimit \in Nat \ {0}
  /\ None \notin Procs \cup Ids
  /\ Ping \notin Conns \cup Admins
  /\ Conns \cap Admins = {}

VARIABLES
  Client,     \* sync.Map: id -> object, None when there is no entry
  signal,     \* object -> its signal connection
  tunnel,     \* object -> the connection under its mux
  file,       \* object -> the connection under its file mux
  retryTime,  \* object -> pings that found it half open
  kind, cid,  \* connection -> work flag, verified client id
  open,       \* connections that are up
  pc, ref,    \* goroutine -> next step, local variable v
  target,     \* goroutine -> the id DelClient was called with
  arr,        \* ids the ping loop is going to delete
  db,         \* id -> "new", "on", "off" or "gone": Clients in JsonDb
  noStore,    \* ids created by a configuration connection
  dealing     \* the id DealBridgeTask is cleaning up

heap == <<Client, signal, tunnel, file, retryTime>>
net  == <<kind, cid, open>>
gor  == <<pc, ref, target, arr>>
data == <<db, noStore, dealing>>
vars == <<heap, net, gor, data>>

TypeOK ==
  /\ Client \in [Ids -> Conns \cup {None}]
  /\ signal \in [Conns -> Conns \cup {None}]
  /\ tunnel \in [Conns -> Conns \cup {None}]
  /\ file \in [Conns -> Conns \cup {None}]
  /\ retryTime \in [Conns -> 0 .. RetryLimit]
  /\ kind \in [Conns -> WorkFlags \cup {"none"}]
  /\ cid \in [Conns -> Ids \cup {None}]
  /\ open \subseteq Conns
  /\ pc \in [Procs -> DelSteps \cup
               {"idle", "accepted", "found", "reading", "config", "store",
                "hangup", "next", "done"}]
  /\ ref \in [Procs -> Conns \cup {None}]
  /\ target \in [Procs -> Ids \cup {None}]
  /\ arr \subseteq Ids
  /\ db \in [Ids -> {"new", "on", "off", "gone"}]
  /\ noStore \subseteq Ids
  /\ dealing \in Ids \cup {None}

Init ==
  /\ Client = [i \in Ids |-> None]
  /\ signal = [o \in Conns |-> None]
  /\ tunnel = [o \in Conns |-> None]
  /\ file = [o \in Conns |-> None]
  /\ retryTime = [o \in Conns |-> 0]
  /\ kind = [c \in Conns |-> "none"]
  /\ cid = [c \in Conns |-> None]
  /\ open = {}
  /\ pc = [p \in Procs |-> "idle"]
  /\ ref = [p \in Procs |-> None]
  /\ target = [p \in Procs |-> None]
  /\ arr = {}
  /\ db = [i \in Ids |-> IF i \in Known THEN "on" ELSE "new"]
  /\ noStore = {}
  /\ dealing = None

-----------------------------------------------------------------------------
(* Connections arrive and break.                                           *)

\* cliProcess up to typeDeal: the key belongs to a client that is enabled.
\* A failed handshake touches none of this state.
Accept(c, k, id) ==
  /\ pc[c] = "idle"
  /\ db[id] = "on"
  /\ kind' = [kind EXCEPT ![c] = k]
  /\ cid' = [cid EXCEPT ![c] = id]
  /\ open' = open \cup {c}
  /\ pc' = [pc EXCEPT ![c] = "accepted"]
  /\ UNCHANGED <<heap, ref, target, arr, data>>

\* The peer goes away, or the transport gives up on it.
Disconnect(c) ==
  /\ c \in open
  /\ open' = open \ {c}
  /\ UNCHANGED <<heap, kind, cid, gor, data>>

-----------------------------------------------------------------------------
(* typeDeal                                                                *)

\* What sync.Map.LoadOrStore does for the handler of c: either c's new object
\* becomes the entry and the handler goes to stored, or v is the old one and
\* the new object is garbage.
Stores(c) == Client[cid[c]] = None

LoadOrStore(c, stored) ==
  /\ Client' = IF Stores(c) THEN [Client EXCEPT ![cid[c]] = c] ELSE Client
  /\ ref' = IF Stores(c) THEN ref ELSE [ref EXCEPT ![c] = Client[cid[c]]]
  /\ pc' = [pc EXCEPT ![c] = IF Stores(c) THEN stored ELSE "found"]

\* WORK_MAIN of the public client is refused.
RefusePublic(c) ==
  /\ pc[c] = "accepted" /\ kind[c] = "main"
  /\ cid[c] \in PubIds
  /\ open' = open \ {c}
  /\ pc' = [pc EXCEPT ![c] = "done"]
  /\ UNCHANGED <<heap, kind, cid, ref, target, arr, data>>

\* WORK_MAIN: NewClient(nil, nil, c, vs).
MainStore(c) ==
  /\ pc[c] = "accepted" /\ kind[c] = "main"
  /\ cid[c] \notin PubIds
  /\ signal' = IF Stores(c) THEN [signal EXCEPT ![c] = c] ELSE signal
  /\ LoadOrStore(c, "reading")
  /\ UNCHANGED <<tunnel, file, retryTime, net, target, arr, data>>

\* Mutant: the handler makes sure that the session it found is the entry.
MainTakeOverStores(c) ==
  /\ pc[c] = "found" /\ kind[c] = "main"
  /\ Client' = [Client EXCEPT ![cid[c]] = ref[c]]
  /\ signal' = [signal EXCEPT ![ref[c]] = c]
  /\ pc' = [pc EXCEPT ![c] = "reading"]
  /\ ref' = [ref EXCEPT ![c] = None]
  /\ UNCHANGED <<tunnel, file, retryTime, kind, cid, open, target, arr, data>>

\* WORK_MAIN with an entry: tell the old connection, become the signal.
\* v may meanwhile have left the table.
MainTakeOver(c) ==
  /\ pc[c] = "found" /\ kind[c] = "main"
  /\ signal' = [signal EXCEPT ![ref[c]] = c]
  /\ pc' = [pc EXCEPT ![c] = "reading"]
  /\ ref' = [ref EXCEPT ![c] = None]
  /\ UNCHANGED <<Client, tunnel, file, retryTime, kind, cid, open, target,
                 arr, data>>

\* WORK_CHAN: NewClient(muxConn, nil, nil, vs).
ChanStore(c) ==
  /\ pc[c] = "accepted" /\ kind[c] = "chan"
  /\ tunnel' = IF Stores(c) THEN [tunnel EXCEPT ![c] = c] ELSE tunnel
  /\ LoadOrStore(c, "done")
  /\ UNCHANGED <<signal, file, retryTime, net, target, arr, data>>

ChanAttach(c) ==
  /\ pc[c] = "found" /\ kind[c] = "chan"
  /\ tunnel' = [tunnel EXCEPT ![ref[c]] = c]
  /\ pc' = [pc EXCEPT ![c] = "done"]
  /\ ref' = [ref EXCEPT ![c] = None]
  /\ UNCHANGED <<Client, signal, file, retryTime, net, target, arr, data>>

\* WORK_FILE: NewClient(nil, muxConn, nil, vs).
FileStore(c) ==
  /\ pc[c] = "accepted" /\ kind[c] = "file"
  /\ file' = IF Stores(c) THEN [file EXCEPT ![c] = c] ELSE file
  /\ LoadOrStore(c, "done")
  /\ UNCHANGED <<signal, tunnel, retryTime, net, target, arr, data>>

FileAttach(c) ==
  /\ pc[c] = "found" /\ kind[c] = "file"
  /\ file' = [file EXCEPT ![ref[c]] = c]
  /\ pc' = [pc EXCEPT ![c] = "done"]
  /\ ref' = [ref EXCEPT ![c] = None]
  /\ UNCHANGED <<Client, signal, tunnel, retryTime, net, target, arr, data>>

\* WORK_CONFIG: getConfig starts with the verified client in its variable
\* client (target[c]), unless that client may not be configured this way.
ConfigStart(c) ==
  /\ pc[c] = "accepted" /\ kind[c] = "config"
  /\ \/ /\ db[cid[c]] # "gone"
        /\ pc' = [pc EXCEPT ![c] = "config"]
        /\ target' = [target EXCEPT ![c] = cid[c]]
        /\ UNCHANGED open
     \/ /\ cid[c] \notin PubIds \/ db[cid[c]] = "gone"
        /\ open' = open \ {c}
        /\ pc' = [pc EXCEPT ![c] = "done"]
        /\ UNCHANGED target
  /\ UNCHANGED <<heap, kind, cid, ref, arr, data>>

-----------------------------------------------------------------------------
(* getConfig                                                               *)

\* NEW_CONF: NewClient stores a temporary client under a new id.
\* Bound: a connection sends NEW_CONF at most once.
NewConf(c, id) ==
  /\ pc[c] = "config" /\ c \in open
  /\ target[c] = cid[c]
  /\ id \notin PubIds
  /\ db[id] = "new"
  /\ db' = [db EXCEPT ![id] = "on"]
  /\ noStore' = noStore \cup {id}
  /\ target' = [target EXCEPT ![c] = id]
  /\ pc' = [pc EXCEPT ![c] = "store"]
  /\ UNCHANGED <<heap, net, ref, arr, dealing>>

\* NEW_CONF, after the key was written to the npc: the table gets an empty
\* object, whatever was there.
ConfStore(c) ==
  /\ pc[c] = "store"
  /\ Client' = [Client EXCEPT ![target[c]] = c]
  /\ pc' = [pc EXCEPT ![c] = "config"]
  /\ UNCHANGED <<signal, tunnel, file, retryTime, net, ref, target, arr, data>>

\* NEW_HOST or NEW_TASK failed: DelClient(client.Id) before the connection
\* is closed.
ConfigFail(c) ==
  /\ pc[c] = "config" /\ c \in open
  /\ pc' = [pc EXCEPT ![c] = "load"]
  /\ UNCHANGED <<heap, net, ref, target, arr, data>>

\* ReadFlag failed.
ConfigEnd(c) ==
  /\ pc[c] = "config" /\ c \notin open
  /\ pc' = [pc EXCEPT ![c] = "hangup"]
  /\ UNCHANGED <<heap, net, ref, target, arr, data>>

\* c.Close(), the last statement of getConfig.
ConfigClose(c) ==
  /\ pc[c] = "hangup"
  /\ open' = open \ {c}
  /\ pc' = [pc EXCEPT ![c] = "done"]
  /\ UNCHANGED <<heap, kind, cid, ref, target, arr, data>>

-----------------------------------------------------------------------------
(* GetHealthFromClient and ping: who calls DelClient                       *)

\* Mutant: the reader leaves without DelClient.
ReadErrorForgets(c) ==
  /\ pc[c] = "reading" /\ c \notin open
  /\ pc' = [pc EXCEPT ![c] = "done"]
  /\ UNCHANGED <<heap, net, ref, target, arr, data>>

\* GetHealthInfo failed: the loop ends in DelClient(id), which names the
\* client and not the connection.
ReadError(c) ==
  /\ pc[c] = "reading" /\ c \notin open
  /\ pc' = [pc EXCEPT ![c] = "load"]
  /\ target' = [target EXCEPT ![c] = cid[c]]
  /\ UNCHANGED <<heap, net, ref, arr, data>>

HalfOpen(o) == tunnel[o] = None \/ signal[o] = None

\* Mutant: values collected where keys are meant.
PingScanValues ==
  /\ pc[Ping] = "idle"
  /\ arr' = {Client[i] : i \in Ids} \ {None}
  /\ pc' = [pc EXCEPT ![Ping] = "next"]
  /\ UNCHANGED <<heap, net, ref, target, data>>

\* Mutant: only v.tunnel == nil counts as half open.
PingScanTunnelOnly ==
  /\ pc[Ping] = "idle"
  /\ LET Bare(o) == o # None /\ tunnel[o] = None
         Late(o) == retryTime[o] + 1 >= RetryLimit
     IN /\ retryTime' = [o \in Conns |->
              IF (\E i \in Ids : Client[i] = o) /\ Bare(o) /\ ~Late(o)
              THEN retryTime[o] + 1 ELSE retryTime[o]]
        /\ arr' = {i \in Ids :
             \/ Bare(Client[i]) /\ Late(Client[i])
             \/ Client[i] # None /\ ~Bare(Client[i])
                  /\ tunnel[Client[i]] \notin open}
  /\ pc' = [pc EXCEPT ![Ping] = "next"]
  /\ UNCHANGED <<Client, signal, tunnel, file, net, ref, target, data>>

\* Mutant: tunnel.IsClose is not looked at.
PingScanNoIsClose ==
  /\ pc[Ping] = "idle"
  /\ LET Slow(i) == Client[i] # None /\ HalfOpen(Client[i])
     IN /\ retryTime' = [o \in Conns |->
              IF (\E i \in Ids : Client[i] = o /\ Slow(i)) /\ retryTime[o] < RetryLimit
              THEN retryTime[o] + 1 ELSE retryTime[o]]
        /\ arr' = {i \in Ids : Slow(i) /\ retryTime[Client[i]] + 1 >= RetryLimit}
  /\ pc' = [pc EXCEPT ![Ping] = "next"]
  /\ UNCHANGED <<Client, signal, tunnel, file, net, ref, target, data>>

\* One tick: Range over the table.
PingScan ==
  LET entries == {Client[i] : i \in Ids} \ {None}
      tries == [o \in Conns |->
                  IF o \in entries /\ HalfOpen(o) /\ retryTime[o] < RetryLimit
                  THEN retryTime[o] + 1 ELSE retryTime[o]]
      Expired(o) == IF HalfOpen(o) THEN tries[o] >= RetryLimit
                                   ELSE tunnel[o] \notin open
  IN /\ pc[Ping] = "idle"
     /\ retryTime' = tries
     /\ arr' = {i \in Ids : Client[i] # None /\ Expired(Client[i])}
     /\ pc' = [pc EXCEPT ![Ping] = "next"]
     /\ UNCHANGED <<Client, signal, tunnel, file, net, ref, target, data>>

PingNext(id) ==
  /\ pc[Ping] = "next"
  /\ id \in arr
  /\ arr' = arr \ {id}
  /\ target' = [target EXCEPT ![Ping] = id]
  /\ pc' = [pc EXCEPT ![Ping] = "load"]
  /\ UNCHANGED <<heap, net, ref, data>>

PingEnd ==
  /\ pc[Ping] = "next"
  /\ arr = {}
  /\ pc' = [pc EXCEPT ![Ping] = "idle"]
  /\ UNCHANGED <<heap, net, ref, target, arr, data>>

-----------------------------------------------------------------------------
(* DelClient(target[p]), run by goroutine p                                *)

\* DelClient returns: p goes on in its caller, its locals are gone.
Return(p) ==
  /\ pc' = [pc EXCEPT ![p] =
              IF p = Ping THEN "next"
              ELSE IF p \in Conns /\ kind[p] = "config" THEN "hangup"
              ELSE "done"]
  /\ ref' = [ref EXCEPT ![p] = None]
  /\ target' = [target EXCEPT ![p] = None]

Goto(p, label) ==
  /\ pc' = [pc EXCEPT ![p] = label]
  /\ UNCHANGED <<ref, target>>

DelLoad(p) ==
  /\ pc[p] = "load"
  /\ IF Client[target[p]] = None
     THEN Return(p)
     ELSE /\ ref' = [ref EXCEPT ![p] = Client[target[p]]]
          /\ pc' = [pc EXCEPT ![p] = "close"]
          /\ UNCHANGED target
  /\ UNCHANGED <<heap, net, arr, data>>

\* The signal the object has now, which need not be the one p knew.
DelClose(p) ==
  /\ pc[p] = "close"
  /\ open' = open \ {signal[ref[p]]}
  /\ Goto(p, "delete")
  /\ UNCHANGED <<heap, kind, cid, arr, data>>

\* Mutant: the signal is closed and reported, the entry is kept.
DelDeleteKeeps(p) ==
  /\ pc[p] = "delete"
  /\ IF db[target[p]] = "gone" \/ target[p] \in PubIds
     THEN Return(p) ELSE Goto(p, "send")
  /\ UNCHANGED <<heap, net, arr, data>>

\* sync.Map.Delete by key, whatever object is the entry now; then GetClient
\* and IsPubClient decide whether the removal is reported.
DelDelete(p) ==
  /\ pc[p] = "delete"
  /\ Client' = [Client EXCEPT ![target[p]] = None]
  /\ IF db[target[p]] = "gone" \/ target[p] \in PubIds
     THEN Return(p) ELSE Goto(p, "send")
  /\ UNCHANGED <<signal, tunnel, file, retryTime, net, arr, data>>

\* s.CloseClient <- client.Id meets the receive in DealBridgeTask.
SendCloseClient(p) ==
  /\ pc[p] = "send"
  /\ dealing = None
  /\ dealing' = target[p]
  /\ Return(p)
  /\ UNCHANGED <<heap, net, arr, db, noStore>>

-----------------------------------------------------------------------------
(* DealBridgeTask and the web                                              *)

\* Mutant: the temporary client is not deleted.
DealCloseClientKeeps ==
  /\ dealing # None
  /\ dealing' = None
  /\ UNCHANGED <<heap, net, gor, db, noStore>>

\* Mutant: the removal of the tasks is tried again and again.
DealCloseClientRetries ==
  /\ dealing # None
  /\ UNCHANGED <<heap, net, gor, dealing, db, noStore>>

\* DealBridgeTask after DelTunnelAndHostByClientId: a temporary client goes.
DealCloseClient ==
  /\ dealing # None
  /\ dealing' = None
  /\ db' = IF dealing \in noStore THEN [db EXCEPT ![dealing] = "gone"] ELSE db
  /\ UNCHANGED <<heap, net, gor, noStore>>

\* ClientController.Add.
WebAdd(id) ==
  /\ db[id] = "new"
  /\ id \notin PubIds
  /\ db' = [db EXCEPT ![id] = "on"]
  /\ UNCHANGED <<heap, net, gor, noStore, dealing>>

\* ClientController.ChangeStatus.
WebEnable(id) ==
  /\ db[id] = "off"
  /\ db' = [db EXCEPT ![id] = "on"]
  /\ UNCHANGED <<heap, net, gor, noStore, dealing>>

WebDisable(p, id) ==
  /\ pc[p] = "idle"
  /\ db[id] \in {"on", "off"}
  /\ db' = [db EXCEPT ![id] = "off"]
  /\ target' = [target EXCEPT ![p] = id]
  /\ pc' = [pc EXCEPT ![p] = "load"]
  /\ UNCHANGED <<heap, net, ref, arr, noStore, dealing>>

\* ClientController.Del: the database first, the session afterwards.
WebDel(p, id) ==
  /\ pc[p] = "idle"
  /\ db[id] \in {"on", "off"}
  /\ db' = [db EXCEPT ![id] = "gone"]
  /\ target' = [target EXCEPT ![p] = id]
  /\ pc' = [pc EXCEPT ![p] = "load"]
  /\ UNCHANGED <<heap, net, ref, arr, noStore, dealing>>

-----------------------------------------------------------------------------
Handler(c) ==
  \/ RefusePublic(c) \/ MainStore(c) \/ MainTakeOver(c)
  \/ ChanStore(c) \/ ChanAttach(c) \/ FileStore(c) \/ FileAttach(c)
  \/ ConfigStart(c) \/ ConfStore(c) \/ ConfigEnd(c) \/ ConfigClose(c)
  \/ ReadError(c)

DelClient(p) ==
  DelLoad(p) \/ DelClose(p) \/ DelDelete(p)

PingLoop == PingScan \/ PingEnd \/ \E id \in Ids : PingNext(id)

Web ==
  \/ \E id \in Ids : WebAdd(id) \/ WebEnable(id)
  \/ \E p \in Admins, id \in Ids : WebDisable(p, id) \/ WebDel(p, id)

Next ==
  \/ \E c \in Conns : Handler(c) \/ Disconnect(c) \/ ConfigFail(c)
  \/ \E c \in Conns, id \in Ids :
       NewConf(c, id) \/ \E k \in Kinds : Accept(c, k, id)
  \/ \E p \in Procs : DelClient(p) \/ SendCloseClient(p)
  \/ PingLoop
  \/ DealCloseClient
  \/ Web

Spec == Init /\ [][Next]_vars

\* Go runs every goroutine that can run, the ticker of ping fires for ever,
\* and the senders blocked on a channel are served first in, first out.
Fairness ==
  /\ \A c \in Conns : WF_vars(Handler(c))
  /\ \A p \in Procs : WF_vars(DelClient(p)) /\ SF_vars(SendCloseClient(p))
  /\ WF_vars(PingLoop)
  /\ WF_vars(DealCloseClient)

FairSpec == Spec /\ Fairness

-----------------------------------------------------------------------------
(* Properties                                                              *)

\* A signal connection that is part of a registered session has a goroutine
\* that will still remove the session when the connection breaks: its reader
\* runs, or is in DelClient and has not yet deleted the entry.  (An entry
\* without such a goroutine would make a dead npc look connected for ever,
\* as ping looks at the tunnel only.)
SignalIsWatched ==
  \A id \in Ids :
    LET o == Client[id] IN
    o # None /\ signal[o] # None =>
      /\ pc[signal[o]] \in {"reading", "load", "close", "delete"}
      /\ cid[signal[o]] = id

\* The connections of the session registered for id.
SignalOf(id) == IF Client[id] = None THEN None ELSE signal[Client[id]]
TunnelOf(id) == IF Client[id] = None THEN None ELSE tunnel[Client[id]]

\* A session whose signal connection is down does not stay: the entry goes,
\* or another connection becomes its signal.
DeadSignalReaped ==
  \A id \in Ids, c \in Conns :
    (SignalOf(id) = c /\ c \notin open) ~> SignalOf(id) # c

\* A session whose tunnel is down is removed by ping, or gets a new tunnel.
DeadTunnelReaped ==
  \A id \in Ids, c \in Conns :
    (TunnelOf(id) = c /\ c \notin open) ~> TunnelOf(id) # c

\* A session that never gets its second half is removed by ping (bridge.go
\* retryTime), even when it was opened by a configuration connection only.
HalfOpenReaped ==
  \A id \in Ids :
    (Client[id] # None /\ HalfOpen(Client[id]))
      ~> (Client[id] = None \/ ~HalfOpen(Client[id]))

\* Nobody stays blocked on CloseClient, so every removed session has its
\* tasks cleaned up, whoever removed it.
CleanupDelivered ==
  \A p \in Procs : pc[p] = "send" ~> pc[p] # "send"

\* A temporary client of a configuration connection does not outlive its
\* session: while it has none, the connection is about to open one or the
\* removal of the last one is on its way to DealBridgeTask.
TemporaryIsCollected ==
  \A id \in noStore : db[id] # "gone" /\ Client[id] = None =>
    \/ dealing = id
    \/ \E p \in Procs : pc[p] \in {"store", "send"} /\ target[p] = id

\* The object named by c has not been published: its handler has not reached
\* LoadOrStore or Client.Store, or has dropped it for the entry it found.
Fresh(c) ==
  \/ pc[c] \in {"idle", "accepted", "found", "store"}
  \/ pc[c] = "config" /\ target[c] = cid[c]

\* The readers, until they have removed the entry or found none.
Watches(c) ==
  kind[c] = "main" /\ pc[c] \in {"reading", "load", "close", "delete"}

FreshObjects == {c \in Conns : Fresh(c)}

WatchedClient == [c \in Conns |-> IF Watches(c) THEN cid[c] ELSE None]

Sessions == INSTANCE SessionTable WITH
  session <- Client, fresh <- FreshObjects, watch <- WatchedClient

\* However handlers, readers, ping and requests interleave: no object is an
\* entry for a second time or of a second client, a handler that writes to the
\* object it found does so to one of its own client, and a reader returns only
\* if its connection is not the signal of the entry.
ImplementsSessions == Sessions!Spec
=============================================================================
