---------------------------- MODULE BridgeProof ----------------------------
(***************************************************************************)
(* Bridge keeps its types, every registered signal connection is watched   *)
(* by a goroutine that will remove its session, temporary clients are      *)
(* collected, and Bridge implements SessionTable, for any number of        *)
(* clients, connections and web requests.                                  *)
(***************************************************************************)
EXTENDS Bridge, TLAPS

\* An unpublished object is empty, and only its handler knows it.
FreshIsPrivate ==
  \A c \in Conns : Fresh(c) =>
    /\ signal[c] = None
    /\ \A id \in Ids : Client[id] # c
    /\ \A p \in Procs : ref[p] # c

\* One object is the entry of one client only.
EntriesDistinct ==
  \A i, j \in Ids : Client[i] = Client[j] /\ Client[i] # None => i = j

\* The object a handler found is still the entry of its own client, or gone.
FoundIsOwn ==
  \A c \in Conns : pc[c] = "found" =>
    /\ ref[c] # None
    /\ kind[c] # "config"
    /\ \A id \in Ids : Client[id] = ref[c] => id = cid[c]

\* What the local variables of a goroutine are at each of its steps.
Locals ==
  /\ \A c \in Conns :
       /\ pc[c] = "reading" => kind[c] = "main"
       /\ pc[c] \in {"accepted", "found", "reading", "config", "store"} =>
            cid[c] \in Ids /\ db[cid[c]] # "new"
       /\ pc[c] \in {"config", "store"} => target[c] \in Ids /\ kind[c] = "config"
       /\ pc[c] = "store" => target[c] # cid[c]
       /\ pc[c] \in DelSteps /\ kind[c] = "main" => target[c] = cid[c]
       /\ pc[c] \in DelSteps => kind[c] \in {"main", "config"}
  /\ \A p \in Procs :
       /\ pc[p] \in DelSteps => target[p] \in Ids
       /\ pc[p] = "close" => ref[p] # None

\* The signal of an entry is a main connection of that client whose reader
\* has not yet deleted the entry.
Watched ==
  \A id \in Ids :
    LET o == Client[id] IN
    o # None /\ signal[o] # None =>
      /\ pc[signal[o]] \in {"reading", "load", "close", "delete"}
      /\ kind[signal[o]] = "main"
      /\ cid[signal[o]] = id

IInv ==
  TypeOK /\ FreshIsPrivate /\ EntriesDistinct /\ FoundIsOwn /\ Locals /\ Watched

-----------------------------------------------------------------------------
(* Every action keeps IInv.  LoadOrStore and Client.Store publish only a    *)
(* fresh object; MainTakeOver writes to an object that FoundIsOwn ties to   *)
(* the handler's client; a reader that leaves DelClient has deleted, or not *)
(* found, the entry of its own client.                                      *)

LEMMA AcceptStep ==
  ASSUME IInv, NEW c \in Conns, NEW k \in Kinds, NEW id \in Ids, Accept(c, k, id)
  PROVE IInv'
<1> USE BridgeAssumption DEF IInv, Procs, DelSteps
<1>1. TypeOK'
  BY DEF TypeOK, Accept, heap, data
<1>2. FreshIsPrivate'
  BY DEF FreshIsPrivate, Fresh, Accept, heap, data
<1>3. EntriesDistinct'
  BY DEF EntriesDistinct, Accept, heap, data
<1>4. FoundIsOwn'
  BY DEF FoundIsOwn, Accept, heap, data
<1>5. Locals'
  BY DEF Locals, TypeOK, Accept, heap, data
<1>6. Watched'
  BY DEF Watched, Accept, heap, data
<1> QED
  BY <1>1, <1>2, <1>3, <1>4, <1>5, <1>6

LEMMA DisconnectStep ==
  ASSUME IInv, NEW c \in Conns, Disconnect(c)
  PROVE IInv'
<1> USE BridgeAssumption DEF IInv, Procs, DelSteps
<1>1. TypeOK'
  BY DEF TypeOK, Disconnect, heap, gor, data
<1>2. FreshIsPrivate'
  BY DEF FreshIsPrivate, Fresh, Disconnect, heap, gor, data
<1>3. EntriesDistinct'
  BY DEF EntriesDistinct, Disconnect, heap, gor, data
<1>4. FoundIsOwn'
  BY DEF FoundIsOwn, Disconnect, heap, gor, data
<1>5. Locals'
  BY DEF Locals, Disconnect, heap, gor, data
<1>6. Watched'
  BY DEF Watched, Disconnect, heap, gor, data
<1> QED
  BY <1>1, <1>2, <1>3, <1>4, <1>5, <1>6

LEMMA RefusePublicStep ==
  ASSUME IInv, NEW c \in Conns, RefusePublic(c)
  PROVE IInv'
<1> USE BridgeAssumption DEF IInv, Procs, DelSteps
<1>1. TypeOK'
  BY DEF TypeOK, RefusePublic, heap, data
<1>2. FreshIsPrivate'
  BY DEF FreshIsPrivate, Fresh, RefusePublic, heap, data
<1>3. EntriesDistinct'
  BY DEF EntriesDistinct, RefusePublic, heap, data
<1>4. FoundIsOwn'
  BY DEF FoundIsOwn, RefusePublic, heap, data
<1>5. Locals'
  BY DEF Locals, RefusePublic, heap, data
<1>6. Watched'
  BY DEF Watched, RefusePublic, heap, data
<1> QED
  BY <1>1, <1>2, <1>3, <1>4, <1>5, <1>6

LEMMA MainStoreStep ==
  ASSUME IInv, NEW c \in Conns, MainStore(c)
  PROVE IInv'
<1> USE BridgeAssumption DEF IInv, Procs, DelSteps
<1>1. TypeOK'
  BY DEF TypeOK, Locals, MainStore, LoadOrStore, Stores, net, data
<1>2. FreshIsPrivate'
  BY DEF FreshIsPrivate, Fresh, TypeOK, Locals, MainStore, LoadOrStore, Stores,
         net, data
<1>3. EntriesDistinct'
  BY DEF EntriesDistinct, FreshIsPrivate, Fresh, MainStore, LoadOrStore,
         Stores, net, data
<1>4. FoundIsOwn'
  BY DEF FoundIsOwn, TypeOK, Locals, FreshIsPrivate, Fresh, EntriesDistinct,
         MainStore, LoadOrStore, Stores, net, data
<1>5. Locals'
  BY DEF Locals, MainStore, LoadOrStore, Stores, net, data
<1>6. Watched'
  BY DEF Watched, TypeOK, Locals, FreshIsPrivate, Fresh, MainStore,
         LoadOrStore, Stores, net, data
<1> QED
  BY <1>1, <1>2, <1>3, <1>4, <1>5, <1>6

LEMMA MainTakeOverStep ==
  ASSUME IInv, NEW c \in Conns, MainTakeOver(c)
  PROVE IInv'
<1> USE BridgeAssumption DEF IInv, Procs, DelSteps
<1>1. TypeOK'
  BY DEF TypeOK, MainTakeOver, data
<1>2. FreshIsPrivate'
  BY DEF FreshIsPrivate, Fresh, MainTakeOver, data
<1>3. EntriesDistinct'
  BY DEF EntriesDistinct, MainTakeOver, data
<1>4. FoundIsOwn'
  BY DEF FoundIsOwn, TypeOK, MainTakeOver, data
<1>5. Locals'
  BY DEF Locals, MainTakeOver, data
<1>6. Watched'
  BY DEF Watched, TypeOK, Locals, FreshIsPrivate, Fresh, FoundIsOwn,
         MainTakeOver, data
<1> QED
  BY <1>1, <1>2, <1>3, <1>4, <1>5, <1>6

LEMMA ChanStoreStep ==
  ASSUME IInv, NEW c \in Conns, ChanStore(c)
  PROVE IInv'
<1> USE BridgeAssumption DEF IInv, Procs, DelSteps
<1>1. TypeOK'
  BY DEF TypeOK, Locals, ChanStore, LoadOrStore, Stores, net, data
<1>2. FreshIsPrivate'
  BY DEF FreshIsPrivate, Fresh, TypeOK, Locals, ChanStore, LoadOrStore, Stores,
         net, data
<1>3. EntriesDistinct'
  BY DEF EntriesDistinct, FreshIsPrivate, Fresh, ChanStore, LoadOrStore,
         Stores, net, data
<1>4. FoundIsOwn'
  BY DEF FoundIsOwn, TypeOK, Locals, FreshIsPrivate, Fresh, EntriesDistinct,
         ChanStore, LoadOrStore, Stores, net, data
<1>5. Locals'
  BY DEF Locals, ChanStore, LoadOrStore, Stores, net, data
<1>6. Watched'
  BY DEF Watched, TypeOK, Locals, FreshIsPrivate, Fresh, ChanStore,
         LoadOrStore, Stores, net, data
<1> QED
  BY <1>1, <1>2, <1>3, <1>4, <1>5, <1>6

LEMMA ChanAttachStep ==
  ASSUME IInv, NEW c \in Conns, ChanAttach(c)
  PROVE IInv'
<1> USE BridgeAssumption DEF IInv, Procs, DelSteps
<1>1. TypeOK'
  BY DEF TypeOK, ChanAttach, net, data
<1>2. FreshIsPrivate'
  BY DEF FreshIsPrivate, Fresh, ChanAttach, net, data
<1>3. EntriesDistinct'
  BY DEF EntriesDistinct, ChanAttach, net, data
<1>4. FoundIsOwn'
  BY DEF FoundIsOwn, TypeOK, ChanAttach, net, data
<1>5. Locals'
  BY DEF Locals, ChanAttach, net, data
<1>6. Watched'
  BY DEF Watched, ChanAttach, net, data
<1> QED
  BY <1>1, <1>2, <1>3, <1>4, <1>5, <1>6

LEMMA FileStoreStep ==
  ASSUME IInv, NEW c \in Conns, FileStore(c)
  PROVE IInv'
<1> USE BridgeAssumption DEF IInv, Procs, DelSteps
<1>1. TypeOK'
  BY DEF TypeOK, Locals, FileStore, LoadOrStore, Stores, net, data
<1>2. FreshIsPrivate'
  BY DEF FreshIsPrivate, Fresh, TypeOK, Locals, FileStore, LoadOrStore, Stores,
         net, data
<1>3. EntriesDistinct'
  BY DEF EntriesDistinct, FreshIsPrivate, Fresh, FileStore, LoadOrStore,
         Stores, net, data
<1>4. FoundIsOwn'
  BY DEF FoundIsOwn, TypeOK, Locals, FreshIsPrivate, Fresh, EntriesDistinct,
         FileStore, LoadOrStore, Stores, net, data
<1>5. Locals'
  BY DEF Locals, FileStore, LoadOrStore, Stores, net, data
<1>6. Watched'
  BY DEF Watched, TypeOK, Locals, FreshIsPrivate, Fresh, FileStore,
         LoadOrStore, Stores, net, data
<1> QED
  BY <1>1, <1>2, <1>3, <1>4, <1>5, <1>6

LEMMA FileAttachStep ==
  ASSUME IInv, NEW c \in Conns, FileAttach(c)
  PROVE IInv'
<1> USE BridgeAssumption DEF IInv, Procs, DelSteps
<1>1. TypeOK'
  BY DEF TypeOK, FileAttach, net, data
<1>2. FreshIsPrivate'
  BY DEF FreshIsPrivate, Fresh, FileAttach, net, data
<1>3. EntriesDistinct'
  BY DEF EntriesDistinct, FileAttach, net, data
<1>4. FoundIsOwn'
  BY DEF FoundIsOwn, TypeOK, FileAttach, net, data
<1>5. Locals'
  BY DEF Locals, FileAttach, net, data
<1>6. Watched'
  BY DEF Watched, FileAttach, net, data
<1> QED
  BY <1>1, <1>2, <1>3, <1>4, <1>5, <1>6

LEMMA ConfigStartStep ==
  ASSUME IInv, NEW c \in Conns, ConfigStart(c)
  PROVE IInv'
<1> USE BridgeAssumption DEF IInv, Procs, DelSteps
<1>1. TypeOK'
  BY DEF TypeOK, ConfigStart, heap, data
<1>2. FreshIsPrivate'
  BY DEF FreshIsPrivate, Fresh, TypeOK, ConfigStart, heap, data
<1>3. EntriesDistinct'
  BY DEF EntriesDistinct, ConfigStart, heap, data
<1>4. FoundIsOwn'
  BY DEF FoundIsOwn, TypeOK, ConfigStart, heap, data
<1>5. Locals'
  BY DEF Locals, TypeOK, ConfigStart, heap, data
<1>6. Watched'
  BY DEF Watched, TypeOK, ConfigStart, heap, data
<1> QED
  BY <1>1, <1>2, <1>3, <1>4, <1>5, <1>6

LEMMA NewConfStep ==
  ASSUME IInv, NEW c \in Conns, NEW id \in Ids, NewConf(c, id)
  PROVE IInv'
<1> USE BridgeAssumption DEF IInv, Procs, DelSteps
<1>1. TypeOK'
  BY DEF TypeOK, NewConf, heap, net
<1>2. FreshIsPrivate'
  BY DEF FreshIsPrivate, Fresh, NewConf, heap, net
<1>3. EntriesDistinct'
  BY DEF EntriesDistinct, NewConf, heap, net
<1>4. FoundIsOwn'
  BY DEF FoundIsOwn, NewConf, heap, net
<1>5. Locals'
  BY DEF Locals, TypeOK, NewConf, heap, net
<1>6. Watched'
  BY DEF Watched, NewConf, heap, net
<1> QED
  BY <1>1, <1>2, <1>3, <1>4, <1>5, <1>6

LEMMA ConfStoreStep ==
  ASSUME IInv, NEW c \in Conns, ConfStore(c)
  PROVE IInv'
<1> USE BridgeAssumption DEF IInv, Procs, DelSteps
<1>1. TypeOK'
  BY DEF TypeOK, ConfStore, net, data
<1>2. FreshIsPrivate'
  BY DEF FreshIsPrivate, Fresh, TypeOK, Locals, ConfStore, net, data
<1>3. EntriesDistinct'
  BY DEF EntriesDistinct, FreshIsPrivate, Fresh, ConfStore, net, data
<1>4. FoundIsOwn'
  BY DEF FoundIsOwn, TypeOK, FreshIsPrivate, Fresh, ConfStore, net, data
<1>5. Locals'
  BY DEF Locals, ConfStore, net, data
<1>6. Watched'
  BY DEF Watched, TypeOK, Locals, FreshIsPrivate, Fresh, ConfStore, net, data
<1> QED
  BY <1>1, <1>2, <1>3, <1>4, <1>5, <1>6

LEMMA ConfigFailStep ==
  ASSUME IInv, NEW c \in Conns, ConfigFail(c)
  PROVE IInv'
<1> USE BridgeAssumption DEF IInv, Procs, DelSteps
<1>1. TypeOK'
  BY DEF TypeOK, ConfigFail, heap, net, data
<1>2. FreshIsPrivate'
  BY DEF FreshIsPrivate, Fresh, ConfigFail, heap, net, data
<1>3. EntriesDistinct'
  BY DEF EntriesDistinct, ConfigFail, heap, net, data
<1>4. FoundIsOwn'
  BY DEF FoundIsOwn, ConfigFail, heap, net, data
<1>5. Locals'
  BY DEF Locals, ConfigFail, heap, net, data
<1>6. Watched'
  BY DEF Watched, ConfigFail, heap, net, data
<1> QED
  BY <1>1, <1>2, <1>3, <1>4, <1>5, <1>6

LEMMA ConfigEndStep ==
  ASSUME IInv, NEW c \in Conns, ConfigEnd(c)
  PROVE IInv'
<1> USE BridgeAssumption DEF IInv, Procs, DelSteps
<1>1. TypeOK'
  BY DEF TypeOK, ConfigEnd, heap, net, data
<1>2. FreshIsPrivate'
  BY DEF FreshIsPrivate, Fresh, ConfigEnd, heap, net, data
<1>3. EntriesDistinct'
  BY DEF EntriesDistinct, ConfigEnd, heap, net, data
<1>4. FoundIsOwn'
  BY DEF FoundIsOwn, ConfigEnd, heap, net, data
<1>5. Locals'
  BY DEF Locals, ConfigEnd, heap, net, data
<1>6. Watched'
  BY DEF Watched, ConfigEnd, heap, net, data
<1> QED
  BY <1>1, <1>2, <1>3, <1>4, <1>5, <1>6

LEMMA ConfigCloseStep ==
  ASSUME IInv, NEW c \in Conns, ConfigClose(c)
  PROVE IInv'
<1> USE BridgeAssumption DEF IInv, Procs, DelSteps
<1>1. TypeOK'
  BY DEF TypeOK, ConfigClose, heap, data
<1>2. FreshIsPrivate'
  BY DEF FreshIsPrivate, Fresh, ConfigClose, heap, data
<1>3. EntriesDistinct'
  BY DEF EntriesDistinct, ConfigClose, heap, data
<1>4. FoundIsOwn'
  BY DEF FoundIsOwn, ConfigClose, heap, data
<1>5. Locals'
  BY DEF Locals, ConfigClose, heap, data
<1>6. Watched'
  BY DEF Watched, ConfigClose, heap, data
<1> QED
  BY <1>1, <1>2, <1>3, <1>4, <1>5, <1>6

LEMMA ReadErrorStep ==
  ASSUME IInv, NEW c \in Conns, ReadError(c)
  PROVE IInv'
<1> USE BridgeAssumption DEF IInv, Procs, DelSteps
<1>1. TypeOK'
  BY DEF TypeOK, ReadError, heap, net, data
<1>2. FreshIsPrivate'
  BY DEF FreshIsPrivate, Fresh, ReadError, heap, net, data
<1>3. EntriesDistinct'
  BY DEF EntriesDistinct, ReadError, heap, net, data
<1>4. FoundIsOwn'
  BY DEF FoundIsOwn, ReadError, heap, net, data
<1>5. Locals'
  BY DEF Locals, TypeOK, ReadError, heap, net, data
<1>6. Watched'
  BY DEF Watched, ReadError, heap, net, data
<1> QED
  BY <1>1, <1>2, <1>3, <1>4, <1>5, <1>6

LEMMA PingScanStep ==
  ASSUME IInv, PingScan
  PROVE IInv'
<1> USE BridgeAssumption DEF IInv, Procs, DelSteps
<1>1. TypeOK'
  BY DEF TypeOK, PingScan, HalfOpen, net, data
<1>2. FreshIsPrivate'
  BY DEF FreshIsPrivate, Fresh, PingScan, HalfOpen, net, data
<1>3. EntriesDistinct'
  BY DEF EntriesDistinct, PingScan, HalfOpen, net, data
<1>4. FoundIsOwn'
  BY DEF FoundIsOwn, PingScan, HalfOpen, net, data
<1>5. Locals'
  BY DEF Locals, PingScan, HalfOpen, net, data
<1>6. Watched'
  BY DEF Watched, PingScan, HalfOpen, net, data
<1> QED
  BY <1>1, <1>2, <1>3, <1>4, <1>5, <1>6

LEMMA PingNextStep ==
  ASSUME IInv, NEW id \in Ids, PingNext(id)
  PROVE IInv'
<1> USE BridgeAssumption DEF IInv, Procs, DelSteps
<1>1. TypeOK'
  BY DEF TypeOK, PingNext, heap, net, data
<1>2. FreshIsPrivate'
  BY DEF FreshIsPrivate, Fresh, PingNext, heap, net, data
<1>3. EntriesDistinct'
  BY DEF EntriesDistinct, PingNext, heap, net, data
<1>4. FoundIsOwn'
  BY DEF FoundIsOwn, PingNext, heap, net, data
<1>5. Locals'
  BY DEF Locals, TypeOK, PingNext, heap, net, data
<1>6. Watched'
  BY DEF Watched, PingNext, heap, net, data
<1> QED
  BY <1>1, <1>2, <1>3, <1>4, <1>5, <1>6

LEMMA PingEndStep ==
  ASSUME IInv, PingEnd
  PROVE IInv'
<1> USE BridgeAssumption DEF IInv, Procs, DelSteps
<1>1. TypeOK'
  BY DEF TypeOK, PingEnd, heap, net, data
<1>2. FreshIsPrivate'
  BY DEF FreshIsPrivate, Fresh, PingEnd, heap, net, data
<1>3. EntriesDistinct'
  BY DEF EntriesDistinct, PingEnd, heap, net, data
<1>4. FoundIsOwn'
  BY DEF FoundIsOwn, PingEnd, heap, net, data
<1>5. Locals'
  BY DEF Locals, PingEnd, heap, net, data
<1>6. Watched'
  BY DEF Watched, PingEnd, heap, net, data
<1> QED
  BY <1>1, <1>2, <1>3, <1>4, <1>5, <1>6

LEMMA DelLoadStep ==
  ASSUME IInv, NEW p \in Procs, DelLoad(p)
  PROVE IInv'
<1> USE BridgeAssumption DEF IInv, Procs, DelSteps
<1>1. TypeOK'
  BY DEF TypeOK, Locals, DelLoad, Return, heap, net, data
<1>2. FreshIsPrivate'
  BY DEF FreshIsPrivate, Fresh, TypeOK, Locals, DelLoad, Return, heap, net,
         data
<1>3. EntriesDistinct'
  BY DEF EntriesDistinct, DelLoad, Return, heap, net, data
<1>4. FoundIsOwn'
  BY DEF FoundIsOwn, TypeOK, DelLoad, Return, heap, net, data
<1>5. Locals'
  BY DEF Locals, TypeOK, DelLoad, Return, heap, net, data
<1>6. Watched'
  BY DEF Watched, TypeOK, Locals, DelLoad, Return, heap, net, data
<1> QED
  BY <1>1, <1>2, <1>3, <1>4, <1>5, <1>6

LEMMA DelCloseStep ==
  ASSUME IInv, NEW p \in Procs, DelClose(p)
  PROVE IInv'
<1> USE BridgeAssumption DEF IInv, Procs, DelSteps
<1>1. TypeOK'
  BY DEF TypeOK, DelClose, Goto, heap, data
<1>2. FreshIsPrivate'
  BY DEF FreshIsPrivate, Fresh, DelClose, Goto, heap, data
<1>3. EntriesDistinct'
  BY DEF EntriesDistinct, DelClose, Goto, heap, data
<1>4. FoundIsOwn'
  BY DEF FoundIsOwn, DelClose, Goto, heap, data
<1>5. Locals'
  BY DEF Locals, DelClose, Goto, heap, data
<1>6. Watched'
  BY DEF Watched, DelClose, Goto, heap, data
<1> QED
  BY <1>1, <1>2, <1>3, <1>4, <1>5, <1>6

LEMMA DelDeleteStep ==
  ASSUME IInv, NEW p \in Procs, DelDelete(p)
  PROVE IInv'
<1> USE BridgeAssumption DEF IInv, Procs, DelSteps
<1>1. TypeOK'
  <2>1. target[p] \in Ids
    BY DEF DelDelete, Locals
  <2>2. CASE db[target[p]] = "gone" \/ target[p] \in PubIds
    BY <2>1, <2>2 DEF TypeOK, DelDelete, Return, heap, net, data
  <2>3. CASE ~(db[target[p]] = "gone" \/ target[p] \in PubIds)
    BY <2>1, <2>3 DEF TypeOK, DelDelete, Goto, heap, net, data
  <2> QED
    BY <2>2, <2>3
<1>2. FreshIsPrivate'
  BY DEF FreshIsPrivate, Fresh, TypeOK, DelDelete, Return, Goto, net, data
<1>3. EntriesDistinct'
  BY DEF EntriesDistinct, DelDelete, Return, Goto, net, data
<1>4. FoundIsOwn'
  BY DEF FoundIsOwn, TypeOK, DelDelete, Return, Goto, net, data
<1>5. Locals'
  BY DEF Locals, TypeOK, DelDelete, Return, Goto, net, data
<1>6. Watched'
  BY DEF Watched, TypeOK, Locals, DelDelete, Return, Goto, net, data
<1> QED
  BY <1>1, <1>2, <1>3, <1>4, <1>5, <1>6

LEMMA SendCloseClientStep ==
  ASSUME IInv, NEW p \in Procs, SendCloseClient(p)
  PROVE IInv'
<1> USE BridgeAssumption DEF IInv, Procs, DelSteps
<1>1. TypeOK'
  BY DEF TypeOK, SendCloseClient, Return, heap, net
<1>2. FreshIsPrivate'
  BY DEF FreshIsPrivate, Fresh, SendCloseClient, Return, heap, net
<1>3. EntriesDistinct'
  BY DEF EntriesDistinct, SendCloseClient, Return, heap, net
<1>4. FoundIsOwn'
  BY DEF FoundIsOwn, SendCloseClient, Return, heap, net
<1>5. Locals'
  BY DEF Locals, TypeOK, SendCloseClient, Return, heap, net
<1>6. Watched'
  BY DEF Watched, SendCloseClient, Return, heap, net
<1> QED
  BY <1>1, <1>2, <1>3, <1>4, <1>5, <1>6

LEMMA DealCloseClientStep ==
  ASSUME IInv, DealCloseClient
  PROVE IInv'
<1> USE BridgeAssumption DEF IInv, Procs, DelSteps
<1>1. TypeOK'
  BY DEF TypeOK, DealCloseClient, heap, net, gor
<1>2. FreshIsPrivate'
  BY DEF FreshIsPrivate, Fresh, DealCloseClient, heap, net, gor
<1>3. EntriesDistinct'
  BY DEF EntriesDistinct, DealCloseClient, heap, net, gor
<1>4. FoundIsOwn'
  BY DEF FoundIsOwn, DealCloseClient, heap, net, gor
<1>5. Locals'
  BY DEF Locals, DealCloseClient, heap, net, gor
<1>6. Watched'
  BY DEF Watched, DealCloseClient, heap, net, gor
<1> QED
  BY <1>1, <1>2, <1>3, <1>4, <1>5, <1>6

LEMMA WebAddStep ==
  ASSUME IInv, NEW id \in Ids, WebAdd(id)
  PROVE IInv'
<1> USE BridgeAssumption DEF IInv, Procs, DelSteps
<1>1. TypeOK'
  BY DEF TypeOK, WebAdd, heap, net, gor
<1>2. FreshIsPrivate'
  BY DEF FreshIsPrivate, Fresh, WebAdd, heap, net, gor
<1>3. EntriesDistinct'
  BY DEF EntriesDistinct, WebAdd, heap, net, gor
<1>4. FoundIsOwn'
  BY DEF FoundIsOwn, WebAdd, heap, net, gor
<1>5. Locals'
  BY DEF Locals, WebAdd, heap, net, gor
<1>6. Watched'
  BY DEF Watched, WebAdd, heap, net, gor
<1> QED
  BY <1>1, <1>2, <1>3, <1>4, <1>5, <1>6

LEMMA WebEnableStep ==
  ASSUME IInv, NEW id \in Ids, WebEnable(id)
  PROVE IInv'
<1> USE BridgeAssumption DEF IInv, Procs, DelSteps
<1>1. TypeOK'
  BY DEF TypeOK, WebEnable, heap, net, gor
<1>2. FreshIsPrivate'
  BY DEF FreshIsPrivate, Fresh, WebEnable, heap, net, gor
<1>3. EntriesDistinct'
  BY DEF EntriesDistinct, WebEnable, heap, net, gor
<1>4. FoundIsOwn'
  BY DEF FoundIsOwn, WebEnable, heap, net, gor
<1>5. Locals'
  BY DEF Locals, WebEnable, heap, net, gor
<1>6. Watched'
  BY DEF Watched, WebEnable, heap, net, gor
<1> QED
  BY <1>1, <1>2, <1>3, <1>4, <1>5, <1>6

LEMMA WebDisableStep ==
  ASSUME IInv, NEW p \in Admins, NEW id \in Ids, WebDisable(p, id)
  PROVE IInv'
<1> USE BridgeAssumption DEF IInv, Procs, DelSteps
<1>1. TypeOK'
  BY DEF TypeOK, WebDisable, heap, net
<1>2. FreshIsPrivate'
  BY DEF FreshIsPrivate, Fresh, WebDisable, heap, net
<1>3. EntriesDistinct'
  BY DEF EntriesDistinct, WebDisable, heap, net
<1>4. FoundIsOwn'
  BY DEF FoundIsOwn, WebDisable, heap, net
<1>5. Locals'
  BY DEF Locals, TypeOK, WebDisable, heap, net
<1>6. Watched'
  BY DEF Watched, WebDisable, heap, net
<1> QED
  BY <1>1, <1>2, <1>3, <1>4, <1>5, <1>6

LEMMA WebDelStep ==
  ASSUME IInv, NEW p \in Admins, NEW id \in Ids, WebDel(p, id)
  PROVE IInv'
<1> USE BridgeAssumption DEF IInv, Procs, DelSteps
<1>1. TypeOK'
  BY DEF TypeOK, WebDel, heap, net
<1>2. FreshIsPrivate'
  BY DEF FreshIsPrivate, Fresh, WebDel, heap, net
<1>3. EntriesDistinct'
  BY DEF EntriesDistinct, WebDel, heap, net
<1>4. FoundIsOwn'
  BY DEF FoundIsOwn, WebDel, heap, net
<1>5. Locals'
  BY DEF Locals, TypeOK, WebDel, heap, net
<1>6. Watched'
  BY DEF Watched, WebDel, heap, net
<1> QED
  BY <1>1, <1>2, <1>3, <1>4, <1>5, <1>6

-----------------------------------------------------------------------------
LEMMA InitStep == Init => IInv
  BY BridgeAssumption
  DEF Init, IInv, TypeOK, FreshIsPrivate, Fresh, EntriesDistinct, FoundIsOwn,
      Locals, Watched, Procs, DelSteps, WorkFlags

LEMMA NextStep == IInv /\ [Next]_vars => IInv'
<1> SUFFICES ASSUME IInv, [Next]_vars PROVE IInv'
  OBVIOUS
<1>1. ASSUME NEW c \in Conns, Handler(c) PROVE IInv'
  BY <1>1, RefusePublicStep, MainStoreStep, MainTakeOverStep, ChanStoreStep,
     ChanAttachStep, FileStoreStep, FileAttachStep, ConfigStartStep,
     ConfStoreStep, ConfigEndStep, ConfigCloseStep, ReadErrorStep
  DEF Handler
<1>2. ASSUME NEW c \in Conns, Disconnect(c) \/ ConfigFail(c) PROVE IInv'
  BY <1>2, DisconnectStep, ConfigFailStep
<1>3. ASSUME NEW c \in Conns, NEW id \in Ids,
             NewConf(c, id) \/ \E k \in Kinds : Accept(c, k, id)
      PROVE  IInv'
  BY <1>3, NewConfStep, AcceptStep
<1>4. ASSUME NEW p \in Procs, DelClient(p) \/ SendCloseClient(p) PROVE IInv'
  BY <1>4, DelLoadStep, DelCloseStep, DelDeleteStep, SendCloseClientStep
  DEF DelClient
<1>5. CASE PingLoop
  BY <1>5, PingScanStep, PingNextStep, PingEndStep DEF PingLoop
<1>6. CASE DealCloseClient
  BY <1>6, DealCloseClientStep
<1>7. CASE Web
  BY <1>7, WebAddStep, WebEnableStep, WebDisableStep, WebDelStep DEF Web
<1>8. CASE UNCHANGED vars
  BY <1>8
  DEF IInv, TypeOK, FreshIsPrivate, Fresh, EntriesDistinct, FoundIsOwn, Locals,
      Watched, vars, heap, net, gor, data
<1> QED
  BY <1>1, <1>2, <1>3, <1>4, <1>5, <1>6, <1>7, <1>8 DEF Next

LEMMA Invariance == Spec => []IInv
  BY InitStep, NextStep, PTL DEF Spec

\* The heap, the connections and the goroutines of bridge.go keep their types
\* through every interleaving.
THEOREM TypeCorrect == Spec => []TypeOK
<1>1. IInv => TypeOK
  BY DEF IInv
<1> QED
  BY <1>1, Invariance, PTL

\* A session that has a signal connection always has a goroutine that will
\* remove it once that connection breaks, however GetHealthFromClient, ping,
\* typeDeal, getConfig and the web interleave.
THEOREM SignalsAreWatched == Spec => []SignalIsWatched
<1>1. IInv => SignalIsWatched
  BY DEF IInv, Watched, SignalIsWatched
<1> QED
  BY <1>1, Invariance, PTL

-----------------------------------------------------------------------------
(* Temporary clients                                                       *)

\* DelClient reports the removal of every temporary client: none is public.
Collected == noStore \cap PubIds = {} /\ TemporaryIsCollected

\* What takes no entry out of the table, adds no temporary client and leaves
\* those alone that are about to store an entry or to report one.
Frame ==
  /\ \A id \in Ids : Client'[id] = None => Client[id] = None
  /\ \A id \in Ids : db'[id] # "gone" => db[id] # "gone"
  /\ UNCHANGED <<noStore, dealing>>
  /\ \A p \in Procs : pc[p] \in {"store", "send"} =>
       pc'[p] = pc[p] /\ target'[p] = target[p]

LEMMA FrameStep == IInv /\ Collected /\ Frame => Collected'
<1> SUFFICES ASSUME IInv, Collected, Frame PROVE Collected'
  OBVIOUS
<1>1. TemporaryIsCollected'
  <2> SUFFICES ASSUME NEW id \in noStore, db'[id] # "gone", Client'[id] = None
               PROVE  \/ dealing' = id
                      \/ \E p \in Procs : pc'[p] \in {"store", "send"} /\ target'[p] = id
    BY DEF TemporaryIsCollected, Frame
  <2>1. \/ dealing = id
        \/ \E p \in Procs : pc[p] \in {"store", "send"} /\ target[p] = id
    BY DEF IInv, TypeOK, Collected, TemporaryIsCollected, Frame
  <2> QED
    BY <2>1 DEF Frame
<1> QED
  BY <1>1 DEF Collected, Frame

\* The handlers that only publish, attach, read or end.
LEMMA HandlerFrame ==
  ASSUME IInv, NEW c \in Conns, Handler(c), ~ConfStore(c)
  PROVE  Frame
<1> USE BridgeAssumption DEF IInv, TypeOK, Procs, Frame, heap, net, gor, data
<1>1. CASE RefusePublic(c)
  BY <1>1 DEF RefusePublic
<1>2. CASE MainStore(c)
  BY <1>2 DEF MainStore, LoadOrStore, Stores, Locals
<1>3. CASE MainTakeOver(c)
  BY <1>3 DEF MainTakeOver
<1>4. CASE ChanStore(c)
  BY <1>4 DEF ChanStore, LoadOrStore, Stores, Locals
<1>5. CASE ChanAttach(c)
  BY <1>5 DEF ChanAttach
<1>6. CASE FileStore(c)
  BY <1>6 DEF FileStore, LoadOrStore, Stores, Locals
<1>7. CASE FileAttach(c)
  BY <1>7 DEF FileAttach
<1>8. CASE ConfigStart(c)
  BY <1>8 DEF ConfigStart
<1>9. CASE ConfigEnd(c)
  BY <1>9 DEF ConfigEnd
<1>10. CASE ConfigClose(c)
  BY <1>10 DEF ConfigClose
<1>11. CASE ReadError(c)
  BY <1>11 DEF ReadError
<1> QED
  BY <1>1, <1>2, <1>3, <1>4, <1>5, <1>6, <1>7, <1>8, <1>9, <1>10, <1>11 DEF Handler

\* Client.Store gives the temporary client its entry.
LEMMA ConfStoreCollects ==
  ASSUME IInv, Collected, NEW c \in Conns, ConfStore(c)
  PROVE  Collected'
<1> USE BridgeAssumption DEF IInv, TypeOK, Collected, TemporaryIsCollected, Procs
<1>1. target[c] \in Ids /\ c # None
  BY DEF ConfStore, Locals
<1>2. Client'[target[c]] = c /\ \A id \in Ids \ {target[c]} : Client'[id] = Client[id]
  BY <1>1 DEF ConfStore
<1>3. \A p \in Procs \ {c} : pc'[p] = pc[p]
  BY DEF ConfStore
<1>4. UNCHANGED <<target, data>>
  BY DEF ConfStore
<1> QED
  BY <1>1, <1>2, <1>3, <1>4 DEF data

\* NEW_CONF: the handler is about to store the entry of its new client.
LEMMA NewConfCollects ==
  ASSUME IInv, Collected, NEW c \in Conns, NEW id \in Ids, NewConf(c, id)
  PROVE  Collected'
<1> USE BridgeAssumption DEF IInv, TypeOK, Collected, TemporaryIsCollected, Procs
<1>1. pc'[c] = "store" /\ target'[c] = id /\ noStore' = noStore \cup {id} /\ id \notin PubIds
  BY DEF NewConf
<1>2. UNCHANGED <<Client, dealing>> /\ \A i \in Ids \ {id} : db'[i] = db[i]
  BY DEF NewConf, heap
<1>3. \A p \in Procs : pc[p] \in {"store", "send"} => pc'[p] = pc[p] /\ target'[p] = target[p]
  BY DEF NewConf
<1> QED
  BY <1>1, <1>2, <1>3

\* DelClient deletes the entry and reports that of a temporary client.
LEMMA DelDeleteCollects ==
  ASSUME IInv, Collected, NEW p \in Procs, DelDelete(p)
  PROVE  Collected'
<1> USE BridgeAssumption DEF IInv, TypeOK, Collected, TemporaryIsCollected, Procs
<1>1. UNCHANGED data /\ \A id \in Ids \ {target[p]} : Client'[id] = Client[id]
  BY DEF DelDelete
<1>2. \A q \in Procs \ {p} : pc'[q] = pc[q] /\ target'[q] = target[q]
  BY DEF DelDelete, Return, Goto
<1>3. target[p] \in noStore /\ db[target[p]] # "gone" =>
        pc'[p] = "send" /\ target'[p] = target[p]
  BY DEF DelDelete, Goto
<1>4. pc[p] = "delete"
  BY DEF DelDelete
<1> QED
  BY <1>1, <1>2, <1>3, <1>4 DEF data

\* DealBridgeTask receives the report ...
LEMMA SendCollects ==
  ASSUME IInv, Collected, NEW p \in Procs, SendCloseClient(p)
  PROVE  Collected'
<1> USE BridgeAssumption DEF IInv, TypeOK, Collected, TemporaryIsCollected, Procs
<1>1. dealing = None /\ dealing' = target[p] /\ UNCHANGED <<Client, db, noStore>>
  BY DEF SendCloseClient, heap
<1>2. \A q \in Procs \ {p} : pc'[q] = pc[q] /\ target'[q] = target[q]
  BY DEF SendCloseClient, Return
<1> QED
  BY <1>1, <1>2

\* ... and deletes the client.
LEMMA DealCollects ==
  ASSUME IInv, Collected, DealCloseClient
  PROVE  Collected'
<1> USE BridgeAssumption DEF IInv, TypeOK, Collected, TemporaryIsCollected, Procs
<1> QED
  BY DEF DealCloseClient, heap, gor

LEMMA CollectedStep == IInv /\ Collected /\ [Next]_vars => Collected'
<1> SUFFICES ASSUME IInv, Collected, [Next]_vars PROVE Collected'
  OBVIOUS
<1>1. ASSUME NEW c \in Conns, Handler(c) PROVE Collected'
  BY <1>1, HandlerFrame, FrameStep, ConfStoreCollects
<1>2. ASSUME NEW c \in Conns, Disconnect(c) \/ ConfigFail(c) PROVE Collected'
  <2>1. Frame
    BY <1>2 DEF Disconnect, ConfigFail, IInv, TypeOK, Procs, Frame, heap, net, gor, data
  <2> QED
    BY <2>1, FrameStep
<1>3. ASSUME NEW c \in Conns, NEW id \in Ids, NewConf(c, id) PROVE Collected'
  BY <1>3, NewConfCollects
<1>4. ASSUME NEW c \in Conns, NEW id \in Ids, NEW k \in Kinds, Accept(c, k, id)
      PROVE  Collected'
  <2>1. Frame
    BY <1>4 DEF Accept, IInv, TypeOK, Procs, Frame, heap, data
  <2> QED
    BY <2>1, FrameStep
<1>5. ASSUME NEW p \in Procs, DelClient(p) \/ SendCloseClient(p) PROVE Collected'
  <2>1. CASE DelLoad(p) \/ DelClose(p)
    <3>1. Frame
      BY <2>1 DEF DelLoad, DelClose, Return, Goto, IInv, TypeOK, Procs, Frame, heap, net, data
    <3> QED
      BY <3>1, FrameStep
  <2> QED
    BY <1>5, <2>1, DelDeleteCollects, SendCollects DEF DelClient
<1>6. CASE PingLoop
  <2>1. Frame
    BY <1>6 DEF PingLoop, PingScan, PingNext, PingEnd, IInv, TypeOK, Procs, Frame, heap, net, data
  <2> QED
    BY <2>1, FrameStep
<1>7. CASE DealCloseClient
  BY <1>7, DealCollects
<1>8. CASE Web
  <2>1. Frame
    BY <1>8 DEF Web, WebAdd, WebEnable, WebDisable, WebDel, IInv, TypeOK, Procs, Frame,
                heap, net, gor
  <2> QED
    BY <2>1, FrameStep
<1>9. CASE UNCHANGED vars
  <2>1. Frame
    BY <1>9 DEF vars, Frame, heap, net, gor, data
  <2> QED
    BY <2>1, FrameStep
<1> QED
  BY <1>1, <1>2, <1>3, <1>4, <1>5, <1>6, <1>7, <1>8, <1>9 DEF Next

\* A temporary client that has no session is about to get one or about to be
\* deleted, whoever removed its last session and whatever came in between.
THEOREM TemporaryClientsGo == Spec => []TemporaryIsCollected
<1>1. Init => Collected
  BY DEF Init, Collected, TemporaryIsCollected
<1>2. Collected => TemporaryIsCollected
  BY DEF Collected
<1> QED
  BY InitStep, NextStep, CollectedStep, <1>1, <1>2, PTL DEF Spec

-----------------------------------------------------------------------------
(* The session table                                                       *)

\* Connections other than those of D keep what the table knows of them.
Same(D) ==
  \A c \in Conns \ D :
    /\ Fresh(c)' <=> Fresh(c)
    /\ Watches(c)' <=> Watches(c)
    /\ Watches(c) => cid'[c] = cid[c]

\* A connection gives up the object it was given.
LEMMA DropStep ==
  ASSUME NEW c \in Conns, UNCHANGED <<Client, signal>>, Same({c}),
         Fresh(c), ~Fresh(c)', ~Watches(c), ~Watches(c)'
  PROVE  Sessions!Discard(c)
<1>1. FreshObjects' = FreshObjects \ {c} /\ c \in FreshObjects
  BY DEF FreshObjects, Same
<1>2. WatchedClient' = WatchedClient
  BY DEF WatchedClient, Same
<1> QED
  BY <1>1, <1>2 DEF Sessions!Discard

\* Nothing the table knows of changes.
LEMMA SameStep ==
  ASSUME UNCHANGED <<Client, signal>>, Same({})
  PROVE  UNCHANGED Sessions!vars
<1>1. FreshObjects' = FreshObjects
  BY DEF FreshObjects, Same
<1>2. WatchedClient' = WatchedClient
  BY DEF WatchedClient, Same
<1> QED
  BY <1>1, <1>2 DEF Sessions!vars

\* LoadOrStore without an entry, and Client.Store.
LEMMA PublishStep ==
  ASSUME NEW c \in Conns, NEW i \in Ids, Client' = [Client EXCEPT ![i] = c],
         UNCHANGED signal, Same({c}),
         Fresh(c), ~Fresh(c)', ~Watches(c), ~Watches(c)'
  PROVE  Sessions!Open(i, c)
<1>1. FreshObjects' = FreshObjects \ {c} /\ c \in FreshObjects
  BY DEF FreshObjects, Same
<1>2. WatchedClient' = WatchedClient
  BY DEF WatchedClient, Same
<1> QED
  BY <1>1, <1>2 DEF Sessions!Open

\* A connection that becomes a signal starts its reader.
LEMMA WatchBegins ==
  ASSUME NEW c \in Conns, Same({c}), Fresh(c), ~Fresh(c)', ~Watches(c), Watches(c)',
         UNCHANGED cid
  PROVE  /\ FreshObjects' = FreshObjects \ {c} /\ c \in FreshObjects
         /\ WatchedClient' = [WatchedClient EXCEPT ![c] = cid[c]]
BY DEF FreshObjects, WatchedClient, Same

\* A reader is done.
LEMMA WatchEnds ==
  ASSUME NEW c \in Conns, Same({c}), ~Fresh(c), ~Fresh(c)', Watches(c), ~Watches(c)'
  PROVE  /\ FreshObjects' = FreshObjects
         /\ WatchedClient' = [WatchedClient EXCEPT ![c] = None]
         /\ WatchedClient[c] = cid[c]
BY DEF FreshObjects, WatchedClient, Same

\* typeDeal and the end of getConfig: an object is published, dropped or, in
\* MainTakeOver, written to by another connection of its client.
LEMMA HandlerSession ==
  ASSUME IInv, NEW c \in Conns, Handler(c)
  PROVE  [Sessions!Next]_(Sessions!vars)
<1> USE BridgeAssumption DEF IInv, Procs, Sessions!Next
<1>1. CASE RefusePublic(c)
  <2>1. Sessions!Discard(c)
    BY <1>1, DropStep DEF RefusePublic, Fresh, Watches, Same, TypeOK, heap
  <2> QED
    BY <2>1
<1>2. CASE MainStore(c)
  <2>1. CASE Stores(c)
    <3>1. /\ Client' = [Client EXCEPT ![cid[c]] = c] /\ Client[cid[c]] = None
          /\ signal' = [signal EXCEPT ![c] = c]
      BY <1>2, <2>1 DEF MainStore, LoadOrStore, Stores
    <3>2. /\ FreshObjects' = FreshObjects \ {c} /\ c \in FreshObjects
          /\ WatchedClient' = [WatchedClient EXCEPT ![c] = cid[c]]
      BY <1>2, <2>1, WatchBegins DEF MainStore, LoadOrStore, Fresh, Watches, Same, TypeOK, net
    <3>3. cid[c] \in Ids
      BY <1>2 DEF MainStore, Locals
    <3>4. Sessions!OpenWithSignal(cid[c], c)
      BY <3>1, <3>2 DEF Sessions!OpenWithSignal
    <3> QED
      BY <3>3, <3>4
  <2>2. CASE ~Stores(c)
    <3>1. UNCHANGED Sessions!vars
      BY <1>2, <2>2, SameStep DEF MainStore, LoadOrStore, Fresh, Watches, Same, TypeOK, net
    <3> QED
      BY <3>1
  <2> QED
    BY <2>1, <2>2
<1>3. CASE MainTakeOver(c)
  <2>1. /\ UNCHANGED Client
        /\ signal' = [signal EXCEPT ![ref[c]] = c]
    BY <1>3 DEF MainTakeOver
  <2>2. /\ FreshObjects' = FreshObjects \ {c} /\ c \in FreshObjects
        /\ WatchedClient' = [WatchedClient EXCEPT ![c] = cid[c]]
    BY <1>3, WatchBegins DEF MainTakeOver, Fresh, Watches, Same, TypeOK
  <2>3. cid[c] \in Ids /\ ref[c] \in Conns /\ \A j \in Ids : Client[j] = ref[c] => j = cid[c]
    BY <1>3 DEF MainTakeOver, Locals, FoundIsOwn, TypeOK
  <2>4. ref[c] \notin FreshObjects
    BY <2>3 DEF FreshIsPrivate, FreshObjects
  <2>5. Sessions!Attach(c, cid[c], ref[c])
    BY <2>1, <2>2, <2>3, <2>4 DEF Sessions!Attach
  <2> QED
    BY <2>3, <2>5
<1>4. CASE ChanStore(c) \/ FileStore(c)
  <2>1. CASE Stores(c)
    <3>1. Client' = [Client EXCEPT ![cid[c]] = c] /\ cid[c] \in Ids
      BY <1>4, <2>1 DEF ChanStore, FileStore, LoadOrStore, Stores, Locals
    <3>2. Sessions!Open(cid[c], c)
      BY <1>4, <2>1, <3>1, PublishStep
      DEF ChanStore, FileStore, LoadOrStore, Fresh, Watches, Same, TypeOK, net
    <3> QED
      BY <3>1, <3>2
  <2>2. CASE ~Stores(c)
    <3>1. UNCHANGED Sessions!vars
      BY <1>4, <2>2, SameStep
      DEF ChanStore, FileStore, LoadOrStore, Fresh, Watches, Same, TypeOK, net
    <3> QED
      BY <3>1
  <2> QED
    BY <2>1, <2>2
<1>5. CASE ChanAttach(c) \/ FileAttach(c)
  <2>1. Sessions!Discard(c)
    BY <1>5, DropStep DEF ChanAttach, FileAttach, Fresh, Watches, Same, TypeOK, net
  <2> QED
    BY <2>1
<1>6. CASE ConfigStart(c)
  <2>1. CASE pc' = [pc EXCEPT ![c] = "config"] /\ target' = [target EXCEPT ![c] = cid[c]]
    <3>1. UNCHANGED Sessions!vars
      BY <1>6, <2>1, SameStep DEF ConfigStart, Fresh, Watches, Same, TypeOK, heap
    <3> QED
      BY <3>1
  <2>2. CASE pc' = [pc EXCEPT ![c] = "done"] /\ UNCHANGED target
    <3>1. Sessions!Discard(c)
      BY <1>6, <2>2, DropStep DEF ConfigStart, Fresh, Watches, Same, TypeOK, heap
    <3> QED
      BY <3>1
  <2> QED
    BY <1>6, <2>1, <2>2 DEF ConfigStart
<1>7. CASE ConfStore(c)
  <2>1. target[c] \in Ids /\ target[c] # cid[c] /\ kind[c] = "config"
    BY <1>7 DEF ConfStore, Locals
  <2>2. Sessions!Open(target[c], c)
    BY <1>7, <2>1, PublishStep DEF ConfStore, Fresh, Watches, Same, TypeOK, net
  <2> QED
    BY <2>1, <2>2
<1>8. CASE ConfigEnd(c)
  <2>1. kind[c] = "config"
    BY <1>8 DEF ConfigEnd, Locals
  <2>2. CASE Fresh(c)
    <3>1. Sessions!Discard(c)
      BY <1>8, <2>1, <2>2, DropStep DEF ConfigEnd, Fresh, Watches, Same, TypeOK, heap, net
    <3> QED
      BY <3>1
  <2>3. CASE ~Fresh(c)
    <3>1. UNCHANGED Sessions!vars
      BY <1>8, <2>1, <2>3, SameStep DEF ConfigEnd, Fresh, Watches, Same, TypeOK, heap, net
    <3> QED
      BY <3>1
  <2> QED
    BY <2>2, <2>3
<1>9. CASE ConfigClose(c) \/ ReadError(c)
  <2>1. UNCHANGED Sessions!vars
    BY <1>9, SameStep DEF ConfigClose, ReadError, Fresh, Watches, Same, TypeOK, heap, net
  <2> QED
    BY <2>1
<1> QED
  BY <1>1, <1>2, <1>3, <1>4, <1>5, <1>6, <1>7, <1>8, <1>9 DEF Handler

\* NEW_CONF leaves an object unpublished, ConfigFail drops it if it is.
LEMMA ConfigSession ==
  ASSUME IInv, NEW c \in Conns,
         ConfigFail(c) \/ \E id \in Ids : NewConf(c, id)
  PROVE  [Sessions!Next]_(Sessions!vars)
<1> USE BridgeAssumption DEF IInv, Procs, Sessions!Next
<1>1. kind[c] = "config" /\ pc[c] = "config"
  BY DEF ConfigFail, NewConf, Locals
<1>2. CASE ConfigFail(c) /\ Fresh(c)
  <2>1. Sessions!Discard(c)
    BY <1>1, <1>2, DropStep DEF ConfigFail, Fresh, Watches, Same, TypeOK, heap, net
  <2> QED
    BY <2>1
<1>3. CASE ConfigFail(c) /\ ~Fresh(c)
  <2>1. UNCHANGED Sessions!vars
    BY <1>1, <1>3, SameStep DEF ConfigFail, Fresh, Watches, Same, TypeOK, heap, net
  <2> QED
    BY <2>1
<1>4. ASSUME NEW id \in Ids, NewConf(c, id) PROVE UNCHANGED Sessions!vars
  BY <1>1, <1>4, SameStep DEF NewConf, Fresh, Watches, Same, TypeOK, heap, net
<1> QED
  BY <1>2, <1>3, <1>4

\* DelLoad lets a reader go if there is no entry, DelDelete closes the entry.
\* SendCloseClient comes after both.
LEMMA DelSession ==
  ASSUME IInv, NEW p \in Procs, DelClient(p) \/ SendCloseClient(p)
  PROVE  [Sessions!Next]_(Sessions!vars)
<1> USE BridgeAssumption DEF IInv, Procs, DelSteps, Sessions!Next
<1>1. CASE DelLoad(p)
  <2>1. CASE p \in Conns /\ Watches(p) /\ Client[target[p]] = None
    <3>1. target[p] = cid[p] /\ cid[p] \in Ids
      BY <1>1, <2>1 DEF DelLoad, Watches, Locals
    <3>2. /\ FreshObjects' = FreshObjects
          /\ WatchedClient' = [WatchedClient EXCEPT ![p] = None]
          /\ WatchedClient[p] = cid[p]
      BY <1>1, <2>1, WatchEnds DEF DelLoad, Return, Fresh, Watches, Same, TypeOK, heap, net
    <3>3. Sessions!Leave(p)
      BY <1>1, <2>1, <3>1, <3>2 DEF DelLoad, heap, Sessions!Leave
    <3> QED
      BY <2>1, <3>3
  <2>2. CASE ~(p \in Conns /\ Watches(p) /\ Client[target[p]] = None)
    <3>1. UNCHANGED Sessions!vars
      BY <1>1, <2>2, SameStep DEF DelLoad, Return, Fresh, Watches, Same, TypeOK, heap, net
    <3> QED
      BY <3>1
  <2> QED
    BY <2>1, <2>2
<1>2. CASE DelClose(p)
  <2>1. UNCHANGED Sessions!vars
    BY <1>2, SameStep DEF DelClose, Goto, Fresh, Watches, Same, TypeOK, heap
  <2> QED
    BY <2>1
<1>3. CASE DelDelete(p)
  <2>1. target[p] \in Ids /\ Client' = [Client EXCEPT ![target[p]] = None] /\ UNCHANGED signal
    BY <1>3 DEF DelDelete, Locals
  <2>2. CASE p \in Conns /\ Watches(p)
    <3>1. target[p] = cid[p]
      BY <1>3, <2>2 DEF DelDelete, Watches, Locals
    <3>2. /\ FreshObjects' = FreshObjects
          /\ WatchedClient' = [WatchedClient EXCEPT ![p] = None]
          /\ WatchedClient[p] = cid[p]
      BY <1>3, <2>2, WatchEnds DEF DelDelete, Return, Goto, Fresh, Watches, Same, TypeOK, net
    <3>3. Sessions!Close(target[p])
      BY <2>1, <2>2, <3>1, <3>2 DEF Sessions!Close
    <3> QED
      BY <2>1, <3>3
  <2>3. CASE ~(p \in Conns /\ Watches(p))
    <3>1. Same({})
      BY <1>3, <2>3 DEF DelDelete, Return, Goto, Fresh, Watches, Same, TypeOK, net
    <3>2. FreshObjects' = FreshObjects /\ WatchedClient' = WatchedClient
      BY <3>1 DEF FreshObjects, WatchedClient, Same
    <3>3. Sessions!Close(target[p])
      BY <2>1, <3>2 DEF Sessions!Close
    <3> QED
      BY <2>1, <3>3
  <2> QED
    BY <2>2, <2>3
<1>4. CASE SendCloseClient(p)
  <2>1. UNCHANGED Sessions!vars
    BY <1>4, SameStep DEF SendCloseClient, Return, Fresh, Watches, Same, TypeOK, heap, net
  <2> QED
    BY <2>1
<1> QED
  BY <1>1, <1>2, <1>3, <1>4 DEF DelClient

\* Every step of Bridge is one of SessionTable, or none.
LEMMA SessionStep == IInv /\ [Next]_vars => [Sessions!Next]_(Sessions!vars)
<1> SUFFICES ASSUME IInv, [Next]_vars PROVE [Sessions!Next]_(Sessions!vars)
  OBVIOUS
<1>1. ASSUME NEW c \in Conns, Handler(c) PROVE [Sessions!Next]_(Sessions!vars)
  BY <1>1, HandlerSession
<1>2. ASSUME NEW c \in Conns, ConfigFail(c) \/ \E id \in Ids : NewConf(c, id)
      PROVE  [Sessions!Next]_(Sessions!vars)
  BY <1>2, ConfigSession
<1>3. ASSUME NEW p \in Procs, DelClient(p) \/ SendCloseClient(p)
      PROVE  [Sessions!Next]_(Sessions!vars)
  BY <1>3, DelSession
<1> USE BridgeAssumption DEF IInv, TypeOK, Procs, Same, Fresh, Watches, heap, net, gor, data
<1>4. ASSUME NEW c \in Conns, NEW k \in Kinds, NEW id \in Ids, Accept(c, k, id)
      PROVE  UNCHANGED Sessions!vars
  BY <1>4, SameStep DEF Accept
<1>5. ASSUME NEW c \in Conns, Disconnect(c) PROVE UNCHANGED Sessions!vars
  BY <1>5, SameStep DEF Disconnect
<1>6. CASE PingLoop
  BY <1>6, SameStep DEF PingLoop, PingScan, PingNext, PingEnd
<1>7. CASE DealCloseClient
  BY <1>7, SameStep DEF DealCloseClient
<1>8. CASE Web
  BY <1>8, SameStep DEF Web, WebAdd, WebEnable, WebDisable, WebDel
<1>9. CASE UNCHANGED vars
  BY <1>9, SameStep DEF vars
<1> QED
  BY <1>1, <1>2, <1>3, <1>4, <1>5, <1>6, <1>7, <1>8, <1>9 DEF Next

\* The table of the bridge is a session table: no object is registered twice or
\* for two clients, and no signal of an entry loses its reader.
THEOREM BridgeKeepsSessions == Spec => ImplementsSessions
<1>1. Init => Sessions!Init
  <2> SUFFICES ASSUME Init PROVE Sessions!Init
    OBVIOUS
  <2>1. FreshObjects = Conns
    BY DEF Init, FreshObjects, Fresh, Procs
  <2>2. WatchedClient = [c \in Conns |-> None]
    BY DEF Init, WatchedClient, Watches
  <2> QED
    BY <2>1, <2>2 DEF Init, Sessions!Init
<1> QED
  BY InitStep, NextStep, SessionStep, <1>1, PTL DEF Spec, ImplementsSessions, Sessions!Spec
=============================================================================
