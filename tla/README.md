# nps in TLA+

TLA+ models of the concurrent core of nps, a reverse proxy in Go: the server
`nps` (directories `bridge`, `server`, `lib`, `web`), its clients `npc`
(`client`) and the web pages (`nps-desgin`).  Paths below are relative to the
repository.  Modules named `MC*` give TLC its instances, modules named `*Proof`
hold proofs for the TLA+ proof system.  Run from this directory:

    tlc -workers 2 -config BridgeSafety.cfg MCBridge
    tlapm BridgeProof.tla

`PROJECT.json` lists the runs, what each definition models (file and lines),
the hazards of the code with the properties that cover them, and the
disagreements between code and documents the runs show.

## The system

| part | state | operations | interacts with |
|---|---|---|---|
| Bridge (`bridge/bridge.go`) | `Client`: id -> session of signal, tunnel and file connection; `Register` | `cliProcess`, `typeDeal`, `getConfig`, `DelClient`, `ping`, `GetHealthFromClient`, `SendLinkInfo` | npc connections; `CloseClient`, `OpenTask`, `SecretChan` to the server |
| Task control (`server/server.go`) | `RunList`: task id -> listener | `AddTask`, `StartTask`, `StopServer`, `DelTask`, `DealBridgeTask` | bridge channels, web handlers, JsonDb |
| Visitor handlers (`server/proxy`) | one goroutine for each visitor; `NowConn`, `Flow` of client and task | `CheckFlowAndConnNum`, `DealClient`, `handleHttp`, `Accept` of udp | Bridge's `SendLinkInfo`, targets |
| JsonDb (`lib/file`) | maps of clients, tasks, hosts, groups, their id counters; one file each | `New*`, `Update*`, `Del*`, `Store*ToJsonFile`, `Load*` | everything |
| Web (`web/controllers`) | none of its own | handlers for tunnels, hosts, clients and groups | JsonDb, task control, bridge |
| npc (`client`) | `HealthMap`, connections, local servers | connect, reconnect, health checks, local servers | Bridge |
| Web pages (`nps-desgin/src`) | React state of the page that is shown: controls, rows, groups; the view; the session cookie | effects that ask when a page is shown, handlers of buttons and forms, the promises of their calls | Web, by HTTP calls that may fail or be answered in any order |
| Helpers (`lib/rate`, `lib/pmux`, `lib/cache`, `lib/notify`) | a bucket, a listener table, an LRU list, a ring | | handlers, start-up |

Nearly every handler is a goroutine of its own and the shared maps are
`sync.Map`s, so what needs care is almost always the same: a value is read,
something else happens, and the value is used.  The web
pages run in one thread, but every call is answered when it likes, and what
waits for the answer goes on with the values of when it was made.  What should
hold, part by part:

* Bridge: a registered session is watched by somebody who will remove it; dead
  and half-open sessions go; nobody blocks on `CloseClient` for ever; a
  displaced or disabled npc is disconnected.
* Task control: a running listener can be found and stopped; a failed start and
  a deleted task leave nothing behind; `DealBridgeTask` always gets back to its
  `select`, on which every other part waits.
* Limits: what is counted when a visitor is let in is given back once, on every
  way out; traffic is counted once; a limit that is exceeded is seen.
* JsonDb: what was answered is on disk; the file is whole whenever the process
  dies; ids in use are not given out; a task never changes its client; the
  groups are a forest.
* Health: a target that stays down is taken out, one that stays up is used.
* Web pages: a save stores what its user chose and nothing else, once, however
  often it is repeated; a list ends up showing what it asks for; every group can
  be reached, and none is moved below itself; no view is empty; a session that
  ended is noticed.

## Modules

**Bridge** has the session table.  An object `*Client` is named by the
connection that allocated it, so two goroutines may hold different objects for
one id, as in the code.  `typeDeal` is two steps, `*Store` (`LoadOrStore`) and
`*Attach` or `MainTakeOver` (the assignment to the object found); `DelClient`
is `DelLoad`, `DelClose`, `DelDelete`, `SendCloseClient`.  Its four callers are
the reader of a signal connection, `ping`, the web and a failed configuration
connection.  Accepting a connection stands for `cliProcess`; the table is
guarded by the key, so only the client's id and status matter.

**SessionTable** is the abstract specification of the table: a session is opened
once and for one client, anybody may close it, and who becomes its signal
watches the client until the session is closed or has another signal.  Bridge
implements it (`ImplementsSessions`): the sessions are the objects, those still
to be opened are the ones no handler has published (`Fresh`), and who watches is
the reader of a main connection until it has removed the entry (`Watches`).
That a reader may close a session it is not the signal of, and that a handler may
write to a session that was just closed, the table does not exclude, and
SessionTable says so.

**Tasks** has `RunList`, the listeners and the requests.  `AddTask` stores a
service and starts it in a goroutine (`ServiceUp`, `ServiceFails`,
`ServiceUnlists`); `StopServer` is `StopLoad`, `StopClose`, `StopGet`,
`StopPut`, `StopUnlist`; the handlers of `index.go` are sequences of these,
chosen by `op`.  A form has a port and a mode (`Conf`), both of which `Edit` may
change under a listener; a service keeps the mode it was made for (`kind`).
`DealBridgeTask` is the process `Deal`.  At the start `InitFromCsv` has listed
some of the tasks that were running, whose listeners are about to open, and the
public client as if it were a task (`Booted`).  A start may fail, and `AddTask`
may refuse, for reasons other than a taken port (`ServerIp`, `allow_ports`, a
mode nobody knows), so neither has a guard.  With `Serial` the web sends one
request at a time, after the listeners have settled.  Left out are the modes
`webServer` and `httpHostServer`, whose services have the id 0 and no handler
that stops them, and the client of a task, which is in ClientHosts.

**ConnLimit** has `NowConn` and every handler that changes it; `handleHttp`
with its label `reset`, its deferred `AddConn` and the variable `isReset` that
two of its goroutines write without a lock.  Who is charged is the client that
`CheckFlowAndConnNum` was called for (`payer`), who is paid back the one that the
handler reads then: those of tcp, socks5 and the http proxy read `task.Client`
again when the visitor leaves, the others defer the call on the client they read
right after the check.

**ClientFlow** has the traffic counters and the sum `dealClientData` rebuilds.
It is run by the ticker once a minute and by each request for the client list or
the dashboard (`Runs`), without a lock, so runs overlap; a `+=` on the flow of a
client is a load and a store.

**ClientHosts** declares the clients and hosts of these two, with the client each
host has at the moment (`owner`): Edit and EditHost replace it in the shared
record while visitors are on the host.  **ClientLimits** is the sum of the two,
the halves of `CheckFlowAndConnNum`, which read and write different fields of a
client, so that a behaviour is of one half or of the other.

**GroupTree** has the groups and every handler that changes them or the group of
a client, those of `client.go` included.  The walk of `MoveGroup` reads one group
in each step; `DelGroup` is four steps.  No handler looks up the parent or group
that a request names, so requests name any id that was ever handed out (`Named`),
there or not.  A restart takes the counter back to the largest id loaded.

**JsonStore** has one map and its file.  A record is the number of its version,
a store is `Lock`, `Create`, one `Write` for each record, `Rename`, `Unlock`.
The process may die between any two of them, a write may panic (the lock is
then never given back), a rename may fail (which the code only logs).

**StableStore** is the abstract specification of a map and its file: updates in
memory, a save that brings the file forward, a restart that goes back to it.
JsonStore implements it with `disk <- file`; a rename is the save.  A save is not
a snapshot of one moment: `sync.Map.Range` sees each record when its turn comes.
ClientIds stores a file in one step, and needs no more than this of requests
one after the other.

**ClientIds** has clients and tasks, their two files, the counters and
restarts.  Who a client is, apart from its id, is its `birth`.

**TargetHealth** has npc's counters, the messages on a signal connection, the
readers that take targets out and put them back, and visitors that pick one,
with the steps in which each of them reads and writes `TargetArr`.  `session`
fires one round of dials after the other (`Fire`), each of them goes over the
targets in turn (`Dial`, `Check`); a deadline may be dropped when the second turns
at the wrong moment, and the checks are then over for good (`Drop`, `ended`).

The web pages are six modules.

* **ApiClient** (`api/client.ts`): `FormBody`, which leaves out undefined and
  empty parameters, the calls by controller, what the server answers to each with
  and without a session, and what a page gets of that (`HandleResponse`,
  `ChecksStatus`).
* **FormPage**: the six pages that add or edit an entry.  For each there is
  what it starts from (`*Blank`), what it shows (`*Shown`), what it sends
  (`*Params`), its save, and the handler of the server (`Serve*`).  The
  configuration, the entry and the list of clients arrive when they like
  (`ConfigArrives`, `Load*`, `ClientsArrive`); `Type`, `Cancel` and `Back` are
  the user.  A save goes through the stages of `req`; `ServeRefused` and `Lose`
  are lost requests and lost answers, `OtherSaves` and `OtherDeletes` a second
  administrator.
* **GroupOutline**: `buildTree` and `flattenWithDepth`, which five components
  have copies of, as sets: what going down from the roots reaches, and the groups
  on a cycle or below one, which it does not (`Circular`).  A list of groups may
  name parents that are not in it.
* **ListPage**: ClientList with ClientGroupTree, TunnelList, DomainList.  A
  request carries its page, filter and word; `Effect` is the `useEffect` with its
  dependencies, `calls` are the handlers that wait for the server, with the query
  of their closure; `target` is the menu or dialog that is open.  The server's
  entries are there in so far as answers depend on them.  Its groups are not:
  `getGroups` is answered by any list at all, with parents that are gone and with
  cycles, both of which GroupTree shows to be possible.
* **WebApp**: App with its views, login, registration, account, dashboard,
  sidebar, header and bell.  A call knows which page made it and whether that is
  still mounted (`mine`): if not, its answer still navigates, but changes no state
  of a page.
* **WebPanel** is the sum of FormPage, ListPage and WebApp.  App shows one page
  at a time and every page starts from its initial state, so a behaviour goes
  about one of the pages or about the views; what they share is ApiClient, and
  the views a page leads to have to be among those App draws (`EveryViewDrawn`).

## Runs

Invariants and properties hold in the runs marked *pass*; a *shows* run violates
one statement of a comment in the code, which `findings` in PROJECT.json quotes.

| run | result | what it checks |
|---|---|---|
| BridgeSafety | pass | `SignalIsWatched`, `TemporaryIsCollected`, `ImplementsSessions`: 2 connections of every kind, the public client, 1 web request, `ping` |
| BridgeLive | pass | dead and half-open sessions go, nobody blocks on `CloseClient` |
| TasksSerial | pass | `ListenerIsListed`, `DeletedIsDown`: a boot with any of 2 tasks running, then two requests one after the other, over 2 ports and all modes |
| TasksDeal | pass | `FailedNotListed`; `DealBridgeTask` returns to its `select` while a request and a configuration connection start, stop and delete the same task |
| Limits | pass | `NowConnIsCount`, `TcpCountIsExact`, `NoSlotLost`: visitors of every kind, host changes, late readers, hosts that are given to another client under them; `NeverOvercounted`, `ExcessIsSeen`: traffic, edits and deletions while the ticker and a web request sum up |
| ConnReset | shows | `NowConnSettles`: `NowConn` ends below zero after a refused host change |
| GroupSerial | pass | `StaysForest`, `Answered`: every handler, one request at a time, from pages however stale, with restarts |
| GroupConcurrent | shows | `Acyclic`: two moves at a time close a cycle |
| StoreDurable | pass | `AckedIsDurable`, `FileIsWhole`, `ImplementsStable`, `StoreReturns`, under crashes, panics and failing renames |
| IdsOwner | pass | `NeverOverwritten`, `TaskKeepsOwner`, over several lives of the process |
| HealthDown | pass | `DownIsTakenOut`, `RecoveredIsUsed`, through a reconnection, an edit, visitors and checks that end |
| Web | pass | `KeepsUntouched`, `TypedIsStored`, `RetryNeverDoubles`: all six forms with lost answers and a second administrator; `RowsAnswerQuery`, `GroupsFaithful`: the lists with answers in any order and any groups; `EveryViewDrawn`, `SessionEndIsSeen`: the views |

Hazards of PROJECT.json that name no property are among those the code does not
guard against: their notes say which condition below leaves them out.  Others of
this kind are listed only with the disagreements at the end.

Some properties hold until something happens that the code gets wrong or does
not promise anything about; a history variable says whether it did, so that one
run still goes through all of it:

* `disturbed` (ConnLimit): the two clients of an edit that came between the moment
  a visitor's client was read to charge it and the moment it is read again.
  `NowConnIsCount` and `NoSlotLost` are about all other clients; `TcpCountIsExact`
  about all: what one client loses the other has too much.
* `mixed` (ClientFlow): clients that two runs of `dealClientData` worked on at
  once, until a run that is alone on them clears their flow.  `NeverOvercounted` is
  about all other clients.  `had` has the clients a host went through, as the
  traffic a run adds may be of the client the host had when it was visited.
* `edited`, `reborn` (GroupTree): `GroupEdit` stored the parent of a form; an id was
  handed out again to which groups still pointed.  `StaysForest` and `Answered`
  are about all other histories.  `strays` are the ids that a request named when no
  group had them: `StaysForest` allows those as missing parents, and no others.
  `top` is the largest id ever handed out, up to which pages name groups.
* `failed` (JsonStore): a rename failed, which the code logs and answers as a
  success.  `AckedIsDurable` leaves out the records of `Unsaved`, those that
  `ChangeStatus` may change, as well.
* `orderly` (ClientIds): no request came while another was under way, no process
  died in the middle of one, no `DelTask` of a client's task failed, and no
  stored task was made for the client of a configuration connection.
  `TaskKeepsOwner` needs it, `NeverOverwritten` does not.  So the first says
  nothing of a death inside a request nor of a task that could not be deleted,
  after which a task does get another owner.
* `ended` (TargetHealth): a deadline was dropped and with it the last check.
  `DownIsTakenOut` and `RecoveredIsUsed` are about checks that go on.
* `touched`, `stale` (FormPage): the fields the user chose, and those that changed
  on the server since the page asked.  `KeepsUntouched` is about all other fields
  and `TypedIsStored` about the first; what the handlers reset because the page
  does not show it is named in `ResetWhenHidden`.
* `unkeyed` (FormPage): a save was stored, or changed by the user, so that the
  server cannot tell its repetition from another entry.  `RetryNeverDoubles` is
  about all other histories.
* `muddled` (ListPage): since the last list was asked for, a request failed, two
  were under way together, or a handler asked for the page of its click.
  `RowsAnswerQuery` is about all other histories: that the effect and the handlers
  ask for everything that changed, not that crossing answers come out right.
* `NowConnIsCount` is about visitors whose host has not changed, `NoSlotLost`
  about all; `RecoveredIsUsed` about one signal connection and no edit,
  `DownIsTakenOut` about all.

### Bounds

* Bridge: the hazards of the table need an old connection, a new one and one
  goroutine in `DelClient` for the same client; two connections, each accepted
  once, `ping` and a web request give each of them.  `retryTime` saturates at
  `RetryLimit`, the only value it is compared with; 1 in place of 3 in
  BridgeSafety only makes the removal come earlier, BridgeLive has 3.
* Tasks: two tasks compete for two ports; three services allow those of the boot
  and one more; requests change port and mode of both.  TasksDeal has one task, of
  tcp and of udp, as their `Close` differs: without a listener the first is a nil
  pointer and the second an error; other tasks matter to it only in that they take
  ports, and starts fail or are refused anyway.
* Limits: `MaxConn` 1 is the smallest limit two visitors can compete for; each http
  visitor changes its host once, between two hosts that are made for one of two
  clients and go to and fro.  For the traffic, two hosts of one unit each pass a
  limit of one; two runs, the ticker for ever and one web request, overlap in every
  way two can.
* Groups: three groups have a chain of length three, and a stale parent beside a
  group that is moved; three ids let one be handed out again after a restart.
* JsonStore: two records show a file that mixes old and new; two versions, one
  store that is late.
* ClientIds: three ids, two tasks and five clients, two of which are the public
  clients of restarts: an id is deleted, given out again and loaded.
* TargetHealth: one target, one message on its way, two connections one after
  the other; `MaxFail` 2 where a count that is not reported matters.
* Web, forms: one change and one save for a page that edits, two for one that
  adds, where the second is the repetition.  `MCTypable` has one field of every
  kind the handlers treat differently; of the seven types of tunnel those that
  have the same fields are one.  The two configurations allow all, and little.
* Web, lists: two entries on pages of one, so there is a second page; any
  list of at most two groups, cycles of one and two and missing parents included,
  a depth of two in place of five; three
  or four actions of the users, two requests under way (one and one more of the
  effect on ClientList).
* Web, views: three calls under way and three turns of the user: enough to leave
  a page, lose the session and come back before its call is answered.

`CHECK_DEADLOCK FALSE` is set where a bounded number of requests, versions or
connections means that the model stops when they are used up.

### Fairness

Go runs each goroutine that can run, so steps of a goroutine are weakly fair;
environment steps (connecting, breaking, web requests, targets going down) are
not fair at all.  Strong fairness is used where the runtime queues first in,
first out: the senders on `CloseClient` (Bridge), `sync.Mutex`, which hands
over after 1 ms of starvation (JsonStore).  In TargetHealth a timer that was set
fires and the goroutines of npc and nps run, all weakly fair; that npc goes on
dialing is not assumed, as `session` may drop a deadline (`Drop`).  In ClientFlow
each run of `dealClientData` is weakly fair, and so is the ticker; web requests
need not come.  Of the web pages, one weakly fair action: as long as calls
of the views are under way, one of them is answered, fails, or the browser runs
what waits for it; the browser gives up on a call after some minutes, and its
event loop runs every settled promise.

## Proofs

| theorem | states |
|---|---|
| BridgeProof!TypeCorrect, SignalsAreWatched, TemporaryClientsGo | types; `SignalIsWatched` and `TemporaryIsCollected` under every interleaving |
| BridgeProof!BridgeKeepsSessions | Bridge implements SessionTable (`ImplementsSessions`) |
| TasksProof!TasksTypeCorrect, FailedStartLeavesList | types; `FailedNotListed` under every interleaving |
| TasksProof!ListenersStayListed, DeletedTasksAreDown | `ListenerIsListed`, `DeletedIsDown`, with `Serial` and no temporary task |
| ClientLimitsProof!LimitsTypeCorrect, NowConnCountsVisitors, NoSlotIsLost | types of both limits; `NowConnIsCount`, `NoSlotLost` |
| ClientLimitsProof!FlowIsNotOvercounted | `NeverOvercounted`, while the sum is rebuilt and clients are deleted |
| GroupTreeProof!TypeCorrect, TreeStaysAcyclic | types under every interleaving; `StaysForest` for serial requests |
| JsonStoreProof!TypeCorrect, FileStaysWhole, AnswersAreDurable | types; `FileIsWhole` and `AckedIsDurable` under every fault |
| JsonStoreProof!StoreIsStable | JsonStore implements StableStore |
| ClientIdsProof!TypeCorrect, NothingOverwritten, TasksKeepOwners | types; `NeverOverwritten`, `TaskKeepsOwner` |
| TargetHealthProof!HealthTypeCorrect, NoTargetIsLost | types, with a bound on the list of targets; a target not in the list can come back |
| WebPanelProof!PanelTyped, PanelDrawn | types of all pages; `EveryViewDrawn` |
| WebPanelProof!PanelRowsAnswer, ListGroupsFaithful, PanelGroupsFaithful | `RowsAnswerQuery`; `GroupsFaithful`, of ListPage alone and of the panel |
| WebPanelProof!PanelRetries, PanelKeepsUntouched, PanelStoresTyped | `RetryNeverDoubles`, `KeepsUntouched`, `TypedIsStored` |

They hold for all values of the constants that satisfy the named assumptions of
each module (finite or not, of any number; only the visitors of ConnLimit, which
are counted, the hosts of ClientFlow, whose traffic is summed up, and the entries
of ListPage, which are listed, are finite).  Of the pages the assumptions are that
each form in a run is one of the six, that a switch of nps.conf is not called like
the two tests of the session, and that a random key is neither empty nor an
escaped text.

*Bridge.* `SignalIsWatched` is not inductive: an object found by a handler may
have been removed, and belongs to a goroutine's local variable then.  `IInv`
adds that a connection not yet at `typeDeal` has an object nobody has seen
(`FreshIsPrivate`), that two ids never share an object (`EntriesDistinct`), that
what a handler found is an object of its own client (`FoundIsOwn`), and what
the locals of each goroutine are at each step.  One lemma for each action.
`TemporaryIsCollected` needs besides that no temporary client is public, as
`DelClient` does not report a public one (`Collected`); most actions take nothing
out of the table nor out of the hands of a goroutine that reports (`Frame`).

For the refinement each handler either changes nothing the table knows of
(`SameStep`), drops its object (`DropStep`), publishes it (`PublishStep`) or starts
its reader (`WatchBegins`); `DelLoad` lets a reader go only if its client has no
entry, `DelDelete` closes the entry in the same step (`DelSession`).  It is
`FreshIsPrivate` that makes a session be opened once, and `FoundIsOwn` that keeps
a late handler at the sessions of its own client.

*Tasks.* A service in RunList is listed under its own task and is neither free
nor gone (`ListedIsOwned`): that a failed start unlists by id does no harm to
this, though it may unlist another service (see the disagreements).  For the
serial environment the invariant (`SerialInv`) says that every service that
listens, or is about to, is listed with a stored task (`LiveIsListed`).  It rests
on the port test of `AddTask`, which refuses a second service of a task only if
the first listens on the port and in the mode of the record (`LiveIsAsSet`);
`Edit` changes them before it stops the listener, which is the one exception
(`Moving`).

*ClientLimits.* NowConn of a client is the cardinality of the set of visitors that
were charged for it and are not gone (`Charged`), and each step moves one visitor
into it or out of it (`CountStep`).  A handler pays back the client it was charged
for, or both are `disturbed` (`PayerOK`), since only an edit in between can make
the two differ; for the handlers that defer it must be known at each step what was
deferred (`Steady`).  Types need that an http visitor defers and starts a reader
once for each host it asks for (`BoundsOK`).

`NoSlotLost` compares NowConn with a sum over all visitors, of what each of them
still gives back, and `NeverOvercounted` compares the flow of a client with the
traffic of its tunnels and hosts.  A sum is taken as the size of a set with one
element for each unit (`Tokens`), so that a step which changes one term adds
elements or takes some out (`SumUp`), and no induction over the terms is needed.
For the first the invariant is that NowConn of a client plus the visitors is at most
the sum of what each handler may still give back to it, and one more for each
(`SlotsOK`); for the second, that the flow of a client, or the sum a run is about
to store for it, together with what that run has not yet visited is at most the
traffic of the hosts the client ever had (`Fits`), as long as the run is alone on
the client (`Solo`).

*GroupTree.* The walk of `MoveGroup` stops at the root or at a group that is gone,
and the store follows in either case. A walk up from the new parent has to say
something about what it has passed while the tree is finite or not: every set of
groups that has the new parent and is closed under parents, the moved group
excepted, has the group the walk has reached (`Walking`). At its end it follows
that there is no such set (`Putting`), so the store closes no cycle; a missing
ancestor closes none either, until its id is given out again (`reborn`). `Alone`
is where serial requests are used; GroupConcurrent shows that it is needed.
`GroupEdit` leaves the invariant and sets `edited`, which nothing clears.

*JsonStore.* The lock leaves the .tmp file to one writer (`Exclusive`), which
has written the records not in `todo` (`Complete`).  For durability the records
already written lie between those of the file and those of the map (`Written`),
and the map is never behind the file (`MapAhead`).  The refinement needs the
part of this that no failing rename breaks (`Between`); each step then is an
update, a save, a restart or a stutter of StableStore.

*ClientIds.* The counters are above the ids in memory (`Ahead`); a restart
re-establishes it because `LastOf` is the largest id loaded.  For
`TaskKeepsOwner` the invariant (`OrderlyInv`) relates files and maps: between two
requests they agree (`TasksSaved`, `ClientsSaved`), every task has its client, in
the map and in the file (`HasClient`), unless a request is just deleting both
(`Leaving`).  So an orderly restart drops no task and takes no counter below an
id that a task still names.

*ListPage.* The tree a page draws is the smallest set with the roots that is closed
under children; so what it leaves out is the largest set of groups whose parents
are all in it, a cycle and what is below (`RenderedIs`).  What a popover offers is
reached from the roots without entering the group that is moved, so none of it has
that group above it (`SkippedBelow`), in any list of groups, as `buildTree` looks
for neither.  `ListInv` is then only that the page has some list, and that its menu
and filter are about groups.  MaxDepth plays no part.

That a list shows what it asks for is not inductive, as it says nothing of what is
under way.  `RowsFollow` does: unless the list is muddled, either nothing is under
way and the rows are those of what the page shows, or exactly the one request for
them is, or the effect that sends it has yet to run.

*WebApp.* `AppInv`: the view is one that App draws, or one of `BlankTypes`
(`Drawn`), and what a page waits for is a call of its own that is under way
(`OwnCall`), so that an answer which navigates leads from one view to another.

*FormPage.* `FormBase` says what a page holds: an entry of its kind with all
fields of that kind, a configuration that is empty or full, and a body with the
fields of the page but for those that are zero.  On it rest two lemmas about one
save, that what is sent is what the page shows and what was typed, and what an
edit makes of the entry field by field (`ShownIsSent`, `EditedIs`).

For `RetryNeverDoubles` (`RetryInv`): as long as no save without a mark was stored,
nobody has typed since the first save, so that what is under way is what the page
holds, and the entry stored carries the mark of it, which the server refuses a
second time.  For `KeepsUntouched` (`LoadInv`) the same is said of three places: in what the page holds, in the save under way and in the
entry on its way to the page, every field that nobody touched and that has not
become stale is what the server has (`PageLoaded`, `SaveLoaded`, `SnapFresh`).

*WebPanel.* The parts share no variable, and the panel opens at most one:
`WebInv` says of each that it is closed or has its invariant.

*TargetHealth.* `PutBack` does not look again whether the target is in the list,
so readers of several connections may each add a copy.  Each looked once: the
copies in the list and the readers about to add one are at most as many as there
are connections, and the one of TargetStr (`CopiesBounded`).  A list is as long as
its values have places in all (`LengthOfList`), which bounds the list and the index
into it.  `NoTargetIsLost` holds while the tunnel is not edited, because only then
nothing is taken out, nor about to be put back, when there is no list
(`NothingTakenYet`); the proof failed without that condition, and a tunnel of two
targets shows why (see the disagreements).

Only model-checked: the liveness properties, as fairness and ENABLED are outside the
prover's logic here (`DeadSignalReaped`, `DeadTunnelReaped`, `HalfOpenReaped`,
`CleanupDelivered`, `DealReturns`, `ExcessIsSeen`, `Answered`, `StoreReturns`,
`DownIsTakenOut`, `RecoveredIsUsed`, `SessionEndIsSeen`), and `TcpCountIsExact`, a
sum over the clients by a fold.  Every other invariant and every action property that
a *pass* run checks is proved; the types of Tasks are proved and not checked.

## Disagreements between code and documents

Met while modelling.  The first two have a run; the others are behaviours of the
models that no property excludes, or conditions of the properties above.

* A visitor whose host changes and is then refused gives two slots back
  (`server/proxy/http.go:146`; run ConnReset).
* A tunnel or host that is given to another client while visitors are on it
  (`web/controllers/index.go:157`, `:303`): the old client was charged
  (`server/proxy/tcp.go:37`) and the new one is paid back (`tcp.go:44`,
  `socks5.go:380`), so that the old one's NowConn, "the connection num of now"
  (`lib/file/obj.go:57`), stays too high for good and the new one's too low
  (`disturbed`).
* Two moves of groups at a time close a cycle, which `lib/file/db.go:358` rules
  out (run GroupConcurrent).  `GroupEdit` (`web/controllers/api.go:174`) stores
  any parent, the group itself included; the page renames a group without
  `parent_id`, which moves it to the root; a client moved into a group that is
  being deleted stays in it (`lib/file/db.go:311`).
* No handler looks up the group or parent it is given (`lib/file/db.go:288`, `:338`,
  `:365`; `web/controllers/client.go:52`, `:122`): a page that is behind puts groups
  and clients below a group that is gone (`strays`).  After a restart the largest
  id is given out again (`lib/file/file.go:75`); groups that still point to it
  become the children of the new group, and if that is put below one of them, a
  cycle (`reborn`).
* `DelGroup` goes over the groups and clients while others write them, and stores
  two files one after the other (`lib/file/db.go:334`).
* Two runs of `dealClientData` at a time count the traffic of a client twice, or one
  undoes the other (`server/server.go:279`, `:297`, `:365`), until a run that is
  alone comes (`mixed`).
* npc gives up the health checks of a tunnel for good when the second turns at the
  wrong moment (`client/health.go:48`, `:55`), and all of them when that was the
  last deadline (`:43`); a reconnection does not start them again (`Drop`, `ended`).
* `bridge/bridge.go:249` says that the connection displaced by another npc with
  the same key is closed; the code only writes `RES_CLOSE` to it, and npc
  ignores that message.
* A signal may be attached to a session that `DelClient` has just removed from
  the table (`bridge/bridge.go:254`); the npc is connected and unreachable.
* A client disabled between the handshake and `typeDeal` is registered
  (`bridge/bridge.go:203`).
* Of two starts of one task at a time the second takes the place of the first in
  `RunList`, before either listens (`server/server.go:202`), and the one that
  fails removes the other (`:207`): `StopServer` then answers that the task is not
  running.  A `DelTask` between `GetTask` and `UpdateTask` of a `StopServer` is
  undone (`:175`).  Both are why `Serial` is needed.
* `Close` of a tcp service that has not opened its listener dereferences nil
  (`server/proxy/tcp.go:50`), which ends the process when it is `DealBridgeTask`
  that closes it (`StopCloseNil`, `crashed`).
* `server/server.go:320` says that all tasks of the client are deleted; one whose
  `Close` fails is kept.  Its file record then belongs to the next client that
  gets the id (`lib/file/file.go:95`).  The same happens when the process dies
  between the deletion of a client and that of its tasks (`orderly`).
* `docs/feature.md:129` gives a client a maximum of connections, for secret
  tunnels as well.  `GetConn` compares and counts in two steps
  (`lib/file/obj.go:93`), and secret visitors are not counted at all.
* `docs/feature.md:44` refuses service above the traffic limit; while the sum is
  rebuilt (`server/server.go:297`) a refused client is served.
* `ChangeStatus` answers "modified success" and stores nothing
  (`web/controllers/client.go:160`).
* `docs/feature.md:206` says that a recovered target is put back.  npc forgets
  what it reported when it reconnects (`client/health.go:24`), an edit of the
  tunnel leaves `HealthRemoveArr` behind (`bridge/bridge.go:137`), and a target
  whose name is part of another's is taken for it (`bridge/bridge.go:102`, which
  the model leaves out).  A target that is put back after an edit, before a visitor
  has come, is then the only one in the list: the others, which never failed, get no
  visitor until they fail and recover (`NoTargetIsLost` is about unedited tunnels).
* `nps-desgin/src/i18n/locales/en.json:225` tells the user of `EditClient.tsx:254`
  and `:268` to leave a password empty to keep it; `formBody` then leaves it out,
  and `web/controllers/client.go:131` and `:138` store the empty password.
  `TypedIsStored` says nothing of a password that was emptied (`SaidToBeKept`).
* `nps-desgin/src/i18n/locales/en.json:96` has the dashboard refresh every five
  seconds (`Dashboard.tsx:239`); it asks once, when it is shown (`OnMount`).

And behaviours of the web pages that the conditions of the properties name:

* An edit resets the fields that its page does not show, `server_ip`,
  `local_proxy`, certificates and, for an administrator, limits: always, if they
  are switched off in nps.conf, and also if the page is saved before the
  configuration has arrived (`ResetWhenHidden`).  EditTunnel and EditHost can be
  saved before the entry has arrived, which a user of the session then stores
  over it.  A change somebody else made meanwhile is overwritten.
* Every save escapes the texts again (`a&amp;b`, `a&amp;amp;b`; `Same`).
* An edit of a tunnel or host that somebody deleted is answered as a success
  (`ServeGone`).
* A tunnel is stored before it is started: when the start fails the page shows an
  error, and another try makes a second tunnel (`unkeyed`).
* AddTunnel opened for no client goes on to the view `httpProxy` or `secret`, and
  App draws nothing for either (`AddTunnel.tsx:88` and `:271`, `App.tsx:119`;
  `BlankTypes`).
* The dashboard offers a user who is no administrator to add a client; the save
  gets an empty answer.
* TunnelList keeps its page number when the type changes: the new list may be
  empty and without a pager.  Its search asks for the page it was on, and races
  with the effect that asks for the first.  Handlers ask again with the page and
  filter of their click (`muddled`).
* Of the calls of lists and forms none tells a session that ended from another
  failure, although the pages test for it (`ClientList.tsx:85`,
  `EditClient.tsx:103`): only `ChecksStatus` and `changePassword` can.  A late
  answer of an earlier dashboard sends a user who logged in again back to the
  login page.

## Not modelled yet, and the plan

The project keeps to a dozen runs that finish in minutes, which it has now: a
new module replaces one of the *shows* runs or shares a run with a component that
it does not touch, as ClientLimits and WebPanel do.  In this order:

1. npc (`client/client.go`, `control.go`): its two connections and reconnection,
   composed with Bridge.
2. Unique keys: `VerifyVkey`, passwords of secret tunnels, routes of hosts
   (`IsHostExist`), `MaxTunnelNum`, which are checked by one request while
   another stores.
3. The rate limiter, the table of p2p exchanges, the LRU cache and the port
   multiplexer, each a small module.
4. The udp address map and the copying of both directions of a connection.

Of the web pages the help page, the dashboard's charts and numbers, labels and
languages, and the details of rows are not modelled: they show what a call
answered and keep no state beyond it.  Nor are the texts of messages.  The label
of the header and the sums of the dashboard are left out for the same reason.

Not planned: encodings, encryption and third-party protocols (nps-mux, kcp,
snappy), parsing of configuration files and of visitors' requests, sorting of
lists, installation and process control.  They keep no state that several
goroutines share, or only wrap a library.  PROJECT.json names the files.
