---------------------------- MODULE TargetHealth ----------------------------
(***************************************************************************)
(* The health check of the targets of one tunnel.                          *)
(*                                                                         *)
(* npc dials the targets again and again (client/health.go), counts the    *)
(* failures in HealthMap and tells nps over its signal connection which    *)
(* target failed or came back.  The reader of each signal connection       *)
(* (GetHealthFromClient, bridge/bridge.go) takes failed targets out of     *)
(* TargetArr and puts them back; visitors pick from it (GetRandomTarget,   *)
(* lib/file/obj.go) without the lock the readers take.                     *)
(*                                                                         *)
(* The tunnel is stored in the database, so it outlives a signal           *)
(* connection.  HealthMap is kept below 2 * MaxFail by taking MaxFail off, *)
(* which none of its three tests can see.                                  *)
(*                                                                         *)
(* session keeps the next deadline of each tunnel in a heap of seconds.  It *)
(* drops one for good when the second turns between the setting of the     *)
(* deadline and its being looked at; with the last one the checks end.     *)
(*                                                                         *)
(* Bounds: Checkers checks at a time, Conns signal connections one after   *)
(* the other, Edits edits, Buffer messages between npc and nps, Copies of a *)
(* target in HealthRemoveArr.                                              *)
(***************************************************************************)
EXTENDS Naturals, Sequences, SequencesExt

CONSTANTS
  Targets,    \* the targets of TargetStr, a sequence
  Checkers,   \* check goroutines of npc
  Visitors,   \* goroutines of nps that serve a visitor
  Conns, Edits, Buffer, Copies,
  MaxFail,    \* HealthMaxFail
  Nil

Names == ToSet(Targets)    \* HealthCheckTarget

ASSUME TargetHealthAssumption ==
  /\ Targets \in Seq(Names) /\ Targets # <<>> /\ IsInjective(Targets)
  /\ Conns \in Nat \ {0} /\ Edits \in Nat
  /\ Buffer \in Nat \ {0} /\ Copies \in Nat \ {0}
  /\ MaxFail \in Nat \ {0}
  /\ Nil \notin Names \cup Seq(Names)

VARIABLES
  up,         \* targets that answer
  HealthMap,  \* name -> failures counted
  ended,      \* the loop of session is over
  rest,       \* check goroutine -> the targets it has still to dial
  dialed,     \* check goroutine -> <<name, whether it answered>> or Nil
  conn,       \* number of the signal connection npc uses
  broken,     \* npc has not yet noticed that it is broken
  sent,       \* connection -> messages on their way, <<name, whether it is up>>
  adding,     \* connection -> the name its reader is about to put back, or Nil
  TargetArr,  \* Nil or a sequence of names
  removed,    \* name -> its copies in HealthRemoveArr
  nowIndex,   \* one more than in the code: 0 is its initial value
  visit,      \* visitor -> step of GetRandomTarget
  edits,
  crashed     \* a visitor's goroutine panicked

npc == <<HealthMap, ended, rest, dialed, conn, broken>>
nps == <<adding, TargetArr, removed, nowIndex, visit, edits, crashed>>
vars == <<up, npc, sent, nps>>

Messages == Names \X BOOLEAN

\* Every reader may have put a target back that was there already.
LongestList == Len(Targets) * (Conns + 1)

TypeOK ==
  /\ up \subseteq Names
  /\ HealthMap \in [Names -> 0 .. 2 * MaxFail - 1]
  /\ ended \in BOOLEAN
  /\ rest \in [Checkers -> Seq(Names)]
  /\ dialed \in [Checkers -> Messages \cup {Nil}]
  /\ conn \in 1 .. Conns /\ broken \in BOOLEAN
  /\ sent \in [1 .. Conns -> Seq(Messages)]
  /\ \A c \in 1 .. Conns : Len(sent[c]) <= Buffer
  /\ adding \in [1 .. Conns -> Names \cup {Nil}]
  /\ TargetArr = Nil \/ TargetArr \in Seq(Names)
  /\ removed \in [Names -> 0 .. Copies]
  /\ nowIndex \in 0 .. LongestList
  /\ visit \in [Visitors -> {"idle", "split", "size", "first", "index", "read"}]
  /\ edits \in 0 .. Edits
  /\ crashed \in BOOLEAN

Init ==
  /\ up = Names
  /\ HealthMap = [v \in Names |-> 0]
  /\ ended = FALSE
  /\ rest = [k \in Checkers |-> <<>>]
  /\ dialed = [k \in Checkers |-> Nil]
  /\ conn = 1 /\ broken = FALSE
  /\ sent = [c \in 1 .. Conns |-> <<>>]
  /\ adding = [c \in 1 .. Conns |-> Nil]
  /\ TargetArr = Nil
  /\ removed = [v \in Names |-> 0]
  /\ nowIndex = 0
  /\ visit = [p \in Visitors |-> "idle"]
  /\ edits = 0
  /\ crashed = FALSE

-----------------------------------------------------------------------------
(* npc: client/health.go                                                   *)

\* A target goes down or comes back.
Toggle(v) ==
  /\ up' = IF v \in up THEN up \ {v} ELSE up \cup {v}
  /\ UNCHANGED <<npc, sent, nps>>

\* The timer of session fires at the deadline: a check starts, and the next
\* deadline is set.
Fire(k) ==
  /\ ~ended
  /\ rest[k] = <<>> /\ dialed[k] = Nil
  /\ rest' = [rest EXCEPT ![k] = Targets]
  /\ UNCHANGED <<up, HealthMap, ended, dialed, conn, broken, sent, nps>>

\* The deadline is taken out of the heap and not set again: it is no whole
\* second away any more (rs <= 0), or the timer, which counts from the whole
\* second, fires before it.
Drop ==
  /\ ~ended
  /\ ended' = TRUE
  /\ UNCHANGED <<up, HealthMap, rest, dialed, conn, broken, sent, nps>>

\* check dials the next target, before it takes the lock.
Dial(k) ==
  /\ dialed[k] = Nil /\ rest[k] # <<>>
  /\ dialed' = [dialed EXCEPT ![k] = <<Head(rest[k]), Head(rest[k]) \in up>>]
  /\ rest' = [rest EXCEPT ![k] = Tail(@)]
  /\ UNCHANGED <<up, HealthMap, ended, conn, broken, sent, nps>>

\* SendHealthInfo waits for room; its error is not looked at.
SendHealthInfo(v, isUp) ==
  IF broken THEN UNCHANGED sent
  ELSE /\ Len(sent[conn]) < Buffer
       /\ sent' = [sent EXCEPT ![conn] = Append(@, <<v, isUp>>)]

\* The failures of v after one more.
OneMore(v) ==
  IF HealthMap[v] + 1 = 2 * MaxFail THEN MaxFail ELSE HealthMap[v] + 1

\* A mutant of Failed: a failed target is reported once.
FailedOnce(k) ==
  LET v == dialed[k][1] IN
  /\ ~dialed[k][2]
  /\ HealthMap' = [HealthMap EXCEPT ![v] = OneMore(v)]
  /\ IF HealthMap[v] + 1 = MaxFail THEN SendHealthInfo(v, FALSE) ELSE UNCHANGED sent

\* Every MaxFail failures of a target are reported.
Failed(k) ==
  LET v == dialed[k][1] IN
  /\ ~dialed[k][2]
  /\ HealthMap' = [HealthMap EXCEPT ![v] = OneMore(v)]
  /\ IF OneMore(v) % MaxFail = 0 THEN SendHealthInfo(v, FALSE) ELSE UNCHANGED sent

\* A mutant of Answered: the count is cleared before it is looked at.
AnsweredForgets(k) ==
  LET v == dialed[k][1] IN
  /\ dialed[k][2]
  /\ HealthMap' = [HealthMap EXCEPT ![v] = 0]
  /\ UNCHANGED sent

\* A target that was reported as failed is reported as back; the failures of
\* another are kept, and reported again if they are a multiple of MaxFail.
Answered(k) ==
  LET v == dialed[k][1] IN
  /\ dialed[k][2]
  /\ IF HealthMap[v] >= MaxFail
     THEN /\ SendHealthInfo(v, TRUE)
          /\ HealthMap' = [HealthMap EXCEPT ![v] = 0]
     ELSE UNCHANGED <<HealthMap, sent>>

\* The part of check under t.Lock().
Check(k) ==
  /\ dialed[k] # Nil
  /\ Failed(k) \/ Answered(k)
  /\ dialed' = [dialed EXCEPT ![k] = Nil]
  /\ UNCHANGED <<up, ended, rest, conn, broken, nps>>

\* The signal connection breaks and loses what nps has not read.
Break(n) ==
  /\ ~broken /\ conn < Conns
  /\ n \in 0 .. Len(sent[conn])
  /\ broken' = TRUE
  /\ sent' = [sent EXCEPT ![conn] = SubSeq(@, 1, n)]
  /\ UNCHANGED <<up, HealthMap, ended, rest, dialed, conn, nps>>

\* Start connects again and heathCheck, already started, clears the counts.
Reconnect ==
  /\ broken
  /\ broken' = FALSE
  /\ conn' = conn + 1
  /\ HealthMap' = [v \in Names |-> 0]
  /\ UNCHANGED <<up, ended, rest, dialed, sent, nps>>

-----------------------------------------------------------------------------
(* nps: GetHealthFromClient, one reader for each connection                *)

Running == ~crashed

\* The list a failed target is taken from.
Loaded ==
  IF TargetArr = Nil \/ (TargetArr = <<>> /\ \A v \in Names : removed[v] = 0)
  THEN Targets ELSE TargetArr

\* RemoveArrVal, and one more copy in HealthRemoveArr.
TakeOut(c) ==
  LET v == Head(sent[c])[1] IN
  /\ Running /\ adding[c] = Nil
  /\ sent[c] # <<>> /\ ~Head(sent[c])[2]
  /\ sent' = [sent EXCEPT ![c] = Tail(@)]
  /\ TargetArr' = RemoveFirst(Loaded, v)
  /\ removed' = [removed EXCEPT ![v] = IF @ < Copies THEN @ + 1 ELSE @]
  /\ UNCHANGED <<up, npc, adding, nowIndex, visit, edits, crashed>>

InTargetArr(v) == TargetArr # Nil /\ v \in ToSet(TargetArr)

\* The test before the lock.
MayPutBack(c) ==
  LET v == Head(sent[c])[1] IN
  /\ Running /\ adding[c] = Nil
  /\ sent[c] # <<>> /\ Head(sent[c])[2]
  /\ sent' = [sent EXCEPT ![c] = Tail(@)]
  /\ adding' = IF removed[v] > 0 /\ ~InTargetArr(v)
               THEN [adding EXCEPT ![c] = v] ELSE adding
  /\ UNCHANGED <<up, npc, TargetArr, removed, nowIndex, visit, edits, crashed>>

\* append to TargetArr, RemoveArrVal of one copy.
PutBack(c) ==
  LET v == adding[c] IN
  /\ Running /\ v # Nil
  /\ TargetArr' = IF TargetArr = Nil THEN <<v>> ELSE Append(TargetArr, v)
  /\ removed' = [removed EXCEPT ![v] = IF @ > 0 THEN @ - 1 ELSE 0]
  /\ adding' = [adding EXCEPT ![c] = Nil]
  /\ UNCHANGED <<up, npc, sent, nowIndex, visit, edits, crashed>>

-----------------------------------------------------------------------------
(* nps: GetRandomTarget, and the Edit handler                              *)

Visit(p, from, to) ==
  /\ Running
  /\ visit[p] = from
  /\ visit' = [visit EXCEPT ![p] = to]
  /\ UNCHANGED <<up, npc, sent, adding, removed, edits>>

\* TargetArr is looked at, and split from TargetStr if it is nil, in two steps.
VisitBegin(p) ==
  /\ Visit(p, "idle", IF TargetArr = Nil THEN "split" ELSE "size")
  /\ UNCHANGED <<TargetArr, nowIndex, crashed>>

VisitSplit(p) ==
  /\ Visit(p, "split", "size")
  /\ TargetArr' = Targets
  /\ UNCHANGED <<nowIndex, crashed>>

VisitSize(p) ==
  /\ Visit(p, "size", CASE Len(TargetArr) = 0 -> "idle"
                        [] Len(TargetArr) = 1 -> "first"
                        [] OTHER -> "index")
  /\ UNCHANGED <<TargetArr, nowIndex, crashed>>

\* return s.TargetArr[0]
VisitFirst(p) ==
  /\ Visit(p, "first", "idle")
  /\ crashed' = (TargetArr = <<>>)
  /\ UNCHANGED <<TargetArr, nowIndex>>

\* A mutant of VisitIndex: the index never starts again.
VisitIndexOn(p) ==
  /\ \A q \in Visitors : visit[q] # "read"
  /\ Visit(p, "index", "read")
  /\ nowIndex' = nowIndex + 1
  /\ UNCHANGED <<TargetArr, crashed>>

\* s.nowIndex, under s.Lock(), which the readers do not take.
VisitIndex(p) ==
  /\ \A q \in Visitors : visit[q] # "read"
  /\ Visit(p, "index", "read")
  /\ nowIndex' = IF nowIndex + 1 > Len(TargetArr) THEN 1 ELSE nowIndex + 1
  /\ UNCHANGED <<TargetArr, crashed>>

\* return s.TargetArr[s.nowIndex]: out of range when a reader took one out.
VisitRead(p) ==
  /\ Visit(p, "read", "idle")
  /\ crashed' = (nowIndex > Len(TargetArr))
  /\ UNCHANGED <<TargetArr, nowIndex>>

\* Edit of IndexController puts a new Target in, HealthRemoveArr stays.
\* Visitors end with the old one.
Edit ==
  /\ Running
  /\ edits < Edits
  /\ edits' = edits + 1
  /\ TargetArr' = Nil
  /\ nowIndex' = 0
  /\ visit' = [p \in Visitors |-> "idle"]
  /\ UNCHANGED <<up, npc, sent, adding, removed, crashed>>

-----------------------------------------------------------------------------
Reader(c) == TakeOut(c) \/ MayPutBack(c) \/ PutBack(c)

Visitor(p) ==
  VisitSplit(p) \/ VisitSize(p) \/ VisitFirst(p) \/ VisitIndex(p) \/ VisitRead(p)

Next ==
  \/ \E v \in Names : Toggle(v)
  \/ Drop
  \/ \E k \in Checkers : Fire(k) \/ Dial(k) \/ Check(k)
  \/ \E n \in 0 .. Buffer : Break(n)
  \/ Reconnect
  \/ \E c \in 1 .. Conns : Reader(c)
  \/ \E p \in Visitors : VisitBegin(p) \/ Visitor(p)
  \/ Edit

Spec == Init /\ [][Next]_vars

\* A timer that was set fires, and goroutines that can run do.  That the
\* deadline is not dropped is not assumed.
FairSpec ==
  /\ Spec
  /\ WF_vars(\E k \in Checkers : Fire(k))
  /\ \A k \in Checkers : WF_vars(Dial(k)) /\ WF_vars(Check(k))
  /\ WF_vars(Reconnect)
  /\ \A c \in 1 .. Conns : WF_vars(Reader(c))
  /\ \A p \in Visitors : WF_vars(Visitor(p))

-----------------------------------------------------------------------------
(* Properties                                                              *)

\* Whether visitors may be sent to v.
Served(v) == TargetArr = Nil \/ InTargetArr(v)

\* As long as session goes on, a target that stays down is taken out for good,
\* whatever the order of readers and visitors, and through lost messages.
DownIsTakenOut ==
  \A v \in ToSet(Targets) :
    <>[](v \notin up) => <>ended \/ <>[](crashed \/ ~Served(v))

\* docs/feature.md:206: a target that comes back and stays is in use again, as
\* long as session goes on.  A reconnection forgets what npc had reported, an
\* edit what nps had taken out, so this is about the first signal connection
\* and an unchanged tunnel.
RecoveredIsUsed ==
  \A v \in ToSet(Targets) :
    <>[](v \in up /\ conn = 1 /\ edits = 0) => <>ended \/ <>[](crashed \/ Served(v))
=============================================================================
