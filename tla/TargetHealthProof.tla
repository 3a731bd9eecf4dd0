-------------------------- MODULE TargetHealthProof --------------------------
(***************************************************************************)
(* Theorems about TargetHealth, for any number of targets, connections,    *)
(* check goroutines and visitors: its types, the longest list of targets   *)
(* included, and that no target is lost while the tunnel is not edited.    *)
(***************************************************************************)
EXTENDS TargetHealth, FiniteSetTheorems, SequenceTheorems, TLAPS

\* The places of v in a list.
At(arr, v) == {i \in 1 .. Len(arr) : arr[i] = v}

\* The numbers up to n are n.
LEMMA UpToN ==
  ASSUME NEW n \in Nat
  PROVE  IsFiniteSet(1 .. n) /\ Cardinality(1 .. n) = n
<1>1. 1 \in Int /\ n \in Int
  OBVIOUS
<1>2. IsFiniteSet(1 .. n) /\ Cardinality(1 .. n) = IF 1 > n THEN 0 ELSE n - 1 + 1
  BY <1>1, FS_Interval
<1> QED
  BY <1>2

\* A value has no more places than the list is long.
LEMMA AtFinite ==
  ASSUME NEW arr \in Seq(Names), NEW v
  PROVE  /\ IsFiniteSet(At(arr, v))
         /\ Cardinality(At(arr, v)) \in Nat
         /\ Cardinality(At(arr, v)) <= Len(arr)
<1>1. IsFiniteSet(1 .. Len(arr)) /\ Cardinality(1 .. Len(arr)) = Len(arr)
  BY UpToN, LenProperties
<1>2. At(arr, v) \in SUBSET (1 .. Len(arr))
  BY DEF At
<1> QED
  BY <1>1, <1>2, FS_Subset, FS_CardinalityType

\* Min chooses what it is meant to, on any set of natural numbers.
LEMMA MinOfNat ==
  ASSUME NEW S \in SUBSET Nat, S # {}
  PROVE  Min(S) \in S /\ \A y \in S : Min(S) <= y
<1> DEFINE R == OpToRel(<, Nat)
<1>1. IsWellFoundedOn(R, Nat)
  BY NatLessThanWellFounded
<1>2. R = {ss \in Nat \X Nat : ss[1] < ss[2]}
  BY DEF OpToRel
<1>3. \A x, y \in Nat : y < x => <<y, x>> \in R
  BY <1>2
<1> HIDE DEF R
<1>4. PICK x \in S : \A y \in S : ~ (<<y, x>> \in R)
  BY <1>1, WFMin
<1>5. \A y \in S : ~ (y < x)
  BY <1>3, <1>4
<1>6. \A y \in S : x <= y
  BY <1>5
<1> QED
  BY <1>6 DEF Min

\* RemoveArrVal cuts one place out of a list, a place of val if there is one.
LEMMA RemoveFirstCuts ==
  ASSUME NEW arr \in Seq(Names), NEW v \in Names
  PROVE  /\ RemoveFirst(arr, v) \in Seq(Names)
         /\ \/ RemoveFirst(arr, v) = arr
            \/ \E k \in 1 .. Len(arr) :
                 /\ arr[k] = v
                 /\ Len(RemoveFirst(arr, v)) = Len(arr) - 1
                 /\ \A i \in 1 .. Len(arr) - 1 :
                      RemoveFirst(arr, v)[i] = IF i < k THEN arr[i] ELSE arr[i + 1]
<1>1. CASE ~ \E i \in 1 .. Len(arr) : arr[i] = v
  BY <1>1 DEF RemoveFirst
<1>2. CASE \E i \in 1 .. Len(arr) : arr[i] = v
  <2> DEFINE I == {i \in 1 .. Len(arr) : arr[i] = v}
             k == Min(I)
  <2>1. I # {} /\ I \in SUBSET Nat
    BY <1>2
  <2>2. k \in 1 .. Len(arr) /\ arr[k] = v
    BY <2>1, MinOfNat
  <2>3. RemoveFirst(arr, v) = RemoveAt(arr, k)
    BY <1>2, <2>1 DEF RemoveFirst, SelectInSeq
  <2> HIDE DEF k
  <2> DEFINE a == SubSeq(arr, 1, k - 1)
             b == SubSeq(arr, k + 1, Len(arr))
  <2>4. /\ a \in Seq(Names) /\ Len(a) = k - 1
        /\ \A i \in 1 .. k - 1 : a[i] = arr[i]
    BY <2>2, SubSeqProperties, LenProperties
  <2>5. /\ b \in Seq(Names) /\ Len(b) = Len(arr) - k
        /\ \A i \in 1 .. Len(arr) - k : b[i] = arr[k + i]
    BY <2>2, SubSeqProperties, LenProperties
  <2>6. RemoveAt(arr, k) = a \o b
    BY DEF RemoveAt
  <2> HIDE DEF a, b
  <2>7. /\ a \o b \in Seq(Names) /\ Len(a \o b) = Len(a) + Len(b)
        /\ \A i \in 1 .. Len(a) + Len(b) :
             (a \o b)[i] = IF i <= Len(a) THEN a[i] ELSE b[i - Len(a)]
    BY <2>4, <2>5, ConcatProperties
  <2>8. Len(arr) \in Nat /\ Len(a) + Len(b) = Len(arr) - 1
    BY <2>2, <2>4, <2>5, LenProperties
  <2>9. ASSUME NEW i \in 1 .. Len(arr) - 1
        PROVE  (a \o b)[i] = IF i < k THEN arr[i] ELSE arr[i + 1]
    <3>1. CASE i < k
      <4>1. i \in 1 .. k - 1
        BY <2>2, <2>8, <3>1
      <4> QED
        BY <2>2, <2>4, <2>7, <2>8, <3>1, <4>1
    <3>2. CASE ~ (i < k)
      <4>1. i - Len(a) \in 1 .. Len(arr) - k /\ k + (i - Len(a)) = i + 1
        BY <2>2, <2>4, <2>8, <3>2
      <4>2. (a \o b)[i] = b[i - Len(a)]
        BY <2>2, <2>4, <2>7, <2>8, <3>2
      <4> QED
        BY <2>5, <3>2, <4>1, <4>2
    <3> QED
      BY <3>1, <3>2
  <2> QED
    BY <2>2, <2>3, <2>6, <2>7, <2>8, <2>9
<1> QED
  BY <1>1, <1>2

\* So no value gets more places than it had.
LEMMA RemoveFirstAt ==
  ASSUME NEW arr \in Seq(Names), NEW v \in Names, NEW w
  PROVE  Cardinality(At(RemoveFirst(arr, v), w)) <= Cardinality(At(arr, w))
<1> DEFINE r == RemoveFirst(arr, v)
<1>1. CASE r = arr
  BY <1>1, AtFinite
<1>2. CASE r # arr
  <2>1. PICK k \in 1 .. Len(arr) :
          /\ Len(r) = Len(arr) - 1
          /\ \A i \in 1 .. Len(arr) - 1 : r[i] = IF i < k THEN arr[i] ELSE arr[i + 1]
    BY <1>2, RemoveFirstCuts
  <2> HIDE DEF r
  <2> DEFINE f == [i \in At(r, w) |-> IF i < k THEN i ELSE i + 1]
  <2>2. f \in [At(r, w) -> At(arr, w)]
    BY <2>1, LenProperties DEF At
  <2>3. \A i, j \in At(r, w) : f[i] = f[j] => i = j
    BY DEF At
  <2>4. f \in Injection(At(r, w), At(arr, w))
    BY <2>2, <2>3 DEF Injection, IsInjective
  <2>5. Cardinality(At(r, w)) <= Cardinality(At(arr, w))
    BY <2>4, AtFinite, FS_Injection
  <2> QED
    BY <2>5 DEF r
<1> QED
  BY <1>1, <1>2

\* A target has one place in TargetStr.
LEMMA TargetsAt ==
  ASSUME NEW v
  PROVE  Cardinality(At(Targets, v)) <= 1
<1> USE TargetHealthAssumption
<1>1. DOMAIN Targets = 1 .. Len(Targets)
  BY LenProperties
<1>2. \A i, j \in At(Targets, v) : i = j
  BY <1>1 DEF At, IsInjective
<1>3. CASE At(Targets, v) = {}
  BY <1>3, FS_EmptySet
<1>4. CASE At(Targets, v) # {}
  <2>1. PICK i : At(Targets, v) = {i}
    BY <1>2, <1>4
  <2>2. Cardinality(At(Targets, v)) = 1
    BY <2>1, FS_Singleton
  <2> QED
    BY <2>2
<1> QED
  BY <1>3, <1>4

\* The list is as long as its values have places in all: each place is named
\* by its value and the number of its places up to this one.
LEMMA LengthOfList ==
  ASSUME NEW arr \in Seq(Names), NEW n \in Nat,
         \A v \in Names : Cardinality(At(arr, v)) <= n
  PROVE  Len(arr) <= Len(Targets) * n
<1> USE TargetHealthAssumption
<1> DEFINE L == 1 .. Len(arr)
           Upto(i) == {j \in 1 .. i : arr[j] = arr[i]}
           f == [i \in L |-> <<arr[i], Cardinality(Upto(i))>>]
<1>1. \A i \in L : arr[i] \in Names
  BY LenProperties, ElementOfSeq
<1>2. \A i \in L : /\ Upto(i) \in SUBSET At(arr, arr[i]) /\ i \in Upto(i)
                   /\ IsFiniteSet(Upto(i)) /\ Cardinality(Upto(i)) \in 1 .. n
  <2> TAKE i \in L
  <2>1. Upto(i) \in SUBSET At(arr, arr[i]) /\ i \in Upto(i)
    BY LenProperties DEF At
  <2>2. IsFiniteSet(Upto(i)) /\ Cardinality(Upto(i)) <= Cardinality(At(arr, arr[i]))
    BY <2>1, AtFinite, FS_Subset
  <2>3. Cardinality(Upto(i)) \in Nat /\ Cardinality(Upto(i)) # 0
    BY <2>1, <2>2, FS_CardinalityType, FS_EmptySet
  <2>4. Cardinality(At(arr, arr[i])) <= n /\ Cardinality(At(arr, arr[i])) \in Nat
    BY <1>1, AtFinite
  <2> QED
    BY <2>1, <2>2, <2>3, <2>4
<1>3. \A i, j \in L : i < j /\ arr[i] = arr[j] => Cardinality(Upto(i)) # Cardinality(Upto(j))
  <2> SUFFICES ASSUME NEW i \in L, NEW j \in L, i < j, arr[i] = arr[j]
               PROVE  Cardinality(Upto(i)) # Cardinality(Upto(j))
    OBVIOUS
  <2>1. Upto(i) \in SUBSET Upto(j) /\ j \in Upto(j) /\ j \notin Upto(i)
    BY LenProperties
  <2> QED
    BY <2>1, <1>2, FS_Subset
<1>4. f \in Injection(L, Names \X (1 .. n))
  <2>1. f \in [L -> Names \X (1 .. n)]
    BY <1>1, <1>2
  <2>2. \A i, j \in L : f[i] = f[j] => i = j
    <3> SUFFICES ASSUME NEW i \in L, NEW j \in L, f[i] = f[j], i # j
                 PROVE  FALSE
      OBVIOUS
    <3>1. arr[i] = arr[j] /\ Cardinality(Upto(i)) = Cardinality(Upto(j))
      OBVIOUS
    <3>2. i < j \/ j < i
      BY LenProperties
    <3> QED
      BY <3>1, <3>2, <1>3
  <2> QED
    BY <2>1, <2>2 DEF Injection, IsInjective
<1>5. Targets \in Bijection(1 .. Len(Targets), Names)
  <2>1. DOMAIN Targets = 1 .. Len(Targets) /\ Targets \in [1 .. Len(Targets) -> Names]
    BY LenProperties
  <2> QED
    BY <2>1 DEF Bijection, Injection, Surjection, Names, ToSet
<1>6. IsFiniteSet(1 .. Len(Targets)) /\ Cardinality(1 .. Len(Targets)) = Len(Targets)
  BY UpToN, LenProperties
<1>7. IsFiniteSet(Names) /\ Cardinality(Names) = Len(Targets)
  BY <1>5, <1>6, FS_Bijection DEF ExistsBijection
<1>8. IsFiniteSet(1 .. n) /\ Cardinality(1 .. n) = n
  BY UpToN
<1>9. /\ IsFiniteSet(Names \X (1 .. n))
      /\ Cardinality(Names \X (1 .. n)) = Len(Targets) * n
  BY <1>7, <1>8, FS_Product
<1>10. Cardinality(L) <= Len(Targets) * n
  BY <1>4, <1>9, FS_Injection
<1> QED
  BY <1>10, UpToN, LenProperties
-----------------------------------------------------------------------------
(* The lists of a tunnel                                                   *)

\* The readers that are about to put v back.
Pending(v) == {c \in 1 .. Conns : adding[c] = v}

\* PutBack does not look again, but each reader looked once: TargetArr has not
\* more copies of a target than there are readers, and the one of TargetStr.
CopiesBounded ==
  TargetArr # Nil =>
    \A v \in Names : Cardinality(At(TargetArr, v)) + Cardinality(Pending(v)) <= Conns + 1

\* A target that visitors are not sent to is remembered in HealthRemoveArr, so
\* that a message can bring it back: MayPutBack looks for it there.
TakenOutIsKept ==
  edits = 0 /\ TargetArr # Nil =>
    \A v \in Names : v \in ToSet(TargetArr) \/ removed[v] > 0

\* Before the first report nothing is taken out, nor about to be put back.  After
\* an edit this fails: HealthRemoveArr and the readers are about the old Target.
NothingTakenYet ==
  edits = 0 /\ TargetArr = Nil =>
    /\ \A v \in Names : removed[v] = 0
    /\ \A c \in 1 .. Conns : adding[c] = Nil

\* A visitor that found a list has one as long as it is under way.
VisitorsHaveList ==
  \A p \in Visitors : visit[p] \in {"size", "first", "index", "read"} => TargetArr # Nil

HealthInv ==
  /\ TypeOK
  /\ broken => conn < Conns
  /\ VisitorsHaveList
  /\ CopiesBounded
  /\ TakenOutIsKept
  /\ NothingTakenYet

\* npc, the network and the clock leave the lists alone.
LEMMA ListsAlone ==
  ASSUME HealthInv, UNCHANGED nps
  PROVE  VisitorsHaveList' /\ CopiesBounded' /\ TakenOutIsKept' /\ NothingTakenYet'
BY DEF HealthInv, nps, VisitorsHaveList, CopiesBounded, Pending, TakenOutIsKept,
       NothingTakenYet

\* LongestList is a number: the product is looked at nowhere else.
LEMMA ListBound == LongestList \in Nat
<1>1. Len(Targets) \in Nat /\ Conns + 1 \in Nat
  BY LenProperties, TargetHealthAssumption
<1> QED
  BY <1>1 DEF LongestList

\* At the start no list was made and nothing was reported.
LEMMA HealthInit == Init => HealthInv
<1> SUFFICES ASSUME Init PROVE HealthInv
  OBVIOUS
<1> USE TargetHealthAssumption DEF Init
<1>1. nowIndex \in 0 .. LongestList
  BY ListBound
<1>2. sent \in [1 .. Conns -> Seq(Messages)]
  OBVIOUS
<1>3. \A c \in 1 .. Conns : Len(sent[c]) <= Buffer
  <2>1. \A c \in 1 .. Conns : sent[c] = <<>>
    OBVIOUS
  <2> QED
    BY <2>1
<1>4. TypeOK
  <2>1. HealthMap \in [Names -> 0 .. 2 * MaxFail - 1]
    OBVIOUS
  <2>2. /\ dialed \in [Checkers -> Messages \cup {Nil}] /\ rest \in [Checkers -> Seq(Names)]
        /\ adding \in [1 .. Conns -> Names \cup {Nil}]
    OBVIOUS
  <2>3. /\ removed \in [Names -> 0 .. Copies]
        /\ conn \in 1 .. Conns /\ edits \in 0 .. Edits
    OBVIOUS
  <2>4. visit \in [Visitors -> {"idle", "split", "size", "first", "index", "read"}]
    OBVIOUS
  <2> QED
    BY <1>1, <1>2, <1>3, <2>1, <2>2, <2>3, <2>4 DEF TypeOK
<1> QED
  BY <1>4 DEF HealthInv, VisitorsHaveList, CopiesBounded, TakenOutIsKept, NothingTakenYet

\* SendHealthInfo waits for room.
LEMMA SendStep ==
  ASSUME HealthInv, NEW v \in Names, NEW b \in BOOLEAN, SendHealthInfo(v, b)
  PROVE  /\ sent' \in [1 .. Conns -> Seq(Messages)]
         /\ \A c \in 1 .. Conns : Len(sent'[c]) <= Buffer
<1> USE TargetHealthAssumption DEF HealthInv, TypeOK
<1>1. CASE broken
  BY <1>1 DEF SendHealthInfo
<1>2. CASE ~broken
  <2> DEFINE q == Append(sent[conn], <<v, b>>)
  <2>1. sent' = [sent EXCEPT ![conn] = q] /\ Len(sent[conn]) < Buffer /\ Len(sent[conn]) \in Nat
    BY <1>2, LenProperties DEF SendHealthInfo
  <2>2. q \in Seq(Messages) /\ Len(q) = Len(sent[conn]) + 1
    BY AppendProperties DEF Messages
  <2> HIDE DEF q
  <2>3. Len(q) <= Buffer
    BY <2>1, <2>2
  <2> QED
    BY <2>1, <2>2, <2>3
<1> QED
  BY <1>1, <1>2

\* check counts a failure, or clears the count, and may report.
LEMMA CheckStep ==
  ASSUME HealthInv, NEW k \in Checkers, Check(k)
  PROVE  HealthInv'
<1> USE TargetHealthAssumption DEF HealthInv
<1> DEFINE v == dialed[k][1]
<1>1. v \in Names /\ dialed[k][2] \in BOOLEAN
  BY DEF Check, TypeOK, Messages
<1>2. HealthMap[v] \in 0 .. 2 * MaxFail - 1
  BY <1>1 DEF TypeOK
<1>3. OneMore(v) \in 0 .. 2 * MaxFail - 1
  BY <1>2 DEF OneMore
<1>4. HealthMap' \in [Names -> 0 .. 2 * MaxFail - 1]
  <2>1. 0 \in 0 .. 2 * MaxFail - 1
    OBVIOUS
  <2>2. \/ HealthMap' = [HealthMap EXCEPT ![v] = OneMore(v)]
        \/ HealthMap' = [HealthMap EXCEPT ![v] = 0]
        \/ HealthMap' = HealthMap
    BY DEF Check, Failed, Answered
  <2> QED
    BY <1>1, <1>3, <2>1, <2>2 DEF TypeOK
<1>5. UNCHANGED sent \/ SendHealthInfo(v, FALSE) \/ SendHealthInfo(v, TRUE)
  BY DEF Check, Failed, Answered
<1>6. /\ sent' \in [1 .. Conns -> Seq(Messages)]
      /\ \A c \in 1 .. Conns : Len(sent'[c]) <= Buffer
  BY <1>1, <1>5, SendStep DEF TypeOK
<1>7. TypeOK'
  BY <1>4, <1>6 DEF Check, TypeOK, nps
<1> QED
  BY <1>7, ListsAlone DEF Check

\* The rest of npc, and the network between it and nps.
LEMMA NpcStep ==
  ASSUME HealthInv,
         \/ \E v \in Names : Toggle(v)
         \/ Drop
         \/ \E k \in Checkers : Fire(k) \/ Dial(k)
         \/ \E n \in 0 .. Buffer : Break(n)
         \/ Reconnect
  PROVE  HealthInv'
<1> USE TargetHealthAssumption DEF HealthInv
<1>1. ASSUME NEW v \in Names, Toggle(v) PROVE HealthInv'
  BY <1>1, ListsAlone DEF Toggle, TypeOK, npc, nps
<1>2. ASSUME NEW k \in Checkers, Dial(k) PROVE HealthInv'
  <2> DEFINE v == Head(rest[k])
  <2>1. rest[k] \in Seq(Names) /\ v \in Names /\ Tail(rest[k]) \in Seq(Names)
    BY <1>2, HeadTailProperties DEF Dial, TypeOK
  <2> HIDE DEF v
  <2>2. <<v, v \in up>> \in Messages
    <3>1. (v \in up) \in BOOLEAN
      OBVIOUS
    <3> QED
      BY <2>1, <3>1 DEF Messages
  <2>3. dialed' \in [Checkers -> Messages \cup {Nil}] /\ rest' \in [Checkers -> Seq(Names)]
    BY <1>2, <2>1, <2>2 DEF Dial, TypeOK, v
  <2>4. TypeOK'
    BY <1>2, <2>3 DEF Dial, TypeOK, nps
  <2> QED
    BY <1>2, <2>4, ListsAlone DEF Dial
<1>3. ASSUME NEW n \in 0 .. Buffer, Break(n) PROVE HealthInv'
  <2>1. conn \in 1 .. Conns /\ sent[conn] \in Seq(Messages) /\ n \in 0 .. Len(sent[conn])
    BY <1>3 DEF Break, TypeOK
  <2>2. /\ SubSeq(sent[conn], 1, n) \in Seq(Messages)
        /\ Len(SubSeq(sent[conn], 1, n)) = n
    BY <2>1, SubSeqProperties, LenProperties
  <2>3. /\ sent' \in [1 .. Conns -> Seq(Messages)]
        /\ \A c \in 1 .. Conns : Len(sent'[c]) <= Buffer
    BY <1>3, <2>2 DEF Break, TypeOK
  <2> QED
    BY <1>3, <2>3, ListsAlone DEF Break, TypeOK, nps
<1>4. CASE Reconnect
  <2>1. HealthMap' \in [Names -> 0 .. 2 * MaxFail - 1]
    BY <1>4 DEF Reconnect
  <2>2. conn' \in 1 .. Conns /\ broken' = FALSE
    BY <1>4 DEF Reconnect, TypeOK
  <2>3. TypeOK'
    BY <1>4, <2>1, <2>2 DEF Reconnect, TypeOK, nps
  <2> QED
    BY <1>4, <2>2, <2>3, ListsAlone DEF Reconnect
<1>5. ASSUME NEW k \in Checkers, Fire(k) PROVE HealthInv'
  BY <1>5, ListsAlone DEF Fire, TypeOK, nps
<1>6. CASE Drop
  BY <1>6, ListsAlone DEF Drop, TypeOK, nps
<1> QED
  BY <1>1, <1>2, <1>3, <1>4, <1>5, <1>6

-----------------------------------------------------------------------------
(* The readers                                                             *)

\* No more readers put a target back than there are.
LEMMA PendingFinite ==
  ASSUME NEW v
  PROVE  /\ IsFiniteSet(Pending(v))
         /\ Cardinality(Pending(v)) \in Nat /\ Cardinality(Pending(v)) <= Conns
<1>1. IsFiniteSet(1 .. Conns) /\ Cardinality(1 .. Conns) = Conns
  BY UpToN, TargetHealthAssumption
<1>2. Pending(v) \in SUBSET (1 .. Conns)
  BY DEF Pending
<1> QED
  BY <1>1, <1>2, FS_Subset, FS_CardinalityType

\* A reader takes the first message, and the rest stays.
LEMMA TailStep ==
  ASSUME HealthInv, NEW c \in 1 .. Conns, sent[c] # <<>>,
         sent' = [sent EXCEPT ![c] = Tail(@)]
  PROVE  /\ Head(sent[c])[1] \in Names
         /\ sent' \in [1 .. Conns -> Seq(Messages)]
         /\ \A d \in 1 .. Conns : Len(sent'[d]) <= Buffer
<1> USE TargetHealthAssumption DEF HealthInv, TypeOK
<1>1. /\ Head(sent[c]) \in Messages /\ Tail(sent[c]) \in Seq(Messages)
      /\ Len(Tail(sent[c])) = Len(sent[c]) - 1
  BY HeadTailProperties
<1>2. Len(sent[c]) \in Nat /\ Len(sent[c]) <= Buffer
  BY LenProperties
<1>3. Len(Tail(sent[c])) <= Buffer
  BY <1>1, <1>2
<1>4. Head(sent[c])[1] \in Names
  BY <1>1 DEF Messages
<1> HIDE DEF TypeOK
<1>5. sent \in [1 .. Conns -> Seq(Messages)] /\ \A d \in 1 .. Conns : Len(sent[d]) <= Buffer
  BY DEF TypeOK
<1> QED
  BY <1>1, <1>3, <1>4, <1>5

\* A list has a value if the value has a place.
LEMMA SetOfList ==
  ASSUME NEW arr \in Seq(Names), NEW v
  PROVE  v \in ToSet(arr) <=> At(arr, v) # {}
BY LenProperties DEF ToSet, At

\* GetHealthFromClient takes the failed target from a list of which all that
\* is required of TargetArr holds, be it split from TargetStr or not.
LEMMA LoadedList ==
  ASSUME HealthInv
  PROVE  /\ Loaded \in Seq(Names)
         /\ \A v \in Names :
              /\ Cardinality(At(Loaded, v)) + Cardinality(Pending(v)) <= Conns + 1
              /\ edits = 0 => v \in ToSet(Loaded) \/ removed[v] > 0
<1> USE TargetHealthAssumption DEF HealthInv
<1>1. CASE Loaded = Targets
  <2>1. \A v \in Names : Cardinality(At(Targets, v)) + Cardinality(Pending(v)) <= Conns + 1
    BY TargetsAt, AtFinite, PendingFinite
  <2> QED
    BY <1>1, <2>1 DEF Names
<1>2. CASE TargetArr # Nil /\ Loaded = TargetArr
  BY <1>2 DEF CopiesBounded, TakenOutIsKept, TypeOK
<1> QED
  BY <1>1, <1>2 DEF Loaded

\* One copy less of the target in TargetArr, one more in HealthRemoveArr.
LEMMA TakeOutStep ==
  ASSUME HealthInv, NEW c \in 1 .. Conns, TakeOut(c)
  PROVE  HealthInv'
<1> USE TargetHealthAssumption DEF HealthInv
<1> DEFINE v == Head(sent[c])[1]
<1>1. /\ v \in Names
      /\ sent' \in [1 .. Conns -> Seq(Messages)]
      /\ \A d \in 1 .. Conns : Len(sent'[d]) <= Buffer
  BY TailStep DEF TakeOut
<1>2. /\ TargetArr' = RemoveFirst(Loaded, v)
      /\ removed' = [removed EXCEPT ![v] = IF @ < Copies THEN @ + 1 ELSE @]
  BY DEF TakeOut
<1> HIDE DEF v
<1>3. Loaded \in Seq(Names) /\ TargetArr' \in Seq(Names) /\ TargetArr' # Nil
  BY <1>1, <1>2, LoadedList, RemoveFirstCuts
<1>4. /\ removed' \in [Names -> 0 .. Copies] /\ removed'[v] > 0
      /\ \A w \in Names \ {v} : removed'[w] = removed[w]
  <2>1. removed \in [Names -> 0 .. Copies] /\ removed[v] \in 0 .. Copies
    BY <1>1 DEF TypeOK
  <2>2. /\ (IF removed[v] < Copies THEN removed[v] + 1 ELSE removed[v]) \in 0 .. Copies
        /\ (IF removed[v] < Copies THEN removed[v] + 1 ELSE removed[v]) > 0
    BY <2>1
  <2> QED
    BY <1>1, <1>2, <2>1, <2>2
<1>5. TypeOK'
  BY <1>1, <1>3, <1>4 DEF TakeOut, TypeOK, npc
<1>6. CopiesBounded'
  <2> SUFFICES ASSUME NEW w \in Names
               PROVE  Cardinality(At(TargetArr', w)) + Cardinality(Pending(w)') <= Conns + 1
    BY DEF CopiesBounded
  <2>1. Pending(w)' = Pending(w)
    BY DEF TakeOut, Pending
  <2>2. Cardinality(At(TargetArr', w)) <= Cardinality(At(Loaded, w))
    BY <1>1, <1>2, <1>3, RemoveFirstAt
  <2>3. /\ Cardinality(At(TargetArr', w)) \in Nat /\ Cardinality(At(Loaded, w)) \in Nat
        /\ Cardinality(Pending(w)) \in Nat
    BY <1>3, AtFinite, PendingFinite
  <2> QED
    BY <2>1, <2>2, <2>3, LoadedList
<1>7. TakenOutIsKept' /\ NothingTakenYet'
  <2> SUFFICES ASSUME NEW w \in Names \ {v}, edits = 0
               PROVE  w \in ToSet(TargetArr') \/ removed[w] > 0
    BY <1>3, <1>4 DEF TakenOutIsKept, NothingTakenYet, TakeOut
  <2>1. CASE w \notin ToSet(Loaded)
    BY <2>1, LoadedList
  <2>2. CASE w \in ToSet(Loaded)
    <3>1. PICK i \in 1 .. Len(Loaded) : Loaded[i] = w
      BY <2>2, LoadedList, LenProperties DEF ToSet
    <3>2. CASE TargetArr' = Loaded
      BY <2>2, <3>2
    <3>3. CASE TargetArr' # Loaded
      <4> DEFINE r == RemoveFirst(Loaded, v)
      <4>0. \E k \in 1 .. Len(Loaded) :
              /\ Loaded[k] = v
              /\ Len(r) = Len(Loaded) - 1
              /\ \A j \in 1 .. Len(Loaded) - 1 :
                   r[j] = IF j < k THEN Loaded[j] ELSE Loaded[j + 1]
        BY <1>1, <1>2, <1>3, <3>3, RemoveFirstCuts
      <4> HIDE DEF r
      <4>1. PICK k \in 1 .. Len(Loaded) :
              /\ Loaded[k] = v
              /\ Len(TargetArr') = Len(Loaded) - 1
              /\ \A j \in 1 .. Len(Loaded) - 1 :
                   TargetArr'[j] = IF j < k THEN Loaded[j] ELSE Loaded[j + 1]
        BY <1>2, <4>0 DEF r
      <4>2. Len(Loaded) \in Nat /\ DOMAIN TargetArr' = 1 .. Len(TargetArr')
        BY <1>3, LenProperties
      <4>3. i # k
        BY <3>1, <4>1
      <4>4. CASE i < k
        <5>1. i \in 1 .. Len(Loaded) - 1
          BY <4>2, <4>4
        <5>2. TargetArr'[i] = w
          BY <3>1, <4>1, <4>4, <5>1
        <5> QED
          BY <4>1, <4>2, <5>1, <5>2 DEF ToSet
      <4>5. CASE k < i
        <5>1. i - 1 \in 1 .. Len(Loaded) - 1 /\ ~ (i - 1 < k) /\ (i - 1) + 1 = i
          BY <4>2, <4>5
        <5>2. TargetArr'[i - 1] = w
          BY <3>1, <4>1, <5>1
        <5> QED
          BY <4>1, <4>2, <5>1, <5>2 DEF ToSet
      <4> QED
        BY <4>2, <4>3, <4>4, <4>5
    <3> QED
      BY <3>2, <3>3
  <2> QED
    BY <2>1, <2>2
<1>8. VisitorsHaveList'
  BY <1>3 DEF VisitorsHaveList
<1>9. (broken => conn < Conns)'
  BY DEF TakeOut, npc
<1> QED
  BY <1>5, <1>6, <1>7, <1>8, <1>9

\* A reader is about to add a copy of a target that has none.
LEMMA MayPutBackStep ==
  ASSUME HealthInv, NEW c \in 1 .. Conns, MayPutBack(c)
  PROVE  HealthInv'
<1> USE TargetHealthAssumption DEF HealthInv
<1> DEFINE v == Head(sent[c])[1]
<1>1. /\ v \in Names
      /\ sent' \in [1 .. Conns -> Seq(Messages)]
      /\ \A d \in 1 .. Conns : Len(sent'[d]) <= Buffer
  BY TailStep DEF MayPutBack
<1>2. TypeOK'
  BY <1>1 DEF MayPutBack, TypeOK, npc
<1>3. CopiesBounded'
  <2> SUFFICES ASSUME TargetArr # Nil, NEW w \in Names
               PROVE  Cardinality(At(TargetArr, w)) + Cardinality(Pending(w)') <= Conns + 1
    BY DEF CopiesBounded, MayPutBack
  <2>1. CASE UNCHANGED adding \/ w # v
    <3>1. Pending(w)' \subseteq Pending(w)
      BY <2>1 DEF Pending, MayPutBack, TypeOK
    <3>2. /\ Cardinality(Pending(w)') <= Cardinality(Pending(w))
          /\ Cardinality(Pending(w)') \in Nat
      BY <3>1, PendingFinite, FS_Subset, FS_CardinalityType
    <3>3. Cardinality(At(TargetArr, w)) \in Nat
      BY AtFinite DEF TypeOK
    <3> QED
      BY <3>2, <3>3, PendingFinite DEF CopiesBounded
  <2>2. CASE adding' # adding /\ w = v
    <3>1. TargetArr \in Seq(Names) /\ ~InTargetArr(v)
      BY <2>2 DEF MayPutBack, TypeOK
    <3>2. At(TargetArr, w) = {}
      BY <2>2, <3>1, SetOfList DEF InTargetArr
    <3>3. Cardinality(At(TargetArr, w)) = 0
      BY <3>2, FS_EmptySet
    <3>4. Cardinality(Pending(w)') \in Nat /\ Cardinality(Pending(w)') <= Conns
      <4>1. IsFiniteSet(1 .. Conns) /\ Cardinality(1 .. Conns) = Conns
        BY UpToN
      <4>2. Pending(w)' \in SUBSET (1 .. Conns)
        BY DEF Pending
      <4> QED
        BY <4>1, <4>2, FS_Subset, FS_CardinalityType
    <3> QED
      BY <3>3, <3>4
  <2> QED
    BY <2>1, <2>2
<1>4. TakenOutIsKept' /\ VisitorsHaveList'
  BY DEF MayPutBack, TakenOutIsKept, VisitorsHaveList
<1>5. NothingTakenYet'
  <2> SUFFICES ASSUME edits = 0, TargetArr = Nil
               PROVE  (\A w \in Names : removed[w] = 0) /\ adding' = adding
    BY DEF MayPutBack, NothingTakenYet
  <2>1. \A w \in Names : removed[w] = 0
    BY DEF NothingTakenYet
  <2>2. ~ (removed[v] > 0)
    BY <1>1, <2>1
  <2> QED
    BY <2>1, <2>2 DEF MayPutBack
<1> QED
  BY <1>2, <1>3, <1>4, <1>5 DEF MayPutBack, npc

\* The copy moves from the readers to the list.
LEMMA PutBackStep ==
  ASSUME HealthInv, NEW c \in 1 .. Conns, PutBack(c)
  PROVE  HealthInv'
<1> USE TargetHealthAssumption DEF HealthInv
<1>1. PICK v \in Names : adding[c] = v
  BY DEF PutBack, TypeOK
<1> DEFINE arr == IF TargetArr = Nil THEN <<>> ELSE TargetArr
<1>2. arr \in Seq(Names) /\ TargetArr' = Append(arr, v)
  <2>1. CASE TargetArr = Nil
    <3>1. TargetArr' = <<v>> /\ <<v>> = Append(<<>>, v)
      BY <1>1, <2>1 DEF PutBack
    <3> QED
      BY <2>1, <3>1
  <2>2. CASE TargetArr # Nil
    BY <1>1, <2>2 DEF PutBack, TypeOK
  <2> QED
    BY <2>1, <2>2
<1>3. /\ removed' = [removed EXCEPT ![v] = IF @ > 0 THEN @ - 1 ELSE 0]
      /\ adding' = [adding EXCEPT ![c] = Nil]
  BY <1>1 DEF PutBack
<1> HIDE DEF arr
<1>4. /\ TargetArr' \in Seq(Names) /\ TargetArr' # Nil
      /\ Len(arr) \in Nat /\ Len(TargetArr') = Len(arr) + 1
      /\ \A i \in 1 .. Len(arr) : TargetArr'[i] = arr[i]
      /\ TargetArr'[Len(arr) + 1] = v
  <2>1. /\ Append(arr, v) \in Seq(Names)
        /\ Len(Append(arr, v)) = Len(arr) + 1
        /\ \A i \in 1 .. Len(arr) : Append(arr, v)[i] = arr[i]
        /\ Append(arr, v)[Len(arr) + 1] = v
    BY <1>2, AppendProperties
  <2>2. Len(arr) \in Nat
    BY <1>2, LenProperties
  <2> QED
    BY <1>2, <2>1, <2>2
<1>5. /\ removed' \in [Names -> 0 .. Copies]
      /\ \A w \in Names \ {v} : removed'[w] = removed[w]
  <2>1. removed \in [Names -> 0 .. Copies] /\ removed[v] \in 0 .. Copies
    BY <1>1 DEF TypeOK
  <2>2. (IF removed[v] > 0 THEN removed[v] - 1 ELSE 0) \in 0 .. Copies
    BY <2>1
  <2> QED
    BY <1>1, <1>3, <2>1, <2>2
<1>6. TypeOK'
  BY <1>3, <1>4, <1>5 DEF PutBack, TypeOK, npc
<1>7. adding \in [1 .. Conns -> Names \cup {Nil}] /\ v # Nil
  BY <1>1 DEF TypeOK
<1>8. At(TargetArr', v) = At(arr, v) \cup {Len(arr) + 1} /\ Len(arr) + 1 \notin At(arr, v)
  BY <1>4 DEF At
<1>9. Pending(v)' = Pending(v) \ {c} /\ c \in Pending(v)
  BY <1>1, <1>3, <1>7 DEF Pending
<1>10. \A w \in Names \ {v} : At(TargetArr', w) = At(arr, w)
  BY <1>4 DEF At
<1>11. \A w \in Names \ {v} : Pending(w)' = Pending(w)
  BY <1>1, <1>3, <1>7 DEF Pending
<1>12. \A w \in Names : Cardinality(At(arr, w)) + Cardinality(Pending(w)) <= Conns + 1
  <2>1. CASE TargetArr = Nil
    <3>1. \A w \in Names : At(arr, w) = {}
      BY <2>1, LenProperties DEF arr, At
    <3>2. \A w \in Names : Cardinality(At(arr, w)) = 0
      BY <3>1, FS_EmptySet
    <3> QED
      BY <3>2, PendingFinite
  <2>2. CASE TargetArr # Nil
    BY <2>2 DEF arr, CopiesBounded
  <2> QED
    BY <2>1, <2>2
<1>13. CopiesBounded'
  <2>1. /\ Cardinality(At(TargetArr', v)) = Cardinality(At(arr, v)) + 1
        /\ Cardinality(Pending(v)') = Cardinality(Pending(v)) - 1
    <3>1. IsFiniteSet(At(arr, v)) /\ IsFiniteSet(Pending(v))
      BY <1>2, AtFinite, PendingFinite
    <3>2. Cardinality(At(arr, v) \cup {Len(arr) + 1}) = Cardinality(At(arr, v)) + 1
      BY <1>8, <3>1, FS_AddElement
    <3>3. Cardinality(Pending(v) \ {c}) = Cardinality(Pending(v)) - 1
      BY <1>9, <3>1, FS_RemoveElement
    <3> QED
      BY <1>8, <1>9, <3>2, <3>3
  <2>2. Cardinality(At(arr, v)) \in Nat /\ Cardinality(Pending(v)) \in Nat
    BY <1>2, AtFinite, PendingFinite
  <2>3. Cardinality(At(TargetArr', v)) + Cardinality(Pending(v)') <= Conns + 1
    BY <1>1, <1>12, <2>1, <2>2
  <2> QED
    BY <1>12, <1>10, <1>11, <2>3 DEF CopiesBounded
<1>14. TakenOutIsKept' /\ NothingTakenYet'
  <2> SUFFICES ASSUME NEW w \in Names, edits = 0
               PROVE  w \in ToSet(TargetArr') \/ removed'[w] > 0
    BY <1>4 DEF TakenOutIsKept, NothingTakenYet, PutBack
  <2>1. TargetArr # Nil
    BY DEF NothingTakenYet, PutBack
  <2>2. CASE w = v
    BY <1>4, <1>8, <2>2, SetOfList
  <2>3. CASE w # v
    <3>1. arr = TargetArr
      BY <2>1 DEF arr
    <3>2. w \in ToSet(arr) \/ removed[w] > 0
      BY <2>1, <3>1 DEF TakenOutIsKept
    <3>3. w \in ToSet(arr) => w \in ToSet(TargetArr')
      BY <1>2, <1>4, <1>10, <2>3, SetOfList
    <3> QED
      BY <1>5, <2>3, <3>2, <3>3
  <2> QED
    BY <2>2, <2>3
<1>15. VisitorsHaveList' /\ (broken => conn < Conns)'
  BY <1>4 DEF VisitorsHaveList, PutBack, npc
<1> QED
  BY <1>6, <1>13, <1>14, <1>15
-----------------------------------------------------------------------------
(* The visitors                                                            *)

\* What the steps of GetRandomTarget have in common.
LEMMA VisitKeeps ==
  ASSUME HealthInv, NEW p \in Visitors, NEW from, NEW to, Visit(p, from, to),
         to \in {"idle", "split", "size", "first", "index", "read"},
         to \in {"size", "first", "index", "read"} => TargetArr # Nil \/ TargetArr' # Nil,
         TargetArr' = TargetArr \/ TargetArr' = Targets,
         nowIndex' \in 0 .. LongestList, crashed' \in BOOLEAN
  PROVE  HealthInv'
<1> USE TargetHealthAssumption DEF HealthInv
<1>1. TargetArr # Nil => TargetArr' # Nil
  OBVIOUS
<1>2. visit' = [visit EXCEPT ![p] = to] /\ UNCHANGED <<npc, sent, adding, removed, edits>>
  BY DEF Visit
<1>3. TypeOK'
  BY <1>2 DEF TypeOK, npc, Visit
<1>4. VisitorsHaveList'
  BY <1>1, <1>2 DEF VisitorsHaveList, TypeOK
<1>5. CASE TargetArr' = TargetArr
  <2>1. CopiesBounded'
    BY <1>2, <1>5 DEF CopiesBounded, Pending
  <2>2. TakenOutIsKept' /\ NothingTakenYet'
    BY <1>2, <1>5 DEF TakenOutIsKept, NothingTakenYet
  <2> QED
    BY <1>2, <1>3, <1>4, <2>1, <2>2 DEF npc
<1>6. CASE TargetArr' = Targets
  <2>1. \A v \in Names : Pending(v)' = Pending(v)
    BY <1>2 DEF Pending
  <2>2. \A v \in Names : Cardinality(At(Targets, v)) + Cardinality(Pending(v)) <= Conns + 1
    BY TargetsAt, AtFinite, PendingFinite
  <2>3. CopiesBounded'
    BY <1>6, <2>1, <2>2 DEF CopiesBounded
  <2>4. TakenOutIsKept' /\ NothingTakenYet'
    BY <1>6 DEF TakenOutIsKept, NothingTakenYet, Names
  <2> QED
    BY <1>2, <1>3, <1>4, <2>3, <2>4 DEF npc
<1> QED
  BY <1>5, <1>6

\* The list is never longer than the index may get.
LEMMA ListIsBounded ==
  ASSUME HealthInv, TargetArr # Nil
  PROVE  TargetArr \in Seq(Names) /\ Len(TargetArr) \in 0 .. LongestList
<1> USE TargetHealthAssumption DEF HealthInv
<1>1. TargetArr \in Seq(Names)
  BY DEF TypeOK
<1>2. \A v \in Names : Cardinality(At(TargetArr, v)) <= Conns + 1
  BY <1>1, AtFinite, PendingFinite DEF CopiesBounded
<1>3. Len(TargetArr) <= LongestList
  BY <1>1, <1>2, LengthOfList DEF LongestList
<1> QED
  BY <1>1, <1>3, ListBound, LenProperties

\* GetRandomTarget, step by step.
LEMMA VisitStep ==
  ASSUME HealthInv, NEW p \in Visitors, VisitBegin(p) \/ Visitor(p)
  PROVE  HealthInv'
<1> USE TargetHealthAssumption
<1>1. nowIndex \in 0 .. LongestList /\ crashed \in BOOLEAN
  BY DEF HealthInv, TypeOK
<1>2. CASE VisitBegin(p)
  <2>1. Visit(p, "idle", IF TargetArr = Nil THEN "split" ELSE "size")
    BY <1>2 DEF VisitBegin
  <2> QED
    BY <1>1, <1>2, <2>1, VisitKeeps DEF VisitBegin
<1>3. CASE VisitSplit(p)
  BY <1>1, <1>3, VisitKeeps DEF VisitSplit
<1>4. CASE VisitSize(p)
  <2>1. TargetArr # Nil
    BY <1>4 DEF VisitSize, Visit, HealthInv, VisitorsHaveList
  <2>2. PICK to \in {"idle", "first", "index"} : Visit(p, "size", to)
    BY <1>4 DEF VisitSize
  <2> QED
    BY <1>1, <1>4, <2>1, <2>2, VisitKeeps DEF VisitSize
<1>5. CASE VisitFirst(p)
  BY <1>1, <1>5, VisitKeeps DEF VisitFirst
<1>6. CASE VisitIndex(p)
  <2>1. TargetArr # Nil
    BY <1>6 DEF VisitIndex, Visit, HealthInv, VisitorsHaveList
  <2>2. Len(TargetArr) \in 0 .. LongestList
    BY <2>1, ListIsBounded
  <2>3. 1 <= LongestList
    <3>1. Len(Targets) \in Nat /\ Len(Targets) # 0
      BY LenProperties
    <3>2. Len(Targets) * (Conns + 1) >= 1
      BY <3>1
    <3> QED
      BY <3>2 DEF LongestList
  <2>4. nowIndex' \in 0 .. LongestList
    BY <1>1, <1>6, <2>2, <2>3, ListBound DEF VisitIndex
  <2> QED
    BY <1>1, <1>6, <2>1, <2>4, VisitKeeps DEF VisitIndex
<1>7. CASE VisitRead(p)
  BY <1>1, <1>7, VisitKeeps DEF VisitRead
<1> QED
  BY <1>2, <1>3, <1>4, <1>5, <1>6, <1>7 DEF Visitor

\* The new Target has no list yet, and no visitor.
LEMMA EditStep == HealthInv /\ Edit => HealthInv'
<1> SUFFICES ASSUME HealthInv, Edit PROVE HealthInv'
  OBVIOUS
<1> USE TargetHealthAssumption DEF HealthInv
<1>1. edits' # 0 /\ edits' \in 0 .. Edits /\ TargetArr' = Nil /\ nowIndex' = 0
  BY DEF Edit, TypeOK
<1>2. TypeOK'
  BY <1>1, ListBound DEF Edit, TypeOK, npc
<1>3. VisitorsHaveList'
  BY DEF Edit, VisitorsHaveList
<1> QED
  BY <1>1, <1>2, <1>3 DEF Edit, npc, CopiesBounded, TakenOutIsKept, NothingTakenYet

\* Every step of npc, of nps and of the network.
LEMMA HealthStep == HealthInv /\ [Next]_vars => HealthInv'
<1> SUFFICES ASSUME HealthInv, [Next]_vars PROVE HealthInv'
  OBVIOUS
<1>1. ASSUME NEW c \in 1 .. Conns, Reader(c) PROVE HealthInv'
  BY <1>1, TakeOutStep, MayPutBackStep, PutBackStep DEF Reader
<1>2. CASE UNCHANGED vars
  BY <1>2
  DEF vars, npc, nps, HealthInv, TypeOK, VisitorsHaveList, CopiesBounded, Pending,
      TakenOutIsKept, NothingTakenYet
<1> QED
  BY <1>1, <1>2, CheckStep, NpcStep, VisitStep, EditStep DEF Next

\* npc's counters, the messages and the lists of a tunnel keep their types.  The
\* index of GetRandomTarget stays within the longest list there can be, with every
\* target put back by every reader.
THEOREM HealthTypeCorrect == Spec => []TypeOK
<1>1. HealthInv => TypeOK
  BY DEF HealthInv
<1> QED
  BY HealthInit, HealthStep, <1>1, PTL DEF Spec

\* No target is lost: one that is not in TargetArr is in HealthRemoveArr, unless
\* the tunnel was edited, whatever readers, visitors and reconnections do.
THEOREM NoTargetIsLost == Spec => []TakenOutIsKept
<1>1. HealthInv => TakenOutIsKept
  BY DEF HealthInv
<1> QED
  BY HealthInit, HealthStep, <1>1, PTL DEF Spec
=============================================================================
