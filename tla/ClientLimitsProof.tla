-------------------------- MODULE ClientLimitsProof -------------------------
(***************************************************************************)
(* Theorems about ClientLimits, for any number of visitors, clients, hosts *)
(* and runs of dealClientData and any limits: type correctness of both     *)
(* limits, that NowConn counts the visitors let in, that no slot is lost   *)
(* but to an edit, and that traffic is counted twice only where two runs   *)
(* overlap.  Slots and traffic are compared as sums, which are taken here  *)
(* as the sizes of sets with one element for each unit.                    *)
(***************************************************************************)
EXTENDS ClientLimits, FiniteSetTheorems, TLAPS

One(b) == IF b THEN 1 ELSE 0

\* A visitor runs through the handler once, and once more for each change of
\* its host: it defers and starts at most that many AddConn and readers.
BoundsOK ==
  \A v \in Visitors :
    /\ \A c \in Clients :
         deferred[v][c] <= IF pc[v] \in {"idle", "check", "cut", "defer", "reset"}
                           THEN resets[v] ELSE resets[v] + 1
    /\ late[v] <= IF pc[v] \in {"idle", "check", "cut", "defer", "reset", "link"}
                  THEN resets[v] ELSE resets[v] + 1

\* A handler that was charged for one client and pays back another has its
\* edit on record.
PayerOK ==
  \A v \in Visitors :
    /\ kind[v] = "secret" => payer[v] = None /\ pc[v] \notin {"check", "cut", "defer"}
    /\ pc[v] = "idle" => payer[v] = None
    /\ \/ pc[v] \in {"cut", "defer"}
       \/ kind[v] = "tcp" /\ pc[v] \in {"link", "serve"}
       => /\ payer[v] # None
          /\ payer[v] = Client(v) \/ {payer[v], Client(v)} \subseteq disturbed

\* What a visitor that keeps its host has deferred.
Steady ==
  \A v \in Visitors :
    /\ ~isReset[v] /\ pc[v] # "reset"
    /\ \A c \in Clients :
         /\ pc[v] \in {"idle", "check", "cut", "defer"} => deferred[v][c] = 0
         /\ c \notin disturbed /\ kind[v] # "tcp" /\ pc[v] \in {"link", "serve"} =>
              deferred[v][c] = One(payer[v] = c)

\* The visitors that NowConnIsCount counts for c.
In(v, c) == LetIn(v) /\ payer[v] = c

CountOK == \A c \in Clients \ disturbed : nowConn[c] = Cardinality(Charged(c))

Inv == TypeOK /\ BoundsOK /\ PayerOK /\ (SameHost => Steady /\ CountOK)
-----------------------------------------------------------------------------
(* Sums over a finite set, as the size of a set of tokens                  *)

\* As many tokens for x as f[x] says: together their number is the sum of f.
Tokens(S, M, f) == {z \in S \X (1 .. M) : z[2] <= f[z[1]]}
SumUp(S, M, f) == Cardinality(Tokens(S, M, f))

LEMMA TokensFinite ==
  ASSUME NEW S, IsFiniteSet(S), NEW M \in Nat, NEW f
  PROVE  IsFiniteSet(Tokens(S, M, f)) /\ SumUp(S, M, f) \in Nat
<1>1. IsFiniteSet(S \X (1 .. M))
  <2>1. IsFiniteSet(1 .. M)
    BY FS_Interval
  <2> QED
    BY <2>1, FS_Product
<1>2. IsFiniteSet(Tokens(S, M, f))
  BY <1>1, FS_Subset DEF Tokens
<1> QED
  BY <1>2, FS_CardinalityType DEF SumUp

\* The sum goes with the summands ...
LEMMA SumGrows ==
  ASSUME NEW S, IsFiniteSet(S), NEW M \in Nat,
         NEW f \in [S -> 0 .. M], NEW g \in [S -> 0 .. M], \A x \in S : f[x] <= g[x]
  PROVE  SumUp(S, M, f) <= SumUp(S, M, g)
<1>1. Tokens(S, M, f) \in SUBSET Tokens(S, M, g)
  BY DEF Tokens
<1> QED
  BY <1>1, TokensFinite, FS_Subset DEF SumUp

\* ... and by as much as one of them does.
LEMMA SumMoves ==
  ASSUME NEW S, IsFiniteSet(S), NEW M \in Nat, NEW v \in S,
         NEW f \in [S -> 0 .. M], NEW g \in [S -> 0 .. M],
         \A x \in S \ {v} : f[x] = g[x]
  PROVE  SumUp(S, M, g) = SumUp(S, M, f) + g[v] - f[v]
<1> DEFINE Others == {z \in Tokens(S, M, f) : z[1] # v}
<1>1. IsFiniteSet(Others) /\ Cardinality(Others) \in Nat
  BY TokensFinite, FS_Subset, FS_CardinalityType
<1>2. ASSUME NEW h \in [S -> 0 .. M], \A x \in S \ {v} : f[x] = h[x]
      PROVE  SumUp(S, M, h) = Cardinality(Others) + h[v]
  <2> DEFINE Mine == {v} \X (1 .. h[v])
  <2>1. IsFiniteSet(Mine) /\ Cardinality(Mine) = h[v]
    <3> DEFINE n == h[v]
    <3>0. n \in Nat
      OBVIOUS
    <3> HIDE DEF n
    <3>1. IsFiniteSet(1 .. n) /\ Cardinality(1 .. n) = n
      <4>1. 1 \in Int /\ n \in Int
        BY <3>0
      <4>2. IsFiniteSet(1 .. n) /\ Cardinality(1 .. n) = IF 1 > n THEN 0 ELSE n - 1 + 1
        BY <4>1, FS_Interval
      <4> QED
        BY <3>0, <4>2
    <3>2. IsFiniteSet({v}) /\ Cardinality({v}) = 1
      BY FS_Singleton
    <3>3. IsFiniteSet(Mine) /\ Cardinality(Mine) = Cardinality({v}) * Cardinality(1 .. n)
      BY <3>1, <3>2, FS_Product DEF n
    <3> QED
      BY <3>0, <3>1, <3>2, <3>3 DEF n
  <2>2. Tokens(S, M, h) = Others \cup Mine
    BY <1>2 DEF Tokens
  <2>3. Others \cap Mine = {}
    OBVIOUS
  <2>4. Cardinality({}) = 0
    BY FS_EmptySet
  <2> HIDE DEF Others, Mine
  <2>5. Cardinality(Others \cup Mine) = Cardinality(Others) + Cardinality(Mine) - Cardinality(Others \cap Mine)
    BY <1>1, <2>1, FS_Union
  <2>6. h[v] \in Nat
    OBVIOUS
  <2> QED
    BY <1>1, <2>1, <2>2, <2>3, <2>4, <2>5, <2>6 DEF SumUp
<1>3. SumUp(S, M, f) = Cardinality(Others) + f[v]
  BY <1>2
<1>4. SumUp(S, M, g) = Cardinality(Others) + g[v]
  BY <1>2
<1> HIDE DEF Others
<1> QED
  BY <1>1, <1>3, <1>4

LEMMA SumOfOnes ==
  ASSUME NEW S, IsFiniteSet(S), NEW M \in Nat, NEW f \in [S -> 0 .. M], \A x \in S : f[x] = 1, M > 0
  PROVE  SumUp(S, M, f) = Cardinality(S)
<1>1. Tokens(S, M, f) = S \X {1}
  BY DEF Tokens
<1>2. IsFiniteSet({1}) /\ Cardinality({1}) = 1
  BY FS_Singleton
<1>3. Cardinality(S \X {1}) = Cardinality(S) * Cardinality({1})
  BY <1>2, FS_Product
<1>4. Cardinality(S) \in Nat
  BY FS_CardinalityType
<1> QED
  BY <1>1, <1>2, <1>3, <1>4 DEF SumUp

LEMMA SumOfZeros ==
  ASSUME NEW S, NEW M \in Nat, NEW f \in [S -> 0 .. M], \A x \in S : f[x] = 0
  PROVE  SumUp(S, M, f) = 0
<1>1. Tokens(S, M, f) = {}
  BY DEF Tokens
<1> QED
  BY <1>1, FS_EmptySet DEF SumUp

-----------------------------------------------------------------------------
(* Counting                                                                *)

\* A set of visitors that changes by v at most.
LEMMA CountStep ==
  ASSUME NEW S \in SUBSET Visitors, NEW T \in SUBSET Visitors, NEW v \in Visitors,
         \A u \in Visitors \ {v} : u \in S <=> u \in T
  PROVE  Cardinality(T) = Cardinality(S) + One(v \in T) - One(v \in S)
<1>1. IsFiniteSet(S) /\ Cardinality(S) \in Nat
  BY ConnAssumption, FS_Subset, FS_CardinalityType
<1>2. CASE v \in T /\ v \notin S
  <2>1. T = S \cup {v}
    BY <1>2
  <2> QED
    BY <1>1, <1>2, <2>1, FS_AddElement DEF One
<1>3. CASE v \in S /\ v \notin T
  <2>1. T = S \ {v}
    BY <1>3
  <2> QED
    BY <1>1, <1>3, <2>1, FS_RemoveElement DEF One
<1>4. CASE (v \in S) = (v \in T)
  <2>1. T = S
    BY <1>4
  <2> QED
    BY <1>1, <1>4, <2>1 DEF One
<1> QED
  BY <1>2, <1>3, <1>4

\* A step of v leaves the other visitors and the hosts alone ...
OthersKeep(v) ==
  /\ \A u \in Visitors \ {v} :
       /\ pc'[u] = pc[u] /\ kind'[u] = kind[u] /\ host'[u] = host[u]
       /\ payer'[u] = payer[u] /\ deferred'[u] = deferred[u] /\ isReset'[u] = isReset[u]
  /\ owner' = owner /\ disturbed \subseteq disturbed'

\* ... and NowConn goes with it.
Moves(v) ==
  \A c \in Clients \ disturbed' :
    nowConn'[c] = nowConn[c] + One(In(v, c)') - One(In(v, c))

LEMMA CountKept ==
  ASSUME TypeOK, NEW v \in Visitors, CountOK, OthersKeep(v), Moves(v)
  PROVE  CountOK'
<1> SUFFICES ASSUME NEW c \in Clients, c \notin disturbed'
             PROVE  nowConn'[c] = Cardinality(Charged(c)')
  BY DEF CountOK
<1> DEFINE S == Charged(c)
           T == Charged(c)'
<1>1. S \in SUBSET Visitors /\ T \in SUBSET Visitors
  BY DEF Charged
<1>2. ASSUME NEW u \in Visitors \ {v} PROVE u \in S <=> u \in T
  BY DEF OthersKeep, Charged, LetIn
<1>3. (v \in S <=> In(v, c)) /\ (v \in T <=> In(v, c)')
  BY DEF Charged, In
<1>4. One(v \in S) = One(In(v, c)) /\ One(v \in T) = One(In(v, c)')
  BY <1>3 DEF One
<1>5. nowConn'[c] = nowConn[c] + One(In(v, c)') - One(In(v, c))
  BY DEF Moves
<1>6. nowConn[c] = Cardinality(S)
  BY DEF CountOK, OthersKeep
<1> HIDE DEF S, T
<1>7. Cardinality(T) = Cardinality(S) + One(v \in T) - One(v \in S)
  BY <1>1, <1>2, CountStep
<1>8. nowConn'[c] = Cardinality(T)
  BY <1>4, <1>5, <1>6, <1>7
<1> QED
  BY <1>8 DEF T

-----------------------------------------------------------------------------
(* The steps of the handlers                                               *)

\* What a step of v leaves behind.
Good(v) ==
  /\ TypeOK' /\ BoundsOK' /\ OthersKeep(v) /\ PayerOK'
  /\ SameHost' => SameHost /\ Steady' /\ Moves(v)

LEMMA StepGood ==
  ASSUME Inv, NEW v \in Visitors, Handle(v)
  PROVE  Good(v)
<1> USE ConnAssumption, HostsAssumption DEF Inv, OwnerOK, Goto, http, edits, AddConn, RunDeferred, Return
<1>1. ASSUME NEW k \in Kinds, NEW h \in Asked, Arrive(v, k, h) PROVE Good(v)
  <2>1. TypeOK'
    BY <1>1 DEF Arrive, TypeOK, BoundsOK, Client, Deferring
  <2>2. BoundsOK'
    BY <1>1 DEF Arrive, TypeOK, BoundsOK, Client
  <2>3. OthersKeep(v)
    BY <1>1 DEF Arrive, TypeOK, OthersKeep
  <2>4. PayerOK'
    BY <1>1 DEF Arrive, TypeOK, PayerOK, Client, Deferring
  <2>5. SameHost' => SameHost
    BY <1>1 DEF Arrive, TypeOK, SameHost
  <2>6. SameHost' => Steady'
    BY <1>1, <2>5 DEF Arrive, TypeOK, SameHost, Steady, PayerOK, Client, Deferring, One
  <2>7. SameHost' => Moves(v)
    BY <1>1, <2>5 DEF Arrive, TypeOK, SameHost, Steady, PayerOK, Moves, One, In, LetIn, Client, Deferring
  <2> QED
    BY <2>1, <2>2, <2>3, <2>4, <2>5, <2>6, <2>7 DEF Good
<1>2. ASSUME NEW h \in Asked, NextHost(v, h) PROVE Good(v)
  <2>1. TypeOK'
    BY <1>2 DEF NextHost, TypeOK, BoundsOK, Client, Deferring
  <2>2. BoundsOK'
    BY <1>2 DEF NextHost, TypeOK, BoundsOK, Client
  <2>3. OthersKeep(v)
    BY <1>2 DEF NextHost, TypeOK, OthersKeep
  <2>4. PayerOK'
    BY <1>2 DEF NextHost, TypeOK, PayerOK, Client, Deferring
  <2>5. SameHost' => SameHost
    BY <1>2 DEF NextHost, TypeOK, SameHost
  <2>6. SameHost' => Steady'
    BY <1>2, <2>5 DEF NextHost, TypeOK, SameHost, Steady, PayerOK, Client, Deferring, One
  <2>7. SameHost' => Moves(v)
    BY <1>2, <2>5 DEF NextHost, TypeOK, SameHost, Steady, PayerOK, Moves, One, In, LetIn, Client, Deferring
  <2> QED
    BY <2>1, <2>2, <2>3, <2>4, <2>5, <2>6, <2>7 DEF Good
<1>3. CASE Refuse(v)
  <2>1. TypeOK'
    BY <1>3 DEF Refuse, TypeOK, BoundsOK, Client, Deferring
  <2>2. BoundsOK'
    BY <1>3 DEF Refuse, TypeOK, BoundsOK, Client
  <2>3. OthersKeep(v)
    BY <1>3 DEF Refuse, TypeOK, OthersKeep
  <2>4. PayerOK'
    BY <1>3 DEF Refuse, TypeOK, PayerOK, Client, Deferring
  <2>5. SameHost' => SameHost
    BY <1>3 DEF Refuse, TypeOK, SameHost
  <2>6. SameHost' => Steady'
    BY <1>3, <2>5 DEF Refuse, TypeOK, SameHost, Steady, PayerOK, Client, Deferring, One
  <2>7. SameHost' => Moves(v)
    BY <1>3, <2>5 DEF Refuse, TypeOK, SameHost, Steady, PayerOK, Moves, One, In, LetIn, Client, Deferring
  <2> QED
    BY <2>1, <2>2, <2>3, <2>4, <2>5, <2>6, <2>7 DEF Good
<1>4. CASE HasRoom(v)
  <2>1. TypeOK'
    BY <1>4 DEF HasRoom, TypeOK, BoundsOK, Client, Deferring
  <2>2. BoundsOK'
    BY <1>4 DEF HasRoom, TypeOK, BoundsOK, Client
  <2>3. OthersKeep(v)
    BY <1>4 DEF HasRoom, TypeOK, OthersKeep
  <2>4. PayerOK'
    BY <1>4 DEF HasRoom, TypeOK, PayerOK, Client, Deferring
  <2>5. SameHost' => SameHost
    BY <1>4 DEF HasRoom, TypeOK, SameHost
  <2>6. SameHost' => Steady'
    BY <1>4, <2>5 DEF HasRoom, TypeOK, SameHost, Steady, PayerOK, Client, Deferring, One
  <2>7. SameHost' => Moves(v)
    BY <1>4, <2>5 DEF HasRoom, TypeOK, SameHost, Steady, PayerOK, Moves, One, In, LetIn, Client, Deferring
  <2> QED
    BY <2>1, <2>2, <2>3, <2>4, <2>5, <2>6, <2>7 DEF Good
<1>5. CASE CutConn(v)
  <2>1. TypeOK'
    BY <1>5 DEF CutConn, TypeOK, BoundsOK, Client, Deferring
  <2>2. BoundsOK'
    BY <1>5 DEF CutConn, TypeOK, BoundsOK, Client
  <2>3. OthersKeep(v)
    BY <1>5 DEF CutConn, TypeOK, OthersKeep
  <2>4. PayerOK'
    BY <1>5 DEF CutConn, TypeOK, PayerOK, Client, Deferring
  <2>5. SameHost' => SameHost
    BY <1>5 DEF CutConn, TypeOK, SameHost
  <2>6. SameHost' => Steady'
    <3>1. kind[v] # "tcp" => pc'[v] = "defer"
      BY <1>5 DEF CutConn, TypeOK, PayerOK, Deferring
    <3> QED
      BY <1>5, <2>5, <3>1 DEF CutConn, TypeOK, SameHost, Steady, One
  <2>7. SameHost' => Moves(v)
    BY <1>5, <2>5 DEF CutConn, TypeOK, SameHost, Steady, PayerOK, Moves, One, In, LetIn, Client, Deferring
  <2> QED
    BY <2>1, <2>2, <2>3, <2>4, <2>5, <2>6, <2>7 DEF Good
<1>6. CASE Defer(v)
  <2>1. TypeOK'
    BY <1>6 DEF Defer, TypeOK, BoundsOK, Client, Deferring
  <2>2. BoundsOK'
    BY <1>6 DEF Defer, TypeOK, BoundsOK, Client
  <2>3. OthersKeep(v)
    BY <1>6 DEF Defer, TypeOK, OthersKeep
  <2>4. PayerOK'
    BY <1>6 DEF Defer, TypeOK, PayerOK, Client, Deferring
  <2>5. SameHost' => SameHost
    BY <1>6 DEF Defer, TypeOK, SameHost
  <2>6. SameHost' => Steady'
    BY <1>6, <2>5 DEF Defer, TypeOK, SameHost, Steady, PayerOK, Client, Deferring, One
  <2>7. SameHost' => Moves(v)
    BY <1>6, <2>5 DEF Defer, TypeOK, SameHost, Steady, PayerOK, Moves, One, In, LetIn, Client, Deferring
  <2> QED
    BY <2>1, <2>2, <2>3, <2>4, <2>5, <2>6, <2>7 DEF Good
<1>7. CASE Serve(v)
  <2>1. TypeOK'
    BY <1>7 DEF Serve, TypeOK, BoundsOK, Client, Deferring
  <2>2. BoundsOK'
    BY <1>7 DEF Serve, TypeOK, BoundsOK, Client
  <2>3. OthersKeep(v)
    BY <1>7 DEF Serve, TypeOK, OthersKeep
  <2>4. PayerOK'
    BY <1>7 DEF Serve, TypeOK, PayerOK, Client, Deferring
  <2>5. SameHost' => SameHost
    BY <1>7 DEF Serve, TypeOK, SameHost
  <2>6. SameHost' => Steady'
    BY <1>7, <2>5 DEF Serve, TypeOK, SameHost, Steady, PayerOK, Client, Deferring, One
  <2>7. SameHost' => Moves(v)
    BY <1>7, <2>5 DEF Serve, TypeOK, SameHost, Steady, PayerOK, Moves, One, In, LetIn, Client, Deferring
  <2> QED
    BY <2>1, <2>2, <2>3, <2>4, <2>5, <2>6, <2>7 DEF Good
<1>8. CASE Leave(v)
  <2>1. TypeOK'
    BY <1>8 DEF Leave, TypeOK, BoundsOK, Client, Deferring
  <2>2. BoundsOK'
    BY <1>8 DEF Leave, TypeOK, BoundsOK, Client
  <2>3. OthersKeep(v)
    BY <1>8 DEF Leave, TypeOK, OthersKeep
  <2>4. PayerOK'
    BY <1>8 DEF Leave, TypeOK, PayerOK, Client, Deferring
  <2>5. SameHost' => SameHost
    BY <1>8 DEF Leave, TypeOK, SameHost
  <2>6. SameHost' => Steady'
    BY <1>8, <2>5 DEF Leave, TypeOK, SameHost, Steady, PayerOK, Client, Deferring, One
  <2>7. SameHost' => Moves(v)
    BY <1>8, <2>5 DEF Leave, TypeOK, SameHost, Steady, PayerOK, Moves, One, In, LetIn, Client, Deferring
  <2> QED
    BY <2>1, <2>2, <2>3, <2>4, <2>5, <2>6, <2>7 DEF Good
<1>9. CASE ReaderStarts(v)
  <2>1. TypeOK'
    BY <1>9 DEF ReaderStarts, TypeOK, BoundsOK, Client, Deferring
  <2>2. BoundsOK'
    BY <1>9 DEF ReaderStarts, TypeOK, BoundsOK, Client
  <2>3. OthersKeep(v)
    BY <1>9 DEF ReaderStarts, TypeOK, OthersKeep
  <2>4. PayerOK'
    BY <1>9 DEF ReaderStarts, TypeOK, PayerOK, Client, Deferring
  <2>5. SameHost' => SameHost
    BY <1>9 DEF ReaderStarts, TypeOK, SameHost
  <2>6. SameHost' => Steady'
    BY <1>9, <2>5 DEF ReaderStarts, TypeOK, SameHost, Steady, PayerOK, Client, Deferring, One
  <2>7. SameHost' => Moves(v)
    BY <1>9, <2>5 DEF ReaderStarts, TypeOK, SameHost, Steady, PayerOK, Moves, One, In, LetIn, Client, Deferring
  <2> QED
    BY <2>1, <2>2, <2>3, <2>4, <2>5, <2>6, <2>7 DEF Good
<1>10. CASE Reset(v)
  <2>1. TypeOK'
    BY <1>10 DEF Reset, TypeOK, BoundsOK, Client, Deferring
  <2>2. BoundsOK'
    BY <1>10 DEF Reset, TypeOK, BoundsOK, Client
  <2>3. OthersKeep(v)
    BY <1>10 DEF Reset, TypeOK, OthersKeep
  <2>4. PayerOK'
    BY <1>10 DEF Reset, TypeOK, PayerOK, Client, Deferring
  <2>5. SameHost' => SameHost
    BY <1>10 DEF Reset, TypeOK, SameHost
  <2>6. SameHost' => Steady'
    BY <1>10, <2>5 DEF Reset, TypeOK, SameHost, Steady, PayerOK, Client, Deferring, One
  <2>7. SameHost' => Moves(v)
    BY <1>10, <2>5 DEF Reset, TypeOK, SameHost, Steady, PayerOK, Moves, One, In, LetIn, Client, Deferring
  <2> QED
    BY <2>1, <2>2, <2>3, <2>4, <2>5, <2>6, <2>7 DEF Good
<1> QED
  BY <1>1, <1>2, <1>3, <1>4, <1>5, <1>6, <1>7, <1>8, <1>9, <1>10 DEF Handle

\* An edit leaves the clients it does not disturb alone.
LEMMA EditGood ==
  ASSUME Inv, NEW h \in Hosts, NEW c \in Clients, Edit(h, c)
  PROVE  Inv'
<1> USE ConnAssumption DEF Inv, Edit, GiveTo, OwnerOK, http
<1>1. TypeOK' /\ BoundsOK'
  BY DEF TypeOK, BoundsOK
<1>2. ASSUME NEW v \in Visitors PROVE Client(v)' = IF host[v] = h THEN c ELSE Client(v)
  <2>1. CASE host[v] \in Hosts
    BY <2>1 DEF TypeOK, Client
  <2>2. CASE host[v] = None
    BY <2>2 DEF TypeOK, Client
  <2> QED
    BY <2>1, <2>2 DEF TypeOK
<1>3. PayerOK'
  <2> SUFFICES ASSUME NEW v \in Visitors,
                      \/ pc[v] \in {"cut", "defer"}
                      \/ kind[v] = "tcp" /\ pc[v] \in {"link", "serve"}
               PROVE  payer[v] = Client(v)' \/ {payer[v], Client(v)'} \subseteq disturbed'
    BY DEF PayerOK
  <2>1. payer[v] = Client(v) \/ {payer[v], Client(v)} \subseteq disturbed
    BY DEF PayerOK
  <2>2. CASE host[v] = h
    <3>1. Client(v) = owner[h] /\ Client(v)' = c
      BY <1>2, <2>2 DEF Client
    <3>2. ReadsAgain(v)
      BY DEF ReadsAgain
    <3>3. {owner[h], c} \subseteq disturbed'
      BY <2>2, <3>2
    <3> QED
      BY <2>1, <3>1, <3>3
  <2>3. CASE host[v] # h
    BY <1>2, <2>1, <2>3
  <2> QED
    BY <2>2, <2>3
<1>4. SameHost' => SameHost /\ Steady' /\ CountOK'
  BY DEF SameHost, Steady, CountOK, Charged, LetIn
<1> QED
  BY <1>1, <1>3, <1>4

-----------------------------------------------------------------------------
(* The slots that come back                                                *)

\* What the handler of v still gives back to c, less the slot that it takes
\* without another AddConn once Reset gave one back.
Slack(v, c) ==
  IF pc[v] \in {"idle", "done"} THEN 0
  ELSE IF kind[v] = "tcp" THEN One(pc[v] \in {"link", "serve"} /\ Client(v) = c)
  ELSE deferred[v][c]
       + One(pc[v] = "defer" /\ ~isReset[v] /\ Client(v) = c)
       - One(pc[v] \in {"check", "cut"} /\ isReset[v] /\ Client(v) = c)

Slacks(c) == [v \in Visitors |-> Slack(v, c) + 1]

\* NowConn is no more than what all handlers give back.
SlotsOK ==
  \A c \in Clients \ disturbed :
    nowConn[c] + Cardinality(Visitors) <= SumUp(Visitors, Resets + 3, Slacks(c))

FreshOK == \A v \in Visitors : pc[v] = "idle" => ~isReset[v] /\ \A c \in Clients : deferred[v][c] = 0

\* A step of v gives no slot of c back that its handler did not hold.
GivesBack(v) ==
  \A c \in Clients \ disturbed' : nowConn'[c] - nowConn[c] <= Slack(v, c)' - Slack(v, c)

LEMMA SlotsKept ==
  ASSUME TypeOK, TypeOK', NEW v \in Visitors, OthersKeep(v), GivesBack(v), SlotsOK
  PROVE  SlotsOK'
<1> SUFFICES ASSUME NEW c \in Clients, c \notin disturbed'
             PROVE  nowConn'[c] + Cardinality(Visitors) <= SumUp(Visitors, Resets + 3, Slacks(c)')
  BY DEF SlotsOK
<1> DEFINE F == Slacks(c)
           G == Slacks(c)'
<1>1. F \in [Visitors -> 0 .. Resets + 3] /\ G \in [Visitors -> 0 .. Resets + 3]
  BY ConnAssumption DEF TypeOK, Slacks, Slack, One
<1>2. \A u \in Visitors \ {v} : F[u] = G[u]
  BY DEF OthersKeep, Slacks, Slack, Client
<1>3. nowConn'[c] - nowConn[c] <= G[v] - F[v]
  <2>1. Slack(v, c) \in Int /\ Slack(v, c)' \in Int
    BY ConnAssumption DEF TypeOK, Slack, One
  <2>2. F[v] = Slack(v, c) + 1 /\ G[v] = Slack(v, c)' + 1
    BY DEF Slacks
  <2>3. nowConn'[c] \in Int /\ nowConn[c] \in Int
    BY DEF TypeOK
  <2> QED
    BY <2>1, <2>2, <2>3 DEF GivesBack
<1>4. nowConn[c] + Cardinality(Visitors) <= SumUp(Visitors, Resets + 3, F)
  BY DEF SlotsOK, OthersKeep
<1>5. IsFiniteSet(Visitors) /\ Resets + 3 \in Nat
  BY ConnAssumption
<1> HIDE DEF F, G
<1>6. SumUp(Visitors, Resets + 3, G) = SumUp(Visitors, Resets + 3, F) + G[v] - F[v]
  BY <1>1, <1>2, <1>5, SumMoves
<1>7. SumUp(Visitors, Resets + 3, F) \in Nat /\ Cardinality(Visitors) \in Nat
  BY <1>5, TokensFinite, FS_CardinalityType
<1>8. F[v] \in Int /\ G[v] \in Int /\ nowConn'[c] \in Int /\ nowConn[c] \in Int
  BY <1>1 DEF TypeOK
<1>9. nowConn'[c] + Cardinality(Visitors) <= SumUp(Visitors, Resets + 3, G)
  BY <1>3, <1>4, <1>6, <1>7, <1>8
<1> QED
  BY <1>9 DEF G

LEMMA EditKeepsSlots ==
  ASSUME TypeOK, NEW h \in Hosts, NEW d \in Clients, Edit(h, d), SlotsOK, FreshOK
  PROVE  SlotsOK' /\ FreshOK'
<1> USE DEF Edit, GiveTo, http
<1>1. ASSUME NEW c \in Clients, c \notin disturbed', NEW v \in Visitors
      PROVE  Slack(v, c)' = Slack(v, c)
  <2>1. CASE host[v] = h
    <3>1. Client(v)' = d /\ Client(v) = owner[h]
      BY <2>1 DEF TypeOK, OwnerOK, Client
    <3>2. ReadsAgain(v) => c # d /\ c # owner[h]
      BY <1>1, <2>1
    <3> QED
      BY <3>1, <3>2 DEF Slack, One, ReadsAgain
  <2>2. CASE host[v] # h
    <3>1. Client(v)' = Client(v)
      BY <2>2, ConnAssumption DEF TypeOK, OwnerOK, Client
    <3> QED
      BY <3>1 DEF Slack, One
  <2> QED
    BY <2>1, <2>2
<1>2. ASSUME NEW c \in Clients, c \notin disturbed' PROVE Slacks(c)' = Slacks(c)
  BY <1>1, <1>2 DEF Slacks
<1> QED
  BY <1>2 DEF SlotsOK, FreshOK

LEMMA StepGivesBack ==
  ASSUME TypeOK, FreshOK, PayerOK, NEW v \in Visitors, Handle(v)
  PROVE  FreshOK' /\ GivesBack(v)
<1> USE ConnAssumption, HostsAssumption
    DEF TypeOK, FreshOK, OwnerOK, Goto, http, edits, AddConn, RunDeferred, Return
<1>1. ASSUME NEW k \in Kinds, NEW h \in Asked, Arrive(v, k, h) PROVE FreshOK' /\ GivesBack(v)
  <2>1. FreshOK'
    BY <1>1 DEF Arrive
  <2>2. GivesBack(v)
    BY <1>1 DEF Arrive, GivesBack, Slack, One, Client, PayerOK, Deferring
  <2> QED
    BY <2>1, <2>2
<1>2. ASSUME NEW h \in Asked, NextHost(v, h) PROVE FreshOK' /\ GivesBack(v)
  <2>1. FreshOK'
    BY <1>2 DEF NextHost
  <2>2. GivesBack(v)
    BY <1>2 DEF NextHost, GivesBack, Slack, One, Client, PayerOK, Deferring
  <2> QED
    BY <2>1, <2>2
<1>3. CASE Refuse(v)
  <2>1. FreshOK'
    BY <1>3 DEF Refuse
  <2>2. GivesBack(v)
    BY <1>3 DEF Refuse, GivesBack, Slack, One, Client, PayerOK, Deferring
  <2> QED
    BY <2>1, <2>2
<1>4. CASE HasRoom(v)
  <2>1. FreshOK'
    BY <1>4 DEF HasRoom
  <2>2. GivesBack(v)
    BY <1>4 DEF HasRoom, GivesBack, Slack, One, Client, PayerOK, Deferring
  <2> QED
    BY <2>1, <2>2
<1>5. CASE CutConn(v)
  <2>1. FreshOK'
    BY <1>5 DEF CutConn
  <2>2. GivesBack(v)
    <3> SUFFICES ASSUME NEW c \in Clients, c \notin disturbed'
                 PROVE  nowConn'[c] - nowConn[c] <= Slack(v, c)' - Slack(v, c)
      BY DEF GivesBack
    <3>1. payer[v] = c => Client(v) = c
      BY <1>5 DEF CutConn, PayerOK
    <3>2. nowConn'[c] - nowConn[c] = One(payer[v] = c)
      BY <1>5 DEF CutConn, One, PayerOK
    <3>3. kind[v] \in {"tcp", "udp", "http"} /\ kind'[v] = kind[v] /\ Client(v)' = Client(v)
      BY <1>5 DEF CutConn, PayerOK, Client
    <3>4. pc'[v] = IF kind[v] = "tcp" THEN "link" ELSE "defer"
      BY <1>5, <3>3 DEF CutConn, Deferring
    <3>5. deferred'[v][c] = deferred[v][c] /\ isReset'[v] = isReset[v] /\ deferred[v][c] \in Nat
      BY <1>5 DEF CutConn
    <3>6. CASE kind[v] = "tcp"
      <4>1. Slack(v, c) = 0 /\ Slack(v, c)' = One(Client(v) = c)
        BY <1>5, <3>3, <3>4, <3>6 DEF CutConn, Slack, One
      <4> QED
        BY <3>1, <3>2, <4>1 DEF One
    <3>7. CASE kind[v] # "tcp"
      <4>1. Slack(v, c) = deferred[v][c] - One(isReset[v] /\ Client(v) = c)
        BY <1>5, <3>5, <3>7 DEF CutConn, Slack, One
      <4>2. Slack(v, c)' = deferred[v][c] + One(~isReset[v] /\ Client(v) = c)
        BY <3>3, <3>4, <3>5, <3>7 DEF Slack, One
      <4> QED
        BY <3>1, <3>2, <3>5, <4>1, <4>2 DEF One
    <3> QED
      BY <3>6, <3>7
  <2> QED
    BY <2>1, <2>2
<1>6. CASE Defer(v)
  <2>1. FreshOK'
    BY <1>6 DEF Defer
  <2>2. GivesBack(v)
    BY <1>6 DEF Defer, GivesBack, Slack, One, Client, PayerOK, Deferring
  <2> QED
    BY <2>1, <2>2
<1>7. CASE Serve(v)
  <2>1. FreshOK'
    BY <1>7 DEF Serve
  <2>2. GivesBack(v)
    BY <1>7 DEF Serve, GivesBack, Slack, One, Client, PayerOK, Deferring
  <2> QED
    BY <2>1, <2>2
<1>8. CASE Leave(v)
  <2>1. FreshOK'
    BY <1>8 DEF Leave
  <2>2. GivesBack(v)
    BY <1>8 DEF Leave, GivesBack, Slack, One, Client, PayerOK, Deferring
  <2> QED
    BY <2>1, <2>2
<1>9. CASE ReaderStarts(v)
  <2>1. FreshOK'
    BY <1>9 DEF ReaderStarts
  <2>2. GivesBack(v)
    BY <1>9 DEF ReaderStarts, GivesBack, Slack, One, Client, PayerOK, Deferring
  <2> QED
    BY <2>1, <2>2
<1>10. CASE Reset(v)
  <2>1. FreshOK'
    BY <1>10 DEF Reset
  <2>2. GivesBack(v)
    BY <1>10 DEF Reset, GivesBack, Slack, One, Client, PayerOK, Deferring
  <2> QED
    BY <2>1, <2>2
<1> QED
  BY <1>1, <1>2, <1>3, <1>4, <1>5, <1>6, <1>7, <1>8, <1>9, <1>10 DEF Handle

-----------------------------------------------------------------------------
(* The steps of the traffic                                                *)

LEMMA FlowType ==
  ASSUME FlowTypeOK, FlowNext
  PROVE  FlowTypeOK'
<1> USE FlowAssumption, HostsAssumption DEF FlowTypeOK, OwnerOK, GiveTo, runs
<1>1. ASSUME NEW p \in Hosts, NewHost(p) \/ DelHost(p) \/ FlowAdd(p) PROVE FlowTypeOK'
  BY <1>1 DEF NewHost, DelHost, FlowAdd
<1>2. ASSUME NEW p \in Hosts, NEW c \in Clients, FlowEdit(p, c) PROVE FlowTypeOK'
  BY <1>2 DEF FlowEdit
<1>3. ASSUME NEW r \in Runs, Run(r) PROVE FlowTypeOK'
  <2>1. CASE r = Ticker /\ Tick
    BY <2>1 DEF Tick
  <2>2. CASE Store(r)
    BY <2>2 DEF Store
  <2>3. CASE SumDone(r)
    BY <2>3 DEF SumDone
  <2>4. ASSUME NEW c \in Clients, Zero(r, c) PROVE FlowTypeOK'
    BY <2>4 DEF Zero
  <2>5. ASSUME NEW p \in Hosts, Pass(r, p) PROVE FlowTypeOK'
    BY <2>5 DEF Pass
  <2>6. ASSUME NEW p \in Hosts, Load(r, p) PROVE FlowTypeOK'
    BY <2>6 DEF Load
  <2> QED
    BY <1>3, <2>1, <2>2, <2>3, <2>4, <2>5, <2>6 DEF Run
<1> QED
  BY <1>1, <1>2, <1>3 DEF FlowNext

\* What the hosts that c ever had transferred, and those of them that a run
\* has not visited yet.
EverOf(c) == [p \in Hosts |-> IF c \in had[p] THEN used[p] ELSE 0]
LeftOf(r, c) == [p \in Hosts |-> IF p \in todo[r] /\ c \in had[p] THEN used[p] ELSE 0]

EverSum(c) == SumUp(Hosts, MaxUsed, EverOf(c))
LeftSum(r, c) == SumUp(Hosts, MaxUsed, LeftOf(r, c))

\* Even what a run is still to add does not make the flow too large.
Fits(c) ==
  /\ flow[c] <= EverSum(c)
  /\ \A r \in Runs : now[r] = c =>
       /\ sum[r] = {} => flow[c] + LeftSum(r, c) <= EverSum(c)
       /\ \A n \in sum[r] : n + LeftSum(r, c) <= EverSum(c)

\* Two runs on one client have it on record.
Solo ==
  \A r, q \in Runs : r # q /\ now[r] = now[q] /\ now[r] # NoClient => now[r] \in mixed

FlowInv ==
  /\ FlowTypeOK /\ Solo
  /\ \A p \in Hosts : owner[p] \in had[p]
  /\ \A c \in Clients \ mixed : Fits(c)

LEMMA SumsAreNat ==
  ASSUME NEW c
  PROVE  EverSum(c) \in Nat /\ \A r : LeftSum(r, c) \in Nat
BY FlowAssumption, TokensFinite DEF EverSum, LeftSum

\* One host more, or one unit more of a host: what all hosts carried grows by
\* no less than what is left to a run.
LEMMA HostGrows ==
  ASSUME FlowTypeOK, FlowTypeOK', NEW c \in Clients, NEW p \in Hosts, Fits(c),
         UNCHANGED <<flow, now, todo, sum>>,
         \A x \in Hosts \ {p} : used'[x] = used[x] /\ (c \in had'[x] <=> c \in had[x]),
         used[p] <= used'[p], c \in had[p] => c \in had'[p]
  PROVE  Fits(c)'
<1> USE FlowAssumption
<1> DEFINE e == EverOf(c)'[p] - EverOf(c)[p]
<1>1. EverOf(c) \in [Hosts -> 0 .. MaxUsed] /\ EverOf(c)' \in [Hosts -> 0 .. MaxUsed]
  BY DEF FlowTypeOK, EverOf
<1>2. e \in Nat
  BY DEF FlowTypeOK, EverOf
<1>3. EverSum(c)' = EverSum(c) + e
  <2>1. \A x \in Hosts \ {p} : EverOf(c)[x] = EverOf(c)'[x]
    BY DEF EverOf
  <2>2. EverSum(c)' = EverSum(c) + EverOf(c)'[p] - EverOf(c)[p]
    BY <1>1, <2>1, SumMoves DEF EverSum
  <2>3. EverOf(c)'[p] \in Nat /\ EverOf(c)[p] \in Nat
    BY <1>1
  <2> QED
    BY <2>2, <2>3, SumsAreNat
<1>4. ASSUME NEW r \in Runs PROVE LeftSum(r, c)' <= LeftSum(r, c) + e
  <2> DEFINE P == LeftOf(r, c)
             Q == LeftOf(r, c)'
  <2>1. P \in [Hosts -> 0 .. MaxUsed] /\ Q \in [Hosts -> 0 .. MaxUsed]
    BY DEF FlowTypeOK, LeftOf
  <2>2. \A x \in Hosts \ {p} : P[x] = Q[x]
    BY DEF LeftOf
  <2>3. Q[p] <= P[p] + e
    BY DEF FlowTypeOK, LeftOf, EverOf
  <2>4. LeftSum(r, c) = SumUp(Hosts, MaxUsed, P) /\ LeftSum(r, c)' = SumUp(Hosts, MaxUsed, Q)
    BY DEF LeftSum
  <2> HIDE DEF P, Q, e
  <2>5. LeftSum(r, c)' = LeftSum(r, c) + Q[p] - P[p]
    BY <2>1, <2>2, <2>4, SumMoves
  <2>6. Q[p] \in Nat /\ P[p] \in Nat /\ LeftSum(r, c) \in Nat
    BY <2>1, <2>4, TokensFinite
  <2> QED
    BY <1>2, <2>3, <2>5, <2>6
<1> HIDE DEF e
<1>5. flow[c] \in Nat /\ \A r \in Runs : \A n \in sum[r] : n \in Nat
  BY DEF FlowTypeOK
<1>6. flow[c] <= EverSum(c)'
  BY <1>2, <1>3, <1>5, SumsAreNat DEF Fits
<1>7. ASSUME NEW r \in Runs, now[r] = c
      PROVE  /\ sum[r] = {} => flow[c] + LeftSum(r, c)' <= EverSum(c)'
             /\ \A n \in sum[r] : n + LeftSum(r, c)' <= EverSum(c)'
  <2>1. LeftSum(r, c) \in Nat /\ LeftSum(r, c)' \in Nat /\ EverSum(c) \in Nat
    BY SumsAreNat, TokensFinite DEF LeftSum
  <2>2. sum[r] = {} => flow[c] + LeftSum(r, c) <= EverSum(c)
    BY <1>7 DEF Fits
  <2>3. \A n \in sum[r] : n + LeftSum(r, c) <= EverSum(c)
    BY <1>7 DEF Fits
  <2>4. LeftSum(r, c)' <= LeftSum(r, c) + e
    BY <1>4
  <2> QED
    BY <1>2, <1>3, <1>5, <2>1, <2>2, <2>3, <2>4
<1> QED
  BY <1>6, <1>7 DEF Fits

\* A run passes a host over or loads it.
LEMMA TodoShrinks ==
  ASSUME FlowTypeOK, FlowTypeOK', NEW c \in Clients, NEW r \in Runs, NEW p \in todo[r],
         UNCHANGED <<used, had>>, todo' = [todo EXCEPT ![r] = @ \ {p}]
  PROVE  /\ EverSum(c)' = EverSum(c)
         /\ \A q \in Runs \ {r} : LeftSum(q, c)' = LeftSum(q, c)
         /\ LeftSum(r, c)' = LeftSum(r, c) - (IF c \in had[p] THEN used[p] ELSE 0)
<1> USE FlowAssumption
<1> DEFINE P == LeftOf(r, c)
           Q == LeftOf(r, c)'
<1>1. p \in Hosts
  BY DEF FlowTypeOK
<1>2. P \in [Hosts -> 0 .. MaxUsed] /\ Q \in [Hosts -> 0 .. MaxUsed]
  BY DEF FlowTypeOK, LeftOf
<1>3. \A x \in Hosts \ {p} : P[x] = Q[x]
  BY DEF FlowTypeOK, LeftOf
<1>4. P[p] = (IF c \in had[p] THEN used[p] ELSE 0) /\ Q[p] = 0
  BY <1>1 DEF FlowTypeOK, LeftOf
<1>5. LeftSum(r, c) = SumUp(Hosts, MaxUsed, P) /\ LeftSum(r, c)' = SumUp(Hosts, MaxUsed, Q)
  BY DEF LeftSum
<1>6. EverSum(c)' = EverSum(c)
  BY DEF EverSum, EverOf
<1>7. ASSUME NEW q \in Runs \ {r} PROVE LeftSum(q, c)' = LeftSum(q, c)
  <2>1. todo'[q] = todo[q]
    BY DEF FlowTypeOK
  <2> QED
    BY <2>1 DEF LeftSum, LeftOf
<1> HIDE DEF P, Q
<1>8. LeftSum(r, c)' = LeftSum(r, c) + Q[p] - P[p]
  BY <1>1, <1>2, <1>3, <1>5, SumMoves
<1>9. P[p] \in Nat /\ LeftSum(r, c) \in Nat
  BY <1>1, <1>2, <1>5, TokensFinite
<1> QED
  BY <1>4, <1>6, <1>7, <1>8, <1>9

LEMMA RunKept ==
  ASSUME FlowInv, NEW r \in Runs, Run(r), FlowTypeOK'
  PROVE  FlowInv'
<1> USE FlowAssumption
<1>n. \A c \in Clients : c # NoClient
  BY DEF FlowTypeOK
<1>1. CASE r = Ticker /\ Tick
  <2>1. UNCHANGED <<owner, alive, used, flow, now, todo, sum, had, mixed>>
    BY <1>1 DEF Tick
  <2> QED
    BY <2>1 DEF FlowInv, Solo, Fits, EverSum, LeftSum, EverOf, LeftOf
<1>2. ASSUME NEW d \in Clients, Zero(r, d) PROVE FlowInv'
  <2> USE <1>2 DEF Zero
  <2>1. now' = [now EXCEPT ![r] = d] /\ now[r] = NoClient /\ sum[r] = {}
    BY DEF FlowInv, FlowTypeOK
  <2>2. Solo'
    <3> SUFFICES ASSUME NEW s \in Runs, NEW q \in Runs, s # q, now'[s] = now'[q], now'[s] # NoClient
                 PROVE  now'[s] \in mixed'
      BY DEF Solo
    <3>1. CASE s # r /\ q # r
      <4>1. now'[s] = now[s] /\ now'[q] = now[q]
        BY <2>1, <3>1 DEF FlowInv, FlowTypeOK
      <4>2. now[s] \in mixed
        BY <4>1 DEF FlowInv, Solo
      <4>3. CASE now[s] = d
        BY <3>1, <4>1, <4>3 DEF Alone
      <4>4. CASE now[s] # d
        BY <4>1, <4>2, <4>4
      <4> QED
        BY <4>3, <4>4
    <3>2. CASE s = r \/ q = r
      <4>1. now'[s] = d /\ ~Alone(r, d)
        BY <2>1, <3>2 DEF FlowInv, FlowTypeOK, Alone
      <4> QED
        BY <4>1
    <3> QED
      BY <3>1, <3>2
  <2>3. ASSUME NEW c \in Clients, c \notin mixed' PROVE Fits(c)'
    <3>1. EverSum(c)' = EverSum(c)
      BY DEF EverSum, EverOf
    <3>2. CASE c = d
      <4>1. Alone(r, d)
        BY <2>3, <3>2
      <4>2. flow'[c] = 0
        BY <3>2 DEF FlowInv, FlowTypeOK
      <4>3. LeftSum(r, c)' <= EverSum(c)'
        <5>1. \A p \in Hosts : LeftOf(r, c)'[p] <= EverOf(c)'[p]
          BY DEF FlowTypeOK, EverOf, LeftOf
        <5>2. LeftOf(r, c)' \in [Hosts -> 0 .. MaxUsed] /\ EverOf(c)' \in [Hosts -> 0 .. MaxUsed]
          BY DEF FlowTypeOK, EverOf, LeftOf
        <5> QED
          BY <5>1, <5>2, SumGrows DEF EverSum, LeftSum
      <4>4. \A q \in Runs : now'[q] = c => q = r
        BY <2>1, <3>2, <4>1 DEF FlowInv, FlowTypeOK, Alone
      <4>5. EverSum(c)' \in Nat /\ LeftSum(r, c)' \in Nat
        BY TokensFinite DEF EverSum, LeftSum
      <4> QED
        BY <2>1, <4>2, <4>3, <4>4, <4>5 DEF Fits
    <3>3. CASE c # d
      <4>1. c \notin mixed /\ flow'[c] = flow[c]
        BY <2>3, <3>3 DEF FlowInv, FlowTypeOK
      <4>2. ASSUME NEW q \in Runs, now'[q] = c
            PROVE  q # r /\ now[q] = c /\ sum'[q] = sum[q] /\ LeftSum(q, c)' = LeftSum(q, c)
        <5>1. q # r /\ now[q] = c /\ todo'[q] = todo[q]
          BY <2>1, <3>3, <4>2 DEF FlowInv, FlowTypeOK
        <5> QED
          BY <5>1 DEF LeftSum, LeftOf
      <4> QED
        BY <3>1, <4>1, <4>2 DEF FlowInv, Fits
    <3> QED
      BY <3>2, <3>3
  <2> QED
    BY <2>2, <2>3 DEF FlowInv
<1>3. ASSUME NEW p \in Hosts, Pass(r, p) PROVE FlowInv'
  <2> USE <1>3 DEF Pass
  <2>1. Solo' /\ \A x \in Hosts : owner'[x] \in had'[x]
    BY DEF FlowInv, Solo
  <2>2. ASSUME NEW c \in Clients, c \notin mixed' PROVE Fits(c)'
    <3>1. /\ EverSum(c)' = EverSum(c)
          /\ \A q \in Runs \ {r} : LeftSum(q, c)' = LeftSum(q, c)
          /\ LeftSum(r, c)' = LeftSum(r, c) - (IF c \in had[p] THEN used[p] ELSE 0)
      BY TodoShrinks DEF FlowInv
    <3>2. flow[c] \in Nat /\ used[p] \in Nat
      BY DEF FlowInv, FlowTypeOK
    <3>3. LeftSum(r, c) \in Nat /\ EverSum(c) \in Nat
      BY SumsAreNat
    <3>4. Fits(c)
      BY <2>2 DEF FlowInv
    <3> QED
      BY <3>1, <3>2, <3>3, <3>4 DEF Fits
  <2> QED
    BY <2>1, <2>2 DEF FlowInv
<1>4. ASSUME NEW p \in Hosts, Load(r, p) PROVE FlowInv'
  <2> USE <1>4 DEF Load
  <2>1. Solo' /\ \A x \in Hosts : owner'[x] \in had'[x]
    BY DEF FlowInv, Solo
  <2>2. ASSUME NEW c \in Clients, c \notin mixed' PROVE Fits(c)'
    <3>1. /\ EverSum(c)' = EverSum(c)
          /\ \A q \in Runs \ {r} : LeftSum(q, c)' = LeftSum(q, c)
          /\ LeftSum(r, c)' = LeftSum(r, c) - (IF c \in had[p] THEN used[p] ELSE 0)
      BY TodoShrinks DEF FlowInv
    <3>2. flow[c] \in Nat /\ used[p] \in Nat
      BY DEF FlowInv, FlowTypeOK
    <3>3. LeftSum(r, c) \in Nat /\ EverSum(c) \in Nat
      BY SumsAreNat
    <3>4. Fits(c)
      BY <2>2 DEF FlowInv
    <3>5. ASSUME NEW q \in Runs \ {r} PROVE sum'[q] = sum[q]
      BY DEF FlowInv, FlowTypeOK
    <3>6. now[r] = c => c \in had[p] /\ sum'[r] = {flow[c] + used[p]}
      BY DEF FlowInv, FlowTypeOK
    <3>7. ASSUME now[r] = c
          PROVE  \A n \in sum'[r] : n + LeftSum(r, c)' <= EverSum(c)'
      <4>1. flow[c] + LeftSum(r, c) <= EverSum(c)
        BY <3>4, <3>7 DEF Fits
      <4>2. flow[c] + used[p] + (LeftSum(r, c) - used[p]) <= EverSum(c)
        BY <3>2, <3>3, <4>1
      <4> QED
        BY <3>1, <3>6, <3>7, <4>2
    <3> QED
      BY <3>1, <3>4, <3>5, <3>6, <3>7 DEF Fits
  <2> QED
    BY <2>1, <2>2 DEF FlowInv
<1>5. CASE Store(r)
  <2>1. PICK n \in sum[r] :
          /\ flow' = [flow EXCEPT ![now[r]] = n]
          /\ sum' = [sum EXCEPT ![r] = {}]
          /\ UNCHANGED <<owner, alive, used, clients, now, todo, had, mixed>>
    BY <1>5 DEF Store
  <2>2. Solo' /\ \A x \in Hosts : owner'[x] \in had'[x]
    BY <2>1 DEF FlowInv, Solo
  <2>3. ASSUME NEW c \in Clients, c \notin mixed' PROVE Fits(c)'
    <3>1. EverSum(c)' = EverSum(c) /\ \A q \in Runs : LeftSum(q, c)' = LeftSum(q, c)
      BY <2>1 DEF EverSum, EverOf, LeftSum, LeftOf
    <3>2. Fits(c)
      BY <2>1, <2>3 DEF FlowInv
    <3>3. \A q \in Runs \ {r} : sum'[q] = sum[q]
      BY <2>1 DEF FlowInv, FlowTypeOK
    <3>4. CASE now[r] = c
      <4>1. flow'[c] = n /\ sum'[r] = {}
        BY <2>1, <3>4 DEF FlowInv, FlowTypeOK
      <4>2. \A q \in Runs : now[q] = c => q = r
        BY <1>n, <2>1, <2>3, <3>4 DEF FlowInv, Solo
      <4>3. n + LeftSum(r, c) <= EverSum(c)
        BY <2>1, <3>2, <3>4 DEF Fits
      <4>4. n \in Nat /\ LeftSum(r, c) \in Nat /\ EverSum(c) \in Nat
        BY SumsAreNat DEF FlowInv, FlowTypeOK
      <4>5. n <= EverSum(c)
        BY <4>3, <4>4
      <4> QED
        BY <2>1, <3>1, <4>1, <4>2, <4>3, <4>5 DEF Fits
    <3>5. CASE now[r] # c
      <4>1. flow'[c] = flow[c]
        BY <2>1, <3>5 DEF FlowInv, FlowTypeOK
      <4> QED
        BY <2>1, <3>1, <3>2, <3>3, <3>5, <4>1 DEF Fits
    <3> QED
      BY <3>4, <3>5
  <2> QED
    BY <2>2, <2>3 DEF FlowInv
<1>6. CASE SumDone(r)
  <2> USE <1>6 DEF SumDone
  <2>1. \A q \in Runs : now'[q] # NoClient => q # r /\ now'[q] = now[q]
    BY DEF FlowInv, FlowTypeOK
  <2>2. Solo' /\ \A x \in Hosts : owner'[x] \in had'[x]
    BY <2>1 DEF FlowInv, Solo
  <2>3. ASSUME NEW c \in Clients, c \notin mixed' PROVE Fits(c)'
    <3>1. EverSum(c)' = EverSum(c) /\ \A q \in Runs : LeftSum(q, c)' = LeftSum(q, c)
      BY DEF EverSum, EverOf, LeftSum, LeftOf
    <3>2. Fits(c)
      BY <2>3 DEF FlowInv
    <3> QED
      BY <1>n, <2>1, <3>1, <3>2 DEF Fits
  <2> QED
    BY <2>2, <2>3 DEF FlowInv
<1> QED
  BY <1>1, <1>2, <1>3, <1>4, <1>5, <1>6 DEF Run

LEMMA FlowKept ==
  ASSUME FlowInv, FlowNext
  PROVE  FlowInv'
<1> USE FlowAssumption, HostsAssumption
<1>0. FlowTypeOK'
  BY FlowType DEF FlowInv
<1>1. ASSUME NEW p \in Hosts, NewHost(p) \/ DelHost(p) PROVE FlowInv'
  <2>1. UNCHANGED <<owner, used, flow, now, todo, sum, had, mixed>>
    BY <1>1 DEF NewHost, DelHost, runs
  <2> QED
    BY <1>0, <2>1 DEF FlowInv, Solo, Fits, EverSum, LeftSum, EverOf, LeftOf
<1>2. ASSUME NEW p \in Hosts, FlowAdd(p) PROVE FlowInv'
  <2> USE <1>2 DEF FlowAdd, runs
  <2>1. Solo' /\ \A x \in Hosts : owner'[x] \in had'[x]
    BY DEF FlowInv, Solo
  <2>2. \A x \in Hosts \ {p} : used'[x] = used[x]
    BY DEF FlowInv, FlowTypeOK
  <2>3. used[p] <= used'[p]
    BY DEF FlowInv, FlowTypeOK
  <2>4. ASSUME NEW c \in Clients, c \notin mixed' PROVE Fits(c)'
    BY <1>0, <2>2, <2>3, <2>4, HostGrows DEF FlowInv
  <2> QED
    BY <1>0, <2>1, <2>4 DEF FlowInv
<1>3. ASSUME NEW p \in Hosts, NEW d \in Clients, FlowEdit(p, d) PROVE FlowInv'
  <2> USE <1>3 DEF FlowEdit, runs, GiveTo
  <2>1. Solo' /\ \A x \in Hosts : owner'[x] \in had'[x]
    BY DEF FlowInv, Solo, FlowTypeOK, OwnerOK
  <2>2. \A x \in Hosts \ {p} : had'[x] = had[x]
    BY DEF FlowInv, FlowTypeOK
  <2>3. had[p] \subseteq had'[p] /\ used[p] <= used'[p]
    BY DEF FlowInv, FlowTypeOK
  <2>4. ASSUME NEW c \in Clients, c \notin mixed' PROVE Fits(c)'
    BY <1>0, <2>2, <2>3, <2>4, HostGrows DEF FlowInv
  <2> QED
    BY <1>0, <2>1, <2>4 DEF FlowInv
<1>4. ASSUME NEW r \in Runs, Run(r) PROVE FlowInv'
  BY <1>0, <1>4, RunKept
<1> QED
  BY <1>1, <1>2, <1>3, <1>4 DEF FlowNext

-----------------------------------------------------------------------------
(* Both limits                                                             *)

ConnInv == Inv /\ FreshOK /\ SlotsOK

\* As long as nobody has come the visitors do not notice an edit, and the
\* traffic does not follow the edits of a behaviour that is about visitors.
LimitsInv ==
  /\ ConnInv
  /\ FlowTypeOK /\ Solo /\ \A c \in Clients \ mixed : Fits(c)
  /\ about = "traffic" => /\ \A p \in Hosts : owner[p] \in had[p]
                          /\ \A v \in Visitors : pc[v] = "idle"

LEMMA LimitsInvInit == LimitsInit => LimitsInv
<1> SUFFICES ASSUME LimitsInit PROVE LimitsInv
  OBVIOUS
<1> USE ConnAssumption, FlowAssumption, HostsAssumption DEF LimitsInit, Init, FlowInit
<1>1. TypeOK /\ FlowTypeOK
  BY DEF TypeOK, FlowTypeOK, OwnerOK
<1>2. BoundsOK /\ PayerOK /\ Steady /\ FreshOK
  BY DEF BoundsOK, PayerOK, Steady, FreshOK
<1>3. CountOK
  <2> SUFFICES ASSUME NEW c \in Clients PROVE nowConn[c] = Cardinality(Charged(c))
    BY DEF CountOK
  <2>1. Charged(c) = {}
    BY DEF Charged, LetIn
  <2> QED
    BY <2>1, FS_EmptySet
<1>4. SlotsOK
  <2> SUFFICES ASSUME NEW c \in Clients
               PROVE  nowConn[c] + Cardinality(Visitors) <= SumUp(Visitors, Resets + 3, Slacks(c))
    BY DEF SlotsOK
  <2>1. \A v \in Visitors : Slacks(c)[v] = 1
    BY DEF Slacks, Slack
  <2>2. Slacks(c) \in [Visitors -> 0 .. Resets + 3]
    BY DEF Slacks, Slack
  <2>3. SumUp(Visitors, Resets + 3, Slacks(c)) = Cardinality(Visitors)
    BY <2>1, <2>2, SumOfOnes
  <2>4. nowConn[c] = 0 /\ Cardinality(Visitors) \in Nat
    BY FS_CardinalityType
  <2> QED
    BY <2>3, <2>4
<1>5. ASSUME NEW c \in Clients PROVE Fits(c)
  <2>1. flow[c] = 0 /\ \A r \in Runs : now[r] # c
    OBVIOUS
  <2>2. EverSum(c) \in Nat
    BY SumsAreNat
  <2> QED
    BY <2>1, <2>2 DEF Fits
<1>6. Solo /\ \A p \in Hosts : owner[p] \in had[p]
  BY DEF Solo
<1> QED
  BY <1>1, <1>2, <1>3, <1>4, <1>5, <1>6 DEF LimitsInv, ConnInv, Inv

LEMMA ConnKept ==
  ASSUME ConnInv, Next
  PROVE  ConnInv'
<1> USE DEF ConnInv
<1>1. ASSUME NEW v \in Visitors, Handle(v) PROVE ConnInv'
  <2>1. Good(v) /\ FreshOK' /\ GivesBack(v)
    BY <1>1, StepGood, StepGivesBack DEF Inv
  <2>2. SameHost' => CountOK'
    BY <2>1, CountKept DEF Good, Inv
  <2>3. SlotsOK'
    BY <2>1, SlotsKept DEF Good, Inv
  <2> QED
    BY <2>1, <2>2, <2>3 DEF Good, Inv
<1>2. ASSUME NEW h \in Hosts, NEW c \in Clients, Edit(h, c) PROVE ConnInv'
  BY <1>2, EditGood, EditKeepsSlots DEF Inv
<1> QED
  BY <1>1, <1>2 DEF Next

\* While every visitor is still to come only the type of the owners matters.
LEMMA ConnIdle ==
  ASSUME ConnInv, UNCHANGED connOnly, OwnerOK', \A v \in Visitors : pc[v] = "idle"
  PROVE  ConnInv'
<1> USE DEF ConnInv, Inv, connOnly, http
<1>1. TypeOK' /\ BoundsOK' /\ FreshOK'
  BY DEF TypeOK, BoundsOK, FreshOK
<1>2. PayerOK'
  BY DEF PayerOK
<1>3. SameHost' => Steady' /\ CountOK'
  BY DEF SameHost, Steady, CountOK, Charged, LetIn
<1>4. SlotsOK'
  <2>1. \A c \in Clients : Slacks(c)' = Slacks(c)
    BY DEF Slacks, Slack
  <2> QED
    BY <2>1 DEF SlotsOK
<1> QED
  BY <1>1, <1>2, <1>3, <1>4

\* What the visitors do leaves the traffic alone.
LEMMA FlowIdle ==
  ASSUME FlowTypeOK, Solo, \A c \in Clients \ mixed : Fits(c), UNCHANGED flowOnly, OwnerOK'
  PROVE  FlowTypeOK' /\ Solo' /\ \A c \in Clients \ mixed' : Fits(c)'
<1>1. UNCHANGED <<alive, used, flow, clients, now, todo, sum, had, mixed>>
  BY DEF flowOnly, runs
<1>2. FlowTypeOK'
  BY <1>1 DEF FlowTypeOK
<1>3. Solo'
  BY <1>1 DEF Solo
<1>4. ASSUME NEW c \in Clients PROVE EverSum(c)' = EverSum(c) /\ \A r : LeftSum(r, c)' = LeftSum(r, c)
  BY <1>1 DEF EverSum, LeftSum, EverOf, LeftOf
<1>5. ASSUME NEW c \in Clients \ mixed' PROVE Fits(c)'
  BY <1>1, <1>4, <1>5 DEF Fits
<1> QED
  BY <1>2, <1>3, <1>5

LEMMA LimitsInvStep ==
  ASSUME LimitsInv, [LimitsNext]_limitVars
  PROVE  LimitsInv'
<1>1. CASE about = "visitors" /\ Next /\ UNCHANGED <<about, flowOnly>>
  <2>1. ConnInv'
    BY <1>1, ConnKept DEF LimitsInv
  <2>2. OwnerOK'
    BY <2>1 DEF ConnInv, Inv, TypeOK
  <2>3. FlowTypeOK' /\ Solo' /\ \A c \in Clients \ mixed' : Fits(c)'
    BY <1>1, <2>2, FlowIdle DEF LimitsInv
  <2> QED
    BY <1>1, <2>1, <2>3 DEF LimitsInv
<1>2. CASE about = "traffic" /\ FlowNext /\ UNCHANGED <<about, connOnly>>
  <2>1. FlowInv'
    BY <1>2, FlowKept DEF LimitsInv, FlowInv
  <2>2. ConnInv'
    BY <1>2, <2>1, ConnIdle DEF LimitsInv, FlowInv, FlowTypeOK
  <2> QED
    BY <1>2, <2>1, <2>2 DEF LimitsInv, FlowInv, connOnly
<1>3. CASE UNCHANGED limitVars
  <2> USE <1>3 DEF limitVars, flowOnly, connOnly, runs, http
  <2>1. Inv'
    BY DEF LimitsInv, ConnInv, Inv, TypeOK, OwnerOK, BoundsOK, PayerOK, SameHost, Steady,
           CountOK, Charged, LetIn, Client
  <2>2. FreshOK' /\ SlotsOK'
    BY DEF LimitsInv, ConnInv, FreshOK, SlotsOK, Slacks, Slack, Client
  <2>3. FlowTypeOK' /\ Solo' /\ \A c \in Clients \ mixed' : Fits(c)'
    BY <2>1, FlowIdle DEF LimitsInv, Inv, TypeOK
  <2> QED
    BY <2>1, <2>2, <2>3 DEF LimitsInv, ConnInv
<1> QED
  BY <1>1, <1>2, <1>3 DEF LimitsNext

LEMMA LimitsInvariant == LimitsSpec => []LimitsInv
  BY LimitsInvInit, LimitsInvStep, PTL DEF LimitsSpec

\* Every behaviour keeps the visitors, the counters and the flows in their
\* sets; a handler never defers more AddConn calls than it took slots.
THEOREM LimitsTypeCorrect == LimitsSpec => []LimitsTypeOK
<1>1. LimitsInv => LimitsTypeOK
  BY DEF LimitsInv, ConnInv, Inv, LimitsTypeOK
<1> QED
  BY LimitsInvariant, <1>1, PTL

\* While no http visitor changes its host NowConn is the number of visitors let
\* in and not gone, whatever way each goes through its handler, for every
\* client that no edit disturbed under a visitor.
THEOREM NowConnCountsVisitors == LimitsSpec => []NowConnIsCount
<1>1. LimitsInv => NowConnIsCount
  BY DEF LimitsInv, ConnInv, Inv, NowConnIsCount, CountOK
<1> QED
  BY LimitsInvariant, <1>1, PTL

\* Whatever hosts the visitors went through, whenever the response readers
\* wrote isReset and whatever hosts were given away, no client but those an
\* edit disturbed is left with a slot that nobody gives back.
THEOREM NoSlotIsLost == LimitsSpec => []NoSlotLost
<1>1. LimitsInv => NoSlotLost
  <2> SUFFICES ASSUME LimitsInv, Quiet, NEW c \in Clients, c \notin disturbed
               PROVE  nowConn[c] <= 0
    BY DEF NoSlotLost
  <2> USE ConnAssumption DEF LimitsInv, ConnInv, Inv
  <2>1. \A v \in Visitors : Slacks(c)[v] = 1
    BY DEF Quiet, Slacks, Slack
  <2>2. Slacks(c) \in [Visitors -> 0 .. Resets + 3]
    BY DEF Quiet, Slacks, Slack
  <2>3. SumUp(Visitors, Resets + 3, Slacks(c)) = Cardinality(Visitors)
    BY <2>1, <2>2, SumOfOnes
  <2>4. nowConn[c] \in Int /\ Cardinality(Visitors) \in Nat
    BY FS_CardinalityType DEF TypeOK
  <2> QED
    BY <2>3, <2>4 DEF SlotsOK
<1> QED
  BY LimitsInvariant, <1>1, PTL

\* Whatever the hosts transfer while runs of dealClientData sum up, whatever
\* hosts are made, deleted or given away meanwhile and however many runs there
\* are: the flow of a client that no two runs work on at once is at most what
\* the hosts it ever had transferred.
THEOREM FlowIsNotOvercounted == LimitsSpec => []NeverOvercounted
<1>1. ASSUME LimitsInv, NEW c \in Clients \ mixed PROVE flow[c] <= Traffic(Ever(c))
  <2>1. flow[c] <= EverSum(c)
    BY <1>1 DEF LimitsInv, Fits
  <2>2. Tokens(Hosts, MaxUsed, EverOf(c)) =
          {u \in Ever(c) \X (1 .. MaxUsed) : u[2] <= used[u[1]]}
    <3>1. ASSUME NEW p \in Hosts, NEW n \in 1 .. MaxUsed
          PROVE  n <= EverOf(c)[p] <=> p \in Ever(c) /\ n <= used[p]
      BY <3>1, FlowAssumption DEF EverOf, Ever
    <3> QED
      BY <3>1 DEF Tokens, Ever
  <2> QED
    BY <2>1, <2>2 DEF EverSum, SumUp, Traffic
<1>2. LimitsInv => NeverOvercounted
  BY <1>1 DEF NeverOvercounted
<1> QED
  BY LimitsInvariant, <1>2, PTL
=============================================================================
