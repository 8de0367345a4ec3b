------------------------- MODULE BarrierSortProofs -------------------------
(***************************************************************************)
(* Theorems about BarrierSort, for any number of threads and integers: the *)
(* two halves of the barrier keep the rounds apart, and the process exits  *)
(* with the file sorted.                                                   *)
(***************************************************************************)
EXTENDS BarrierSort, FiniteSetTheorems, TLAPS

Labels == {"sort", "borders", "wait", "second", "wait2"}

\* The number of threads whose label is in L.
Num(L) == Cardinality({t \in Threads : pc[t] \in L})

Types == pc \in [Threads -> Labels] /\ counter \in Int /\ sem \in Int /\ sem2 \in Int

\* The first half is closed.  The threads that have not arrived are counted, and
\* those of them that have not left the second half have a token each.
Arriving ==
  /\ sem = 0
  /\ \A t \in Threads : pc[t] # "second"
  /\ counter = Num({"sort", "wait2"})
  /\ sem2 = Num({"wait2"})
  /\ \A t \in Threads : pc[t] = "borders" => \A u \in Threads \ {t} : pc[u] = "wait"

\* The first half is open: who waits there has a token, and nobody sorts until
\* all are back.
Releasing ==
  /\ \A t \in Threads : pc[t] \in {"wait", "second", "wait2"}
  /\ sem = Num({"wait"})
  /\ counter = Num({"wait2"})
  /\ sem2 = 0

Barrier == Types /\ (Arriving \/ Releasing)

-----------------------------------------------------------------------------
LEMMA ThreadsFinite == IsFiniteSet(Threads) /\ Cardinality(Threads) = NThreads
BY SortAssumption, FS_Interval DEF Threads

LEMMA NumType == \A L : Num(L) \in Nat
BY ThreadsFinite, FS_Subset, FS_CardinalityType DEF Num

\* A thread that goes on is counted at its new label and no longer at its old one.
LEMMA NumMoves ==
  ASSUME NEW L, NEW t \in Threads, NEW label,
         pc \in [Threads -> Labels], Goto(t, label)
  PROVE  Num(L)' = Num(L) + (IF label \in L THEN 1 ELSE 0) - (IF pc[t] \in L THEN 1 ELSE 0)
<1> DEFINE S == {u \in Threads : pc[u] \in L}
           T == {u \in Threads : pc'[u] \in L}
<1>1. IsFiniteSet(S) /\ Cardinality(S) \in Nat
  BY ThreadsFinite, FS_Subset, FS_CardinalityType
<1>2. /\ Cardinality(S \cup {t}) = IF t \in S THEN Cardinality(S) ELSE Cardinality(S) + 1
      /\ Cardinality(S \ {t}) = IF t \in S THEN Cardinality(S) - 1 ELSE Cardinality(S)
  BY <1>1, FS_AddElement, FS_RemoveElement
<1>3. T = IF label \in L THEN S \cup {t} ELSE S \ {t}
  BY DEF Goto
<1>4. t \in S <=> pc[t] \in L
  OBVIOUS
<1>5. Num(L) = Cardinality(S) /\ Num(L)' = Cardinality(T)
  BY DEF Num
<1> HIDE DEF S, T
<1>6. QED
  BY <1>1, <1>2, <1>3, <1>4, <1>5

LEMMA NumStays ==
  ASSUME NEW L, NEW t \in Threads, NEW label,
         pc \in [Threads -> Labels], Goto(t, label), label \in L <=> pc[t] \in L
  PROVE  Num(L)' = Num(L)
BY NumMoves, NumType

LEMMA NumEnters ==
  ASSUME NEW L, NEW t \in Threads, NEW label,
         pc \in [Threads -> Labels], Goto(t, label), label \in L, pc[t] \notin L
  PROVE  Num(L)' = Num(L) + 1
BY NumMoves, NumType

LEMMA NoneCounted ==
  ASSUME NEW S \in SUBSET Threads
  PROVE  Cardinality(S) = 0 <=> S = {}
BY ThreadsFinite, FS_Subset, FS_EmptySet

LEMMA AllCounted ==
  ASSUME NEW S \in SUBSET Threads
  PROVE  Cardinality(S) = NThreads <=> S = Threads
BY ThreadsFinite, FS_Subset

LEMMA NumOne ==
  ASSUME NEW L, NEW t \in Threads, pc[t] \in L, Num(L) = 1
  PROVE  \A u \in Threads \ {t} : pc[u] \notin L
<1> DEFINE S == {u \in Threads : pc[u] \in L}
<1>1. IsFiniteSet(S)
  BY ThreadsFinite, FS_Subset
<1>2. PICK x : S = {x}
  BY <1>1, FS_Singleton DEF Num
<1>3. QED
  BY <1>2

LEMMA InitBarrier == Init => Barrier
<1> SUFFICES ASSUME Init PROVE Barrier
  OBVIOUS
<1>1. Num({"sort", "wait2"}) = NThreads /\ Num({"wait2"}) = 0
  <2>1. /\ {t \in Threads : pc[t] \in {"sort", "wait2"}} = Threads
        /\ {t \in Threads : pc[t] \in {"wait2"}} = {}
    BY DEF Init
  <2>2. QED
    BY <2>1, NoneCounted, AllCounted DEF Num
<1>2. QED
  BY <1>1, SortAssumption DEF Init, Barrier, Types, Labels, Arriving

-----------------------------------------------------------------------------
LEMMA NextBarrier == Barrier /\ [Next]_vars => Barrier'
<1> SUFFICES ASSUME Barrier, [Next]_vars PROVE Barrier'
  OBVIOUS
<1> USE SortAssumption
<1>1. ASSUME NEW t \in Threads, Arrive(t) PROVE Barrier'
  <2>1. Arriving /\ pc[t] = "sort" /\ pc \in [Threads -> Labels] /\ counter' = counter - 1
    BY <1>1 DEF Arrive, Barrier, Releasing, Types
  <2>2. CASE counter' = 0
    <3>1. Goto(t, "borders") /\ UNCHANGED <<sem, sem2>>
      BY <1>1, <2>2 DEF Arrive, AllArrived
    <3>2. /\ Num({"sort", "wait2"})' = Num({"sort", "wait2"}) - 1
          /\ Num({"wait2"})' = Num({"wait2"})
      <4>1. Num({"sort", "wait2"})' = Num({"sort", "wait2"}) - 1
        BY <2>1, <3>1, NumMoves, NumType
      <4>2. Num({"wait2"})' = Num({"wait2"})
        BY <2>1, <3>1, NumStays
      <4>3. QED
        BY <4>1, <4>2
    <3>3. Num({"sort", "wait2"}) = 1
      BY <2>1, <2>2, NumType DEF Arriving
    <3>4. \A u \in Threads \ {t} : pc[u] \notin {"sort", "wait2"}
      BY <2>1, <3>3, NumOne
    <3>5. \A u \in Threads \ {t} : pc[u] = "wait"
      BY <2>1, <3>4 DEF Arriving, Labels
    <3>6. QED
      BY <2>1, <3>1, <3>2, <3>5, NumType DEF Barrier, Arriving, Types, Labels, Goto
  <2>3. CASE counter' # 0
    <3>1. Goto(t, "wait") /\ UNCHANGED <<sem, sem2>>
      BY <1>1, <2>3 DEF Arrive, AllArrived
    <3>2. /\ Num({"sort", "wait2"})' = Num({"sort", "wait2"}) - 1
          /\ Num({"wait2"})' = Num({"wait2"})
      <4>1. Num({"sort", "wait2"})' = Num({"sort", "wait2"}) - 1
        BY <2>1, <3>1, NumMoves, NumType
      <4>2. Num({"wait2"})' = Num({"wait2"})
        BY <2>1, <3>1, NumStays
      <4>3. QED
        BY <4>1, <4>2
    <3>3. QED
      BY <2>1, <3>1, <3>2, NumType DEF Barrier, Arriving, Types, Labels, Goto
  <2>4. QED
    BY <2>2, <2>3
<1>2. ASSUME NEW t \in Threads, Release(t) PROVE Barrier'
  <2>1. Arriving /\ pc[t] = "borders" /\ \A u \in Threads \ {t} : pc[u] = "wait"
    BY <1>2 DEF Release, Barrier, Arriving, Releasing
  <2>2. Goto(t, "wait") /\ pc \in [Threads -> Labels] /\ sem' = sem + NThreads
    BY <1>2 DEF Release, Tickets, Barrier, Types
  <2>3. \A u \in Threads : pc'[u] = "wait"
    BY <2>1, <2>2 DEF Goto
  <2>4. Num({"wait"})' = NThreads
    <3>1. {u \in Threads : pc'[u] \in {"wait"}} = Threads
      BY <2>3
    <3>2. QED
      BY <3>1, AllCounted DEF Num
  <2>5. Num({"wait2"})' = 0 /\ Num({"sort", "wait2"}) = 0 /\ Num({"wait2"}) = 0
    <3>1. /\ {u \in Threads : pc'[u] \in {"wait2"}} = {}
          /\ {u \in Threads : pc[u] \in {"sort", "wait2"}} = {}
          /\ {u \in Threads : pc[u] \in {"wait2"}} = {}
      BY <2>1, <2>3
    <3>2. QED
      BY <3>1, NoneCounted DEF Num
  <2>6. QED
    BY <1>2, <2>1, <2>2, <2>3, <2>4, <2>5 DEF Release, Barrier, Arriving, Releasing, Types, Labels, Goto
<1>3. ASSUME NEW t \in Threads, PassFirst(t) PROVE Barrier'
  <2>1. Releasing /\ pc[t] = "wait" /\ Goto(t, "second") /\ pc \in [Threads -> Labels]
    BY <1>3 DEF PassFirst, Barrier, Arriving, Types
  <2>2. Num({"wait"})' = Num({"wait"}) - 1 /\ Num({"wait2"})' = Num({"wait2"})
    BY <2>1, NumMoves, NumType
  <2>3. QED
    BY <1>3, <2>1, <2>2, NumType DEF PassFirst, Barrier, Releasing, Types, Labels, Goto
<1>4. ASSUME NEW t \in Threads, CountBack(t) PROVE Barrier'
  <2>1. Releasing /\ pc[t] = "second" /\ Goto(t, "wait2") /\ pc \in [Threads -> Labels]
    BY <1>4 DEF CountBack, Barrier, Arriving, Types
  <2>2. Num({"wait"})' = Num({"wait"}) /\ Num({"wait2"})' = Num({"wait2"}) + 1
    <3>1. Num({"wait"})' = Num({"wait"})
      BY <2>1, NumStays
    <3>2. Num({"wait2"})' = Num({"wait2"}) + 1
      BY <2>1, NumEnters
    <3>3. QED
      BY <3>1, <3>2
  <2>3. counter' = Num({"wait2"})' /\ sem' = sem
    BY <1>4, <2>1, <2>2 DEF CountBack, Releasing
  <2>4. CASE counter' = NThreads
    <3>1. \A u \in Threads : pc'[u] = "wait2"
      <4>1. {u \in Threads : pc'[u] \in {"wait2"}} = Threads
        BY <2>3, <2>4, AllCounted DEF Num
      <4>2. QED
        BY <4>1
    <3>2. Num({"wait"})' = 0 /\ Num({"sort", "wait2"})' = NThreads
      <4>1. /\ {u \in Threads : pc'[u] \in {"wait"}} = {}
            /\ {u \in Threads : pc'[u] \in {"sort", "wait2"}} = Threads
        BY <3>1
      <4>2. QED
        BY <4>1, NoneCounted, AllCounted DEF Num
    <3>3. sem2' = NThreads
      BY <1>4, <2>1, <2>4 DEF CountBack, AllBack, Tickets, Releasing
    <3>4. sem = 0
      BY <2>1, <2>2, <3>2 DEF Releasing
    <3>5. QED
      BY <2>1, <2>3, <2>4, <3>1, <3>2, <3>3, <3>4 DEF Barrier, Arriving, Types, Labels, Goto
  <2>5. CASE counter' # NThreads
    BY <1>4, <2>1, <2>2, <2>3, <2>5, NumType
       DEF CountBack, AllBack, Barrier, Releasing, Types, Labels, Goto
  <2>6. QED
    BY <2>4, <2>5
<1>5. ASSUME NEW t \in Threads, PassSecond(t) PROVE Barrier'
  <2>1. Arriving /\ pc[t] = "wait2" /\ Goto(t, "sort") /\ pc \in [Threads -> Labels]
    BY <1>5 DEF PassSecond, Barrier, Releasing, Types
  <2>2. /\ Num({"sort", "wait2"})' = Num({"sort", "wait2"})
        /\ Num({"wait2"})' = Num({"wait2"}) - 1
    BY <2>1, NumMoves, NumType
  <2>3. QED
    BY <1>5, <2>1, <2>2, NumType DEF PassSecond, Barrier, Arriving, Types, Labels, Goto
<1>6. CASE UNCHANGED <<pc, counter, sem, sem2>>
  BY <1>6 DEF Barrier, Types, Arriving, Releasing, Num
<1>7. QED
  BY <1>1, <1>2, <1>3, <1>4, <1>5, <1>6
     DEF Next, Step, SortStep, CheckBorder, Exit, Ended, vars

LEMMA BarrierHolds == Spec => []Barrier
BY InitBarrier, NextBarrier, PTL DEF Spec

\* While a thread looks at the borders every other one waits at a closed barrier.
THEOREM BordersTouchedAlone == Spec => []BordersAlone
<1>1. Barrier => BordersAlone
  BY DEF Barrier, Arriving, Releasing, BordersAlone
<1>2. QED
  BY <1>1, BarrierHolds, PTL

\* No thread sorts while one has not left the first half of the barrier.
THEOREM RoundsKeptApart == Spec => []NoOvertaking
<1>1. Barrier => NoOvertaking
  BY DEF Barrier, Arriving, Releasing, NoOvertaking
<1>2. QED
  BY <1>1, BarrierHolds, PTL

-----------------------------------------------------------------------------
(* The regions                                                             *)

LEMMA Monotone ==
  ASSUME NEW a \in Nat, NEW b \in Nat, NEW r \in Nat, a <= b
  PROVE  a * r <= b * r
BY SMT

LEMMA Lengths == RegionLength \in Nat \ {0} /\ NThreads * RegionLength <= N
BY SortAssumption DEF RegionLength

LEMMA RegionBounds ==
  ASSUME NEW t \in Threads
  PROVE  /\ Left(t) \in Nat /\ Right(t) \in Nat
         /\ Left(t) <= Right(t) /\ Right(t) < N
<1> DEFINE r == RegionLength
<1>1. t \in Nat /\ t + 1 <= NThreads /\ r \in Nat \ {0} /\ NThreads * r <= N
  BY SortAssumption, Lengths DEF Threads
<1>2. (t + 1) * r <= NThreads * r
  BY <1>1, Monotone, SortAssumption
<1>3. (t + 1) * r = t * r + r /\ t * r \in Nat
  BY <1>1
<1> HIDE DEF r
<1>4. Left(t) = t * r /\ Right(t) = IF t = NThreads - 1 THEN N - 1 ELSE (t + 1) * r - 1
  BY DEF Left, Right, r
<1>5. QED
  BY <1>1, <1>2, <1>3, <1>4, SortAssumption

LEMMA RegionsInOrder ==
  ASSUME NEW t \in Threads, NEW u \in Threads, t < u
  PROVE  Right(t) < Left(u)
<1> DEFINE r == RegionLength
<1>1. t \in Nat /\ u \in Nat /\ t + 1 <= u /\ t # NThreads - 1 /\ r \in Nat
  BY SortAssumption, Lengths DEF Threads
<1>2. (t + 1) * r <= u * r /\ (t + 1) * r \in Nat /\ u * r \in Nat
  BY <1>1, Monotone
<1> HIDE DEF r
<1>3. Left(u) = u * r /\ Right(t) = (t + 1) * r - 1
  BY <1>1 DEF Left, Right, r
<1>4. QED
  BY <1>2, <1>3

LEMMA RegionsApart ==
  ASSUME NEW t \in Threads, NEW u \in Threads, t # u,
         NEW i \in Left(t) .. Right(t)
  PROVE  i \notin Left(u) .. Right(u)
<1>1. t < u \/ u < t
  BY DEF Threads
<1>2. QED
  BY <1>1, RegionsInOrder, RegionBounds

LEMMA RegionsCover ==
  ASSUME NEW i \in Index
  PROVE  \E t \in Threads : i \in Left(t) .. Right(t)
<1> DEFINE r == RegionLength
           q == i \div r
<1>1. i \in Nat /\ i < N /\ r \in Nat \ {0} /\ NThreads \in Nat \ {0}
  BY SortAssumption, Lengths DEF Index
<1>2. q \in Nat /\ q * r <= i /\ i < (q + 1) * r
  BY <1>1
<1>3. CASE q < NThreads - 1
  <2>1. q \in Threads /\ Left(q) = q * r /\ Right(q) = (q + 1) * r - 1
    BY <1>1, <1>2, <1>3 DEF Threads, Left, Right
  <2>2. QED
    BY <1>1, <1>2, <2>1
<1>4. CASE NThreads - 1 <= q
  <2> DEFINE t == NThreads - 1
  <2>1. t \in Nat /\ t \in Threads /\ Left(t) = t * r /\ Right(t) = N - 1
    BY <1>1 DEF Threads, Left, Right
  <2>2. t * r <= q * r /\ t * r \in Nat /\ q * r \in Nat
    BY <1>1, <1>2, <1>4, <2>1, Monotone
  <2>3. t * r <= i
    BY <1>1, <1>2, <2>2
  <2> HIDE DEF t, r
  <2>4. i \in t * r .. N - 1
    BY <1>1, <2>2, <2>3, SortAssumption
  <2>5. QED
    BY <2>1, <2>4, Zenon
<1>5. QED
  BY <1>1, <1>2, <1>3, <1>4

-----------------------------------------------------------------------------
(* The insertion                                                           *)

SortedBetween(f, l, c) == \A i, j \in l .. c : i <= j => f[i] <= f[j]

\* p is where the inner loop stops.
Place(f, l, c, p) ==
  /\ \A i \in p .. c - 1 : f[i] > f[c]
  /\ p = l \/ f[p - 1] <= f[c]

\* There is such a place: as far from c as there are larger elements before it.
LEMMA PlaceExists ==
  ASSUME NEW l \in Nat, NEW c \in Nat, l <= c,
         NEW f, \A i \in l .. c : f[i] \in Int, SortedBetween(f, l, c - 1)
  PROVE  \E p \in l .. c : Place(f, l, c, p)
<1> DEFINE S == {i \in l .. c - 1 : f[i] > f[c]}
           k == Cardinality(S)
           p == c - k
<1>1. \A x \in S : x .. c - 1 \subseteq S
  BY DEF SortedBetween
<1>2. S \subseteq l .. c - 1
  OBVIOUS
<1>3. \A i \in l .. c - 1 : i \in S <=> f[i] > f[c]
  OBVIOUS
<1> HIDE DEF S
<1>4. IsFiniteSet(S) /\ k \in Nat /\ k <= c - l
  <2>1. IsFiniteSet(l .. c - 1) /\ Cardinality(l .. c - 1) = c - l
    BY FS_Interval
  <2>2. QED
    BY <1>2, <2>1, FS_Subset, FS_CardinalityType
<1>5. k = 0 => S = {}
  BY <1>4, FS_EmptySet
<1> HIDE DEF k
<1>6. p \in l .. c
  BY <1>4
<1>7. ASSUME NEW a \in Nat, S \subseteq a .. c - 1, a <= c PROVE k <= c - a
  <2>1. IsFiniteSet(a .. c - 1) /\ Cardinality(a .. c - 1) = c - a
    <3>1. a <= c /\ a \in Int /\ c - 1 \in Int
      BY <1>7
    <3>2. QED
      BY <3>1, FS_Interval
  <2>2. QED
    BY <1>7, <2>1, FS_Subset DEF k
<1>8. ASSUME NEW a \in Nat, a .. c - 1 \subseteq S, a <= c PROVE c - a <= k
  <2>1. IsFiniteSet(a .. c - 1) /\ Cardinality(a .. c - 1) = c - a
    <3>1. a <= c /\ a \in Int /\ c - 1 \in Int
      BY <1>8
    <3>2. QED
      BY <3>1, FS_Interval
  <2>2. QED
    BY <1>4, <1>8, <2>1, FS_Subset DEF k
<1>9. k # 0 => p \in S
  <2> SUFFICES ASSUME k # 0, p \notin S PROVE FALSE
    OBVIOUS
  <2>1. p + 1 <= c /\ p + 1 \in Nat
    BY <1>4, <1>6
  <2>2. ASSUME NEW x \in S PROVE x \in p + 1 .. c - 1
    <3>1. x \in l .. c - 1 /\ x .. c - 1 \subseteq S
      BY <1>1, <1>2
    <3>2. QED
      BY <1>6, <2>1, <3>1
  <2>3. k <= c - (p + 1)
    BY <1>7, <2>1, <2>2
  <2>4. QED
    BY <1>4, <2>3
<1>10. p .. c - 1 \subseteq S
  BY <1>1, <1>4, <1>9
<1>11. p # l => p - 1 \notin S
  <2> SUFFICES ASSUME p # l, p - 1 \in S PROVE FALSE
    OBVIOUS
  <2>1. p - 1 .. c - 1 \subseteq S /\ p - 1 \in Nat /\ p - 1 <= c
    BY <1>1, <1>6
  <2>2. c - (p - 1) <= k
    BY <1>8, <2>1
  <2>3. QED
    BY <1>4, <2>2
<1> HIDE DEF p
<1>12. p # l => f[p - 1] <= f[c]
  BY <1>3, <1>6, <1>11
<1>13. QED
  BY <1>3, <1>6, <1>10, <1>12 DEF Place

\* The insertion sorts one element more and changes nothing outside.
LEMMA InsertSorts ==
  ASSUME NEW l \in Nat, NEW c \in Index, l <= c,
         NEW f \in [Index -> Values], SortedBetween(f, l, c - 1)
  PROVE  /\ Insert(f, l, c) \in [Index -> Values]
         /\ SortedBetween(Insert(f, l, c), l, c)
         /\ \A i \in Index : i \notin l .. c => Insert(f, l, c)[i] = f[i]
<1> DEFINE p == CHOOSE p \in l .. c : Place(f, l, c, p)
           g == [i \in DOMAIN f |-> IF i = p THEN f[c]
                                    ELSE IF i \in p + 1 .. c THEN f[i - 1] ELSE f[i]]
<1>1. Insert(f, l, c) = g
  BY DEF Insert, Place
<1>2. c \in Nat /\ l .. c \subseteq Index /\ \A i \in Index : f[i] \in Int
  <2>1. \A i \in Index : f[i] \in Int
    BY SortAssumption
  <2>2. QED
    BY <2>1, SortAssumption DEF Index
<1>3. p \in l .. c /\ Place(f, l, c, p)
  BY <1>2, PlaceExists
<1> HIDE DEF p
<1>4. g \in [Index -> Values]
  BY <1>2, <1>3
<1>5. \A i \in Index : i \notin l .. c => g[i] = f[i]
  BY <1>2, <1>3
<1>6. SortedBetween(g, l, c)
  <2> SUFFICES ASSUME NEW i \in l .. c, NEW j \in l .. c, i <= j PROVE g[i] <= g[j]
    BY DEF SortedBetween
  <2>1. \A m \in l .. c : g[m] = IF m = p THEN f[c] ELSE IF m > p THEN f[m - 1] ELSE f[m]
    BY <1>2, <1>3
  <2>2. \A m \in p .. c - 1 : f[m] > f[c]
    BY <1>3 DEF Place
  <2>3. \A m \in l .. p - 1 : f[m] <= f[c]
    BY <1>2, <1>3 DEF Place, SortedBetween
  <2>4. \A m, n \in l .. c - 1 : m <= n => f[m] <= f[n]
    BY DEF SortedBetween
  <2> HIDE DEF g
  <2>5. QED
    BY <1>2, <1>3, <2>1, <2>2, <2>3, <2>4
<1>7. QED
  BY <1>1, <1>4, <1>5, <1>6

-----------------------------------------------------------------------------
(* The data under the barrier                                              *)

\* A thread at the borders has swapped something.
Disturbed == swapped /\ \E t \in Threads : pc[t] = "borders"

\* Thread t has sorted its region, and nothing has touched it since.
Settled(t) ==
  /\ pc[t] = "borders" \/ (pc[t] = "wait" /\ sem = 0)
  /\ ~Disturbed

DataTypes ==
  /\ data \in [Index -> Values]
  /\ cur \in [Threads -> Nat]
  /\ \A t \in Threads : Left(t) <= cur[t] /\ cur[t] <= Right(t) + 1
  /\ border \in 1 .. NThreads
  /\ swapped \in BOOLEAN

SortedSoFar == \A t \in Threads : pc[t] = "sort" => SortedBetween(data, Left(t), cur[t] - 1)

RegionsSorted == \A t \in Threads : Settled(t) => SortedBetween(data, Left(t), Right(t))

\* While nothing was swapped, the borders looked at so far are in order.
BordersSorted ==
  (\E t \in Threads : pc[t] = "borders") /\ ~swapped =>
    \A j \in 1 .. border - 1 : data[j * RegionLength - 1] <= data[j * RegionLength]

DataInv ==
  /\ DataTypes /\ SortedSoFar /\ RegionsSorted /\ BordersSorted
  /\ exited => Sorted(data)

\* What the barrier means for the data: nobody sorts while another is at the
\* borders, and after the barrier has opened who waits has a token.
Guards ==
  /\ \A t, u \in Threads : pc[t] = "borders" /\ t # u => pc[u] = "wait"
  /\ \A t \in Threads : pc[t] = "borders" => sem = 0
  /\ \A t, u \in Threads : pc[t] = "second" /\ pc[u] = "wait" => sem # 0

LEMMA BarrierGuards == Barrier => Guards
<1>1. Releasing /\ sem = 0 => \A t \in Threads : pc[t] # "wait"
  <2>1. Cardinality({t \in Threads : pc[t] \in {"wait"}}) = 0
           => {t \in Threads : pc[t] \in {"wait"}} = {}
    BY NoneCounted
  <2>2. QED
    BY <2>1 DEF Releasing, Num
<1>2. QED
  BY <1>1 DEF Barrier, Arriving, Releasing, Guards

LEMMA SortedEmpty ==
  ASSUME NEW f, NEW l \in Nat
  PROVE  SortedBetween(f, l, l - 1)
BY DEF SortedBetween

\* A border, and the position before it, are inside of the file.
LEMMA BorderIndex ==
  ASSUME NEW j \in 1 .. NThreads - 1
  PROVE  /\ j * RegionLength \in Index /\ j * RegionLength - 1 \in Index
         /\ j \in Threads /\ Left(j) = j * RegionLength
<1>1. j \in Threads /\ Left(j) = j * RegionLength
  BY SortAssumption DEF Threads, Left
<1>2. 1 * RegionLength <= j * RegionLength /\ RegionLength \in Nat \ {0}
  BY Monotone, Lengths, SortAssumption
<1>3. QED
  BY <1>1, <1>2, RegionBounds, SortAssumption DEF Index

\* Sorted regions with their borders in order are a sorted file.
LEMMA SortedTogether ==
  ASSUME \A t \in Threads : SortedBetween(data, Left(t), Right(t)),
         \A j \in 1 .. NThreads - 1 : data[j * RegionLength - 1] <= data[j * RegionLength]
  PROVE  Sorted(data)
<1> SUFFICES ASSUME NEW i \in 1 .. N - 1 PROVE data[i - 1] <= data[i]
  BY DEF Sorted
<1>1. PICK t \in Threads : i \in Left(t) .. Right(t)
  BY RegionsCover, SortAssumption DEF Index
<1>2. CASE i = Left(t)
  <2>1. t # 0
    BY <1>2, Lengths DEF Left
  <2>2. t \in 1 .. NThreads - 1
    BY <2>1, SortAssumption DEF Threads
  <2>3. QED
    BY <1>2, <2>2 DEF Left
<1>3. CASE i # Left(t)
  BY <1>1, <1>3, RegionBounds DEF SortedBetween
<1>4. QED
  BY <1>2, <1>3

LEMMA InitData == Init => DataInv
<1> SUFFICES ASSUME Init PROVE DataInv
  OBVIOUS
<1>1. \A t \in Threads : Left(t) \in Nat /\ Left(t) <= Right(t) + 1
  BY RegionBounds
<1>2. DataTypes
  <2>1. border \in 1 .. NThreads
    BY SortAssumption DEF Init
  <2>2. /\ cur \in [Threads -> Nat]
        /\ \A t \in Threads : Left(t) <= cur[t] /\ cur[t] <= Right(t) + 1
    BY <1>1 DEF Init
  <2>3. QED
    BY <2>1, <2>2 DEF Init, DataTypes
<1>3. SortedSoFar
  BY <1>1, SortedEmpty DEF Init, SortedSoFar
<1>4. QED
  BY <1>2, <1>3 DEF Init, DataInv, RegionsSorted, Settled, BordersSorted

LEMMA NextData == Barrier /\ Barrier' /\ DataInv /\ [Next]_vars => DataInv'
<1> SUFFICES ASSUME Barrier, Barrier', DataInv, [Next]_vars PROVE DataInv'
  OBVIOUS
<1> USE SortAssumption
<1>a. /\ DataTypes /\ SortedSoFar /\ RegionsSorted /\ BordersSorted
      /\ pc \in [Threads -> Labels]
  BY DEF DataInv, Barrier, Types
<1>b. Guards /\ Guards'
  BY BarrierGuards, PTL
<1>1. ASSUME NEW t \in Threads, SortStep(t) PROVE DataInv'
  <2>1. /\ pc[t] = "sort" /\ cur[t] <= Right(t) /\ ~exited
        /\ data' = Insert(data, Left(t), cur[t])
        /\ cur' = [cur EXCEPT ![t] = @ + 1]
        /\ UNCHANGED <<pc, border, swapped, sem, exited>>
    BY <1>1 DEF SortStep
  <2>2. /\ Left(t) \in Nat /\ Left(t) <= cur[t] /\ cur[t] \in Index
        /\ SortedBetween(data, Left(t), cur[t] - 1)
    BY <1>a, <2>1, RegionBounds DEF DataTypes, SortedSoFar, Index
  <2>3. /\ data' \in [Index -> Values]
        /\ SortedBetween(data', Left(t), cur[t])
        /\ \A i \in Index : i \notin Left(t) .. cur[t] => data'[i] = data[i]
    BY <1>a, <2>1, <2>2, InsertSorts DEF DataTypes
  <2>4. ASSUME NEW u \in Threads, u # t, NEW c \in Int, c <= Right(u),
               SortedBetween(data, Left(u), c)
        PROVE  SortedBetween(data', Left(u), c)
    <3>1. \A i \in Left(u) .. c : i \in Index /\ i \notin Left(t) .. cur[t]
      BY <2>1, <2>2, <2>4, RegionBounds, RegionsApart DEF Index
    <3>2. QED
      BY <2>3, <2>4, <3>1 DEF SortedBetween
  <2>5. DataTypes'
    BY <1>a, <2>1, <2>3, RegionBounds DEF DataTypes
  <2>6. SortedSoFar'
    <3> SUFFICES ASSUME NEW u \in Threads, pc[u] = "sort"
                 PROVE  SortedBetween(data', Left(u), cur'[u] - 1)
      BY <2>1 DEF SortedSoFar
    <3>1. CASE u = t
      BY <1>a, <2>1, <2>3, <3>1 DEF DataTypes
    <3>2. CASE u # t
      <4>1. /\ cur'[u] = cur[u] /\ cur[u] - 1 \in Int /\ cur[u] - 1 <= Right(u)
            /\ SortedBetween(data, Left(u), cur[u] - 1)
        BY <1>a, <2>1, <3>2, RegionBounds DEF DataTypes, SortedSoFar
      <4>2. QED
        BY <2>4, <3>2, <4>1
    <3>3. QED
      BY <3>1, <3>2
  <2>7. RegionsSorted'
    <3> SUFFICES ASSUME NEW u \in Threads, Settled(u)
                 PROVE  SortedBetween(data', Left(u), Right(u))
      BY <2>1 DEF RegionsSorted, Settled, Disturbed
    <3>1. u # t /\ SortedBetween(data, Left(u), Right(u)) /\ Right(u) \in Int
      BY <1>a, <2>1, RegionBounds DEF RegionsSorted, Settled
    <3>2. QED
      BY <2>4, <3>1
  <2>8. BordersSorted'
    BY <2>1, <1>b DEF Guards, BordersSorted
  <2>9. QED
    BY <2>1, <2>5, <2>6, <2>7, <2>8 DEF DataInv
<1>2. ASSUME NEW t \in Threads, Arrive(t) PROVE DataInv'
  <2>1. /\ pc[t] = "sort" /\ cur[t] > Right(t) /\ ~exited
        /\ \/ Goto(t, "borders") /\ border' = 1 /\ swapped' = FALSE
           \/ Goto(t, "wait") /\ UNCHANGED <<border, swapped>>
        /\ UNCHANGED <<data, cur, sem, exited>>
    BY <1>2 DEF Arrive
  <2>2. SortedBetween(data, Left(t), Right(t))
    <3>1. cur[t] - 1 = Right(t)
      BY <1>a, <2>1, RegionBounds DEF DataTypes
    <3>2. QED
      BY <1>a, <2>1, <3>1 DEF SortedSoFar
  <2>3. ~\E u \in Threads : pc[u] = "borders"
    BY <2>1, <1>b DEF Guards
  <2>4. DataTypes'
    <3>1. border' \in 1 .. NThreads /\ swapped' \in BOOLEAN
      <4>1. 1 \in 1 .. NThreads /\ border \in 1 .. NThreads /\ swapped \in BOOLEAN
        BY <1>a DEF DataTypes
      <4>2. QED
        BY <2>1, <4>1
    <3>2. QED
      BY <1>a, <2>1, <3>1 DEF DataTypes
  <2>5. SortedSoFar'
    BY <1>a, <2>1 DEF SortedSoFar, Goto
  <2>6. RegionsSorted'
    <3> SUFFICES ASSUME NEW u \in Threads, Settled(u)'
                 PROVE  SortedBetween(data, Left(u), Right(u))
      BY <2>1 DEF RegionsSorted
    <3>1. CASE u = t
      BY <2>2, <3>1
    <3>2. CASE u # t
      <4>1. Settled(u)
        BY <1>a, <2>1, <2>3, <3>2 DEF Settled, Disturbed, Goto
      <4>2. QED
        BY <1>a, <4>1 DEF RegionsSorted
    <3>3. QED
      BY <3>1, <3>2
  <2>7. BordersSorted'
    <3>1. CASE Goto(t, "borders") /\ border' = 1
      BY <3>1 DEF BordersSorted
    <3>2. CASE Goto(t, "wait")
      BY <1>a, <2>3, <3>2 DEF BordersSorted, Goto
    <3>3. QED
      BY <2>1, <3>1, <3>2
  <2>8. QED
    BY <2>1, <2>4, <2>5, <2>6, <2>7 DEF DataInv
<1>3. ASSUME NEW t \in Threads, CheckBorder(t) PROVE DataInv'
  <2> DEFINE i == border * RegionLength
  <2>1. /\ pc[t] = "borders" /\ border < NThreads /\ ~exited
        /\ border' = border + 1
        /\ UNCHANGED <<pc, cur, sem, exited>>
        /\ \/ data' = Swap(data, i - 1, i) /\ swapped' = TRUE
           \/ data[i - 1] <= data[i] /\ UNCHANGED <<data, swapped>>
    <3>1. border \in 1 .. NThreads - 1
      BY <1>3, <1>a DEF CheckBorder, DataTypes
    <3>2. data[i - 1] \in Int /\ data[i] \in Int
      BY <1>a, <3>1, BorderIndex DEF DataTypes
    <3>3. QED
      BY <1>3, <3>2 DEF CheckBorder, OutOfOrder
  <2>2. border \in 1 .. NThreads - 1 /\ i \in Index /\ i - 1 \in Index
    BY <1>a, <2>1, BorderIndex DEF DataTypes
  <2> HIDE DEF i
  <2>3. \A u \in Threads : pc[u] # "sort"
    BY <2>1, <1>b DEF Guards
  <2>4. SortedSoFar'
    BY <2>1, <2>3 DEF SortedSoFar
  <2>5. CASE data' = Swap(data, i - 1, i) /\ swapped' = TRUE
    <3>1. DataTypes'
      BY <1>a, <2>1, <2>2, <2>5 DEF DataTypes, Swap
    <3>2. RegionsSorted' /\ BordersSorted'
      BY <2>1, <2>5 DEF RegionsSorted, Settled, Disturbed, BordersSorted
    <3>3. QED
      BY <2>1, <2>4, <3>1, <3>2 DEF DataInv
  <2>6. CASE data[i - 1] <= data[i] /\ UNCHANGED <<data, swapped>>
    <3>1. DataTypes'
      BY <1>a, <2>1, <2>2, <2>6 DEF DataTypes
    <3>2. RegionsSorted'
      BY <1>a, <2>1, <2>6 DEF RegionsSorted, Settled, Disturbed
    <3>3. BordersSorted'
      <4> SUFFICES ASSUME ~swapped, NEW j \in 1 .. border
                   PROVE  data[j * RegionLength - 1] <= data[j * RegionLength]
        BY <1>a, <2>1, <2>2, <2>6 DEF BordersSorted
      <4>1. CASE j = border
        BY <2>6, <4>1 DEF i
      <4>2. CASE j # border
        <5>1. j \in 1 .. border - 1
          BY <2>2, <4>2
        <5>2. QED
          BY <1>a, <2>1, <5>1 DEF BordersSorted
      <4>3. QED
        BY <4>1, <4>2
    <3>4. QED
      BY <2>1, <2>4, <3>1, <3>2, <3>3 DEF DataInv
  <2>7. QED
    BY <2>1, <2>5, <2>6
<1>4. ASSUME NEW t \in Threads, Release(t) PROVE DataInv'
  <2>1. /\ pc[t] = "borders" /\ ~exited /\ Goto(t, "wait")
        /\ sem' = sem + NThreads
        /\ UNCHANGED <<data, cur, border, swapped, exited>>
    BY <1>4 DEF Release, Tickets
  <2>2. sem' # 0 /\ \A u \in Threads : pc'[u] = "wait"
    BY <1>a, <2>1, <1>b DEF Guards, Goto
  <2>3. DataTypes'
    BY <1>a, <2>1 DEF DataTypes
  <2>4. SortedSoFar' /\ RegionsSorted' /\ BordersSorted'
    BY <2>2 DEF SortedSoFar, RegionsSorted, Settled, BordersSorted
  <2>5. QED
    BY <2>1, <2>3, <2>4 DEF DataInv
<1>5. ASSUME NEW t \in Threads, Exit(t) PROVE DataInv'
  <2>1. /\ pc[t] = "borders" /\ border = NThreads /\ ~swapped
        /\ UNCHANGED <<data, pc, cur, border, swapped, sem>>
    BY <1>5 DEF Exit
  <2>2. \A u \in Threads : Settled(u)
    BY <2>1, <1>b DEF Guards, Settled, Disturbed
  <2>3. Sorted(data)
    <3>1. \A u \in Threads : SortedBetween(data, Left(u), Right(u))
      BY <1>a, <2>2 DEF RegionsSorted
    <3>2. \A j \in 1 .. NThreads - 1 : data[j * RegionLength - 1] <= data[j * RegionLength]
      BY <1>a, <2>1 DEF BordersSorted
    <3>3. QED
      BY <3>1, <3>2, SortedTogether
  <2>4. Sorted(data)'
    BY <2>1, <2>3 DEF Sorted
  <2>5. DataTypes' /\ SortedSoFar' /\ RegionsSorted' /\ BordersSorted'
    BY <1>a, <2>1 DEF DataTypes, SortedSoFar, RegionsSorted, Settled, Disturbed, BordersSorted
  <2>6. QED
    BY <2>4, <2>5 DEF DataInv
<1>6. ASSUME NEW t \in Threads, PassFirst(t) \/ CountBack(t) PROVE DataInv'
  <2>1. /\ pc[t] \in {"wait", "second"} /\ ~exited
        /\ Goto(t, "second") \/ (Goto(t, "wait2") /\ pc[t] = "second" /\ UNCHANGED sem)
        /\ UNCHANGED <<data, cur, border, swapped, exited>>
    BY <1>6 DEF PassFirst, CountBack
  <2>2. \A u \in Threads : pc'[u] = "wait" => sem' # 0
    <3>1. CASE Goto(t, "second")
      <4>1. pc'[t] = "second"
        BY <1>a, <3>1 DEF Goto
      <4>2. QED
        BY <1>b, <4>1 DEF Guards
    <3>2. CASE Goto(t, "wait2") /\ pc[t] = "second" /\ UNCHANGED sem
      BY <1>a, <3>2, <1>b DEF Guards, Goto
    <3>3. QED
      BY <2>1, <3>1, <3>2
  <2>3. /\ \A u \in Threads : pc'[u] = "borders" => FALSE
    BY <1>a, <1>6, <2>1, <1>b DEF Guards, Goto, PassFirst, CountBack
  <2>4. DataTypes' /\ SortedSoFar'
    BY <1>a, <2>1 DEF DataTypes, SortedSoFar, Goto
  <2>5. RegionsSorted' /\ BordersSorted'
    BY <2>2, <2>3 DEF RegionsSorted, Settled, BordersSorted
  <2>6. QED
    BY <2>1, <2>4, <2>5 DEF DataInv
<1>7. ASSUME NEW t \in Threads, PassSecond(t) PROVE DataInv'
  <2>1. /\ pc[t] = "wait2" /\ ~exited /\ Goto(t, "sort")
        /\ cur' = [cur EXCEPT ![t] = Left(t)]
        /\ UNCHANGED <<data, border, swapped, sem, exited>>
    BY <1>7 DEF PassSecond
  <2>2. ~\E u \in Threads : pc[u] = "borders"
    BY <2>1, <1>b DEF Guards
  <2>3. DataTypes'
    BY <1>a, <2>1, RegionBounds DEF DataTypes
  <2>4. SortedSoFar'
    <3>1. SortedBetween(data, Left(t), Left(t) - 1)
      BY RegionBounds, SortedEmpty
    <3>2. QED
      BY <1>a, <2>1, <3>1 DEF SortedSoFar, DataTypes, Goto
  <2>5. \A u \in Threads : pc'[u] # "borders" /\ (Settled(u)' => Settled(u))
    BY <1>a, <2>1, <2>2 DEF Settled, Disturbed, Goto
  <2>6. RegionsSorted' /\ BordersSorted'
    BY <1>a, <2>1, <2>5 DEF RegionsSorted, BordersSorted
  <2>7. QED
    BY <2>1, <2>3, <2>4, <2>6 DEF DataInv
<1>8. CASE UNCHANGED vars
  <2>1. UNCHANGED <<data, pc, cur, border, swapped, sem, exited>>
    BY <1>8 DEF vars
  <2>2. QED
    BY <1>a, <2>1 DEF DataInv, DataTypes, SortedSoFar, RegionsSorted, Settled, Disturbed,
                      BordersSorted, Sorted
<1>9. QED
  BY <1>1, <1>2, <1>3, <1>4, <1>5, <1>6, <1>7, <1>8 DEF Next, Step, Ended

\* The process exits only with the whole file sorted: every region by its thread,
\* and no border out of order when all of them were looked at.
THEOREM ExitsSorted == Spec => []SortedAtExit
<1>1. DataInv => SortedAtExit
  BY DEF DataInv, SortedAtExit
<1>2. Spec => []DataInv
  BY BarrierHolds, InitData, NextData, PTL DEF Spec
<1>3. QED
  BY <1>1, <1>2, PTL
=============================================================================
