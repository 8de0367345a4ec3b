----------------------------- MODULE LabsProofs -----------------------------
(***************************************************************************)
(* Theorems about CharDevice, FileConcatenate, DotProduct and ThreadedSort *)
(* for any processes, counts and buffer length, any threads, any vectors   *)
(* and matrix, any numbers, size and threshold.                            *)
(***************************************************************************)
EXTENDS MCLabs, FiniteSetTheorems, NaturalsInduction, WellFoundedInduction, TLAPS

Types ==
  /\ pc \in [Procs -> {"closed", "opening", "open"}]
  /\ given = [p \in Procs |-> given[p]]

\* Before cdev_add has run, and after the module is gone, nobody can be at the
\* device: insmod sets up a semaphore that nobody holds.
NobodyEarly == module \in {"unloaded", "numbered"} => \A p \in Procs : pc[p] = "closed"

Free == me = 1 /\ \A p \in Procs : pc[p] # "open"

HeldBy(p) ==
  /\ me = 0 /\ pc[p] = "open" /\ offset = given[p]
  /\ \A q \in Procs \ {p} : pc[q] # "open"

OneHolder == Types /\ NobodyEarly /\ (Free \/ \E p \in Procs : HeldBy(p))

-----------------------------------------------------------------------------
LEMMA InitOneHolder == Init => OneHolder
BY DEF Init, OneHolder, Types, NobodyEarly, Free

LEMMA NextOneHolder == OneHolder /\ [Next]_vars => OneHolder'
<1> SUFFICES ASSUME OneHolder, [Next]_vars PROVE OneHolder'
  OBVIOUS
<1>1. CASE AllocRegion
  BY <1>1 DEF AllocRegion, OneHolder, Types, NobodyEarly, Free
<1>2. CASE CdevAdd \/ InitReturns \/ Cleanup
  BY <1>2 DEF CdevAdd, InitReturns, Cleanup, OneHolder, Types, NobodyEarly, Free, HeldBy
<1>3. ASSUME NEW p \in Procs, Open(p) \/ Interrupted(p) PROVE OneHolder'
  BY <1>3 DEF Open, Interrupted, Refused, Goto, OneHolder, Types, NobodyEarly, Free, HeldBy
<1>4. ASSUME NEW p \in Procs, Opened(p) PROVE OneHolder'
  <2>1. Free /\ Types /\ NobodyEarly
    BY <1>4 DEF Opened, OneHolder, HeldBy
  <2>2. HeldBy(p)'
    BY <1>4, <2>1 DEF Opened, Goto, Types, Free, HeldBy
  <2>3. Types' /\ NobodyEarly'
    BY <1>4, <2>1 DEF Opened, Goto, Types, NobodyEarly
  <2>4. QED
    BY <2>2, <2>3 DEF OneHolder
<1>5. ASSUME NEW p \in Procs, Release(p) PROVE OneHolder'
  <2>1. HeldBy(p) /\ Types /\ NobodyEarly
    BY <1>5 DEF Release, OneHolder, Free, HeldBy
  <2>2. Free'
    BY <1>5, <2>1 DEF Release, Goto, Types, Free, HeldBy
  <2>3. Types' /\ NobodyEarly'
    BY <1>5, <2>1 DEF Release, Goto, Types, NobodyEarly
  <2>4. QED
    BY <2>2, <2>3 DEF OneHolder
<1>6. ASSUME NEW p \in Procs, NEW count \in Counts, Read(p, count) PROVE OneHolder'
  <2>1. HeldBy(p) /\ Types /\ NobodyEarly
    BY <1>6 DEF Read, OneHolder, Free, HeldBy
  <2>2. HeldBy(p)'
    BY <1>6, <2>1 DEF Read, Types, HeldBy
  <2>3. Types' /\ NobodyEarly'
    BY <1>6, <2>1 DEF Read, Types, NobodyEarly
  <2>4. QED
    BY <2>2, <2>3 DEF OneHolder
<1>7. ASSUME NEW p \in Procs, NEW count \in Counts, Write(p, count) PROVE OneHolder'
  BY <1>7 DEF Write, OneHolder, Types, NobodyEarly, Free, HeldBy
<1>8. CASE UNCHANGED vars
  BY <1>8 DEF vars, OneHolder, Types, NobodyEarly, Free, HeldBy
<1>9. QED
  BY <1>1, <1>2, <1>3, <1>4, <1>5, <1>6, <1>7, <1>8 DEF Next, Step

LEMMA OneHolderHolds == Spec => []OneHolder
BY InitOneHolder, NextOneHolder, PTL DEF Spec

-----------------------------------------------------------------------------
\* The one offset of the module is that of the one process that has the device
\* open, through loading, refused opens and waits for the semaphore.
THEOREM OffsetIsTheHolders == Spec => []OffsetOfHolder
<1>1. OneHolder => OffsetOfHolder
  BY DEF OneHolder, Free, HeldBy, OffsetOfHolder, Holders
<1>2. QED
  BY OneHolderHolds, <1>1, PTL

-----------------------------------------------------------------------------
(* FileConcatenate: the lock is with the one thread that reads the stream  *)
(* or has left it.                                                         *)

FilesTypes ==
  /\ readers \in [Threads -> {"none", "lock", "first", "second", "work", "copying", "returned"}]

Inside(t) == readers[t] \in {"first", "second", "returned"}

LockOfReader ==
  /\ FilesTypes
  /\ \A t \in Threads : Inside(t) <=> dirLock = t

LEMMA InitLockOfReader == Files!Init => LockOfReader
BY FilesAssumption DEF Files!Init, Files!All, LockOfReader, FilesTypes, Inside

LEMMA NextLockOfReader == LockOfReader /\ [Files!Next]_(Files!vars) => LockOfReader'
<1> SUFFICES ASSUME LockOfReader, [Files!Next]_(Files!vars) PROVE LockOfReader'
  OBVIOUS
<1> USE DEF LockOfReader, FilesTypes, Inside, Files!At, Files!Goto, Files!Set
<1>1. ASSUME NEW t \in Threads, Files!Enter(t) PROVE LockOfReader'
  BY <1>1, FilesAssumption DEF Files!Enter
<1>2. ASSUME NEW t \in Threads, Files!FirstEnds(t) \/ Files!FirstEndsAgain(t) PROVE LockOfReader'
  BY <1>2 DEF Files!FirstEnds, Files!FirstEndsAgain, Files!ToSecond, Files!Leave
<1>3. ASSUME NEW t \in Threads, Files!FirstFails(t) \/ Files!FirstEntry(t) PROVE LockOfReader'
  BY <1>3 DEF Files!FirstFails, Files!FirstEntry, Files!ToSecond, Files!Leave
<1>4. ASSUME NEW t \in Threads, NEW next, NEW goOn,
             Files!At(t, "second"), Files!SecondLoop(t, next, goOn), UNCHANGED process
      PROVE  LockOfReader'
  BY <1>4, FilesAssumption DEF Files!SecondLoop, Files!Leave
<1>5. ASSUME NEW t \in Threads, Files!SecondEnds(t) \/ Files!SecondFails(t) PROVE LockOfReader'
  BY <1>5, <1>4 DEF Files!SecondEnds, Files!SecondFails
<1>6. ASSUME NEW t \in Threads, Files!SecondEntry(t) PROVE LockOfReader'
  <2>1. PICK next \in BOOLEAN : Files!SecondLoop(t, next, cont[t])
    BY <1>6 DEF Files!SecondEntry
  <2>2. Files!At(t, "second") /\ UNCHANGED process
    BY <1>6 DEF Files!SecondEntry
  <2>3. QED
    BY <1>4, <2>1, <2>2
<1>7. ASSUME NEW t \in Threads, Files!SecondEndsAgain(t) PROVE LockOfReader'
  BY <1>7 DEF Files!SecondEndsAgain, Files!Leave
<1>8. ASSUME NEW t \in Threads, Files!Work(t) PROVE LockOfReader'
  BY <1>8 DEF Files!Work
<1>9. ASSUME NEW t \in Threads, Files!Crash(t) PROVE LockOfReader'
  BY <1>9 DEF Files!Crash
<1>10. CASE Files!MainStep
  BY <1>10, FilesAssumption DEF Files!MainStep, Files!Create, Files!CreateFails, Files!MainReturns
<1>11. CASE UNCHANGED Files!vars
  BY <1>11 DEF Files!vars
<1>12. QED
  BY <1>1, <1>2, <1>3, <1>5, <1>6, <1>7, <1>8, <1>9, <1>10, <1>11 DEF Files!Next, Files!Step

\* The threads of file_concatenate.c read and rewind the stream of the directory
\* one at a time, from the first readdir of a round to the last, whatever they find.
THEOREM StreamKeptApart == Files!Spec => []StreamReadAlone
<1>1. LockOfReader => StreamReadAlone
  BY DEF LockOfReader, Inside, StreamReadAlone, Files!StreamReadAlone, Files!Searching
<1>2. QED
  BY InitLockOfReader, NextLockOfReader, <1>1, PTL DEF Files!Spec

-----------------------------------------------------------------------------
(* DotProduct: after j rounds an element of v is the sum of j products.    *)

\* Induction, for one set of numbers.
LEMMA AllNumbers ==
  ASSUME NEW S \in SUBSET Nat, 0 \in S, \A m \in S : m + 1 \in S
  PROVE  S = Nat
<1> DEFINE Less == {ss \in Nat \X Nat : ss[1] < ss[2]}
           Rest == Nat \ S
<1>1. IsWellFoundedOn(Less, Nat)
  BY NatLessThanWellFounded DEF OpToRel
<1> HIDE DEF Less
<1> SUFFICES ASSUME Rest # {} PROVE FALSE
  OBVIOUS
<1>2. PICK x \in Rest : \A y \in Rest : <<y, x>> \notin Less
  BY <1>1, WFMin
<1>3. x - 1 \in Nat /\ x - 1 < x /\ x = (x - 1) + 1
  OBVIOUS
<1>4. x - 1 \in Rest
  BY <1>3
<1>5. <<x - 1, x>> \in Less
  BY <1>3 DEF Less
<1> QED BY <1>2, <1>4, <1>5

IsSums(g, x, y, m) ==
  g = [a \in 0 .. m |-> IF a = 0 THEN 0 ELSE g[a - 1] + x[a - 1] * y[a - 1]]

LEMMA SumsExist ==
  ASSUME NEW x, NEW y, NEW m \in Nat
  PROVE  \E g : IsSums(g, x, y, m)
<1> DEFINE S == {a \in Nat : \E g : IsSums(g, x, y, a)}
<1>1. 0 \in S
  <2>1. IsSums([a \in 0 .. 0 |-> 0], x, y, 0)
    BY DEF IsSums
  <2> QED BY <2>1
<1>2. ASSUME NEW a \in S PROVE a + 1 \in S
  <2>1. PICK g : IsSums(g, x, y, a)
    OBVIOUS
  <2> DEFINE h == [b \in 0 .. a + 1 |-> IF b = a + 1 THEN g[a] + x[a] * y[a] ELSE g[b]]
  <2>2. \A b \in 0 .. a : g[b] = IF b = 0 THEN 0 ELSE g[b - 1] + x[b - 1] * y[b - 1]
    BY <2>1 DEF IsSums
  <2>3. ASSUME NEW b \in 0 .. a + 1
        PROVE  h[b] = IF b = 0 THEN 0 ELSE h[b - 1] + x[b - 1] * y[b - 1]
    <3>1. CASE b = a + 1
      BY <3>1
    <3>2. CASE b \in 0 .. a
      BY <3>2, <2>2
    <3> QED BY <3>1, <3>2
  <2>4. IsSums(h, x, y, a + 1)
    BY <2>3 DEF IsSums
  <2> QED BY <2>4
<1>3. S = Nat
  BY <1>1, <1>2, AllNumbers
<1> QED BY <1>3

LEMMA SumsAdd ==
  ASSUME NEW x, NEW y
  PROVE  /\ Product!Sums(x, y)[0] = 0
         /\ \A m \in Product!Index :
              Product!Sums(x, y)[m + 1] = Product!Sums(x, y)[m] + x[m] * y[m]
<1> DEFINE s == Product!Sums(x, y)
<1>1. s = CHOOSE g : IsSums(g, x, y, K)
  BY DEF Product!Sums, IsSums
<1>2. IsSums(s, x, y, K)
  BY <1>1, SumsExist, ProductAssumption
<1> HIDE DEF s
<1>3. \A a \in 0 .. K : s[a] = IF a = 0 THEN 0 ELSE s[a - 1] + x[a - 1] * y[a - 1]
  BY <1>2 DEF IsSums
<1>4. s[0] = 0
  BY <1>3, ProductAssumption
<1>5. ASSUME NEW m \in Product!Index PROVE s[m + 1] = s[m] + x[m] * y[m]
  <2>1. m + 1 \in 0 .. K /\ m + 1 # 0 /\ (m + 1) - 1 = m
    BY ProductAssumption DEF Product!Index
  <2> QED BY <2>1, <1>3
<1> QED BY <1>4, <1>5 DEF s

\* What the loop of thread i has added up before round m.
RowSums(i) == Product!Sums(Product!Row(i), [m \in Product!Index |-> v2[i]])

ProductTypes ==
  /\ v = [i \in Product!Index |-> v[i]]
  /\ j \in [Product!Index -> -1 .. K]
  /\ created \in 0 .. K
  /\ done \subseteq Product!Index

\* Thread i has added up j[i] products, and all of them before it has returned;
\* b.cnt counts the threads that have not.
SumsSoFar ==
  /\ ProductTypes
  /\ \A i \in Product!Index : j[i] >= 0 => v[i] = RowSums(i)[j[i]]
  /\ \A i \in done : j[i] = K
  /\ cnt = K - Cardinality(done)
  /\ PrintsAsSequential

LEMMA IndexFinite ==
  /\ IsFiniteSet(Product!Index) /\ Cardinality(Product!Index) = K
  /\ K \in Nat /\ 0 \in Product!Index
<1>1. K \in Nat /\ K > 0
  BY ProductAssumption
<1>2. IsFiniteSet(0 .. K - 1) /\ Cardinality(0 .. K - 1) = K
  BY <1>1, FS_Interval
<1> QED BY <1>1, <1>2 DEF Product!Index

LEMMA InitSumsSoFar == Product!Init => SumsSoFar
<1> SUFFICES ASSUME Product!Init PROVE SumsSoFar
  OBVIOUS
<1>1. Cardinality(done) = 0
  BY FS_EmptySet DEF Product!Init
<1>2. ProductTypes /\ cnt = K - Cardinality(done)
  BY <1>1, IndexFinite DEF Product!Init, ProductTypes
<1>3. PrintsAsSequential
  BY IndexFinite DEF Product!Init, PrintsAsSequential, Product!PrintsAsSequential
<1> QED BY <1>2, <1>3 DEF SumsSoFar, Product!Init

Inputs == <<v1, v2, mat>>

LEMMA SequentialStays ==
  UNCHANGED Inputs => UNCHANGED Product!Sequential /\ \A i : RowSums(i)' = RowSums(i)
BY DEF Inputs, Product!Sequential, RowSums, Product!Row

LEMMA StepsInside ==
  ASSUME SumsSoFar, NEW i \in Product!Index, Product!Clear(i) \/ Product!Add(i)
  PROVE  SumsSoFar'
<1>1. UNCHANGED <<Inputs, cnt, created, done, results>> /\ i \notin done
  BY IndexFinite DEF Product!Clear, Product!Add, Inputs, SumsSoFar, ProductTypes, Product!Index
<1>2. PrintsAsSequential'
  BY <1>1, SequentialStays DEF SumsSoFar, PrintsAsSequential, Product!PrintsAsSequential
<1>3. PICK m \in Nat : j[i] = m - 1 /\ m <= K
  <2>1. j[i] + 1 \in Nat /\ j[i] = (j[i] + 1) - 1 /\ j[i] + 1 <= K
    BY IndexFinite DEF SumsSoFar, ProductTypes, Product!Clear, Product!Add, Product!Index
  <2> QED BY <2>1
<1>4. v'[i] = RowSums(i)[m] /\ j' = [j EXCEPT ![i] = m]
  <2>1. CASE Product!Clear(i)
    <3>1. m = 0
      BY <2>1, <1>3 DEF Product!Clear
    <3>2. RowSums(i)[0] = 0
      BY SumsAdd DEF RowSums
    <3> QED BY <2>1, <3>1, <3>2 DEF Product!Clear, SumsSoFar, ProductTypes
  <2>2. CASE Product!Add(i)
    <3>1. j[i] \in Product!Index /\ j[i] + 1 = m /\ j[i] >= 0
      BY <2>2, <1>3, IndexFinite DEF Product!Add, Product!Index
    <3>2. RowSums(i)[m] = RowSums(i)[j[i]] + mat[K * i + j[i]] * v2[i]
      BY <3>1, SumsAdd DEF RowSums, Product!Row
    <3> QED BY <2>2, <3>1, <3>2 DEF Product!Add, SumsSoFar, ProductTypes
  <2> QED BY <2>1, <2>2
<1>5. \A k \in Product!Index \ {i} : v'[k] = v[k]
  BY DEF Product!Clear, Product!Add, SumsSoFar, ProductTypes
<1>6. v' = [k \in Product!Index |-> v'[k]]
  BY DEF Product!Clear, Product!Add, SumsSoFar, ProductTypes
<1>7. ProductTypes'
  <2>1. m \in -1 .. K
    BY <1>3, IndexFinite
  <2>2. j' \in [Product!Index -> -1 .. K]
    BY <1>4, <2>1 DEF SumsSoFar, ProductTypes
  <2> QED BY <1>1, <1>6, <2>2 DEF SumsSoFar, ProductTypes
<1>8. ASSUME NEW k \in Product!Index, j'[k] >= 0 PROVE v'[k] = RowSums(k)'[j'[k]]
  BY <1>8, <1>1, <1>4, <1>5, SequentialStays DEF SumsSoFar, ProductTypes
<1>9. \A k \in done' : j'[k] = K
  BY <1>1, <1>4 DEF SumsSoFar, ProductTypes
<1>10. cnt' = K - Cardinality(done')
  BY <1>1 DEF SumsSoFar
<1> QED BY <1>2, <1>7, <1>8, <1>9, <1>10 DEF SumsSoFar

LEMMA NextSumsSoFar == SumsSoFar /\ [Product!Next]_(Product!vars) => SumsSoFar'
<1> SUFFICES ASSUME SumsSoFar, [Product!Next]_(Product!vars) PROVE SumsSoFar'
  OBVIOUS
<1>1. CASE Product!Create
  <2>1. UNCHANGED <<Inputs, v, cnt, j, done, results>> /\ created' \in 0 .. K
    BY <1>1, IndexFinite DEF Product!Create, Inputs, SumsSoFar, ProductTypes
  <2>2. PrintsAsSequential'
    BY <2>1, SequentialStays DEF SumsSoFar, PrintsAsSequential, Product!PrintsAsSequential
  <2>3. QED
    BY <2>1, <2>2, SequentialStays DEF SumsSoFar, ProductTypes
<1>2. ASSUME NEW i \in Product!Index, Product!Clear(i) \/ Product!Add(i) PROVE SumsSoFar'
  BY <1>2, StepsInside
<1>3. ASSUME NEW i \in Product!Index, Product!Count(i) PROVE SumsSoFar'
  <2>1. /\ UNCHANGED <<Inputs, v, j, created>>
        /\ j[i] = K /\ i \notin done /\ done' = done \cup {i}
        /\ cnt' = cnt - 1
        /\ results' = IF Product!Last(cnt') THEN Append(results, Product!Product(v1, v)) ELSE results
    BY <1>3 DEF Product!Count, Inputs
  <2>2. /\ done' \subseteq Product!Index /\ IsFiniteSet(done) /\ IsFiniteSet(done')
        /\ Cardinality(done) \in Nat /\ Cardinality(done') = Cardinality(done) + 1
    BY <2>1, IndexFinite, FS_Subset, FS_AddElement, FS_CardinalityType DEF SumsSoFar, ProductTypes
  <2>3. cnt' = K - Cardinality(done')
    BY <2>1, <2>2, IndexFinite DEF SumsSoFar
  <2>4. Product!Last(cnt') <=> done' = Product!Index
    BY <2>2, <2>3, IndexFinite, FS_Subset DEF Product!Last
  <2>5. results = <<>> /\ done # Product!Index
    BY <2>1 DEF SumsSoFar, PrintsAsSequential, Product!PrintsAsSequential
  <2>6. ASSUME done' = Product!Index PROVE Product!Product(v1, v) = Product!Sequential
    <3>1. ASSUME NEW k \in Product!Index
          PROVE  v[k] = Product!Product(Product!Row(k), [m \in Product!Index |-> v2[k]])
      <4>1. j[k] = K
        BY <2>1, <2>6 DEF SumsSoFar
      <4>2. v[k] = RowSums(k)[K]
        BY <4>1, IndexFinite DEF SumsSoFar
      <4>3. RowSums(k)[K] = Product!Product(Product!Row(k), [m \in Product!Index |-> v2[k]])
        BY DEF RowSums, Product!Product
      <4> QED BY <4>2, <4>3
    <3>2. v = [k \in Product!Index |-> Product!Product(Product!Row(k), [m \in Product!Index |-> v2[k]])]
      BY <3>1 DEF SumsSoFar, ProductTypes
    <3> QED BY <3>2 DEF Product!Sequential
  <2>7. UNCHANGED Product!Sequential
    BY <2>1, SequentialStays
  <2>8. PrintsAsSequential'
    BY <2>1, <2>4, <2>5, <2>6, <2>7 DEF PrintsAsSequential, Product!PrintsAsSequential
  <2>9. ProductTypes'
    BY <2>1, <2>2 DEF SumsSoFar, ProductTypes
  <2>10. \A k \in Product!Index : j'[k] >= 0 => v'[k] = RowSums(k)'[j'[k]]
    BY <2>1, SequentialStays DEF SumsSoFar
  <2>11. \A k \in done' : j'[k] = K
    BY <2>1 DEF SumsSoFar
  <2>12. QED
    BY <2>3, <2>8, <2>9, <2>10, <2>11 DEF SumsSoFar
<1>4. CASE UNCHANGED Product!vars
  BY <1>4, SequentialStays DEF Product!vars, Inputs, SumsSoFar, ProductTypes, PrintsAsSequential, Product!PrintsAsSequential
<1>5. QED
  BY <1>1, <1>2, <1>3, <1>4 DEF Product!Next

\* Whatever the vectors, the matrix and the order of the threads, what
\* Lab2.3_2 prints is what Lab2.3_1 prints, once.
THEOREM ProductIsSequential == Product!Spec => []PrintsAsSequential
<1>1. SumsSoFar => PrintsAsSequential
  BY DEF SumsSoFar
<1>2. QED
  BY InitSumsSoFar, NextSumsSoFar, <1>1, PTL DEF Product!Spec

-----------------------------------------------------------------------------
(* ThreadedSort: what merge makes of two halves.                           *)

IsTaken(g, L, R, m) ==
  g = [k \in 0 .. m |->
        IF k = 0 THEN 0
        ELSE IF Sort!FromL(L, R, g[k - 1], k - 1 - g[k - 1]) THEN g[k - 1] + 1 ELSE g[k - 1]]

LEMMA TakenExists ==
  ASSUME NEW L, NEW R, NEW m \in Nat
  PROVE  \E g : IsTaken(g, L, R, m)
<1> DEFINE S == {a \in Nat : \E g : IsTaken(g, L, R, a)}
<1>1. 0 \in S
  <2>1. IsTaken([a \in 0 .. 0 |-> 0], L, R, 0)
    BY DEF IsTaken
  <2> QED BY <2>1
<1>2. ASSUME NEW a \in S PROVE a + 1 \in S
  <2>1. PICK g : IsTaken(g, L, R, a)
    OBVIOUS
  <2> DEFINE next == IF Sort!FromL(L, R, g[a], a - g[a]) THEN g[a] + 1 ELSE g[a]
             h == [b \in 0 .. a + 1 |-> IF b = a + 1 THEN next ELSE g[b]]
  <2>2. \A b \in 0 .. a : g[b] =
          IF b = 0 THEN 0
          ELSE IF Sort!FromL(L, R, g[b - 1], b - 1 - g[b - 1]) THEN g[b - 1] + 1 ELSE g[b - 1]
    BY <2>1 DEF IsTaken
  <2>3. ASSUME NEW b \in 0 .. a + 1
        PROVE  h[b] = IF b = 0 THEN 0
                      ELSE IF Sort!FromL(L, R, h[b - 1], b - 1 - h[b - 1]) THEN h[b - 1] + 1
                      ELSE h[b - 1]
    <3>1. CASE b = a + 1
      <4>1. h[b] = next /\ b # 0 /\ b - 1 = a /\ h[a] = g[a]
        BY <3>1
      <4> QED BY <4>1
    <3>2. CASE b \in 0 .. a
      BY <3>2, <2>2
    <3> QED BY <3>1, <3>2
  <2>4. IsTaken(h, L, R, a + 1)
    BY <2>3 DEF IsTaken
  <2> QED BY <2>4
<1>3. S = Nat
  BY <1>1, <1>2, AllNumbers
<1> QED BY <1>3

\* Round k + 1 of the loops takes an element of L, of which a are gone, or one
\* of R, of which b are gone.
FromLeft(L, R, a, b) == a < Len(L) /\ (b = Len(R) \/ L[a + 1] <= R[b + 1])

LEMMA TakenNext ==
  ASSUME NEW L, NEW R, Len(L) \in Nat, Len(R) \in Nat
  PROVE  /\ Sort!Taken(L, R)[0] = 0
         /\ \A k \in 0 .. Len(L) + Len(R) - 1 :
              LET a == Sort!Taken(L, R)[k] IN
              Sort!Taken(L, R)[k + 1] = IF FromLeft(L, R, a, k - a) THEN a + 1 ELSE a
<1> DEFINE g == Sort!Taken(L, R)
<1>1. g = CHOOSE f : IsTaken(f, L, R, Len(L) + Len(R))
  BY DEF Sort!Taken, IsTaken
<1>2. IsTaken(g, L, R, Len(L) + Len(R))
  BY <1>1, TakenExists
<1> HIDE DEF g
<1>3. \A k \in 0 .. Len(L) + Len(R) : g[k] =
        IF k = 0 THEN 0
        ELSE IF Sort!FromL(L, R, g[k - 1], k - 1 - g[k - 1]) THEN g[k - 1] + 1 ELSE g[k - 1]
  BY <1>2 DEF IsTaken
<1>4. g[0] = 0
  BY <1>3
<1>5. ASSUME NEW k \in 0 .. Len(L) + Len(R) - 1
      PROVE  g[k + 1] = IF FromLeft(L, R, g[k], k - g[k]) THEN g[k] + 1 ELSE g[k]
  <2>1. k + 1 \in 0 .. Len(L) + Len(R) /\ k + 1 # 0 /\ (k + 1) - 1 = k
    OBVIOUS
  <2>2. g[k + 1] = IF Sort!FromL(L, R, g[k], k - g[k]) THEN g[k] + 1 ELSE g[k]
    BY <2>1, <1>3
  <2> QED BY <2>2 DEF FromLeft, Sort!FromL
<1> QED BY <1>4, <1>5 DEF g

LEMMA TakenWithin ==
  ASSUME NEW L, NEW R, Len(L) \in Nat, Len(R) \in Nat, NEW k \in 0 .. Len(L) + Len(R)
  PROVE  Sort!Taken(L, R)[k] \in 0 .. Len(L) /\ k - Sort!Taken(L, R)[k] \in 0 .. Len(R)
<1> DEFINE g == Sort!Taken(L, R)
           S == {a \in Nat : a <= Len(L) + Len(R) => g[a] \in 0 .. Len(L) /\ a - g[a] \in 0 .. Len(R)}
<1>1. g[0] = 0 /\ \A a \in 0 .. Len(L) + Len(R) - 1 :
                    g[a + 1] = IF FromLeft(L, R, g[a], a - g[a]) THEN g[a] + 1 ELSE g[a]
  BY TakenNext
<1> HIDE DEF g
<1>2. 0 \in S
  BY <1>1
<1>3. ASSUME NEW a \in S PROVE a + 1 \in S
  <2> SUFFICES ASSUME a + 1 <= Len(L) + Len(R)
               PROVE  g[a + 1] \in 0 .. Len(L) /\ a + 1 - g[a + 1] \in 0 .. Len(R)
    OBVIOUS
  <2>1. g[a] \in 0 .. Len(L) /\ a - g[a] \in 0 .. Len(R) /\ a \in 0 .. Len(L) + Len(R) - 1
    OBVIOUS
  <2>2. g[a + 1] = IF FromLeft(L, R, g[a], a - g[a]) THEN g[a] + 1 ELSE g[a]
    BY <1>1, <2>1
  <2>3. CASE FromLeft(L, R, g[a], a - g[a])
    <3>1. g[a] < Len(L) /\ g[a + 1] = g[a] + 1
      BY <2>2, <2>3 DEF FromLeft
    <3> QED BY <2>1, <3>1
  <2>4. CASE ~ FromLeft(L, R, g[a], a - g[a])
    <3>1. ~ (g[a] < Len(L)) \/ a - g[a] # Len(R)
      BY <2>4 DEF FromLeft
    <3>2. g[a + 1] = g[a]
      BY <2>2, <2>4
    <3> QED BY <2>1, <3>1, <3>2
  <2> QED BY <2>3, <2>4
<1>4. S = Nat
  BY <1>2, <1>3, AllNumbers
<1> QED BY <1>4 DEF g

\* Element k + 1 of what is merged, when a of the first k came from L.
LEMMA MergedNext ==
  ASSUME NEW L, NEW R, Len(L) \in Nat, Len(R) \in Nat, NEW k \in 0 .. Len(L) + Len(R) - 1
  PROVE  \E a \in 0 .. Len(L), b \in 0 .. Len(R) :
           /\ a + b = k /\ a = Sort!Taken(L, R)[k]
           /\ \/ /\ a < Len(L) /\ (b = Len(R) \/ L[a + 1] <= R[b + 1])
                 /\ Sort!Taken(L, R)[k + 1] = a + 1
                 /\ Sort!Merged(L, R)[k + 1] = L[a + 1]
              \/ /\ b < Len(R) /\ (a = Len(L) \/ ~ (L[a + 1] <= R[b + 1]))
                 /\ Sort!Taken(L, R)[k + 1] = a
                 /\ Sort!Merged(L, R)[k + 1] = R[b + 1]
<1> DEFINE g == Sort!Taken(L, R)
           a == g[k]
           b == k - a
<1>1. a \in 0 .. Len(L) /\ b \in 0 .. Len(R) /\ a + b = k
  BY TakenWithin
<1>2. g[k + 1] = IF FromLeft(L, R, a, b) THEN a + 1 ELSE a
  BY TakenNext
<1>3. Sort!Merged(L, R)[k + 1] = IF g[k + 1] > g[k] THEN L[g[k + 1]] ELSE R[k + 1 - g[k + 1]]
  <2>1. k + 1 \in 1 .. Len(L) + Len(R)
    OBVIOUS
  <2>2. \A e \in 1 .. Len(L) + Len(R) :
          Sort!Merged(L, R)[e] = IF g[e] > g[e - 1] THEN L[g[e]] ELSE R[e - g[e]]
    BY DEF Sort!Merged
  <2>6. g[k] \in Int /\ g[k + 1] \in Int
    BY <2>1, TakenWithin
  <2> HIDE DEF g
  <2>3. PICK e \in 1 .. Len(L) + Len(R) : e = k + 1
    BY <2>1
  <2>4. e - 1 = k
    BY <2>3
  <2>5. Sort!Merged(L, R)[e] = IF g[e] > g[k] THEN L[g[e]] ELSE R[e - g[e]]
    BY <2>2, <2>4
  <2> QED BY <2>3, <2>5, <2>6
<1> HIDE DEF g
<1>4. a + 1 > a /\ ~ (a > a)
  BY <1>1
<1>5. CASE FromLeft(L, R, a, b)
  BY <1>1, <1>2, <1>3, <1>4, <1>5 DEF FromLeft, g
<1>6. CASE ~ FromLeft(L, R, a, b)
  <2>1. k + 1 - g[k + 1] = b + 1 /\ g[k + 1] = a
    BY <1>1, <1>2, <1>6
  <2>2. Sort!Merged(L, R)[k + 1] = R[b + 1]
    BY <2>1, <1>3, <1>4
  <2>3. b < Len(R) /\ (a = Len(L) \/ ~ (L[a + 1] <= R[b + 1]))
    BY <1>1, <1>6 DEF FromLeft
  <2> QED BY <1>1, <2>1, <2>2, <2>3 DEF g
<1> QED BY <1>5, <1>6

\* In order from one index to another.
Ordered(f, lo, hi) == \A k \in lo .. hi - 1 : f[k] <= f[k + 1]

LEMMA MergedOrdered ==
  ASSUME NEW L, NEW R, Len(L) \in Nat, Len(R) \in Nat,
         \A a \in 1 .. Len(L) : L[a] \in Int, \A b \in 1 .. Len(R) : R[b] \in Int,
         Ordered(L, 1, Len(L)), Ordered(R, 1, Len(R))
  PROVE  Ordered(Sort!Merged(L, R), 1, Len(L) + Len(R))
<1> DEFINE out == Sort!Merged(L, R)
           g == Sort!Taken(L, R)
<1> SUFFICES ASSUME NEW k \in 1 .. Len(L) + Len(R) - 1 PROVE out[k] <= out[k + 1]
  BY DEF Ordered
<1>1. PICK a \in 0 .. Len(L), b \in 0 .. Len(R) :
        /\ a + b = k - 1 /\ a = g[k - 1]
        /\ \/ /\ a < Len(L) /\ (b = Len(R) \/ L[a + 1] <= R[b + 1])
              /\ g[k] = a + 1 /\ out[k] = L[a + 1]
           \/ /\ b < Len(R) /\ (a = Len(L) \/ ~ (L[a + 1] <= R[b + 1]))
              /\ g[k] = a /\ out[k] = R[b + 1]
  <2>1. k - 1 \in 0 .. Len(L) + Len(R) - 1 /\ (k - 1) + 1 = k
    OBVIOUS
  <2> HIDE DEF out, g
  <2>2. PICK m \in 0 .. Len(L) + Len(R) - 1 : m = k - 1 /\ m + 1 = k
    BY <2>1
  <2> QED BY <2>2, MergedNext DEF out, g
<1>2. PICK c \in 0 .. Len(L), d \in 0 .. Len(R) :
        /\ c + d = k /\ c = g[k]
        /\ \/ /\ c < Len(L) /\ (d = Len(R) \/ L[c + 1] <= R[d + 1])
              /\ out[k + 1] = L[c + 1]
           \/ /\ d < Len(R) /\ (c = Len(L) \/ ~ (L[c + 1] <= R[d + 1]))
              /\ out[k + 1] = R[d + 1]
  <2>1. k \in 0 .. Len(L) + Len(R) - 1
    OBVIOUS
  <2>2. \E c \in 0 .. Len(L), d \in 0 .. Len(R) :
          /\ c + d = k /\ c = Sort!Taken(L, R)[k]
          /\ \/ /\ c < Len(L) /\ (d = Len(R) \/ L[c + 1] <= R[d + 1])
                /\ Sort!Taken(L, R)[k + 1] = c + 1
                /\ Sort!Merged(L, R)[k + 1] = L[c + 1]
             \/ /\ d < Len(R) /\ (c = Len(L) \/ ~ (L[c + 1] <= R[d + 1]))
                /\ Sort!Taken(L, R)[k + 1] = c
                /\ Sort!Merged(L, R)[k + 1] = R[d + 1]
    BY <2>1, MergedNext
  <2> QED BY <2>2
<1> HIDE DEF out, g
<1>5. a + b = k - 1 /\ c + d = k /\ c = g[k]
  BY <1>1, <1>2
<1>3. CASE g[k] = a + 1 /\ a < Len(L) /\ out[k] = L[a + 1] /\ (b = Len(R) \/ L[a + 1] <= R[b + 1])
  <2>1. c = a + 1 /\ d = b
    BY <1>3, <1>5
  <2>2. c < Len(L) => L[c] <= L[c + 1]
    BY <2>1 DEF Ordered
  <2> QED BY <1>2, <1>3, <2>1, <2>2
<1>4. CASE g[k] = a /\ b < Len(R) /\ out[k] = R[b + 1] /\ (a = Len(L) \/ ~ (L[a + 1] <= R[b + 1]))
  <2>1. c = a /\ d = b + 1
    BY <1>4, <1>5
  <2>2. d < Len(R) => R[d] <= R[d + 1]
    BY <2>1 DEF Ordered
  <2>3. a < Len(L) => L[a + 1] \in Int /\ R[b + 1] \in Int
    BY <1>4
  <2>4. a < Len(L) => R[b + 1] <= L[a + 1]
    BY <1>4, <2>3
  <2> QED BY <1>2, <1>4, <2>1, <2>2, <2>4
<1> QED BY <1>1, <1>3, <1>4

-----------------------------------------------------------------------------
(* How often a number occurs between two indices.                          *)

Among(f, lo, hi, x) == {k \in lo .. hi : f[k] = x}
Count(f, lo, hi, x) == Cardinality(Among(f, lo, hi, x))
Hit(e, x) == IF e = x THEN 1 ELSE 0

LEMMA AmongFinite ==
  ASSUME NEW f, NEW lo \in Int, NEW hi \in Int, NEW x
  PROVE  IsFiniteSet(Among(f, lo, hi, x)) /\ Count(f, lo, hi, x) \in Nat
<1>1. IsFiniteSet(lo .. hi)
  BY FS_Interval
<1>2. IsFiniteSet(Among(f, lo, hi, x))
  BY <1>1, FS_Subset DEF Among
<1> QED BY <1>2, FS_CardinalityType DEF Count

LEMMA CountNone ==
  ASSUME NEW f, NEW lo \in Int, NEW hi \in Int, hi < lo, NEW x
  PROVE  Count(f, lo, hi, x) = 0
<1>1. Among(f, lo, hi, x) = {}
  BY DEF Among
<1> QED BY <1>1, FS_EmptySet DEF Count

LEMMA CountNext ==
  ASSUME NEW f, NEW lo \in Int, NEW hi \in Int, lo <= hi + 1, NEW x
  PROVE  Count(f, lo, hi + 1, x) = Count(f, lo, hi, x) + Hit(f[hi + 1], x)
<1>1. IsFiniteSet(Among(f, lo, hi, x)) /\ Count(f, lo, hi, x) \in Nat
  BY AmongFinite
<1>2. hi + 1 \notin Among(f, lo, hi, x)
  BY DEF Among
<1>3. CASE f[hi + 1] = x
  <2>1. Among(f, lo, hi + 1, x) = Among(f, lo, hi, x) \cup {hi + 1}
    BY <1>3 DEF Among
  <2> QED BY <1>1, <1>2, <1>3, <2>1, FS_AddElement DEF Count, Hit
<1>4. CASE f[hi + 1] # x
  <2>1. Among(f, lo, hi + 1, x) = Among(f, lo, hi, x)
    BY <1>4 DEF Among
  <2> QED BY <1>1, <1>4, <2>1 DEF Count, Hit
<1> QED BY <1>3, <1>4

LEMMA CountSplit ==
  ASSUME NEW f, NEW lo \in Int, NEW mid \in Int, NEW hi \in Int, lo <= mid + 1, mid <= hi, NEW x
  PROVE  Count(f, lo, hi, x) = Count(f, lo, mid, x) + Count(f, mid + 1, hi, x)
<1> DEFINE S == Among(f, lo, mid, x)
           T == Among(f, mid + 1, hi, x)
<1>1. IsFiniteSet(S) /\ IsFiniteSet(T) /\ Cardinality(S) \in Nat /\ Cardinality(T) \in Nat
  BY AmongFinite DEF Count
<1>2. Among(f, lo, hi, x) = S \cup T /\ S \cap T = {}
  BY DEF Among
<1>3. Cardinality(S \cap T) = 0
  BY <1>2, FS_EmptySet
<1> HIDE DEF S, T
<1>4. Cardinality(S \cup T) = Cardinality(S) + Cardinality(T) - Cardinality(S \cap T)
  BY <1>1, FS_Union
<1>5. Cardinality(S \cup T) = Cardinality(S) + Cardinality(T)
  BY <1>1, <1>3, <1>4
<1> QED BY <1>2, <1>5 DEF Count, S, T

\* What is copied to other places is as often there.
LEMMA CountShift ==
  ASSUME NEW f, NEW g, NEW lo \in Int, NEW hi \in Int, NEW d \in Int, NEW x,
         \A k \in lo .. hi : g[k + d] = f[k]
  PROVE  Count(g, lo + d, hi + d, x) = Count(f, lo, hi, x)
<1> DEFINE S == Among(f, lo, hi, x)
           T == Among(g, lo + d, hi + d, x)
           F == [k \in S |-> k + d]
<1>1. F \in [S -> T]
  BY DEF Among
<1>2. \A k, l \in S : F[k] = F[l] => k = l
  BY DEF Among
<1>3. \A l \in T : \E k \in S : F[k] = l
  <2> SUFFICES ASSUME NEW l \in T PROVE l - d \in S /\ F[l - d] = l
    OBVIOUS
  <2>1. l \in lo + d .. hi + d /\ g[l] = x
    BY DEF Among
  <2>2. PICK k \in Int : k = l - d
    BY <2>1
  <2>3. k \in lo .. hi /\ k + d = l
    BY <2>1, <2>2
  <2>4. f[k] = x
    BY <2>1, <2>3
  <2> QED BY <2>2, <2>3, <2>4 DEF Among
<1>4. F \in Bijection(S, T)
  BY <1>1, <1>2, <1>3 DEF Bijection, Injection, Surjection, IsInjective
<1>5. ExistsBijection(S, T)
  BY <1>4 DEF ExistsBijection
<1> QED BY <1>5, AmongFinite, FS_Bijection DEF Count

\* Merging loses no number and makes up none.
LEMMA MergedCount ==
  ASSUME NEW L, NEW R, Len(L) \in Nat, Len(R) \in Nat, NEW x
  PROVE  Count(Sort!Merged(L, R), 1, Len(L) + Len(R), x)
           = Count(L, 1, Len(L), x) + Count(R, 1, Len(R), x)
<1> DEFINE out == Sort!Merged(L, R)
           g == Sort!Taken(L, R)
           S == {k \in Nat : k <= Len(L) + Len(R) =>
                   Count(out, 1, k, x) = Count(L, 1, g[k], x) + Count(R, 1, k - g[k], x)}
<1>1. 0 \in S
  <2>1. g[0] = 0 /\ 0 - g[0] = 0
    BY TakenNext
  <2> HIDE DEF out, g
  <2>2. Count(out, 1, 0, x) = 0 /\ Count(L, 1, 0, x) = 0 /\ Count(R, 1, 0, x) = 0
    BY CountNone
  <2> QED BY <2>1, <2>2
<1>2. ASSUME NEW k \in S PROVE k + 1 \in S
  <2> HIDE DEF out, g
  <2>0. PICK m \in Nat : m = k + 1
    OBVIOUS
  <2> SUFFICES ASSUME m <= Len(L) + Len(R)
               PROVE  Count(out, 1, m, x) = Count(L, 1, g[m], x) + Count(R, 1, m - g[m], x)
    BY <2>0
  <2>1. k \in 0 .. Len(L) + Len(R) - 1
    BY <2>0
  <2>2. PICK a \in 0 .. Len(L), b \in 0 .. Len(R) :
          /\ a + b = k /\ a = g[k]
          /\ \/ g[k + 1] = a + 1 /\ out[k + 1] = L[a + 1]
             \/ g[k + 1] = a /\ out[k + 1] = R[b + 1]
    BY <2>1, MergedNext DEF out, g
  <2>3. Count(out, 1, k + 1, x) = Count(out, 1, k, x) + Hit(out[k + 1], x)
    BY CountNext
  <2>4. Count(out, 1, k, x) = Count(L, 1, a, x) + Count(R, 1, b, x)
    <3>1. k - g[k] = b
      BY <2>2
    <3> QED BY <2>1, <2>2, <3>1
  <2>5. /\ Count(L, 1, a + 1, x) = Count(L, 1, a, x) + Hit(L[a + 1], x)
        /\ Count(R, 1, b + 1, x) = Count(R, 1, b, x) + Hit(R[b + 1], x)
    BY CountNext
  <2>6. Count(L, 1, a, x) \in Nat /\ Count(R, 1, b, x) \in Nat /\ Hit(L[a + 1], x) \in Nat /\ Hit(R[b + 1], x) \in Nat
    BY AmongFinite DEF Hit
  <2>7. CASE g[k + 1] = a + 1 /\ out[k + 1] = L[a + 1]
    <3>1. k + 1 - g[k + 1] = b
      BY <2>2, <2>7
    <3>2. Count(out, 1, k + 1, x) = Count(L, 1, a, x) + Count(R, 1, b, x) + Hit(L[a + 1], x)
      BY <2>3, <2>4, <2>7
    <3>3. Count(out, 1, k + 1, x) = Count(L, 1, a + 1, x) + Count(R, 1, b, x)
      BY <2>5, <2>6, <3>2
    <3> QED BY <2>0, <2>7, <3>1, <3>3
  <2>8. CASE g[k + 1] = a /\ out[k + 1] = R[b + 1]
    <3>1. k + 1 - g[k + 1] = b + 1
      BY <2>2, <2>8
    <3>2. Count(out, 1, k + 1, x) = Count(L, 1, a, x) + Count(R, 1, b, x) + Hit(R[b + 1], x)
      BY <2>3, <2>4, <2>8
    <3>3. Count(out, 1, k + 1, x) = Count(L, 1, a, x) + Count(R, 1, b + 1, x)
      BY <2>5, <2>6, <3>2
    <3> QED BY <2>0, <2>8, <3>1, <3>3
  <2> QED BY <2>2, <2>7, <2>8
<1>3. S = Nat
  BY <1>1, <1>2, AllNumbers
<1>4. g[Len(L) + Len(R)] = Len(L)
  <2>1. g[Len(L) + Len(R)] \in 0 .. Len(L) /\ Len(L) + Len(R) - g[Len(L) + Len(R)] \in 0 .. Len(R)
    BY TakenWithin
  <2> QED BY <2>1
<1>5. Len(L) + Len(R) \in S
  BY <1>3
<1>6. Len(L) + Len(R) - g[Len(L) + Len(R)] = Len(R)
  BY <1>4
<1> QED BY <1>4, <1>5, <1>6

-----------------------------------------------------------------------------
(* What merge does to the whole array f: f becomes g.                      *)

CopyOf(f, lo, hi) == [k \in 1 .. hi - lo + 1 |-> f[lo + k - 1]]

LEMMA CopyIs ==
  ASSUME NEW f, NEW lo \in Int, NEW hi \in Int, lo <= hi
  PROVE  /\ Len(CopyOf(f, lo, hi)) = hi - lo + 1
         /\ \A k \in 1 .. hi - lo + 1 : CopyOf(f, lo, hi)[k] = f[lo + k - 1]
         /\ \A k \in lo .. hi : CopyOf(f, lo, hi)[k - lo + 1] = f[k]
<1> DEFINE c == CopyOf(f, lo, hi)
<1>1. hi - lo + 1 \in Nat
  OBVIOUS
<1>2. DOMAIN c = 1 .. hi - lo + 1 /\ \A k \in 1 .. hi - lo + 1 : c[k] = f[lo + k - 1]
  BY DEF CopyOf
<1>3. c \in Seq({f[k] : k \in lo .. hi})
  BY <1>1 DEF CopyOf
<1> HIDE DEF c
<1>4. Len(c) = hi - lo + 1
  BY <1>1, <1>2, <1>3
<1>5. ASSUME NEW k \in lo .. hi PROVE c[k - lo + 1] = f[k]
  <2>1. k - lo + 1 \in 1 .. hi - lo + 1 /\ lo + (k - lo + 1) - 1 = k
    OBVIOUS
  <2>2. PICK m \in 1 .. hi - lo + 1 : m = k - lo + 1 /\ lo + m - 1 = k
    BY <2>1
  <2> QED BY <1>2, <2>2
<1> QED BY <1>2, <1>4, <1>5 DEF c

LEMMA MergedFrom ==
  ASSUME NEW L, NEW R, Len(L) \in Nat, Len(R) \in Nat, NEW V,
         \A a \in 1 .. Len(L) : L[a] \in V, \A b \in 1 .. Len(R) : R[b] \in V,
         NEW k \in 1 .. Len(L) + Len(R)
  PROVE  Sort!Merged(L, R)[k] \in V
<1>1. PICK m \in 0 .. Len(L) + Len(R) - 1 : m + 1 = k
  <2>1. k - 1 \in 0 .. Len(L) + Len(R) - 1 /\ (k - 1) + 1 = k
    OBVIOUS
  <2> QED BY <2>1
<1>2. PICK a \in 0 .. Len(L), b \in 0 .. Len(R) :
        \/ a < Len(L) /\ Sort!Merged(L, R)[m + 1] = L[a + 1]
        \/ b < Len(R) /\ Sort!Merged(L, R)[m + 1] = R[b + 1]
  <2>1. \E a \in 0 .. Len(L), b \in 0 .. Len(R) :
          /\ a + b = m /\ a = Sort!Taken(L, R)[m]
          /\ \/ /\ a < Len(L) /\ (b = Len(R) \/ L[a + 1] <= R[b + 1])
                /\ Sort!Taken(L, R)[m + 1] = a + 1
                /\ Sort!Merged(L, R)[m + 1] = L[a + 1]
             \/ /\ b < Len(R) /\ (a = Len(L) \/ ~ (L[a + 1] <= R[b + 1]))
                /\ Sort!Taken(L, R)[m + 1] = a
                /\ Sort!Merged(L, R)[m + 1] = R[b + 1]
    BY MergedNext
  <2> QED BY <2>1
<1> QED BY <1>1, <1>2

LEMMA CopyOrdered ==
  ASSUME NEW f, NEW lo \in Int, NEW hi \in Int, lo <= hi, Ordered(f, lo, hi)
  PROVE  Ordered(CopyOf(f, lo, hi), 1, hi - lo + 1)
<1> SUFFICES ASSUME NEW k \in 1 .. hi - lo PROVE CopyOf(f, lo, hi)[k] <= CopyOf(f, lo, hi)[k + 1]
  BY DEF Ordered
<1>1. PICK m \in lo .. hi - 1 : m = lo + k - 1 /\ m + 1 = lo + (k + 1) - 1
  <2>1. lo + k - 1 \in lo .. hi - 1 /\ lo + k - 1 + 1 = lo + (k + 1) - 1
    OBVIOUS
  <2> QED BY <2>1
<1>2. CopyOf(f, lo, hi)[k] = f[m] /\ CopyOf(f, lo, hi)[k + 1] = f[m + 1]
  BY <1>1, CopyIs
<1> QED BY <1>1, <1>2 DEF Ordered

LEMMA CopyCount ==
  ASSUME NEW f, NEW lo \in Int, NEW hi \in Int, lo <= hi, NEW x
  PROVE  Count(CopyOf(f, lo, hi), 1, hi - lo + 1, x) = Count(f, lo, hi, x)
<1>1. \A k \in 1 .. hi - lo + 1 : f[k + (lo - 1)] = CopyOf(f, lo, hi)[k]
  <2> SUFFICES ASSUME NEW k \in 1 .. hi - lo + 1 PROVE f[k + (lo - 1)] = CopyOf(f, lo, hi)[k]
    OBVIOUS
  <2>1. k + (lo - 1) = lo + k - 1
    OBVIOUS
  <2> QED BY <2>1, CopyIs
<1>2. PICK d \in Int, h \in Int : d = lo - 1 /\ h = hi - lo + 1 /\ 1 + d = lo /\ h + d = hi
  <2>1. lo - 1 \in Int /\ hi - lo + 1 \in Int /\ 1 + (lo - 1) = lo /\ hi - lo + 1 + (lo - 1) = hi
    OBVIOUS
  <2> QED BY <2>1
<1>3. PICK o \in Int : o = 1
  OBVIOUS
<1>4. \A k \in o .. h : f[k + d] = CopyOf(f, lo, hi)[k]
  BY <1>1, <1>2, <1>3
<1>5. Count(f, o + d, h + d, x) = Count(CopyOf(f, lo, hi), o, h, x)
  BY <1>4, CountShift
<1> QED BY <1>2, <1>3, <1>5

MergedInto(f, lo, mid, hi) ==
  LET out == Sort!Merged(CopyOf(f, lo, mid), CopyOf(f, mid + 1, hi)) IN
  [k \in DOMAIN f |-> IF k \in lo .. hi THEN out[k - lo + 1] ELSE f[k]]

\* g is f with what lies from lo to hi put in order.
PutsInOrder(N, V, f, g, lo, hi) ==
  /\ g \in [0 .. N - 1 -> V]
  /\ Ordered(g, lo, hi)
  /\ \A k \in 0 .. N - 1 : k \notin lo .. hi => g[k] = f[k]
  /\ \A x : Count(g, 0, N - 1, x) = Count(f, 0, N - 1, x)

LEMMA MergeSorts ==
  ASSUME NEW N \in Nat, NEW V, V \subseteq Int, NEW f, f \in [0 .. N - 1 -> V],
         NEW lo \in 0 .. N - 1, NEW mid \in 0 .. N - 1, NEW hi \in 0 .. N - 1, lo <= mid, mid < hi,
         Ordered(f, lo, mid), Ordered(f, mid + 1, hi)
  PROVE  PutsInOrder(N, V, f, MergedInto(f, lo, mid, hi), lo, hi)
<1> DEFINE L == CopyOf(f, lo, mid)
           R == CopyOf(f, mid + 1, hi)
           out == Sort!Merged(L, R)
           g == MergedInto(f, lo, mid, hi)
<1>1. /\ Len(L) = mid - lo + 1 /\ Len(R) = hi - mid
      /\ \A a \in 1 .. mid - lo + 1 : L[a] = f[lo + a - 1]
      /\ \A b \in 1 .. hi - mid : R[b] = f[mid + b]
  <2>1. hi - (mid + 1) + 1 = hi - mid /\ mid + 1 <= hi
    OBVIOUS
  <2>5. PICK c \in Int : c = mid + 1
    OBVIOUS
  <2>2. Len(L) = mid - lo + 1 /\ \A a \in 1 .. mid - lo + 1 : L[a] = f[lo + a - 1]
    BY CopyIs
  <2>3. Len(R) = hi - mid /\ \A b \in 1 .. hi - mid : R[b] = f[mid + 1 + b - 1]
    <3>1. Len(CopyOf(f, c, hi)) = hi - c + 1 /\ \A b \in 1 .. hi - c + 1 : CopyOf(f, c, hi)[b] = f[c + b - 1]
      <4>1. c <= hi
        BY <2>1, <2>5
      <4> QED BY <4>1, CopyIs
    <3> QED BY <2>1, <2>5, <3>1
  <2>4. \A b \in 1 .. hi - mid : mid + 1 + b - 1 = mid + b
    OBVIOUS
  <2> QED BY <2>2, <2>3, <2>4
<1> HIDE DEF L, R
<1>2. Len(L) \in Nat /\ Len(R) \in Nat /\ Len(L) + Len(R) = hi - lo + 1
  BY <1>1
<1>3. (\A a \in 1 .. Len(L) : L[a] \in V) /\ (\A b \in 1 .. Len(R) : R[b] \in V)
  BY <1>1
<1>4. Ordered(L, 1, Len(L)) /\ Ordered(R, 1, Len(R))
  <2>1. Ordered(L, 1, mid - lo + 1)
    BY CopyOrdered DEF L
  <2>2. Ordered(R, 1, hi - (mid + 1) + 1)
    BY CopyOrdered DEF R
  <2>3. hi - (mid + 1) + 1 = hi - mid
    OBVIOUS
  <2> QED BY <1>1, <2>1, <2>2, <2>3
<1>5. g = [k \in 0 .. N - 1 |-> IF k \in lo .. hi THEN out[k - lo + 1] ELSE f[k]]
  BY DEF MergedInto, L, R
<1>6. /\ \A k \in lo .. hi : g[k] = out[k - lo + 1]
      /\ \A k \in 0 .. N - 1 : k \notin lo .. hi => g[k] = f[k]
      /\ DOMAIN g = 0 .. N - 1 /\ g = [k \in 0 .. N - 1 |-> g[k]]
  BY <1>5
<1> HIDE DEF g
<1>7. ASSUME NEW k \in 1 .. hi - lo + 1 PROVE out[k] \in V
  BY <1>2, <1>3, MergedFrom
<1>8. Ordered(out, 1, hi - lo + 1)
  BY <1>2, <1>3, <1>4, MergedOrdered
<1>9. ASSUME NEW x PROVE Count(out, 1, hi - lo + 1, x) = Count(L, 1, Len(L), x) + Count(R, 1, Len(R), x)
  BY <1>2, MergedCount
<1> HIDE DEF out
<1>10. g \in [0 .. N - 1 -> V]
  <2> SUFFICES ASSUME NEW k \in 0 .. N - 1 PROVE g[k] \in V
    BY <1>6
  <2>1. CASE k \in lo .. hi
    <3>1. k - lo + 1 \in 1 .. hi - lo + 1
      BY <2>1
    <3> QED BY <2>1, <3>1, <1>6, <1>7
  <2> QED BY <2>1, <1>6
<1>11. Ordered(g, lo, hi)
  <2> SUFFICES ASSUME NEW k \in lo .. hi - 1 PROVE g[k] <= g[k + 1]
    BY DEF Ordered
  <2>1. PICK m \in 1 .. hi - lo + 1 - 1 : m = k - lo + 1 /\ m + 1 = (k + 1) - lo + 1
    <3>1. k - lo + 1 \in 1 .. hi - lo + 1 - 1 /\ k - lo + 1 + 1 = (k + 1) - lo + 1
      OBVIOUS
    <3> QED BY <3>1
  <2>2. g[k] = out[m] /\ g[k + 1] = out[m + 1]
    <3>1. PICK c \in lo .. hi : c = k + 1
      OBVIOUS
    <3>2. g[c] = out[c - lo + 1] /\ c - lo + 1 = m + 1
      BY <1>6, <2>1, <3>1
    <3>4. k \in lo .. hi
      OBVIOUS
    <3>3. g[k] = out[k - lo + 1]
      BY <1>6, <3>4
    <3> QED BY <2>1, <3>1, <3>2, <3>3
  <2> QED BY <1>8, <2>1, <2>2 DEF Ordered
<1>12. ASSUME NEW x PROVE Count(g, 0, N - 1, x) = Count(f, 0, N - 1, x)
  <2>1. Count(g, lo, hi, x) = Count(out, 1, hi - lo + 1, x)
    <3>1. \A k \in 1 .. hi - lo + 1 : g[k + (lo - 1)] = out[k]
      <4> SUFFICES ASSUME NEW k \in 1 .. hi - lo + 1 PROVE g[k + (lo - 1)] = out[k]
        OBVIOUS
      <4>1. PICK m \in lo .. hi : m = k + (lo - 1) /\ m - lo + 1 = k
        <5>1. k + (lo - 1) \in lo .. hi /\ k + (lo - 1) - lo + 1 = k
          OBVIOUS
        <5> QED BY <5>1
      <4> QED BY <1>6, <4>1
    <3>2. PICK d \in Int, h \in Int : d = lo - 1 /\ h = hi - lo + 1 /\ 1 + d = lo /\ h + d = hi
      <4>1. lo - 1 \in Int /\ hi - lo + 1 \in Int /\ 1 + (lo - 1) = lo /\ hi - lo + 1 + (lo - 1) = hi
        OBVIOUS
      <4> QED BY <4>1
    <3>3. PICK o \in Int : o = 1
      OBVIOUS
    <3>4. \A k \in o .. h : g[k + d] = out[k]
      BY <3>1, <3>2, <3>3
    <3>5. Count(g, o + d, h + d, x) = Count(out, o, h, x)
      BY <3>4, CountShift
    <3> QED BY <3>2, <3>3, <3>5
  <2>2. Count(L, 1, Len(L), x) = Count(f, lo, mid, x)
    BY <1>1, CopyCount DEF L
  <2>3. Count(R, 1, Len(R), x) = Count(f, mid + 1, hi, x)
    <3>1. Count(R, 1, hi - (mid + 1) + 1, x) = Count(f, mid + 1, hi, x)
      BY CopyCount DEF R
    <3>2. hi - (mid + 1) + 1 = hi - mid
      OBVIOUS
    <3> QED BY <1>1, <3>1, <3>2
  <2>4. Count(f, lo, hi, x) = Count(f, lo, mid, x) + Count(f, mid + 1, hi, x)
    BY CountSplit
  <2>5. Count(g, lo, hi, x) = Count(f, lo, hi, x)
    BY <1>9, <2>1, <2>2, <2>3, <2>4
  <2>6. Count(g, 0, lo - 1, x) = Count(f, 0, lo - 1, x)
    <3>1. Among(g, 0, lo - 1, x) = Among(f, 0, lo - 1, x)
      BY <1>6 DEF Among
    <3> QED BY <3>1 DEF Count
  <2>7. Count(g, hi + 1, N - 1, x) = Count(f, hi + 1, N - 1, x)
    <3>1. Among(g, hi + 1, N - 1, x) = Among(f, hi + 1, N - 1, x)
      BY <1>6 DEF Among
    <3> QED BY <3>1 DEF Count
  <2>8. lo - 1 \in Int /\ 0 <= lo - 1 + 1 /\ lo - 1 <= N - 1 /\ lo - 1 + 1 = lo
    OBVIOUS
  <2>9. ASSUME NEW e
        PROVE  Count(e, 0, N - 1, x) = Count(e, 0, lo - 1, x) + (Count(e, lo, hi, x) + Count(e, hi + 1, N - 1, x))
    <3>3. PICK c \in Int, l \in Int : c = lo - 1 /\ c + 1 = lo /\ l = N - 1
      BY <2>8
    <3>4. Count(e, 0, l, x) = Count(e, 0, c, x) + Count(e, c + 1, l, x)
      <4>1. 0 <= c + 1 /\ c <= l
        BY <2>8, <3>3
      <4> QED BY <4>1, CountSplit
    <3>1. Count(e, 0, N - 1, x) = Count(e, 0, lo - 1, x) + Count(e, lo, N - 1, x)
      BY <3>3, <3>4
    <3>2. Count(e, lo, N - 1, x) = Count(e, lo, hi, x) + Count(e, hi + 1, N - 1, x)
      BY CountSplit
    <3> QED BY <3>1, <3>2
  <2> QED BY <2>5, <2>6, <2>7, <2>9
<1> QED BY <1>6, <1>10, <1>11, <1>12 DEF PutsInOrder, g

-----------------------------------------------------------------------------
(* How the calls under way lie to each other.  f says where the call for   *)
(* each segment of S is.                                                   *)

IsSegments(S) == S \subseteq Int \X Int /\ \A s \in S : s[1] <= s[2]

Within(s, t) == t[1] <= s[1] /\ s[2] <= t[2]
Apart(s, t) == s[2] < t[1] \/ t[2] < s[1]

\* The call for s was made for that of t, which waits for it: to the right half
\* only after the left one, or with it, and until it has returned.
Under(f, s, t) ==
  /\ Sort!Splits(t)
  /\ Within(s, Sort!LeftHalf(t)) \/ (Within(s, Sort!RightHalf(t)) /\ f[t] # "left")
  /\ f[t] \in {"left", "join", "returned"}
  /\ f[t] = "returned" => f[s] = "returned"

Nested(f, S) ==
  \A s, t \in S :
    f[s] # "none" /\ f[t] # "none" /\ s # t => Apart(s, t) \/ Under(f, s, t) \/ Under(f, t, s)

LEMMA SameBounds ==
  ASSUME NEW S, IsSegments(S), NEW s \in S, NEW t \in S, s[1] = t[1], s[2] = t[2]
  PROVE  s = t
<1>1. s = <<s[1], s[2]>> /\ t = <<t[1], t[2]>>
  BY DEF IsSegments
<1> QED BY <1>1

LEMMA HalvesAre ==
  ASSUME NEW s \in Int \X Int, Sort!Splits(s)
  PROVE  /\ Sort!Middle(s) \in Int /\ s[1] <= Sort!Middle(s) /\ Sort!Middle(s) < s[2]
         /\ Sort!LeftHalf(s)[1] = s[1] /\ Sort!LeftHalf(s)[2] = Sort!Middle(s)
         /\ Sort!RightHalf(s)[1] = Sort!Middle(s) + 1 /\ Sort!RightHalf(s)[2] = s[2]
         /\ Sort!LeftHalf(s) \in Int \X Int /\ Sort!RightHalf(s) \in Int \X Int
<1>1. s[1] \in Int /\ s[2] \in Int /\ s[1] < s[2]
  BY DEF Sort!Splits
<1>2. PICK d \in Nat : d = s[2] - s[1] /\ d > 0
  BY <1>1
<1>3. d \div 2 \in Nat /\ d \div 2 < d
  BY <1>2
<1>4. Sort!Middle(s) = s[1] + (d \div 2)
  BY <1>2 DEF Sort!Middle
<1>5. Sort!Middle(s) \in Int /\ s[1] <= Sort!Middle(s) /\ Sort!Middle(s) < s[2]
  BY <1>1, <1>2, <1>3, <1>4
<1> QED BY <1>1, <1>5 DEF Sort!LeftHalf, Sort!RightHalf

\* Calls for one half of t or both.
LEMMA CalledNested ==
  ASSUME NEW S, IsSegments(S), NEW f, NEW g, Nested(f, S),
         NEW t \in S, Sort!Splits(t), NEW H \in SUBSET {Sort!LeftHalf(t), Sort!RightHalf(t)},
         \/ f[t] = "called"
         \/ f[t] = "left" /\ H = {Sort!RightHalf(t)},
         \/ g[t] = "join"
         \/ g[t] = "left" /\ H = {Sort!LeftHalf(t)},
         \A h \in H : g[h] = "called",
         \A s \in S : s # t /\ s \notin H => g[s] = f[s]
  PROVE  Nested(g, S)
<1> DEFINE Lie(s, u) == Apart(s, u) \/ Under(g, s, u) \/ Under(g, u, s)
           l == Sort!LeftHalf(t)
           r == Sort!RightHalf(t)
           m == Sort!Middle(t)
<1>1. /\ t \in Int \X Int /\ t[1] \in Int /\ t[2] \in Int /\ m \in Int /\ t[1] <= m /\ m < t[2]
      /\ l[1] = t[1] /\ l[2] = m /\ r[1] = m + 1 /\ r[2] = t[2]
  BY HalvesAre DEF IsSegments
<1>2. \A s \in S : s[1] \in Int /\ s[2] \in Int /\ s[1] <= s[2]
  BY DEF IsSegments
<1>3. H \subseteq {l, r} /\ t \notin H
  BY <1>1
<1> HIDE DEF l, r, m
<1>4. ASSUME NEW s \in H, NEW u \in H, s # u PROVE Apart(s, u)
  BY <1>1, <1>3, <1>4 DEF Apart
<1>5. ASSUME NEW s \in H PROVE Under(g, s, t)
  <2>1. s = l => Within(s, l)
    BY <1>1 DEF Within
  <2>2. s = r => Within(s, r) /\ (g[t] # "left")
    BY <1>1 DEF Within, l, r
  <2> QED BY <1>3, <2>1, <2>2 DEF Under, l, r
<1>6. ASSUME NEW u \in S, u # t, u \notin H, g[u] # "none"
      PROVE  /\ g[u] = f[u]
             /\ \/ Apart(t, u)
                \/ Under(f, t, u)
                \/ Under(f, u, t) /\ f[t] = "left" /\ Within(u, l) /\ H = {r}
  <2>1. g[u] = f[u] /\ f[t] # "none"
    BY <1>6
  <2>2. Apart(t, u) \/ Under(f, t, u) \/ Under(f, u, t)
    BY <1>6, <2>1 DEF Nested
  <2>3. Under(f, u, t) => f[t] = "left" /\ Within(u, l) /\ H = {r}
    BY DEF Under, l, r
  <2> QED BY <2>1, <2>2, <2>3
<1>7. ASSUME NEW u \in S, u # t, u \notin H, g[u] # "none" PROVE Lie(t, u)
  <2>1. Under(f, t, u) => Under(g, t, u)
    BY <1>6, <1>7 DEF Under
  <2>2. Under(f, u, t) /\ f[t] = "left" /\ Within(u, l) => Under(g, u, t)
    BY <1>3, <1>6, <1>7 DEF Under, l, r
  <2> QED BY <1>6, <1>7, <2>1, <2>2
<1>8. ASSUME NEW s \in H, NEW u \in S, u # t, u \notin H, g[u] # "none" PROVE Lie(s, u)
  <2>1. s[1] \in Int /\ s[2] \in Int /\ t[1] <= s[1] /\ s[2] <= t[2]
    BY <1>1, <1>3
  <2>2. CASE Apart(t, u)
    BY <1>1, <1>2, <2>1, <2>2 DEF Apart
  <2>3. CASE Under(f, t, u)
    <3>1. Sort!Splits(u) /\ u \in Int \X Int
      BY <2>3 DEF Under, IsSegments
    <3>2. /\ Sort!LeftHalf(u)[1] \in Int /\ Sort!LeftHalf(u)[2] \in Int
          /\ Sort!RightHalf(u)[1] \in Int /\ Sort!RightHalf(u)[2] \in Int
      BY <1>2, <3>1, HalvesAre
    <3>3. /\ Within(t, Sort!LeftHalf(u)) => Within(s, Sort!LeftHalf(u))
          /\ Within(t, Sort!RightHalf(u)) => Within(s, Sort!RightHalf(u))
      BY <1>1, <2>1, <3>2 DEF Within
    <3>4. g[u] = f[u] /\ f[u] # "returned"
      BY <1>6, <1>8, <2>3 DEF Under
    <3> QED BY <2>3, <3>3, <3>4 DEF Under
  <2>4. CASE Within(u, l) /\ H = {r}
    <3>1. s = r /\ u[2] <= m
      BY <1>1, <2>4 DEF Within
    <3> QED BY <1>1, <1>2, <3>1 DEF Apart
  <2> QED BY <1>6, <1>8, <2>2, <2>3, <2>4
<1>9. ASSUME NEW s \in S, NEW u \in S, g[s] # "none", g[u] # "none", s # u,
             s \notin H, u \notin H, s # t, u # t
      PROVE  Lie(s, u)
  <2>1. g[s] = f[s] /\ g[u] = f[u]
    BY <1>9
  <2>2. Apart(s, u) \/ Under(f, s, u) \/ Under(f, u, s)
    BY <1>9, <2>1 DEF Nested
  <2> QED BY <2>1, <2>2 DEF Under
<1>10. \A s, u : Apart(s, u) <=> Apart(u, s)
  BY DEF Apart
<1> SUFFICES ASSUME NEW s \in S, NEW u \in S, g[s] # "none", g[u] # "none", s # u PROVE Lie(s, u)
  BY DEF Nested
<1>11. CASE s \in H
  BY <1>4, <1>5, <1>8, <1>11
<1>12. CASE s = t
  BY <1>5, <1>7, <1>12
<1>13. CASE s \notin H /\ s # t
  <2>1. CASE u \in H
    BY <1>8, <1>10, <1>13, <2>1
  <2>2. CASE u = t
    BY <1>7, <1>10, <1>13, <2>2
  <2> QED BY <1>9, <1>13, <2>1, <2>2
<1> QED BY <1>11, <1>12, <1>13

\* The call for t returns, when those under it have.
LEMMA ReturnedNested ==
  ASSUME NEW S, IsSegments(S), NEW f, NEW g, Nested(f, S), NEW t \in S,
         f[t] \in {"called", "join"}, g[t] = "returned",
         \A s \in S : s # t => g[s] = f[s],
         \A s \in S : f[s] # "none" /\ s # t /\ Under(f, s, t) => f[s] = "returned"
  PROVE  Nested(g, S)
<1> SUFFICES ASSUME NEW s \in S, NEW u \in S, g[s] # "none", g[u] # "none", s # u
             PROVE  Apart(s, u) \/ Under(g, s, u) \/ Under(g, u, s)
  BY DEF Nested
<1>1. f[s] # "none" /\ f[u] # "none"
  OBVIOUS
<1>2. Apart(s, u) \/ Under(f, s, u) \/ Under(f, u, s)
  BY <1>1 DEF Nested
<1>3. ASSUME NEW a \in S, NEW b \in S, a # b, f[a] # "none", Under(f, a, b) PROVE Under(g, a, b)
  <2>1. CASE b = t
    <3>1. f[a] = "returned" /\ g[a] = f[a]
      BY <1>3, <2>1
    <3> QED BY <1>3, <2>1, <3>1 DEF Under
  <2>2. CASE b # t
    <3>1. g[b] = f[b] /\ (f[b] = "returned" => g[a] = "returned")
      BY <1>3, <2>2 DEF Under
    <3> QED BY <1>3, <3>1 DEF Under
  <2> QED BY <2>1, <2>2
<1> QED BY <1>1, <1>2, <1>3

\* What is under t is under one of its halves, or is one.
LEMMA HalvesReturned ==
  ASSUME NEW S, IsSegments(S), NEW f, Nested(f, S), NEW t \in S,
         Sort!LeftHalf(t) \in S, Sort!RightHalf(t) \in S,
         f[Sort!LeftHalf(t)] = "returned", f[Sort!RightHalf(t)] = "returned",
         NEW s \in S, f[s] # "none", Under(f, s, t)
  PROVE  f[s] = "returned"
<1>1. PICK h \in S : f[h] = "returned" /\ Within(s, h)
  BY DEF Under
<1>2. CASE s = h
  BY <1>1, <1>2
<1>3. CASE s # h
  <2>1. Apart(s, h) \/ Under(f, s, h) \/ Under(f, h, s)
    BY <1>1, <1>3 DEF Nested
  <2>2. s[1] \in Int /\ s[2] \in Int /\ s[1] <= s[2] /\ h[1] \in Int /\ h[2] \in Int /\ h[1] <= h[2]
    BY DEF IsSegments
  <2>3. ~ Apart(s, h)
    BY <1>1, <2>2 DEF Apart, Within
  <2>4. ~ Under(f, h, s)
    <3>1. SUFFICES ASSUME Under(f, h, s) PROVE FALSE
      OBVIOUS
    <3>2. /\ Sort!Middle(s) \in Int /\ s[1] <= Sort!Middle(s) /\ Sort!Middle(s) < s[2]
          /\ Sort!LeftHalf(s)[1] = s[1] /\ Sort!LeftHalf(s)[2] = Sort!Middle(s)
          /\ Sort!RightHalf(s)[1] = Sort!Middle(s) + 1 /\ Sort!RightHalf(s)[2] = s[2]
      BY <3>1, HalvesAre DEF Under, IsSegments
    <3>3. Within(h, Sort!LeftHalf(s)) \/ Within(h, Sort!RightHalf(s))
      BY <3>1 DEF Under
    <3> QED BY <1>1, <2>2, <3>2, <3>3 DEF Within
  <2> QED BY <1>1, <2>1, <2>3, <2>4 DEF Under
<1> QED BY <1>2, <1>3

-----------------------------------------------------------------------------
(* The invariant of ThreadedSort                                           *)

Root == <<0, Sort!n - 1>>

SortTypes ==
  /\ size \in Sizes
  /\ input \in [0 .. Sort!n - 1 -> Values]
  /\ calls \in [Sort!Segments -> {"none", "called", "left", "join", "returned"}]
  /\ \A s \in Sort!Segments : calls[s] \in {"left", "join"} => Sort!Splits(s)
  /\ calls[Root] # "none"
  /\ printed => calls[Root] = "returned"

\* A segment whose call has returned is in order, and stays so; no number has
\* been lost or made up.
InOrder ==
  /\ vet \in [0 .. Sort!n - 1 -> Values]
  /\ \A s \in Sort!Segments : calls[s] = "returned" => Ordered(vet, s[1], s[2])
  /\ \A x : Count(vet, 0, Sort!n - 1, x) = Count(input, 0, Sort!n - 1, x)

SortedSoFar == SortTypes /\ Nested(calls, Sort!Segments) /\ (~ overrun => InOrder)

LEMMA SegmentsAre ==
  ASSUME size \in Sizes
  PROVE  /\ Sort!n \in Nat /\ Sort!n > 0 /\ Root \in Sort!Segments
         /\ IsSegments(Sort!Segments)
         /\ \A s \in Sort!Segments : s[1] \in 0 .. Sort!n - 1 /\ s[2] \in 0 .. Sort!n - 1
         /\ \A s \in Sort!Segments : Sort!Splits(s) =>
              Sort!LeftHalf(s) \in Sort!Segments /\ Sort!RightHalf(s) \in Sort!Segments
<1>1. Sort!n \in Nat /\ Sort!n > 0
  BY SortAssumption DEF Sort!n
<1>2. Root \in Sort!Segments
  BY <1>1 DEF Root, Sort!Segments
<1>3. \A s \in Sort!Segments : s[1] \in 0 .. Sort!n - 1 /\ s[2] \in 0 .. Sort!n - 1
  BY DEF Sort!Segments
<1>4. IsSegments(Sort!Segments)
  BY <1>1 DEF Sort!Segments, IsSegments
<1>5. ASSUME NEW s \in Sort!Segments, Sort!Splits(s)
      PROVE  Sort!LeftHalf(s) \in Sort!Segments /\ Sort!RightHalf(s) \in Sort!Segments
  <2>1. /\ Sort!Middle(s) \in Int /\ s[1] <= Sort!Middle(s) /\ Sort!Middle(s) < s[2]
    BY <1>4, <1>5, HalvesAre DEF IsSegments
  <2>2. Sort!Middle(s) \in 0 .. Sort!n - 1 /\ Sort!Middle(s) + 1 \in 0 .. Sort!n - 1
    BY <1>1, <1>3, <2>1
  <2>3. /\ <<s[1], Sort!Middle(s)>> \in Sort!Segments
        /\ <<Sort!Middle(s) + 1, s[2]>> \in Sort!Segments
    BY <1>3, <2>1, <2>2 DEF Sort!Segments
  <2> QED BY <2>3 DEF Sort!LeftHalf, Sort!RightHalf
<1> QED BY <1>1, <1>2, <1>3, <1>4, <1>5

\* When the first call has returned no other is under way.
LEMMA RootIsLast ==
  ASSUME SortedSoFar, NEW s \in Sort!Segments, calls[s] # "none", calls[Root] = "returned"
  PROVE  calls[s] = "returned"
<1>1. /\ size \in Sizes /\ Nested(calls, Sort!Segments)
      /\ calls[Root] # "none"
  BY DEF SortedSoFar, SortTypes
<1>2. CASE s = Root
  BY <1>2
<1>3. CASE s # Root
  <2>1. /\ Root \in Sort!Segments /\ s \in Int \X Int
        /\ s[1] \in 0 .. Sort!n - 1 /\ s[2] \in 0 .. Sort!n - 1 /\ s[1] <= s[2]
        /\ Sort!n \in Nat /\ Root[1] = 0 /\ Root[2] = Sort!n - 1
    BY <1>1, SegmentsAre DEF IsSegments, Root
  <2>2. Apart(s, Root) \/ Under(calls, s, Root) \/ Under(calls, Root, s)
    BY <1>1, <1>3, <2>1 DEF Nested
  <2>3. ~ Apart(s, Root)
    BY <2>1 DEF Apart
  <2>4. ~ Under(calls, Root, s)
    <3>1. SUFFICES ASSUME Under(calls, Root, s) PROVE FALSE
      OBVIOUS
    <3>2. /\ Sort!Middle(s) \in Int /\ s[1] <= Sort!Middle(s) /\ Sort!Middle(s) < s[2]
          /\ Sort!LeftHalf(s)[2] = Sort!Middle(s) /\ Sort!RightHalf(s)[1] = Sort!Middle(s) + 1
      BY <2>1, <3>1, HalvesAre DEF Under
    <3>3. Within(Root, Sort!LeftHalf(s)) \/ Within(Root, Sort!RightHalf(s))
      BY <3>1 DEF Under
    <3> QED BY <2>1, <3>2, <3>3 DEF Within
  <2> QED BY <2>2, <2>3, <2>4 DEF Under
<1> QED BY <1>2, <1>3

LEMMA InitSorted == Sort!Init => SortedSoFar
<1> SUFFICES ASSUME Sort!Init PROVE SortedSoFar
  OBVIOUS
<1>1. /\ size \in Sizes /\ input \in [0 .. Sort!n - 1 -> Values] /\ vet = input
      /\ calls = [s \in Sort!Segments |-> IF s = Root THEN "called" ELSE "none"]
      /\ printed = FALSE
  BY DEF Sort!Init, Root
<1>2. Root \in Sort!Segments
  BY <1>1, SegmentsAre
<1>3. SortTypes
  BY <1>1, <1>2 DEF SortTypes
<1>4. Nested(calls, Sort!Segments)
  BY <1>1 DEF Nested
<1>5. InOrder
  BY <1>1 DEF InOrder
<1> QED BY <1>3, <1>4, <1>5 DEF SortedSoFar

\* Calls are made for halves of t; nothing is moved.
LEMMA CalledSorted ==
  ASSUME SortedSoFar, NEW t \in Sort!Segments, Sort!Splits(t),
         NEW H \in SUBSET {Sort!LeftHalf(t), Sort!RightHalf(t)},
         calls[t] = "called" \/ (calls[t] = "left" /\ H = {Sort!RightHalf(t)}),
         NEW x, x = "join" \/ (x = "left" /\ H = {Sort!LeftHalf(t)}),
         calls' \in [Sort!Segments -> {"none", "called", "left", "join", "returned"}],
         calls'[t] = x, \A h \in H : calls'[h] = "called",
         \A s \in Sort!Segments : s # t /\ s \notin H => calls'[s] = calls[s],
         UNCHANGED <<size, input, vet, overrun, printed>>
  PROVE  SortedSoFar'
<1>1. /\ size \in Sizes /\ calls[t] # "none" /\ calls[t] # "returned"
      /\ calls \in [Sort!Segments -> {"none", "called", "left", "join", "returned"}]
      /\ Nested(calls, Sort!Segments)
  BY DEF SortedSoFar, SortTypes
<1>2. /\ IsSegments(Sort!Segments) /\ Root \in Sort!Segments
      /\ Sort!LeftHalf(t) \in Sort!Segments /\ Sort!RightHalf(t) \in Sort!Segments
  BY <1>1, SegmentsAre
<1>3. Sort!Segments' = Sort!Segments /\ Sort!n' = Sort!n /\ Root' = Root
  BY DEF Sort!Segments, Sort!n, Root
<1>6. Nested(calls', Sort!Segments)
  BY <1>1, <1>2, CalledNested
<1>7. ~ printed
  BY <1>1, RootIsLast DEF SortedSoFar, SortTypes
<1>8. SortTypes'
  <2>1. calls' \in [Sort!Segments -> {"none", "called", "left", "join", "returned"}]
    OBVIOUS
  <2>2. \A s \in Sort!Segments : calls'[s] \in {"left", "join"} => Sort!Splits(s)
    BY DEF SortedSoFar, SortTypes
  <2>3. calls'[Root] # "none"
    BY <1>2 DEF SortedSoFar, SortTypes
  <2>4. size' \in Sizes /\ input' \in [0 .. Sort!n - 1 -> Values]
    BY DEF SortedSoFar, SortTypes
  <2> QED BY <1>3, <1>7, <2>1, <2>2, <2>3, <2>4 DEF SortTypes, Sort!Splits
<1>9. ASSUME ~ overrun PROVE InOrder'
  <2>1. InOrder
    BY <1>9 DEF SortedSoFar
  <2>2. \A s \in Sort!Segments : calls'[s] = "returned" => calls[s] = "returned"
    BY <1>1
  <2> QED BY <1>3, <2>1, <2>2 DEF InOrder
<1> QED BY <1>3, <1>6, <1>8, <1>9 DEF SortedSoFar

\* The call for t returns, with its numbers in order.
LEMMA ReturnedSorted ==
  ASSUME SortedSoFar, NEW t \in Sort!Segments, calls[t] \in {"called", "join"},
         calls' = [calls EXCEPT ![t] = "returned"],
         \A s \in Sort!Segments : calls[s] # "none" /\ s # t /\ Under(calls, s, t) => calls[s] = "returned",
         UNCHANGED <<size, input, printed>>,
         ~ overrun' => ~ overrun,
         ~ overrun' => vet' \in [0 .. Sort!n - 1 -> Values],
         ~ overrun' => Ordered(vet', t[1], t[2]),
         ~ overrun' => \A k \in 0 .. Sort!n - 1 : k \notin t[1] .. t[2] => vet'[k] = vet[k],
         ~ overrun' => \A x : Count(vet', 0, Sort!n - 1, x) = Count(vet, 0, Sort!n - 1, x)
  PROVE  SortedSoFar'
<1>1. /\ size \in Sizes /\ calls[t] # "none" /\ calls[t] # "returned"
      /\ calls \in [Sort!Segments -> {"none", "called", "left", "join", "returned"}]
      /\ Nested(calls, Sort!Segments)
  BY DEF SortedSoFar, SortTypes
<1>2. IsSegments(Sort!Segments) /\ Root \in Sort!Segments
  BY <1>1, SegmentsAre
<1>3. Sort!Segments' = Sort!Segments /\ Sort!n' = Sort!n /\ Root' = Root
  BY DEF Sort!Segments, Sort!n, Root
<1>5. /\ calls'[t] = "returned"
      /\ \A s \in Sort!Segments : s # t => calls'[s] = calls[s]
  BY <1>1
<1>6. Nested(calls', Sort!Segments)
  BY <1>1, <1>2, <1>5, ReturnedNested
<1>7. ~ printed
  BY <1>1, RootIsLast DEF SortedSoFar, SortTypes
<1>8. SortTypes'
  <2>1. calls' \in [Sort!Segments -> {"none", "called", "left", "join", "returned"}]
    BY <1>1
  <2>2. \A s \in Sort!Segments : calls'[s] \in {"left", "join"} => Sort!Splits(s)
    BY <1>5 DEF SortedSoFar, SortTypes
  <2>3. calls'[Root] # "none"
    BY <1>2, <1>5 DEF SortedSoFar, SortTypes
  <2>4. size' \in Sizes /\ input' \in [0 .. Sort!n - 1 -> Values]
    BY DEF SortedSoFar, SortTypes
  <2> QED BY <1>3, <1>7, <2>1, <2>2, <2>3, <2>4 DEF SortTypes, Sort!Splits
<1>9. ASSUME ~ overrun' PROVE InOrder'
  <2>1. InOrder
    BY <1>9 DEF SortedSoFar
  <2>2. ASSUME NEW s \in Sort!Segments, calls'[s] = "returned" PROVE Ordered(vet', s[1], s[2])
    <3>1. CASE s = t
      BY <1>9, <3>1
    <3>2. CASE s # t
      <4>1. calls[s] = "returned" /\ Ordered(vet, s[1], s[2])
        BY <1>5, <2>1, <2>2, <3>2 DEF InOrder
      <4>2. Apart(s, t) \/ Under(calls, s, t)
        BY <1>1, <3>2, <4>1 DEF Nested, Under
      <4>3. /\ s \in Int \X Int /\ t \in Int \X Int
            /\ s[1] \in 0 .. Sort!n - 1 /\ s[2] \in 0 .. Sort!n - 1
            /\ t[1] \in 0 .. Sort!n - 1 /\ t[2] \in 0 .. Sort!n - 1 /\ Sort!n \in Nat
        BY <1>1, <1>2, SegmentsAre DEF IsSegments
      <4>4. CASE Apart(s, t)
        <5>1. \A k \in s[1] .. s[2] : vet'[k] = vet[k]
          BY <1>9, <4>3, <4>4 DEF Apart
        <5> QED BY <4>1, <4>3, <5>1 DEF Ordered
      <4>5. CASE Under(calls, s, t)
        <5>1. t[1] <= s[1] /\ s[2] <= t[2]
          BY <4>3, <4>5, HalvesAre DEF Under, Within
        <5> QED BY <1>9, <4>3, <5>1 DEF Ordered
      <4> QED BY <4>2, <4>4, <4>5
    <3> QED BY <3>1, <3>2
  <2> QED BY <1>3, <1>9, <2>1, <2>2 DEF InOrder
<1> QED BY <1>3, <1>6, <1>8, <1>9 DEF SortedSoFar

LEMMA NextSorted == SortedSoFar /\ [Sort!Next]_(Sort!vars) => SortedSoFar'
<1> SUFFICES ASSUME SortedSoFar, [Sort!Next]_(Sort!vars) PROVE SortedSoFar'
  OBVIOUS
<1>1. /\ size \in Sizes
      /\ calls \in [Sort!Segments -> {"none", "called", "left", "join", "returned"}]
  BY DEF SortedSoFar, SortTypes
<1>2. /\ IsSegments(Sort!Segments) /\ Root \in Sort!Segments
      /\ Sort!n \in Nat
      /\ \A s \in Sort!Segments : s[1] \in 0 .. Sort!n - 1 /\ s[2] \in 0 .. Sort!n - 1
      /\ \A s \in Sort!Segments : Sort!Splits(s) =>
           Sort!LeftHalf(s) \in Sort!Segments /\ Sort!RightHalf(s) \in Sort!Segments
  BY <1>1, SegmentsAre
<1>3. ASSUME NEW t \in Sort!Segments, Sort!Create(t) PROVE SortedSoFar'
  <2> PICK H \in SUBSET {Sort!LeftHalf(t), Sort!RightHalf(t)} : H = {Sort!LeftHalf(t), Sort!RightHalf(t)}
    OBVIOUS
  <2> PICK x : x = "join"
    OBVIOUS
  <2>1. /\ Sort!Splits(t) /\ calls[t] = "called"
        /\ UNCHANGED <<size, input, vet, overrun, printed>>
        /\ calls' = [calls EXCEPT ![t] = "join", ![Sort!LeftHalf(t)] = "called",
                                  ![Sort!RightHalf(t)] = "called"]
    BY <1>3 DEF Sort!Create
  <2>2. t \notin H
    BY <1>2, <2>1, HalvesAre DEF IsSegments
  <2>3. /\ calls' \in [Sort!Segments -> {"none", "called", "left", "join", "returned"}]
        /\ calls'[t] = x /\ \A h \in H : calls'[h] = "called"
        /\ \A s \in Sort!Segments : s # t /\ s \notin H => calls'[s] = calls[s]
    BY <1>1, <1>2, <2>1, <2>2
  <2>4. calls[t] = "called" \/ (calls[t] = "left" /\ H = {Sort!RightHalf(t)})
    BY <2>1
  <2>5. x = "join" \/ (x = "left" /\ H = {Sort!LeftHalf(t)})
    OBVIOUS
  <2> QED BY <2>1, <2>3, <2>4, <2>5, CalledSorted
<1>4. ASSUME NEW t \in Sort!Segments, Sort!CallLeft(t) PROVE SortedSoFar'
  <2> PICK H \in SUBSET {Sort!LeftHalf(t), Sort!RightHalf(t)} : H = {Sort!LeftHalf(t)}
    OBVIOUS
  <2> PICK x : x = "left"
    OBVIOUS
  <2>1. /\ Sort!Splits(t) /\ calls[t] = "called"
        /\ UNCHANGED <<size, input, vet, overrun, printed>>
        /\ calls' = [calls EXCEPT ![t] = "left", ![Sort!LeftHalf(t)] = "called"]
    BY <1>4 DEF Sort!CallLeft
  <2>2. t \notin H
    BY <1>2, <2>1, HalvesAre DEF IsSegments
  <2>3. /\ calls' \in [Sort!Segments -> {"none", "called", "left", "join", "returned"}]
        /\ calls'[t] = x /\ \A h \in H : calls'[h] = "called"
        /\ \A s \in Sort!Segments : s # t /\ s \notin H => calls'[s] = calls[s]
    BY <1>1, <1>2, <2>1, <2>2
  <2>4. calls[t] = "called" \/ (calls[t] = "left" /\ H = {Sort!RightHalf(t)})
    BY <2>1
  <2>5. x = "join" \/ (x = "left" /\ H = {Sort!LeftHalf(t)})
    OBVIOUS
  <2> QED BY <2>1, <2>3, <2>4, <2>5, CalledSorted
<1>5. ASSUME NEW t \in Sort!Segments, Sort!CallRight(t) PROVE SortedSoFar'
  <2> PICK H \in SUBSET {Sort!LeftHalf(t), Sort!RightHalf(t)} : H = {Sort!RightHalf(t)}
    OBVIOUS
  <2> PICK x : x = "join"
    OBVIOUS
  <2>1. /\ calls[t] = "left" /\ Sort!Splits(t)
        /\ UNCHANGED <<size, input, vet, overrun, printed>>
        /\ calls' = [calls EXCEPT ![t] = "join", ![Sort!RightHalf(t)] = "called"]
    BY <1>5 DEF Sort!CallRight, SortedSoFar, SortTypes
  <2>2. t \notin H
    BY <1>2, <2>1, HalvesAre DEF IsSegments
  <2>3. /\ calls' \in [Sort!Segments -> {"none", "called", "left", "join", "returned"}]
        /\ calls'[t] = x /\ \A h \in H : calls'[h] = "called"
        /\ \A s \in Sort!Segments : s # t /\ s \notin H => calls'[s] = calls[s]
    BY <1>1, <1>2, <2>1, <2>2
  <2>4. calls[t] = "called" \/ (calls[t] = "left" /\ H = {Sort!RightHalf(t)})
    BY <2>1
  <2>5. x = "join" \/ (x = "left" /\ H = {Sort!LeftHalf(t)})
    OBVIOUS
  <2> QED BY <2>1, <2>3, <2>4, <2>5, CalledSorted
<1>6. ASSUME NEW t \in Sort!Segments, Sort!Return(t) PROVE SortedSoFar'
  <2>1. /\ calls[t] = "called" /\ ~ Sort!Splits(t)
        /\ UNCHANGED <<size, input, vet, overrun, printed>>
        /\ calls' = [calls EXCEPT ![t] = "returned"]
    BY <1>6 DEF Sort!Return
  <2>2. Ordered(vet, t[1], t[2])
    BY <1>2, <2>1 DEF Ordered, Sort!Splits, IsSegments
  <2>3. ~ overrun => vet \in [0 .. Sort!n - 1 -> Values]
    BY DEF SortedSoFar, InOrder
  <2>4. \A s \in Sort!Segments : ~ Under(calls, s, t)
    BY <2>1 DEF Under
  <2> QED BY <2>1, <2>2, <2>3, <2>4, ReturnedSorted
<1>7. ASSUME NEW t \in Sort!Segments, Sort!Merge(t) PROVE SortedSoFar'
  <2> DEFINE l == Sort!LeftHalf(t)
             r == Sort!RightHalf(t)
             mid == Sort!Middle(t)
             L == Sort!Copy(t[1], mid)
             R == Sort!Copy(mid + 1, t[2])
             overruns == Len(R) % Unit = 0
  <2>1. /\ calls[t] = "join" /\ calls[l] = "returned" /\ calls[r] = "returned"
        /\ overrun' = (overrun \/ overruns)
        /\ calls' = [calls EXCEPT ![t] = "returned"]
        /\ UNCHANGED <<size, input, printed>>
    BY <1>7 DEF Sort!Merge, Sort!Joined
  <2>2. Sort!Splits(t) /\ l \in Sort!Segments /\ r \in Sort!Segments
    BY <1>2, <2>1 DEF SortedSoFar, SortTypes
  <2>3. /\ mid \in Int /\ t[1] <= mid /\ mid < t[2] /\ t[1] \in 0 .. Sort!n - 1 /\ t[2] \in 0 .. Sort!n - 1
        /\ l[1] = t[1] /\ l[2] = mid /\ r[1] = mid + 1 /\ r[2] = t[2]
    BY <1>2, <2>2, HalvesAre DEF IsSegments
  <2>4. \A s \in Sort!Segments : calls[s] # "none" /\ s # t /\ Under(calls, s, t) => calls[s] = "returned"
    BY <1>2, <2>1, <2>2, HalvesReturned DEF SortedSoFar
  <2>5. ASSUME ~ overrun' PROVE ~ overrun /\ vet' = MergedInto(vet, t[1], mid, t[2])
    <3>1. ~ overruns /\ ~ overrun
      BY <2>1, <2>5
    <3>2. L = CopyOf(vet, t[1], mid) /\ R = CopyOf(vet, mid + 1, t[2])
      BY DEF Sort!Copy, CopyOf
    <3>3. PICK x \in Sort!Behind(t) :
            vet' = [k \in DOMAIN vet |->
                      IF k \in t[1] .. t[2]
                        THEN Sort!Merged(IF overruns THEN [L EXCEPT ![1] = x] ELSE L, R)[k - t[1] + 1]
                        ELSE vet[k]]
      BY <1>7 DEF Sort!Merge
    <3>4. (IF overruns THEN [L EXCEPT ![1] = x] ELSE L) = L
      BY <3>1
    <3> HIDE DEF L, R, overruns
    <3>5. vet' = [k \in DOMAIN vet |->
                    IF k \in t[1] .. t[2] THEN Sort!Merged(L, R)[k - t[1] + 1] ELSE vet[k]]
      BY <3>3, <3>4
    <3> QED BY <3>1, <3>2, <3>5 DEF MergedInto
  <2> HIDE DEF L, R, overruns, mid, l, r
  <2>6. ASSUME ~ overrun'
        PROVE  /\ vet' \in [0 .. Sort!n - 1 -> Values]
               /\ Ordered(vet', t[1], t[2])
               /\ \A k \in 0 .. Sort!n - 1 : k \notin t[1] .. t[2] => vet'[k] = vet[k]
               /\ \A x : Count(vet', 0, Sort!n - 1, x) = Count(vet, 0, Sort!n - 1, x)
    <3>1. InOrder /\ vet' = MergedInto(vet, t[1], mid, t[2])
      BY <2>5, <2>6 DEF SortedSoFar
    <3>2. Ordered(vet, t[1], mid) /\ Ordered(vet, mid + 1, t[2])
      BY <2>1, <2>2, <2>3, <3>1 DEF InOrder
    <3>3. mid \in 0 .. Sort!n - 1 /\ Values \in SUBSET Int /\ vet \in [0 .. Sort!n - 1 -> Values]
      BY <1>2, <2>3, <3>1, SortAssumption DEF InOrder
    <3> PICK N \in Nat : N = Sort!n
      BY <1>2
    <3> PICK V, f : V = Values /\ f = vet
      OBVIOUS
    <3>8. V \subseteq Int /\ f \in [0 .. N - 1 -> V]
      BY <3>3
    <3> PICK lo \in 0 .. N - 1, m \in 0 .. N - 1, hi \in 0 .. N - 1 :
          lo = t[1] /\ m = mid /\ hi = t[2] /\ lo <= m /\ m < hi
      BY <2>3, <3>3
    <3>4. Ordered(f, lo, m) /\ Ordered(f, m + 1, hi)
      BY <3>2
    <3>5. lo <= m /\ m < hi
      OBVIOUS
    <3>6. PutsInOrder(N, V, f, MergedInto(f, lo, m, hi), lo, hi)
      BY <3>4, <3>5, <3>8, MergeSorts
    <3>7. MergedInto(f, lo, m, hi) = vet'
      BY <3>1
    <3> QED BY <3>6, <3>7 DEF PutsInOrder
  <2> QED BY <2>1, <2>4, <2>5, <2>6, ReturnedSorted
<1>8. CASE Sort!PrintVet
  <2>1. /\ calls[Root] = "returned" /\ UNCHANGED <<size, input, vet, calls, overrun>>
    BY <1>8 DEF Sort!PrintVet, Root
  <2>2. Sort!Segments' = Sort!Segments /\ Sort!n' = Sort!n /\ Root' = Root
    BY <2>1 DEF Sort!Segments, Sort!n, Root
  <2>3. SortTypes'
    BY <2>1, <2>2 DEF SortedSoFar, SortTypes, Sort!Splits
  <2>4. InOrder => InOrder'
    BY <2>1, <2>2 DEF InOrder
  <2> QED BY <2>1, <2>2, <2>3, <2>4 DEF SortedSoFar
<1>9. CASE UNCHANGED Sort!vars
  <2>1. UNCHANGED <<size, input, vet, calls, overrun, printed>>
    BY <1>9 DEF Sort!vars
  <2>2. Sort!Segments' = Sort!Segments /\ Sort!n' = Sort!n /\ Root' = Root
    BY <2>1 DEF Sort!Segments, Sort!n, Root
  <2>3. SortTypes'
    BY <2>1, <2>2 DEF SortedSoFar, SortTypes, Sort!Splits
  <2>4. InOrder => InOrder'
    BY <2>1, <2>2 DEF InOrder
  <2> QED BY <2>1, <2>2, <2>3, <2>4 DEF SortedSoFar
<1>10. QED
  BY <1>3, <1>4, <1>5, <1>6, <1>7, <1>8, <1>9 DEF Sort!Next

\* However the threads of Lab2.1 and Lab2.2 are scheduled, for any numbers, size
\* and threshold, what main() prints is its input in order, unless a merge wrote
\* over the beginning of its left half.
THEOREM SortsUnlessOverrun == Sort!Spec => []PrintsSorted
<1>1. SortedSoFar => PrintsSorted
  <2> SUFFICES ASSUME SortedSoFar, printed, ~ overrun
               PROVE  /\ \A k \in 1 .. Sort!n - 1 : vet[k - 1] <= vet[k]
                      /\ \A x \in Values : Sort!Occurrences(vet, x) = Sort!Occurrences(input, x)
    BY DEF PrintsSorted, Sort!PrintsSorted, Sort!Sorted
  <2>1. /\ InOrder /\ calls[Root] = "returned" /\ Sort!n \in Nat /\ Root \in Sort!Segments
        /\ input \in [0 .. Sort!n - 1 -> Values]
    BY SegmentsAre DEF SortedSoFar, SortTypes
  <2>2. Ordered(vet, 0, Sort!n - 1)
    BY <2>1 DEF InOrder, Root
  <2>3. ASSUME NEW k \in 1 .. Sort!n - 1 PROVE vet[k - 1] <= vet[k]
    <3>1. PICK m \in 0 .. Sort!n - 1 - 1 : m = k - 1 /\ m + 1 = k
      <4>1. k - 1 \in 0 .. Sort!n - 1 - 1 /\ (k - 1) + 1 = k
        BY <2>1
      <4> QED BY <4>1
    <3> QED BY <2>2, <3>1 DEF Ordered
  <2>4. ASSUME NEW x, NEW f, DOMAIN f = 0 .. Sort!n - 1
        PROVE  Sort!Occurrences(f, x) = Count(f, 0, Sort!n - 1, x)
    BY <2>4 DEF Sort!Occurrences, Count, Among, Sort!Cardinality, Cardinality
  <2> QED BY <2>1, <2>3, <2>4 DEF InOrder
<1>2. QED
  BY InitSorted, NextSorted, <1>1, PTL DEF Sort!Spec

-----------------------------------------------------------------------------
(* The programs of MCLabs share nothing.                                   *)

LEMMA EachRuns == LabSpec => Spec /\ Files!Spec /\ Product!Spec /\ Sort!Spec
<1>1. LabInit => Init /\ Files!Init /\ Product!Init /\ Sort!Init
  BY DEF LabInit
<1>2. [LabNext]_labVars =>
        /\ [Next]_vars
        /\ [Files!Next]_(Files!vars)
        /\ [Product!Next]_(Product!vars)
        /\ [Sort!Next]_(Sort!vars)
  <2> SUFFICES ASSUME [LabNext]_labVars
               PROVE  /\ Next \/ UNCHANGED vars
                      /\ Files!Next \/ UNCHANGED filesVars
                      /\ Product!Next \/ UNCHANGED productVars
                      /\ Sort!Next \/ UNCHANGED sortVars
    BY DEF filesVars, Files!vars, Files!own, productVars, Product!vars, sortVars, Sort!vars
  <2> QED BY DEF LabNext, labVars
<1>3. QED
  BY <1>1, <1>2, PTL DEF LabSpec, Spec, Files!Spec, Product!Spec, Sort!Spec

\* Whichever of the programs runs, the invariants of all hold.
THEOREM LabsKeepInvariants ==
  LabSpec => [](OffsetOfHolder /\ StreamReadAlone /\ PrintsAsSequential /\ PrintsSorted)
BY EachRuns, OffsetIsTheHolders, StreamKeptApart, ProductIsSequential, SortsUnlessOverrun, PTL
=============================================================================
