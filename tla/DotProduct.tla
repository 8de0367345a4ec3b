----------------------------- MODULE DotProduct -----------------------------
(***************************************************************************)
(* Lab2/Lab2.3_2.c: thread i computes element i of v; the last one to      *)
(* count itself down under b.mutex prints the product of v1 and v.         *)
(* Lab2/Lab2.3_1.c does so without threads.                                *)
(***************************************************************************)
EXTENDS Integers, Sequences

CONSTANTS
  K,         \* k
  Vectors,   \* the values of v1 and of v2
  Matrices   \* the values of mat

Index == 0 .. K - 1

VARIABLES
  v1, v2, mat,
  v,        \* one element for each thread
  cnt,      \* b.cnt
  created,  \* threads that main() has created
  j,        \* loop variable of each thread; -1 before v[i] is cleared
  done,     \* the threads that have returned
  results   \* what was printed

vars == <<v1, v2, mat, v, cnt, created, j, done, results>>

\* v comes from malloc: what it holds is arbitrary.
Init ==
  /\ v1 \in Vectors /\ v2 \in Vectors /\ mat \in Matrices
  /\ v = [i \in Index |-> 99]
  /\ cnt = K
  /\ created = 0
  /\ j = [i \in Index |-> -1]
  /\ done = {}
  /\ results = <<>>

Create ==
  /\ created < K
  /\ created' = created + 1
  /\ UNCHANGED <<v1, v2, mat, v, cnt, j, done, results>>

Clear(i) ==
  /\ i < created /\ j[i] = -1
  /\ v' = [v EXCEPT ![i] = 0]
  /\ j' = [j EXCEPT ![i] = 0]
  /\ UNCHANGED <<v1, v2, mat, cnt, created, done, results>>

Add(i) ==
  /\ j[i] \in Index
  /\ v' = [v EXCEPT ![i] = @ + mat[K * i + j[i]] * v2[i]]
  /\ j' = [j EXCEPT ![i] = @ + 1]
  /\ UNCHANGED <<v1, v2, mat, cnt, created, done, results>>

\* The sum before each round of the loop that adds up x[m] * y[m], and after it.
Sums(x, y) ==
  LET sum[m \in 0 .. K] == IF m = 0 THEN 0 ELSE sum[m - 1] + x[m - 1] * y[m - 1]
  IN sum

Product(x, y) == Sums(x, y)[K]

\* Mutant of Last: off by one.
LastButOne(count) == count <= 1

Last(count) == count = 0

Count(i) ==
  /\ j[i] = K /\ i \notin done
  /\ cnt' = cnt - 1
  /\ results' = IF Last(cnt') THEN Append(results, Product(v1, v)) ELSE results
  /\ done' = done \cup {i}
  /\ UNCHANGED <<v1, v2, mat, v, created, j>>

Next == Create \/ \E i \in Index : Clear(i) \/ Add(i) \/ Count(i)

Spec == Init /\ [][Next]_vars
-----------------------------------------------------------------------------
(* Lab2.3_1.  It multiplies row i by v2[i], as the threads do.             *)

Row(i) == [m \in Index |-> mat[K * i + m]]
Sequential == Product(v1, [i \in Index |-> Product(Row(i), [m \in Index |-> v2[i]])])

-----------------------------------------------------------------------------
(* Properties                                                              *)

\* The two programs agree, as Lab2/report compares them: the threads of Lab2.3_2
\* print one result, by the last of them and of a complete v, and it is the
\* result of Lab2.3_1.  Whether that is the product asked for is another matter.
PrintsAsSequential == results = IF done = Index THEN <<Sequential>> ELSE <<>>

\* "Lab2.3_2 calculates T(v1) * mat * v2" (Lab2/report:46), "v = mat * v2"
\* (Lab2.3_2.c:54): element i of v is the product of row i and v2.
PrintsMatrixProduct ==
  \A m \in DOMAIN results : results[m] = Product(v1, [i \in Index |-> Product(Row(i), v2)])
=============================================================================
