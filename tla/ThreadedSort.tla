---------------------------- MODULE ThreadedSort ----------------------------
(***************************************************************************)
(* Lab2/Lab2.1.c, Lab2.2.c and merge.c: merge sort of n integers.  A call  *)
(* of threaded_sort has its two halves sorted, in Lab2.1 always and in     *)
(* Lab2.2 from a threshold on by threads, else by calls, and merges them   *)
(* under data.mutex.  A call is named by the bounds of its segment.        *)
(*                                                                         *)
(* merge copies one element too many into each of its arrays L and R.  The *)
(* compiler lays them out with R below L in units of Unit integers, so a   *)
(* half R that fills its last unit is followed by L[0].  What follows L is *)
(* not used.                                                               *)
(***************************************************************************)
EXTENDS Integers, Sequences, FiniteSets

CONSTANTS
  Sizes,   \* pairs of n and threshold; Lab2.1 is threshold 1
  Values,  \* the integers that occur
  Unit     \* integers in the unit that arrays are aligned to

VARIABLES
  size,     \* n and threshold
  input,    \* the generated integers
  vet,      \* data.vet
  calls,    \* where the call for each segment is
  overrun,  \* history: some merge overwrote L[0]
  printed   \* main() has printed data.vet

vars == <<size, input, vet, calls, overrun, printed>>

n == size[1]
threshold == size[2]
Segments == {s \in (0 .. n - 1) \X (0 .. n - 1) : s[1] <= s[2]}

Init ==
  /\ size \in Sizes
  /\ input \in [0 .. n - 1 -> Values] /\ vet = input
  /\ calls = [s \in Segments |-> IF s = <<0, n - 1>> THEN "called" ELSE "none"]
  /\ overrun = FALSE /\ printed = FALSE

Middle(s) == s[1] + (s[2] - s[1]) \div 2
LeftHalf(s) == <<s[1], Middle(s)>>
RightHalf(s) == <<Middle(s) + 1, s[2]>>
Splits(s) == s[1] < s[2]

\* Two threads: both halves are under way.
Create(s) ==
  /\ calls[s] = "called" /\ Splits(s) /\ s[2] - s[1] >= threshold
  /\ calls' = [calls EXCEPT ![s] = "join", ![LeftHalf(s)] = "called", ![RightHalf(s)] = "called"]
  /\ UNCHANGED <<size, input, vet, overrun, printed>>

CallLeft(s) ==
  /\ calls[s] = "called" /\ Splits(s) /\ s[2] - s[1] < threshold
  /\ calls' = [calls EXCEPT ![s] = "left", ![LeftHalf(s)] = "called"]
  /\ UNCHANGED <<size, input, vet, overrun, printed>>

CallRight(s) ==
  /\ calls[s] = "left" /\ calls[LeftHalf(s)] = "returned"
  /\ calls' = [calls EXCEPT ![s] = "join", ![RightHalf(s)] = "called"]
  /\ UNCHANGED <<size, input, vet, overrun, printed>>

Return(s) ==
  /\ calls[s] = "called" /\ ~Splits(s)
  /\ calls' = [calls EXCEPT ![s] = "returned"]
  /\ UNCHANGED <<size, input, vet, overrun, printed>>

\* The merging loops of merge: how many of the first k elements come from L.
FromL(L, R, i, j) == i < Len(L) /\ (j = Len(R) \/ L[i + 1] <= R[j + 1])

Taken(L, R) ==
  LET taken[k \in 0 .. Len(L) + Len(R)] ==
        IF k = 0 THEN 0
        ELSE LET i == taken[k - 1] IN IF FromL(L, R, i, k - 1 - i) THEN i + 1 ELSE i
  IN taken

Merged(L, R) ==
  LET i == Taken(L, R) IN
  [k \in 1 .. Len(L) + Len(R) |-> IF i[k] > i[k - 1] THEN L[i[k]] ELSE R[k - i[k]]]

Copy(left, right) == [k \in 1 .. right - left + 1 |-> vet[left + k - 1]]

\* What lies behind the segment: beyond the array, anything.
Behind(s) == IF s[2] + 1 < n THEN {vet[s[2] + 1]} ELSE Values

\* Mutant of Joined: the second pthread_join is missing.
JoinedLeft(s) == calls[LeftHalf(s)] = "returned"

Joined(s) == calls[LeftHalf(s)] = "returned" /\ calls[RightHalf(s)] = "returned"

Merge(s) ==
  LET L == Copy(s[1], Middle(s))
      R == Copy(Middle(s) + 1, s[2])
      overruns == Len(R) % Unit = 0
  IN
  /\ calls[s] = "join" /\ Joined(s)
  /\ \E x \in Behind(s) :
       LET out == Merged(IF overruns THEN [L EXCEPT ![1] = x] ELSE L, R) IN
       vet' = [k \in DOMAIN vet |-> IF k \in s[1] .. s[2] THEN out[k - s[1] + 1] ELSE vet[k]]
  /\ overrun' = (overrun \/ overruns)
  /\ calls' = [calls EXCEPT ![s] = "returned"]
  /\ UNCHANGED <<size, input, printed>>

PrintVet ==
  /\ calls[<<0, n - 1>>] = "returned" /\ ~printed
  /\ printed' = TRUE
  /\ UNCHANGED <<size, input, vet, calls, overrun>>

Next ==
  \/ \E s \in Segments : Create(s) \/ CallLeft(s) \/ CallRight(s) \/ Return(s) \/ Merge(s)
  \/ PrintVet

Spec == Init /\ [][Next]_vars
-----------------------------------------------------------------------------
(* Properties                                                              *)

Occurrences(f, v) == Cardinality({k \in DOMAIN f : f[k] = v})

Sorted ==
  /\ \A k \in 1 .. n - 1 : vet[k - 1] <= vet[k]
  /\ \A v \in Values : Occurrences(vet, v) = Occurrences(input, v)

\* What main() prints is the input in order, however the threads are scheduled,
\* unless a right half filled its array up to the next one.
PrintsSorted == printed /\ ~overrun => Sorted

\* "Implement the sort algorithm using multiple threads" (Lab2.1.c:43): what is
\* printed is the input in order, for any input.
SortsEveryInput == printed => Sorted
=============================================================================
