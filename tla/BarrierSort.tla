---------------------------- MODULE BarrierSort ----------------------------
(***************************************************************************)
(* Lab4/Lab4_2.c: nthreads threads sort the n integers of a mapped file.   *)
(* Each one insertion-sorts its own region; at a barrier the last to       *)
(* arrive swaps the neighbours that are out of order at region borders.    *)
(* If it swapped anything, everyone sorts again; if not, the array is      *)
(* printed and the process exits.  The barrier has two halves (sem, sem2)  *)
(* because the threads loop.                                               *)
(***************************************************************************)
EXTENDS Integers, FiniteSets

CONSTANTS
  N,         \* n: integers in the file
  NThreads,  \* nthreads
  Values,    \* the integers that occur in the file
  None       \* owner of the free barrier.lock

ASSUME SortAssumption ==
  /\ NThreads \in Nat \ {0}
  /\ N \in Nat /\ NThreads <= N
  /\ Values \subseteq Int
  /\ None \notin 0 .. NThreads - 1

Threads == 0 .. NThreads - 1
Index == 0 .. N - 1

RegionLength == N \div NThreads
Left(t) == t * RegionLength
Right(t) == IF t = NThreads - 1 THEN N - 1 ELSE (t + 1) * RegionLength - 1

VARIABLES
  data,     \* the mapped file, paddr[0 .. n-1]
  pc,       \* where each thread is in thread_sort
  cur,      \* its variable cur, as an index
  border,   \* i and swapped of the thread that checks the borders
  swapped,
  lock,     \* owner of barrier.lock
  counter,  \* barrier.counter
  sem, sem2,
  exited    \* exit(EXIT_SUCCESS) was called

vars == <<data, pc, cur, border, swapped, lock, counter, sem, sem2, exited>>

Init ==
  /\ data \in [Index -> Values]
  /\ pc = [t \in Threads |-> "sort"]
  /\ cur = [t \in Threads |-> Left(t)]
  /\ border = 1 /\ swapped = FALSE
  /\ lock = None
  /\ counter = NThreads
  /\ sem = 0 /\ sem2 = 0
  /\ exited = FALSE

Goto(t, label) == pc' = [pc EXCEPT ![t] = label]

Swap(f, i, j) == [f EXCEPT ![i] = f[j], ![j] = f[i]]

\* The array after the inner loop has moved element c of the region that
\* starts at l down past every larger element before it.
Insert(f, l, c) ==
  LET p == CHOOSE p \in l .. c :
             /\ \A i \in p .. c - 1 : f[i] > f[c]
             /\ p = l \/ f[p - 1] <= f[c]
  IN [i \in DOMAIN f |-> IF i = p THEN f[c]
                         ELSE IF i \in p + 1 .. c THEN f[i - 1] ELSE f[i]]

\* One round of the outer sorting loop, on the thread's own region only.
SortStep(t) ==
  /\ ~exited /\ pc[t] = "sort" /\ cur[t] <= Right(t)
  /\ data' = Insert(data, Left(t), cur[t])
  /\ cur' = [cur EXCEPT ![t] = @ + 1]
  /\ UNCHANGED <<pc, border, swapped, lock, counter, sem, sem2, exited>>

\* Mutant of AllArrived: off by one.
AllArrivedEarly(n) == n <= 1

AllArrived(n) == n = 0

\* Take barrier.lock and count the arrival; the last one keeps the lock.
Arrive(t) ==
  /\ ~exited /\ pc[t] = "sort" /\ cur[t] > Right(t)
  /\ lock = None
  /\ counter' = counter - 1
  /\ IF AllArrived(counter')
     THEN Goto(t, "borders") /\ lock' = t /\ border' = 1 /\ swapped' = FALSE
     ELSE Goto(t, "wait") /\ UNCHANGED <<lock, border, swapped>>
  /\ UNCHANGED <<data, cur, sem, sem2, exited>>

\* Mutant of OutOfOrder: the comparison the wrong way round.
OutOfOrderNever(i) == data[i - 1] < data[i]

OutOfOrder(i) == data[i - 1] > data[i]

CheckBorder(t) ==
  LET i == border * RegionLength IN
  /\ ~exited /\ pc[t] = "borders" /\ border < NThreads
  /\ IF OutOfOrder(i)
     THEN data' = Swap(data, i - 1, i) /\ swapped' = TRUE
     ELSE UNCHANGED <<data, swapped>>
  /\ border' = border + 1
  /\ UNCHANGED <<pc, cur, lock, counter, sem, sem2, exited>>

\* Mutant of Tickets: a single sem_post.
TicketsOne == 1

\* The sem_posts that let every thread through.
Tickets == NThreads

\* A border moved: open the first half of the barrier for everyone.
Release(t) ==
  /\ ~exited /\ pc[t] = "borders" /\ border = NThreads /\ swapped
  /\ sem' = sem + Tickets
  /\ lock' = None
  /\ Goto(t, "wait")
  /\ UNCHANGED <<data, cur, border, swapped, counter, sem2, exited>>

\* Nothing moved: the file is sorted.  The lock is never given back.
Exit(t) ==
  /\ ~exited /\ pc[t] = "borders" /\ border = NThreads /\ ~swapped
  /\ exited' = TRUE
  /\ UNCHANGED <<data, pc, cur, border, swapped, lock, counter, sem, sem2>>

PassFirst(t) ==
  /\ ~exited /\ pc[t] = "wait" /\ sem > 0
  /\ sem' = sem - 1
  /\ Goto(t, "second")
  /\ UNCHANGED <<data, cur, border, swapped, lock, counter, sem2, exited>>

\* Mutant of AllBack: the first one through opens sem2.
AllBackEarly(n) == n = 1

AllBack(n) == n = NThreads

\* Second half: the last one through opens sem2.
CountBack(t) ==
  /\ ~exited /\ pc[t] = "second" /\ lock = None
  /\ counter' = counter + 1
  /\ sem2' = IF AllBack(counter') THEN sem2 + Tickets ELSE sem2
  /\ Goto(t, "wait2")
  /\ UNCHANGED <<data, cur, border, swapped, lock, sem, exited>>

PassSecond(t) ==
  /\ ~exited /\ pc[t] = "wait2" /\ sem2 > 0
  /\ sem2' = sem2 - 1
  /\ Goto(t, "sort")
  /\ cur' = [cur EXCEPT ![t] = Left(t)]
  /\ UNCHANGED <<data, border, swapped, lock, counter, sem, exited>>

Step(t) ==
  \/ SortStep(t) \/ Arrive(t) \/ CheckBorder(t) \/ Release(t) \/ Exit(t)
  \/ PassFirst(t) \/ CountBack(t) \/ PassSecond(t)

Ended == exited /\ UNCHANGED vars

Next == (\E t \in Threads : Step(t)) \/ Ended

\* Every thread is scheduled.  Each lock and semaphore is asked for at most
\* once per thread and round, so weak fairness is enough.
Fairness == \A t \in Threads : WF_vars(Step(t))

Spec == Init /\ [][Next]_vars /\ Fairness

-----------------------------------------------------------------------------
(* Properties                                                              *)

TypeOK ==
  /\ data \in [Index -> Values]
  /\ pc \in [Threads -> {"sort", "borders", "wait", "second", "wait2"}]
  /\ cur \in [Threads -> 0 .. N]
  /\ border \in 1 .. NThreads
  /\ swapped \in BOOLEAN
  /\ lock \in Threads \cup {None}
  /\ counter \in 0 .. NThreads
  /\ sem \in 0 .. NThreads
  /\ sem2 \in 0 .. NThreads
  /\ exited \in BOOLEAN

\* While a thread looks at the borders every other one waits at a closed
\* barrier: nobody sorts a region under it.
BordersAlone ==
  \A t \in Threads : pc[t] = "borders" =>
    /\ sem = 0
    /\ \A u \in Threads \ {t} : pc[u] = "wait"

\* No thread starts another round while one has not left the first half of the
\* barrier, so no thread takes a semaphore token meant for another one.
NoOvertaking ==
  \A t, u \in Threads : pc[t] = "sort" /\ cur[t] > Left(t) =>
    pc[u] # "second" /\ (pc[u] = "wait" => sem = 0)

Sorted(f) == \A i \in 1 .. N - 1 : f[i - 1] <= f[i]

\* The process exits only when the whole file is sorted, not just each region.
SortedAtExit == exited => Sorted(data)

\* The rounds come to an end.
Termination == <>exited
=============================================================================
