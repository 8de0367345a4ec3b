------------------------- MODULE Xv6SemaphoreProofs -------------------------
(***************************************************************************)
(* Theorems about the semaphores of the xv6 kernel, for any number of      *)
(* processes and slots and without regard to the bounds on the counts.     *)
(***************************************************************************)
EXTENDS Xv6Semaphore, FiniteSetTheorems, TLAPS

Typed ==
  /\ ref \in [Slots -> {0, 1}]
  /\ count \in [Slots -> Int]
  /\ tableLock \in Procs \cup {None}
  /\ cursor \in 0 .. NSemMax
  /\ pc \in [Procs -> {"idle", "scan", "allocated", "asleep", "woken"}]
  /\ slot \in [Procs -> Slots \cup {0}]
  /\ ready \subseteq Slots
  /\ permits \in [Slots -> Int]

\* Who scans the table has its lock; who found a slot has one of the table.
OneScans ==
  \A p \in Procs :
    /\ pc[p] = "scan" => tableLock = p
    /\ pc[p] = "allocated" => slot[p] \in Slots

\* A process sleeps on a slot in use, as long as the count is negative; permits
\* exceeds the count by the number of sleepers.
Books ==
  \A s \in Slots :
    /\ Asleep(s) # {} => s \in ready
    /\ Cardinality(Asleep(s)) <= IF count[s] < 0 THEN - count[s] ELSE 0
    /\ s \in ready => permits[s] = count[s] + Cardinality(Asleep(s))

IInv == Typed /\ OneScans /\ AllocatedOnce /\ Books

LEMMA AsleepFinite ==
  ASSUME NEW s
  PROVE  /\ IsFiniteSet(Asleep(s)) /\ Cardinality(Asleep(s)) \in Nat
         /\ Cardinality(Asleep(s)) = 0 <=> Asleep(s) = {}
BY SemaphoreAssumption, FS_Subset, FS_CardinalityType, FS_EmptySet DEF Asleep

LEMMA Initial == Init => IInv
<1> SUFFICES ASSUME Init PROVE IInv
  OBVIOUS
<1>1. Typed
  BY SemaphoreAssumption DEF Init, Typed
<1>2. OneScans /\ AllocatedOnce
  BY DEF Init, OneScans, AllocatedOnce
<1>3. \A s \in Slots : Asleep(s) = {}
  BY DEF Init, Asleep
<1>4. Books
  BY <1>3, FS_EmptySet DEF Init, Books
<1> QED BY <1>1, <1>2, <1>4 DEF IInv

\* Steps that put nobody to sleep, wake nobody and leave the counts alone.
LEMMA BooksFrame ==
  ASSUME IInv, UNCHANGED <<count, permits>>, ready' = ready,
         \A p \in Procs : /\ pc'[p] = "asleep" <=> pc[p] = "asleep"
                          /\ pc[p] = "asleep" => slot'[p] = slot[p]
  PROVE  Books'
<1>1. ASSUME NEW s \in Slots PROVE Asleep(s)' = Asleep(s)
  BY DEF Asleep
<1> QED BY <1>1 DEF IInv, Books

LEMMA AllocStep ==
  ASSUME IInv, NEW p \in Procs, AllocStart(p) \/ AllocSkip(p) \/ AllocTake(p) \/ AllocFail(p)
  PROVE  IInv'
<1> USE DEF IInv
<1>1. CASE AllocStart(p)
  <2>1. Typed'
    BY <1>1, SemaphoreAssumption DEF AllocStart, Typed, Goto
  <2>2. OneScans' /\ AllocatedOnce'
    BY <1>1, SemaphoreAssumption DEF AllocStart, Typed, Goto, OneScans, AllocatedOnce
  <2>3. Books'
    BY <1>1, BooksFrame DEF AllocStart, Goto, Typed
  <2> QED BY <2>1, <2>2, <2>3
<1>2. CASE AllocSkip(p)
  <2>1. Typed'
    BY <1>2, SemaphoreAssumption DEF AllocSkip, Typed, Unused
  <2>2. OneScans' /\ AllocatedOnce'
    BY <1>2 DEF AllocSkip, OneScans, AllocatedOnce, Unused
  <2>3. Books'
    BY <1>2, BooksFrame DEF AllocSkip, Unused
  <2> QED BY <2>1, <2>2, <2>3
<1>3. CASE AllocTake(p)
  <2>0. cursor \in Slots /\ tableLock = p
    BY <1>3, SemaphoreAssumption DEF AllocTake, Slots, Typed, OneScans, Unused
  <2>1. Typed'
    BY <1>3, <2>0 DEF AllocTake, Typed, Goto, Unused
  <2>2. OneScans'
    BY <1>3, <2>0 DEF AllocTake, Typed, Goto, OneScans, Unused
  <2>3. cursor \notin ready /\ \A q \in Procs : pc[q] = "allocated" => slot[q] # cursor
    BY <1>3 DEF AllocTake, AllocatedOnce, Unused
  <2>4. AllocatedOnce'
    BY <1>3, <2>0, <2>3 DEF AllocTake, Typed, Goto, AllocatedOnce, Unused
  <2>5. Books'
    BY <1>3, BooksFrame DEF AllocTake, Goto, Typed, Unused
  <2> QED BY <2>1, <2>2, <2>4, <2>5
<1>4. CASE AllocFail(p)
  <2>1. Typed'
    BY <1>4 DEF AllocFail, Typed, Goto
  <2>2. OneScans' /\ AllocatedOnce'
    BY <1>4 DEF AllocFail, Typed, Goto, OneScans, AllocatedOnce
  <2>3. Books'
    BY <1>4, BooksFrame DEF AllocFail, Goto, Typed
  <2> QED BY <2>1, <2>2, <2>3
<1> QED BY <1>1, <1>2, <1>3, <1>4

LEMMA InitStep ==
  ASSUME IInv, NEW p \in Procs, SemInit(p) PROVE IInv'
<1> USE DEF IInv
<1>0. PICK n \in Counts : /\ count' = [count EXCEPT ![slot[p]] = n]
                          /\ permits' = [permits EXCEPT ![slot[p]] = n]
  BY DEF SemInit
<1>1. n \in Int /\ ~ n < 0
  BY SemaphoreAssumption
<1>2. ref[slot[p]] = 1 /\ slot[p] \notin ready /\ pc[p] = "allocated"
  BY DEF SemInit, AllocatedOnce
<1>3. slot[p] \in Slots
  BY <1>2 DEF OneScans
<1>4. Typed'
  BY <1>0, <1>1, <1>3 DEF SemInit, Typed, Goto
<1>5. OneScans' /\ AllocatedOnce'
  BY <1>2 DEF SemInit, Typed, Goto, OneScans, AllocatedOnce
<1>6. ASSUME NEW s \in Slots PROVE Asleep(s)' = Asleep(s)
  BY <1>2 DEF SemInit, Goto, Asleep, Typed
<1>7. Asleep(slot[p]) = {} /\ Cardinality(Asleep(slot[p])) = 0
  BY <1>2, <1>3, AsleepFinite DEF Books
<1>8. Books'
  BY <1>0, <1>1, <1>3, <1>6, <1>7 DEF Books, SemInit, Typed
<1> QED BY <1>4, <1>5, <1>8

LEMMA DestroyStep ==
  ASSUME IInv, NEW p \in Procs, NEW t \in Slots, SemDestroy(p, t) PROVE IInv'
<1> USE DEF IInv
<1>1. Typed' /\ OneScans'
  BY DEF SemDestroy, Typed, OneScans
<1>2. AllocatedOnce'
  BY DEF SemDestroy, Typed, AllocatedOnce
<1>3. ASSUME NEW s \in Slots PROVE Asleep(s)' = Asleep(s)
  BY DEF SemDestroy, Asleep
<1>4. Asleep(t) = {}
  BY DEF SemDestroy, Inside, Asleep
<1>5. Books'
  BY <1>3, <1>4 DEF SemDestroy, Books
<1> QED BY <1>1, <1>2, <1>5

LEMMA WaitStep ==
  ASSUME IInv, NEW p \in Procs, NEW t \in Slots, SemWait(p, t) PROVE IInv'
<1> USE DEF IInv
<1>1. count' = [count EXCEPT ![t] = count[t] - 1] /\ count'[t] = count[t] - 1 /\ t \in ready
  BY DEF SemWait, Typed, MustSleep
<1>2. CASE count'[t] < 0
  <2>1. Goto(p, "asleep") /\ slot' = [slot EXCEPT ![p] = t] /\ permits' = permits /\ ready' = ready
    BY <1>2 DEF SemWait, MustSleep
  <2>2. Typed'
    BY <1>1, <2>1 DEF SemWait, Typed, Goto, MustSleep
  <2>3. OneScans' /\ AllocatedOnce'
    BY <2>1 DEF SemWait, Typed, Goto, OneScans, AllocatedOnce, MustSleep
  <2>4. Asleep(t)' = Asleep(t) \cup {p} /\ p \notin Asleep(t)
    BY <2>1 DEF SemWait, Asleep, Goto, Typed, MustSleep
  <2>5. Cardinality(Asleep(t)') = Cardinality(Asleep(t)) + 1
    BY <2>4, AsleepFinite, FS_AddElement
  <2>6. ASSUME NEW s \in Slots, s # t PROVE Asleep(s)' = Asleep(s)
    BY <2>1, <2>6 DEF SemWait, Asleep, Goto, Typed, MustSleep
  <2>7. Books'
    BY <1>1, <1>2, <2>1, <2>5, <2>6, AsleepFinite DEF Books, Typed
  <2> QED BY <2>2, <2>3, <2>7
<1>3. CASE ~ count'[t] < 0
  <2>1. permits' = [permits EXCEPT ![t] = permits[t] - 1] /\ UNCHANGED <<pc, slot, ready>>
    BY <1>3 DEF SemWait, MustSleep
  <2>2. Typed'
    BY <1>1, <2>1 DEF SemWait, Typed, MustSleep
  <2>3. OneScans' /\ AllocatedOnce'
    BY <2>1 DEF SemWait, OneScans, AllocatedOnce, MustSleep
  <2>4. ASSUME NEW s \in Slots PROVE Asleep(s)' = Asleep(s)
    BY <2>1 DEF Asleep
  <2>5. Books'
    BY <1>1, <1>3, <2>1, <2>4, AsleepFinite DEF Books, Typed
  <2> QED BY <2>2, <2>3, <2>5
<1> QED BY <1>2, <1>3

LEMMA PostStep ==
  ASSUME IInv, NEW p \in Procs, NEW t \in Slots, SemPost(p, t)
  PROVE  IInv' /\ Asleep(t)' = {}
<1> USE DEF IInv
<1>1. count' = [count EXCEPT ![t] = count[t] + 1] /\ count'[t] = count[t] + 1 /\ t \in ready
  BY DEF SemPost, Typed, OwesWakeup
<1>2. CASE count'[t] <= 0
  <2>1. /\ pc' = [q \in Procs |-> IF q \in Asleep(t) THEN "woken" ELSE pc[q]]
        /\ permits' = [permits EXCEPT ![t] = permits[t] + 1 - Cardinality(Asleep(t))]
        /\ UNCHANGED <<ref, tableLock, cursor, slot, ready>>
    BY <1>2 DEF SemPost, Wakeup, OwesWakeup
  <2>2. Typed'
    BY <1>1, <2>1, AsleepFinite DEF Typed
  <2>3. OneScans' /\ AllocatedOnce'
    BY <2>1 DEF OneScans, AllocatedOnce
  <2>4. Asleep(t)' = {} /\ Cardinality({}) = 0
    BY <2>1, FS_EmptySet DEF Asleep
  <2>5. ASSUME NEW s \in Slots, s # t PROVE Asleep(s)' = Asleep(s)
    BY <2>1, <2>5 DEF Asleep
  <2>6. permits'[t] = permits[t] + 1 - Cardinality(Asleep(t))
    BY <2>1, AsleepFinite DEF Typed
  <2>7. permits'[t] = count'[t]
    BY <1>1, <2>6, AsleepFinite DEF Books, Typed
  <2>8. count'[t] \in Int /\ Cardinality(Asleep(t)') = 0
    BY <1>1, <2>4 DEF Typed
  <2>9. Books'
    <3> SUFFICES ASSUME NEW s \in Slots
                 PROVE  /\ Asleep(s)' # {} => s \in ready'
                        /\ Cardinality(Asleep(s)') <= IF count'[s] < 0 THEN - count'[s] ELSE 0
                        /\ s \in ready' => permits'[s] = count'[s] + Cardinality(Asleep(s)')
      BY DEF Books
    <3>1. CASE s = t
      BY <3>1, <2>4, <2>7, <2>8
    <3>2. CASE s # t
      <4>1. count'[s] = count[s] /\ permits'[s] = permits[s] /\ ready' = ready
        BY <3>2, <1>1, <2>1 DEF Typed
      <4> QED BY <3>2, <4>1, <2>5 DEF Books
    <3> QED BY <3>1, <3>2
  <2> QED BY <2>2, <2>3, <2>4, <2>9
<1>3. CASE ~ count'[t] <= 0
  <2>1. permits' = [permits EXCEPT ![t] = permits[t] + 1]
        /\ UNCHANGED <<ref, tableLock, cursor, pc, slot, ready>>
    BY <1>3 DEF SemPost, OwesWakeup
  <2>2. Typed'
    BY <1>1, <2>1 DEF Typed
  <2>3. OneScans' /\ AllocatedOnce'
    BY <2>1 DEF OneScans, AllocatedOnce
  <2>4. ASSUME NEW s \in Slots PROVE Asleep(s)' = Asleep(s)
    BY <2>1 DEF Asleep
  <2>5. Cardinality(Asleep(t)) = 0
    BY <1>1, <1>3, AsleepFinite DEF Books, Typed
  <2>6. Books'
    BY <1>1, <1>3, <2>1, <2>4, <2>5, AsleepFinite DEF Books, Typed
  <2> QED BY <2>2, <2>3, <2>4, <2>5, <2>6, AsleepFinite
<1> QED BY <1>2, <1>3

LEMMA Inductive == IInv /\ [Next]_vars => IInv'
<1> SUFFICES ASSUME IInv, [Next]_vars PROVE IInv'
  OBVIOUS
<1>1. ASSUME NEW p \in Procs, SemWaitReturn(p) PROVE IInv'
  <2>1. Typed' /\ OneScans' /\ AllocatedOnce'
    BY <1>1 DEF SemWaitReturn, IInv, Typed, Goto, OneScans, AllocatedOnce
  <2>2. Books'
    BY <1>1, BooksFrame DEF SemWaitReturn, Goto, IInv, Typed
  <2> QED BY <2>1, <2>2 DEF IInv
<1>2. ASSUME NEW p \in Procs, Step(p) PROVE IInv'
  BY <1>1, <1>2, AllocStep, InitStep, DestroyStep, WaitStep, PostStep DEF Step
<1>3. CASE UNCHANGED vars
  <2>1. Books'
    BY <1>3, BooksFrame DEF vars
  <2> QED BY <1>3, <2>1 DEF vars, IInv, Typed, OneScans, AllocatedOnce
<1> QED BY <1>2, <1>3 DEF Next

-----------------------------------------------------------------------------
\* sem_alloc gives a slot to one caller at a time.
THEOREM SlotsAllocatedOnce == Spec => []AllocatedOnce
<1>1. IInv => AllocatedOnce
  BY DEF IInv
<1> QED BY <1>1, Initial, Inductive, PTL DEF Spec

\* A count that is not negative means that nobody sleeps, a count of -n that at
\* most n processes do.
THEOREM SleepersAreOwed == Spec => []SleepersOwed
<1>1. IInv => SleepersOwed
  BY DEF IInv, Books, SleepersOwed
<1> QED BY <1>1, Initial, Inductive, PTL DEF Spec

\* Whatever sem_post let through too much has been paid back when the count is
\* not negative.
THEOREM EvenWhenPositive == Spec => []EvenAboveZero
<1>1. IInv => EvenAboveZero
  <2> SUFFICES ASSUME IInv, NEW s \in ready, count[s] >= 0 PROVE permits[s] = count[s]
    BY DEF EvenAboveZero
  <2>1. s \in Slots /\ ~ count[s] < 0 /\ count[s] \in Int
    BY DEF IInv, Typed
  <2>2. Cardinality(Asleep(s)) = 0
    BY <2>1, AsleepFinite DEF IInv, Books
  <2> QED BY <2>1, <2>2 DEF IInv, Books
<1> QED BY <1>1, Initial, Inductive, PTL DEF Spec

\* After a sem_post nobody sleeps on the semaphore.
THEOREM PostLeavesNobodyAsleep == Spec => PostWakesSleepers
<1> DEFINE Wakes == \A s \in Slots : s \in ready /\ count'[s] > count[s] => Asleep(s)' = {}
<1>1. IInv /\ [Next]_vars => [Wakes]_vars
  <2> SUFFICES ASSUME IInv, NEW p \in Procs, Step(p), NEW s \in Slots, s \in ready,
                      count'[s] > count[s]
               PROVE  Asleep(s)' = {}
    BY DEF Next
  <2> USE DEF IInv
  <2>1. CASE SemInit(p)
    <3>1. s # slot[p]
      BY <2>1 DEF SemInit, AllocatedOnce
    <3> QED BY <2>1, <3>1 DEF SemInit, Typed
  <2>2. CASE \E t \in Slots : SemPost(p, t)
    <3>1. PICK t \in Slots : SemPost(p, t)
      BY <2>2
    <3>2. s = t
      BY <3>1 DEF SemPost, Typed, OwesWakeup
    <3> QED BY <3>1, <3>2, PostStep
  <2>3. CASE \E t \in Slots : SemWait(p, t)
    BY <2>3 DEF SemWait, Typed, MustSleep
  <2>4. CASE UNCHANGED count
    BY <2>4 DEF Typed
  <2> QED BY <2>1, <2>2, <2>3, <2>4
        DEF Step, AllocStart, AllocSkip, AllocTake, AllocFail, SemWaitReturn, SemDestroy, Unused
<1> QED BY <1>1, Initial, Inductive, PTL DEF Spec, PostWakesSleepers
=============================================================================
