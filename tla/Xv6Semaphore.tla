---------------------------- MODULE Xv6Semaphore ----------------------------
(***************************************************************************)
(* The semaphores added to the xv6 kernel (Lab6/xv6-semaphores/file.c) and *)
(* their system calls (sysfile.c).  A slot of semaphore_table is allocated *)
(* and given a count by one process, used by all of them with sem_wait and *)
(* sem_post, and released when nobody is in it: the kernel checks none of  *)
(* that, the callers are taken to do it.                                   *)
(*                                                                         *)
(* A section under s->lock is one step.  sleep() and wakeup() are those of *)
(* the rest of the kernel: sleep() gives s->lock back and sleeps in one    *)
(* step, wakeup() wakes every process that sleeps on s->q.                 *)
(***************************************************************************)
EXTENDS Integers, FiniteSets

CONSTANTS
  Procs,     \* the processes
  NSemMax,   \* NSEM_MAX
  Counts,    \* arguments of sem_init
  MaxCount,  \* bound: the highest count a sem_post reaches
  MaxDebt,   \* bound: the lowest count a sem_wait reaches, negated
  None       \* no slot, no process

Slots == 0 .. NSemMax - 1

ASSUME SemaphoreAssumption ==
  /\ IsFiniteSet(Procs) /\ None \notin Procs
  /\ NSemMax \in Nat /\ MaxCount \in Nat /\ MaxDebt \in Nat
  /\ Counts \subseteq 0 .. MaxCount

VARIABLES
  ref,        \* s->ref of each slot
  count,      \* s->count of each slot
  tableLock,  \* owner of semaphore_table.lock
  cursor,     \* k of its sem_alloc
  pc,         \* where each process is
  slot,       \* the slot it sleeps on, or has allocated
  ready,      \* the slots that are initialised and shared
  permits     \* history: sem_init's count + sem_posts - sem_waits let through

vars == <<ref, count, tableLock, cursor, pc, slot, ready, permits>>

Init ==
  /\ ref = [s \in Slots |-> 0]
  /\ count = [s \in Slots |-> 0]
  /\ tableLock = None /\ cursor = 0
  /\ pc = [p \in Procs |-> "idle"]
  /\ slot = [p \in Procs |-> 0]
  /\ ready = {}
  /\ permits = [s \in Slots |-> 0]

Goto(p, label) == pc' = [pc EXCEPT ![p] = label]
Asleep(s) == {p \in Procs : pc[p] = "asleep" /\ slot[p] = s}
Inside(s) == {p \in Procs : pc[p] \in {"asleep", "woken"} /\ slot[p] = s}

-----------------------------------------------------------------------------
(* sem_alloc: a scan under semaphore_table.lock for a slot with ref 0      *)

AllocStart(p) ==
  /\ pc[p] = "idle" /\ tableLock = None
  /\ tableLock' = p /\ cursor' = 0
  /\ Goto(p, "scan")
  /\ UNCHANGED <<ref, count, slot, ready, permits>>

\* Mutant of Unused: ref is not tested.
UnusedAny(s) == TRUE

Unused(s) == ref[s] = 0

AllocSkip(p) ==
  /\ pc[p] = "scan" /\ cursor < NSemMax
  /\ ~Unused(cursor)
  /\ cursor' = cursor + 1
  /\ UNCHANGED <<ref, count, tableLock, pc, slot, ready, permits>>

AllocTake(p) ==
  /\ pc[p] = "scan" /\ cursor < NSemMax
  /\ Unused(cursor)
  /\ ref' = [ref EXCEPT ![cursor] = 1]
  /\ slot' = [slot EXCEPT ![p] = cursor]
  /\ tableLock' = None
  /\ Goto(p, "allocated")
  /\ UNCHANGED <<count, cursor, ready, permits>>

AllocFail(p) ==
  /\ pc[p] = "scan" /\ cursor = NSemMax
  /\ tableLock' = None
  /\ Goto(p, "idle")
  /\ UNCHANGED <<ref, count, cursor, slot, ready, permits>>

-----------------------------------------------------------------------------
\* The caller then tells the other processes of the slot.
SemInit(p) ==
  /\ pc[p] = "allocated"
  /\ \E n \in Counts :
       /\ count' = [count EXCEPT ![slot[p]] = n]
       /\ permits' = [permits EXCEPT ![slot[p]] = n]
  /\ ready' = ready \cup {slot[p]}
  /\ Goto(p, "idle")
  /\ UNCHANGED <<ref, tableLock, cursor, slot>>

\* Only ref changes, without a lock.
SemDestroy(p, s) ==
  /\ pc[p] = "idle"
  /\ s \in ready /\ Inside(s) = {}
  /\ ref' = [ref EXCEPT ![s] = 0]
  /\ ready' = ready \ {s}
  /\ UNCHANGED <<count, tableLock, cursor, pc, slot, permits>>

\* Mutant of MustSleep: off by one.
MustSleepAtZero(n) == n <= 0

MustSleep(n) == n < 0

SemWait(p, s) ==
  /\ pc[p] = "idle" /\ s \in ready
  /\ count[s] > - MaxDebt
  /\ count' = [count EXCEPT ![s] = @ - 1]
  /\ IF MustSleep(count'[s])
     THEN Goto(p, "asleep") /\ slot' = [slot EXCEPT ![p] = s] /\ UNCHANGED permits
     ELSE permits' = [permits EXCEPT ![s] = @ - 1] /\ UNCHANGED <<pc, slot>>
  /\ UNCHANGED <<ref, tableLock, cursor, ready>>

\* sleep() returns and so does sem_wait: the count is not tested again.
SemWaitReturn(p) ==
  /\ pc[p] = "woken"
  /\ Goto(p, "idle")
  /\ UNCHANGED <<ref, count, tableLock, cursor, slot, ready, permits>>

\* Everyone who sleeps on s->q is let through.
Wakeup(s, given) ==
  /\ pc' = [q \in Procs |-> IF q \in Asleep(s) THEN "woken" ELSE pc[q]]
  /\ permits' = [permits EXCEPT ![s] = @ + given - Cardinality(Asleep(s))]

\* Mutant of OwesWakeup: off by one.
OwesWakeupBelowZero(n) == n < 0

OwesWakeup(n) == n <= 0

SemPost(p, s) ==
  /\ pc[p] = "idle" /\ s \in ready
  /\ count[s] < MaxCount
  /\ count' = [count EXCEPT ![s] = @ + 1]
  /\ IF OwesWakeup(count'[s]) THEN Wakeup(s, 1)
     ELSE permits' = [permits EXCEPT ![s] = @ + 1] /\ UNCHANGED pc
  /\ UNCHANGED <<ref, tableLock, cursor, slot, ready>>

Step(p) ==
  \/ AllocStart(p) \/ AllocSkip(p) \/ AllocTake(p) \/ AllocFail(p)
  \/ SemInit(p)
  \/ SemWaitReturn(p)
  \/ \E s \in Slots : SemDestroy(p, s) \/ SemWait(p, s) \/ SemPost(p, s)

Next == \E p \in Procs : Step(p)

Spec == Init /\ [][Next]_vars
-----------------------------------------------------------------------------
(* Properties                                                              *)

TypeOK ==
  /\ ref \in [Slots -> {0, 1}]
  /\ count \in [Slots -> - MaxDebt .. MaxCount]
  /\ tableLock \in Procs \cup {None}
  /\ cursor \in 0 .. NSemMax
  /\ pc \in [Procs -> {"idle", "scan", "allocated", "asleep", "woken"}]
  /\ slot \in [Procs -> Slots \cup {0}]
  /\ ready \subseteq Slots
  /\ permits \in [Slots -> Int]

\* A slot goes to one caller at a time, although sem_destroy takes no lock while
\* another process scans the table.
AllocatedOnce ==
  /\ \A p \in Procs : pc[p] = "allocated" => ref[slot[p]] = 1 /\ slot[p] \notin ready
  /\ \A p, q \in Procs :
       pc[p] = "allocated" /\ pc[q] = "allocated" /\ slot[p] = slot[q] => p = q
  /\ \A s \in ready : ref[s] = 1

\* No more processes sleep than the count says: none when it is not negative.
SleepersOwed ==
  \A s \in Slots : Cardinality(Asleep(s)) <= IF count[s] < 0 THEN - count[s] ELSE 0

\* sem_post lets every sleeper through and not one, so the semaphore admits more
\* than it was given; it is even again whenever the count is not negative.
EvenAboveZero == \A s \in ready : count[s] >= 0 => permits[s] = count[s]

\* A sem_post leaves nobody asleep: the test of the count skips the wakeup only
\* when there is nobody to wake.
PostWakesSleepers ==
  [][\A s \in Slots : s \in ready /\ count'[s] > count[s] => Asleep(s)' = {}]_vars
=============================================================================
