------------------------------ MODULE Xv6Cond ------------------------------
(***************************************************************************)
(* The condition variables added to the xv6 kernel (Lab6/xv6-semaphores/   *)
(* file.c) under the program that tests them (cond.c): a parent counts up  *)
(* under cond_lock and signals when the count reaches COUNT_LIMIT; a child *)
(* waits for that and sets the count back to 0.  cond.c forks one child;   *)
(* more of them run the same code.                                         *)
(*                                                                         *)
(* A step is a section under a spinlock: mutex->lock is never held longer, *)
(* condition->lock is held by cond_wait over several steps.  sleep(),      *)
(* wakeup() and the spinlocks are those of the rest of the kernel: sleep() *)
(* gives its lock back and sleeps in one step with respect to wakeup(),    *)
(* and takes it again before it returns; wakeup() wakes every process that *)
(* sleeps on the channel.                                                  *)
(***************************************************************************)
EXTENDS CondConstants

Processes == Children \cup {Parent}

VARIABLES
  pc,        \* where each process is
  locked,    \* mutex->locked: 1 is free, 0 is taken
  value,     \* condition->value
  condLock,  \* owner of condition->lock
  channel,   \* what each process sleeps on
  got,       \* what the last cond_get of the parent returned
  counter    \* rounds the parent has done

vars == <<pc, locked, value, condLock, channel, got, counter>>

\* The tables start zeroed; cond_alloc has not been called yet.
Init ==
  /\ pc = [p \in Processes |-> IF p = Parent THEN "alloc" ELSE "unforked"]
  /\ locked = 0 /\ value = 0
  /\ condLock = NoProc
  /\ channel = [p \in Processes |-> "none"]
  /\ got = 0 /\ counter = 0

Goto(p, label) == pc' = [pc EXCEPT ![p] = label]
At(p, label) == pc[p] = label /\ channel[p] = "none"
Sleep(p, chan) == channel' = [channel EXCEPT ![p] = chan]
Wakeup(chan) == channel' = [p \in Processes |-> IF channel[p] = chan THEN "none" ELSE channel[p]]

-----------------------------------------------------------------------------
(* The calls of file.c: p is at label "from" and goes on at "to".          *)

\* Mutant of Taken: the test of mutex->locked is left out.
TakenNever == FALSE

Taken == locked = 0

\* Mutant of CondLockFree: condition->lock is not taken.
CondLockAny == TRUE

CondLockFree == condLock = NoProc

CondLock(p, from, to) ==
  /\ At(p, from)
  /\ IF Taken THEN Sleep(p, "mutex") /\ UNCHANGED <<pc, locked>>
                   ELSE locked' = 0 /\ Goto(p, to) /\ UNCHANGED channel
  /\ UNCHANGED <<value, condLock, got, counter>>

\* No wakeup(&mutex->q): whoever sleeps there sleeps on.
CondUnlock(p, from, to) ==
  /\ At(p, from)
  /\ locked' = 1
  /\ Goto(p, to)
  /\ UNCHANGED <<value, condLock, channel, got, counter>>

CondSet(p, from, to, val) ==
  /\ At(p, from)
  /\ CondLockFree
  /\ value' = val
  /\ Goto(p, to)
  /\ UNCHANGED <<locked, condLock, channel, got, counter>>

\* cond_wait: take condition->lock, let the mutex go, sleep, take the mutex
\* again - with condition->lock held even while sleeping on the mutex - and
\* give condition->lock back.
WaitAcquire(p) ==
  /\ At(p, "wait")
  /\ CondLockFree
  /\ condLock' = p
  /\ Goto(p, "waitUnlock")
  /\ UNCHANGED <<locked, value, channel, got, counter>>

WaitSleep(p) ==
  /\ At(p, "waitSleep")
  /\ Sleep(p, "alarm_clock")
  /\ condLock' = NoProc
  /\ Goto(p, "waitWoken")
  /\ UNCHANGED <<locked, value, got, counter>>

WaitWoken(p) ==
  /\ At(p, "waitWoken")
  /\ CondLockFree
  /\ condLock' = p
  /\ Goto(p, "waitLock")
  /\ UNCHANGED <<locked, value, channel, got, counter>>

WaitRelease(p) ==
  /\ At(p, "waitRelease")
  /\ condLock' = NoProc
  /\ Goto(p, "test")
  /\ UNCHANGED <<locked, value, channel, got, counter>>

CondWait(p) ==
  \/ WaitAcquire(p)
  \/ CondUnlock(p, "waitUnlock", "waitSleep")
  \/ WaitSleep(p)
  \/ WaitWoken(p)
  \/ CondLock(p, "waitLock", "waitRelease")
  \/ WaitRelease(p)

\* cond_signal and cond_broadcast are the same: every sleeper wakes.
CondSignal(p, from, to) ==
  /\ At(p, from)
  /\ Wakeup("alarm_clock")
  /\ Goto(p, to)
  /\ UNCHANGED <<locked, value, condLock, got, counter>>

-----------------------------------------------------------------------------
(* cond.c                                                                  *)

\* cond_alloc frees the mutex of the slot it returns; then the fork().
CondAlloc ==
  /\ At(Parent, "alloc")
  /\ locked' = 1
  /\ pc' = [p \in Processes |-> "lock"]
  /\ UNCHANGED <<value, condLock, channel, got, counter>>

\* cond_get takes no lock.
CondGet ==
  /\ At(Parent, "get")
  /\ got' = value
  /\ Goto(Parent, "set")
  /\ UNCHANGED <<locked, value, condLock, channel, counter>>

TestLimit ==
  /\ At(Parent, "test")
  /\ Goto(Parent, IF value = CountLimit THEN "signal" ELSE "unlock")
  /\ UNCHANGED <<locked, value, condLock, channel, got, counter>>

\* After the last round the parent waits for its child to exit.
NextRound ==
  /\ At(Parent, "sleep")
  /\ counter' = counter + 1
  /\ Goto(Parent, IF counter' < Count THEN "lock" ELSE "waitChild")
  /\ UNCHANGED <<locked, value, condLock, channel, got>>

ParentStep ==
  \/ CondAlloc
  \/ CondLock(Parent, "lock", "get")
  \/ CondGet
  \/ CondSet(Parent, "set", "test", got + 1)
  \/ TestLimit
  \/ CondSignal(Parent, "signal", "unlock")
  \/ CondUnlock(Parent, "unlock", "sleep")
  \/ NextRound

TestWait(c) ==
  /\ At(c, "test")
  /\ Goto(c, IF value < CountLimit THEN "wait" ELSE "unlock")
  /\ UNCHANGED <<locked, value, condLock, channel, got, counter>>

\* The child sets the count back after it has let the mutex go.
ChildStep(c) ==
  \/ CondLock(c, "lock", "test")
  \/ TestWait(c)
  \/ CondWait(c)
  \/ CondUnlock(c, "unlock", "reset")
  \/ CondSet(c, "reset", "lock", 0)

Next == ParentStep \/ \E c \in Children : ChildStep(c)

\* The scheduler runs every process that is not asleep, and a process that spins
\* on condition->lock gets it when it is free.
Fairness == WF_vars(ParentStep) /\ \A c \in Children : WF_vars(ChildStep(c))

Spec == Init /\ [][Next]_vars /\ Fairness
-----------------------------------------------------------------------------
(* Properties                                                              *)

Labels == {"alloc", "unforked", "lock", "get", "set", "test", "signal", "unlock", "sleep",
  "waitChild", "wait", "waitUnlock", "waitSleep", "waitWoken", "waitLock", "waitRelease", "reset"}

TypeOK ==
  /\ pc \in [Processes -> Labels]
  /\ locked \in {0, 1}
  /\ value \in 0 .. Count
  /\ condLock \in Processes \cup {NoProc}
  /\ channel \in [Processes -> {"none", "mutex", "alarm_clock"}]
  /\ got \in 0 .. Count
  /\ counter \in 0 .. Count

\* The processes between cond_lock and cond_unlock.
Inside ==
  {p \in Processes : pc[p] \in {"get", "set", "test", "signal", "unlock", "wait", "waitUnlock", "waitRelease"}}

\* cond_lock lets one process in at a time, also when it is cond_wait that calls
\* it, and the mutex is taken exactly while one is inside.
MutexHeldByOne ==
  pc[Parent] # "alloc" => Cardinality(Inside) = IF locked = 0 THEN 1 ELSE 0

\* No signal is lost although cond_signal takes no lock: when the count has
\* reached the limit, who still sleeps on alarm_clock is about to be woken.
NoLostSignal ==
  \A c \in Children : channel[c] = "alarm_clock" /\ value >= CountLimit =>
    pc[Parent] \in {"test", "signal"}

\* "Awake one waiting thread": a process that sleeps in cond_wait when
\* cond_signal is called returns from cond_wait.
SignalAwakes ==
  \A c \in Children :
    (channel[c] = "alarm_clock" /\ At(Parent, "signal")) ~> (pc[c] = "waitRelease")
=============================================================================
