--------------------------- MODULE Xv6CondProofs ---------------------------
(***************************************************************************)
(* Theorems about Xv6Cond, for any number of children and rounds: the      *)
(* mutex has one holder, and no signal is lost.                            *)
(***************************************************************************)
EXTENDS MCXv6Sync, FiniteSetTheorems, TLAPS

ParentLabels == {"alloc", "lock", "get", "set", "test", "signal", "unlock", "sleep", "waitChild"}
ChildLabels == {"unforked", "lock", "test", "wait", "waitUnlock", "waitSleep", "waitWoken",
  "waitLock", "waitRelease", "unlock", "reset"}

Types ==
  /\ at \in [Cond!Processes -> Cond!Labels]
  /\ at[Parent] \in ParentLabels
  /\ \A c \in Children : at[c] \in ChildLabels
  /\ locked \in {0, 1}
  /\ value \in Nat /\ got \in Nat
  /\ condLock \in Cond!Processes \cup {NoProc}
  /\ channel \in [Cond!Processes -> {"none", "mutex", "alarm_clock"}]

NotForked == at[Parent] = "alloc" => \A c \in Children : at[c] = "unforked"

\* Whoever is inside is there alone, and the mutex says so.
Holder ==
  at[Parent] # "alloc" =>
    /\ \A p, q \in Cond!Inside : p = q
    /\ locked = 0 <=> Cond!Inside # {}

\* cond_wait holds condition->lock but for the sleep on alarm_clock.
WaiterLocks ==
  \A c \in Children :
    at[c] \in {"waitUnlock", "waitSleep", "waitLock", "waitRelease"} => condLock = c

\* The count was below the limit when the waiter looked, and still is.
WaiterBelow ==
  \A c \in Children : at[c] \in {"wait", "waitUnlock", "waitSleep"} => value < CountLimit

Waiting(c) == at[c] = "waitSleep" \/ channel[c] = "alarm_clock"

\* The count that the parent is about to store goes past the limit only when
\* nobody waits, and so does the one that it tests.
NobodyBeyond ==
  /\ at[Parent] = "set" /\ got >= CountLimit => \A c \in Children : ~Waiting(c)
  /\ at[Parent] = "test" /\ value > CountLimit =>
       \A c \in Children : channel[c] # "alarm_clock"

IInv ==
  Types /\ NotForked /\ Holder /\ WaiterLocks /\ WaiterBelow /\ NobodyBeyond /\ Cond!NoLostSignal

LEMMA InitIInv == Cond!Init => IInv
BY CondAssumption DEF Cond!Init, IInv, Types, ParentLabels, ChildLabels, Cond!Labels, NotForked,
    Holder,
  WaiterLocks, WaiterBelow, NobodyBeyond, Waiting, Cond!NoLostSignal, Cond!Inside, Cond!Processes

LEMMA NextIInv == IInv /\ [Cond!Next]_(Cond!vars) => IInv'
<1> SUFFICES ASSUME IInv, [Cond!Next]_(Cond!vars) PROVE IInv'
  OBVIOUS
<1> USE CondAssumption DEF IInv, Types, ParentLabels, ChildLabels, Cond!Labels, NotForked, Holder,
      WaiterLocks, WaiterBelow, NobodyBeyond, Waiting, Cond!NoLostSignal, Cond!Inside,
      Cond!Processes, Cond!At, Cond!Goto, Cond!Sleep
<1>1. CASE Cond!CondAlloc
  BY <1>1 DEF Cond!CondAlloc
<1>2. CASE Cond!CondLock(Parent, "lock", "get")
  BY <1>2 DEF Cond!CondLock, Cond!Taken
<1>3. CASE Cond!CondGet
  BY <1>3 DEF Cond!CondGet
<1>4. CASE Cond!CondSet(Parent, "set", "test", got + 1)
  BY <1>4 DEF Cond!CondSet, Cond!CondLockFree
<1>5. CASE Cond!TestLimit
  BY <1>5 DEF Cond!TestLimit
<1>6. CASE Cond!CondSignal(Parent, "signal", "unlock")
  BY <1>6 DEF Cond!CondSignal, Cond!Wakeup
<1>7. CASE Cond!CondUnlock(Parent, "unlock", "sleep")
  BY <1>7 DEF Cond!CondUnlock
<1>8. CASE Cond!NextRound
  BY <1>8 DEF Cond!NextRound
<1>9. ASSUME NEW c \in Children, Cond!CondLock(c, "lock", "test") PROVE IInv'
  BY <1>9 DEF Cond!CondLock, Cond!Taken
<1>10. ASSUME NEW c \in Children, Cond!TestWait(c) PROVE IInv'
  BY <1>10 DEF Cond!TestWait
<1>11. ASSUME NEW c \in Children, Cond!WaitAcquire(c) PROVE IInv'
  BY <1>11 DEF Cond!WaitAcquire, Cond!CondLockFree
<1>12. ASSUME NEW c \in Children, Cond!CondUnlock(c, "waitUnlock", "waitSleep") PROVE IInv'
  BY <1>12 DEF Cond!CondUnlock
<1>13. ASSUME NEW c \in Children, Cond!WaitSleep(c) PROVE IInv'
  BY <1>13 DEF Cond!WaitSleep
<1>14. ASSUME NEW c \in Children, Cond!WaitWoken(c) PROVE IInv'
  BY <1>14 DEF Cond!WaitWoken, Cond!CondLockFree
<1>15. ASSUME NEW c \in Children, Cond!CondLock(c, "waitLock", "waitRelease") PROVE IInv'
  BY <1>15 DEF Cond!CondLock, Cond!Taken
<1>16. ASSUME NEW c \in Children, Cond!WaitRelease(c) PROVE IInv'
  BY <1>16 DEF Cond!WaitRelease
<1>17. ASSUME NEW c \in Children, Cond!CondUnlock(c, "unlock", "reset") PROVE IInv'
  BY <1>17 DEF Cond!CondUnlock
<1>18. ASSUME NEW c \in Children, Cond!CondSet(c, "reset", "lock", 0) PROVE IInv'
  BY <1>18 DEF Cond!CondSet, Cond!CondLockFree
<1>19. CASE UNCHANGED Cond!vars
  BY <1>19 DEF Cond!vars
<1>20. QED
  BY <1>1, <1>2, <1>3, <1>4, <1>5, <1>6, <1>7, <1>8, <1>9, <1>10, <1>11, <1>12, <1>13, <1>14,
      <1>15, <1>16, <1>17, <1>18, <1>19 DEF Cond!Next, Cond!ParentStep, Cond!ChildStep,
      Cond!CondWait

LEMMA Invariant == Cond!Spec => []IInv
<1>1. Cond!Init => IInv
  BY InitIInv
<1>2. IInv /\ [Cond!Next]_(Cond!vars) => IInv'
  BY NextIInv
<1>3. QED
  BY <1>1, <1>2, PTL DEF Cond!Spec

\* cond_lock lets one process in at a time, also on behalf of cond_wait, and the
\* mutex is taken exactly while one is inside.
THEOREM MutexExclusive == Cond!Spec => []MutexHeldByOne
<1>1. ASSUME IInv PROVE MutexHeldByOne
  <2> SUFFICES ASSUME at[Parent] # "alloc"
               PROVE Cardinality(Cond!Inside) = IF locked = 0 THEN 1 ELSE 0
    BY DEF MutexHeldByOne, Cond!MutexHeldByOne, Cond!Cardinality, Cardinality
  <2>1. CASE Cond!Inside = {}
    BY <1>1, <2>1, FS_EmptySet DEF IInv, Holder
  <2>2. CASE Cond!Inside # {}
    <3>1. PICK p \in Cond!Inside : Cond!Inside = {p}
      BY <1>1, <2>2 DEF IInv, Holder
    <3>2. Cardinality(Cond!Inside) = 1
      BY <3>1, FS_Singleton
    <3>3. QED
      BY <1>1, <2>2, <3>2 DEF IInv, Holder
  <2>3. QED
    BY <2>1, <2>2
<1>2. QED
  BY <1>1, Invariant, PTL

\* cond_signal takes no lock, and yet whoever sleeps when the count has reached
\* the limit is about to be woken.
THEOREM SignalsArrive == Cond!Spec => []NoLostSignal
<1>1. IInv => NoLostSignal
  BY DEF IInv, NoLostSignal, Cond!NoLostSignal
<1>2. QED
  BY <1>1, Invariant, PTL
=============================================================================
