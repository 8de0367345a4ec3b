----------------------------- MODULE MCXv6Sync -----------------------------
(***************************************************************************)
(* The semaphores of Xv6Semaphore and the conditions of Xv6Cond in one     *)
(* run.  They share nothing: the initial state chooses what the kernel's   *)
(* processes use.                                                          *)
(***************************************************************************)
EXTENDS Xv6Semaphore, CondConstants, TLC

VARIABLES
  layer,
  at, locked, value, condLock, channel, got, counter

condVars == <<at, locked, value, condLock, channel, got, counter>>

Cond == INSTANCE Xv6Cond WITH pc <- at

SyncInit == layer \in {"semaphores", "conditions"} /\ Init /\ Cond!Init

SyncNext ==
  /\ UNCHANGED layer
  /\ \/ layer = "semaphores" /\ Next /\ UNCHANGED condVars
     \/ layer = "conditions" /\ Cond!Next /\ UNCHANGED vars

SyncSpec == SyncInit /\ [][SyncNext]_<<layer, vars, condVars>>

\* Only the processes of Xv6Semaphore: one of Xv6Cond, the parent, differs.
Symmetry == Permutations(Procs)

\* Xv6Cond: cond_lock lets one process in at a time.
MutexHeldByOne == Cond!MutexHeldByOne

\* Xv6Cond: no signal is lost although cond_signal takes no lock.
NoLostSignal == Cond!NoLostSignal
=============================================================================
