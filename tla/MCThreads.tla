----------------------------- MODULE MCThreads -----------------------------
(***************************************************************************)
(* Three programs of threads in one run: BarrierSort, ReaderWriter and     *)
(* BoundedBuffer.  They share nothing: the initial state chooses the one   *)
(* that runs.                                                              *)
(***************************************************************************)
EXTENDS BarrierSort, LibraryConstants, BufferConstants

VARIABLES
  program,
  users, value, libraryLock, count, countLock, seen, main, i, freed,
  buffer, in, out, used, asleep, sent, info

libraryVars == <<users, value, libraryLock, count, countLock, seen, main, i, freed>>
bufferVars == <<buffer, in, out, used, asleep, sent, info>>

Library == INSTANCE ReaderWriter WITH pc <- users
Buffer == INSTANCE BoundedBuffer WITH count <- used

\* A program that does not run has some input.
ThreadsInit ==
  /\ program \in {"sort", "library", "buffer"}
  /\ Init /\ (program # "sort" => data = [k \in Index |-> CHOOSE x \in Values : TRUE])
  /\ Library!Init
  /\ Buffer!Init

ThreadsNext ==
  /\ UNCHANGED program
  /\ \/ program = "sort" /\ Next /\ UNCHANGED <<libraryVars, bufferVars>>
     \/ program = "library" /\ Library!Next /\ UNCHANGED <<vars, bufferVars>>
     \/ program = "buffer" /\ Buffer!Next /\ UNCHANGED <<vars, libraryVars>>

\* The fairness of the program that runs.
ThreadsSpec ==
  /\ ThreadsInit /\ [][ThreadsNext]_<<program, vars, libraryVars, bufferVars>>
  /\ program = "sort" => Fairness
  /\ program = "library" => Library!Fairness
  /\ program = "buffer" => Buffer!Fairness

\* BarrierSort: the rounds come to an end.
SortingEnds == program = "sort" => Termination

\* ReaderWriter: a writer is alone in the library.
MutualExclusion == Library!MutualExclusion

\* ReaderWriter: count->counter says rightly who is first and who is last.
CountsReaders == Library!CountsReaders

\* ReaderWriter: the library is locked exactly while somebody is inside.
LockedWhileUsed == Library!LockedWhileUsed

\* ReaderWriter: no update of library->counter is lost.
UpdatesCounted == Library!UpdatesCounted

\* ReaderWriter: main() returns in the end.
LibraryCloses == program = "library" => Library!Termination

\* BoundedBuffer: no send() overwrites an info that nobody has received.
RingAligned == Buffer!RingAligned

\* BoundedBuffer: who sleeps has nothing to wake up for.
NoLostWakeup == Buffer!NoLostWakeup

\* BoundedBuffer: the ring delivers what was sent, once and in order.
ImplementsFifo == Buffer!ImplementsFifo

\* BoundedBuffer: every info sent is received in the end.
Delivery == program = "buffer" => Buffer!Delivery
=============================================================================
