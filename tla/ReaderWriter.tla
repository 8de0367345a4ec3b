---------------------------- MODULE ReaderWriter ----------------------------
(***************************************************************************)
(* homework/reader_writer.c: readers share a library with each other,      *)
(* writers have it for themselves.  The first reader in locks              *)
(* library->lock for all readers and the last one out, perhaps another     *)
(* thread, unlocks it; count->counter, under count->lock, says who is      *)
(* first and last.  main() starts all the threads, joins those whose       *)
(* handles it still has, frees both counters and returns.                  *)
(***************************************************************************)
EXTENDS LibraryConstants, FiniteSets

Readers == {"reader"} \X (0 .. ReaderNum - 1)
Writers == {"writer"} \X (0 .. WriterNum - 1)
Threads == Readers \cup Writers

VARIABLES
  pc,           \* where each thread is
  value,        \* library->counter
  libraryLock,  \* thread that locked library->lock
  count,        \* count->counter
  countLock,    \* owner of count->lock while it may block on library->lock
  seen,         \* the library->counter each writer read to increment it
  main,         \* where main() is
  i,            \* its loop variable
  freed         \* counters that main() has freed

vars == <<pc, value, libraryLock, count, countLock, seen, main, i, freed>>

Init ==
  /\ pc = [t \in Threads |-> "uncreated"]
  /\ value = 0 /\ libraryLock = Nobody
  /\ count = 0 /\ countLock = Nobody
  /\ seen = [w \in Writers |-> 0]
  /\ main = "createReaders" /\ i = 0
  /\ freed = {}

Goto(t, label) == pc' = [pc EXCEPT ![t] = label]
Alive(t) == main # "exited" /\ pc[t] \notin {"uncreated", "done"}
Runs(t) == Alive(t) /\ freed = {}

-----------------------------------------------------------------------------
(* reader()                                                                *)

\* Mutant of LibraryFree: the lock is not waited for.
LibraryNotAsked == TRUE

LibraryFree == libraryLock = Nobody

\* Mutants of FirstIn and LastOut: no reader is, or too many are.
FirstInNever(n) == n = 0
LastOutNever(n) == n < 0
LastOutEarly(n) == n <= 1

FirstIn(n) == n = 1
LastOut(n) == n = 0

\* The first reader keeps count->lock until it has the library; the section of
\* the others never blocks.
Request(r) ==
  /\ Runs(r) /\ pc[r] = "request"
  /\ countLock = Nobody
  /\ count' = count + 1
  /\ IF FirstIn(count') THEN countLock' = r /\ Goto(r, "lockLibrary")
                   ELSE UNCHANGED countLock /\ Goto(r, "read")
  /\ UNCHANGED <<value, libraryLock, seen, main, i, freed>>

LockLibrary(r) ==
  /\ Runs(r) /\ pc[r] = "lockLibrary"
  /\ LibraryFree
  /\ libraryLock' = r
  /\ countLock' = Nobody
  /\ Goto(r, "read")
  /\ UNCHANGED <<value, count, seen, main, i, freed>>

\* Mutant of Done: count->counter-- is forgotten.
DoneUncounted(r) ==
  /\ Runs(r) /\ pc[r] = "read"
  /\ Goto(r, "done")
  /\ UNCHANGED <<value, libraryLock, count, countLock, seen, main, i, freed>>

\* The last reader unlocks the library, whoever locked it.
Done(r) ==
  /\ Runs(r) /\ pc[r] = "read"
  /\ countLock = Nobody
  /\ count' = count - 1
  /\ libraryLock' = IF LastOut(count') THEN Nobody ELSE libraryLock
  /\ Goto(r, "done")
  /\ UNCHANGED <<value, countLock, seen, main, i, freed>>

ReaderStep(r) == Request(r) \/ LockLibrary(r) \/ Done(r)

\* A reader that main() did not wait for uses what it has freed: the memory is no
\* longer a Counter.  The thread may stop for ever at what is not a lock (no
\* step), go on anywhere, or take the process down.
UseAfterFree(r) ==
  /\ Alive(r) /\ freed # {}
  /\ \/ /\ \E label \in {"lockLibrary", "read", "done"} : Goto(r, label)
        /\ UNCHANGED main
     \/ main' = "exited" /\ UNCHANGED pc
  /\ UNCHANGED <<value, libraryLock, count, countLock, seen, i, freed>>

-----------------------------------------------------------------------------
(* writer()                                                                *)

Enter(w) ==
  /\ Runs(w) /\ pc[w] = "request"
  /\ LibraryFree
  /\ libraryLock' = w
  /\ Goto(w, "write")
  /\ UNCHANGED <<value, count, countLock, seen, main, i, freed>>

\* library->counter++ is a load and a store.
Load(w) ==
  /\ Runs(w) /\ pc[w] = "write"
  /\ seen' = [seen EXCEPT ![w] = value]
  /\ Goto(w, "store")
  /\ UNCHANGED <<value, libraryLock, count, countLock, main, i, freed>>

Store(w) ==
  /\ Runs(w) /\ pc[w] = "store"
  /\ value' = seen[w] + 1
  /\ Goto(w, "leave")
  /\ UNCHANGED <<libraryLock, count, countLock, seen, main, i, freed>>

Leave(w) ==
  /\ Runs(w) /\ pc[w] = "leave"
  /\ libraryLock' = Nobody
  /\ Goto(w, "done")
  /\ UNCHANGED <<value, count, countLock, seen, main, i, freed>>

WriterStep(w) == Enter(w) \/ Load(w) \/ Store(w) \/ Leave(w)

-----------------------------------------------------------------------------
(* main()                                                                  *)

CreateReader ==
  /\ main = "createReaders" /\ i < ReaderNum
  /\ Goto(<<"reader", i>>, "request")
  /\ i' = i + 1
  /\ UNCHANGED <<value, libraryLock, count, countLock, seen, main, freed>>

CreateWriter ==
  /\ main = "createWriters" /\ i < WriterNum
  /\ Goto(<<"writer", i>>, "request")
  /\ i' = i + 1
  /\ UNCHANGED <<value, libraryLock, count, countLock, seen, main, freed>>

\* What threads_reader[n] holds after both loops.
ThreadsReader(n) == IF n < WriterNum THEN <<"writer", n>> ELSE <<"reader", n>>

Join ==
  /\ main = "joinReaders" /\ i < ReaderNum
  /\ pc[ThreadsReader(i)] = "done"
  /\ i' = i + 1
  /\ UNCHANGED <<pc, value, libraryLock, count, countLock, seen, main, freed>>

\* threads_writer[i] was never written: pthread_join on it fails, or waits for
\* whatever thread it names, or the process dies.
JoinGarbage ==
  /\ main = "joinWriters" /\ i < WriterNum
  /\ \/ i' = i + 1 /\ UNCHANGED main
     \/ main' = "exited" /\ UNCHANGED i
  /\ UNCHANGED <<pc, value, libraryLock, count, countLock, seen, freed>>

\* Each loop ends where the next statement of main() starts.
NextLoop ==
  /\ \/ main = "createReaders" /\ i = ReaderNum /\ main' = "createWriters"
     \/ main = "createWriters" /\ i = WriterNum /\ main' = "joinReaders"
     \/ main = "joinReaders" /\ i = ReaderNum /\ main' = "joinWriters"
     \/ main = "joinWriters" /\ i = WriterNum /\ main' = "free"
  /\ i' = 0
  /\ UNCHANGED <<pc, value, libraryLock, count, countLock, seen, freed>>

Free ==
  /\ main = "free"
  /\ freed # {"library", "count"}
  /\ freed' = IF freed = {} THEN {"library"} ELSE {"library", "count"}
  /\ UNCHANGED <<pc, value, libraryLock, count, countLock, seen, main, i>>

Return ==
  /\ main = "free"
  /\ freed = {"library", "count"}
  /\ main' = "exited"
  /\ UNCHANGED <<pc, value, libraryLock, count, countLock, seen, i, freed>>

MainStep ==
  CreateReader \/ CreateWriter \/ Join \/ JoinGarbage \/ NextLoop \/ Free \/ Return

Ended == main = "exited" /\ UNCHANGED vars

Next ==
  \/ \E r \in Readers : ReaderStep(r) \/ UseAfterFree(r)
  \/ \E w \in Writers : WriterStep(w)
  \/ MainStep
  \/ Ended

\* The kernel schedules every thread; a thread takes a lock at most twice, so
\* weak fairness is enough.  Nothing is assumed of UseAfterFree.
Fairness ==
  /\ \A r \in Readers : WF_vars(ReaderStep(r))
  /\ \A w \in Writers : WF_vars(WriterStep(w))
  /\ WF_vars(MainStep)

Spec == Init /\ [][Next]_vars /\ Fairness
-----------------------------------------------------------------------------
(* Properties                                                              *)

Labels == {"uncreated", "request", "lockLibrary", "read", "write", "store", "leave", "done"}

TypeOK ==
  /\ pc \in [Threads -> Labels]
  /\ \A r \in Readers : pc[r] \notin {"write", "store", "leave"}
  /\ \A w \in Writers : pc[w] \notin {"lockLibrary", "read"}
  /\ value \in 0 .. WriterNum
  /\ libraryLock \in Threads \cup {Nobody}
  /\ count \in 0 .. ReaderNum
  /\ countLock \in Readers \cup {Nobody}
  /\ seen \in [Writers -> 0 .. WriterNum]
  /\ main \in {"createReaders", "createWriters", "joinReaders", "joinWriters", "free", "exited"}
  /\ i \in 0 .. ReaderNum
  /\ freed \subseteq {"library", "count"}

Reading == {r \in Readers : pc[r] = "read"}
Writing == {w \in Writers : pc[w] \in {"write", "store", "leave"}}

\* A writer is alone in the library, although the readers' lock is taken by one
\* thread and given back by another.
MutualExclusion ==
  \A w \in Writers : w \in Writing => Reading = {} /\ Writing = {w}

\* Until it is freed count->counter is the number of readers that asked for
\* access and have not left: it says rightly who is first and who is last.
CountsReaders ==
  freed = {} => count = Cardinality({r \in Readers : pc[r] \in {"lockLibrary", "read"}})

\* The library is locked exactly while somebody is inside.
LockedWhileUsed ==
  freed = {} => (libraryLock = Nobody <=> Reading = {} /\ Writing = {})

\* No update is lost: library->counter is the number of writers that have
\* stored to it.
UpdatesCounted ==
  value = Cardinality({w \in Writers : pc[w] \in {"leave", "done"}})

\* main() returns in the end: no lock is kept for ever.
Termination == <>(main = "exited")

\* "Waiting for the termination of all the threads": when main() frees what the
\* threads share, every one of them is done.
WaitsForAllThreads == freed # {} => \A t \in Threads : pc[t] = "done"
=============================================================================
