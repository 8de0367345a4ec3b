-------------------------- MODULE FileConcatenate --------------------------
(***************************************************************************)
(* exam/20110629/file_concatenate.c: each thread takes two files from the  *)
(* directory stream that all of them share, under dir_lock, and then       *)
(* concatenates them.  What readdir finds depends on what the threads have *)
(* removed and linked meanwhile: any entry may come, and any may be the    *)
(* last.  The names and the contents of the files are left out.            *)
(***************************************************************************)

CONSTANTS
  Threads,  \* the K threads
  Nobody    \* owner of the free dir_lock

VARIABLES
  pc,              \* where each thread is in thread_func
  dirLock,         \* owner of directory->dir_lock
  next1, next2,    \* its variables next1, next2
  cont, rewinded,
  null1, null2,    \* filehead1, filehead2 is NULL
  process          \* "runs", "returned" from main, "failed" or "crashed"

own == <<next1, next2, cont, rewinded, null1, null2>>
vars == <<pc, dirLock, own, process>>

All(value) == [t \in Threads |-> value]

Init ==
  /\ pc = All("none") /\ dirLock = Nobody
  /\ next1 = All(TRUE) /\ next2 = All(TRUE)
  /\ cont = All(TRUE) /\ rewinded = All(FALSE)
  /\ null1 = All(FALSE) /\ null2 = All(FALSE)
  /\ process = "runs"

At(t, label) == process = "runs" /\ pc[t] = label
Goto(t, label) == pc' = [pc EXCEPT ![t] = label]
Set(f, t, value) == f' = [f EXCEPT ![t] = value]

-----------------------------------------------------------------------------
(* main()                                                                  *)

Create(t) ==
  /\ At(t, "none") /\ Goto(t, "lock")
  /\ UNCHANGED <<dirLock, own, process>>

\* main() returns, with those that it has created.
CreateFails(t) ==
  /\ At(t, "none") /\ process' = "failed"
  /\ UNCHANGED <<pc, dirLock, own>>

\* main() has joined every thread.
MainReturns ==
  /\ process = "runs" /\ \A t \in Threads : pc[t] = "returned"
  /\ process' = "returned"
  /\ UNCHANGED <<pc, dirLock, own>>

MainStep == (\E t \in Threads : Create(t) \/ CreateFails(t)) \/ MainReturns

-----------------------------------------------------------------------------
(* thread_func                                                             *)

\* "if (cont == 0) break;" - and return, with dir_lock.
Leave(t) == Goto(t, "returned") /\ UNCHANGED dirLock

Enter(t) ==
  /\ At(t, "lock") /\ dirLock = Nobody
  /\ dirLock' = t
  /\ Goto(t, "first") /\ Set(rewinded, t, FALSE)
  /\ UNCHANGED <<next1, next2, cont, null1, null2, process>>

-----------------------------------------------------------------------------
(* The first file.  At the end of the stream next1 is what it was.         *)

ToSecond(t) == Goto(t, "second") /\ Set(rewinded, t, FALSE) /\ UNCHANGED dirLock

FirstEnds(t) ==
  /\ At(t, "first") /\ ~rewinded[t]
  /\ Set(null1, t, TRUE)
  /\ IF next1[t] THEN Set(rewinded, t, TRUE) /\ UNCHANGED <<pc, dirLock>> ELSE ToSecond(t)
  /\ UNCHANGED <<next1, next2, cont, null2, process>>

FirstEndsAgain(t) ==
  /\ At(t, "first") /\ rewinded[t]
  /\ Leave(t) /\ Set(cont, t, FALSE) /\ Set(null1, t, TRUE)
  /\ UNCHANGED <<next1, next2, rewinded, null2, process>>

FirstFails(t) ==
  /\ At(t, "first")
  /\ Leave(t) /\ Set(cont, t, FALSE) /\ Set(null1, t, TRUE) /\ Set(next1, t, FALSE)
  /\ UNCHANGED <<next2, rewinded, null2, process>>

\* ".", ".." and "tmp" are passed over.
FirstEntry(t) ==
  /\ At(t, "first")
  /\ Set(null1, t, FALSE)
  /\ \/ Set(next1, t, TRUE) /\ UNCHANGED <<pc, dirLock, rewinded>>
     \/ Set(next1, t, FALSE) /\ ToSecond(t)
  /\ UNCHANGED <<next2, cont, null2, process>>

-----------------------------------------------------------------------------
(* The second file, with another name than the first                       *)

\* The loop ends with next2; cont says whether there is work.
SecondLoop(t, next, goOn) ==
  IF next THEN UNCHANGED <<pc, dirLock>>
  ELSE IF goOn THEN Goto(t, "work") /\ dirLock' = Nobody
  ELSE Leave(t)

\* Mutant of SecondEnds: rewinded is not set.
SecondEndsForgotten(t) ==
  /\ At(t, "second") /\ ~rewinded[t]
  /\ Set(null2, t, TRUE)
  /\ SecondLoop(t, next2[t], cont[t])
  /\ UNCHANGED <<next1, next2, cont, rewinded, null1, process>>

SecondEnds(t) ==
  /\ At(t, "second") /\ ~rewinded[t]
  /\ Set(null2, t, TRUE) /\ Set(rewinded, t, TRUE)
  /\ SecondLoop(t, next2[t], cont[t])
  /\ UNCHANGED <<next1, next2, cont, null1, process>>

SecondEndsAgain(t) ==
  /\ At(t, "second") /\ rewinded[t]
  /\ Leave(t) /\ Set(cont, t, FALSE) /\ Set(null2, t, TRUE)
  /\ UNCHANGED <<next1, next2, rewinded, null1, process>>

SecondFails(t) ==
  /\ At(t, "second")
  /\ Set(null2, t, TRUE) /\ Set(cont, t, FALSE)
  /\ SecondLoop(t, next2[t], FALSE)
  /\ UNCHANGED <<next1, next2, rewinded, null1, process>>

\* Passed over, for its name or because it is the first file; or the one.
SecondEntry(t) ==
  /\ At(t, "second")
  /\ Set(null2, t, FALSE)
  /\ \E next \in BOOLEAN : Set(next2, t, next) /\ SecondLoop(t, next, cont[t])
  /\ UNCHANGED <<next1, cont, rewinded, null1, process>>

-----------------------------------------------------------------------------
\* Copying to the new file.  When the second file could not be opened, read
\* returns -1 for ever.
Work(t) ==
  /\ At(t, "work") /\ ~null1[t] /\ ~null2[t]
  /\ \E next \in {"lock", "copying"} : Goto(t, next)
  /\ UNCHANGED <<dirLock, own, process>>

\* The name of an entry that is NULL is compared or printed; the arrays for the
\* names of the new file have no room for the last byte.
Crash(t) ==
  /\ At(t, "work") \/ (At(t, "second") /\ null1[t])
  /\ process' = "crashed"
  /\ UNCHANGED <<pc, dirLock, own>>

Step(t) ==
  \/ Enter(t)
  \/ FirstEnds(t) \/ FirstEndsAgain(t) \/ FirstFails(t) \/ FirstEntry(t)
  \/ SecondEnds(t) \/ SecondEndsAgain(t) \/ SecondFails(t) \/ SecondEntry(t)
  \/ Work(t) \/ Crash(t)

Next == (\E t \in Threads : Step(t)) \/ MainStep

Spec == Init /\ [][Next]_vars

\* main() and the threads are scheduled.  The stream of a directory ends: while
\* one thread reads it, the others add a finite number of entries.
Fairness ==
  /\ WF_vars(MainStep)
  /\ \A t \in Threads : WF_vars(Step(t))
  /\ \A t \in Threads : WF_vars(FirstEnds(t)) /\ WF_vars(FirstEndsAgain(t))
  /\ \A t \in Threads : WF_vars(SecondEnds(t)) /\ WF_vars(SecondEndsAgain(t))

FairSpec == Spec /\ Fairness
-----------------------------------------------------------------------------
(* Properties                                                              *)

Searching(t) == pc[t] \in {"first", "second"}

\* readdir and rewinddir move the one stream: from the first entry a thread asks
\* for to the second file it takes, no other thread moves it.
StreamReadAlone == \A t, u \in Threads : Searching(t) /\ Searching(u) => t = u

\* The loops of a search carry next1, next2, cont and rewinded from turn to turn
\* and from one pair of files to the next; each search comes to an end all the same.
SearchEnds == \A t \in Threads : Searching(t) ~> ~Searching(t) \/ process # "runs"

\* When the threads find no more files, they come to their end, and main(), which
\* joins them all, to its own.
EndsWithoutFiles ==
  (\A t \in Threads : <>[](pc[t] \notin {"work", "copying"})) => <>(process # "runs")
=============================================================================
