----------------------------- MODULE Xv6Offsets -----------------------------
(***************************************************************************)
(* fileread and filewrite of Lab6/xv6-semaphores/file.c on one file that   *)
(* several processes share, through fork or dup, with its f->off.          *)
(* filewrite works in chunks, each in a transaction and under the lock of  *)
(* the inode, and gives both back in between; fileread does all at once.   *)
(* Offsets and lengths are counted in chunks.                              *)
(*                                                                         *)
(* writei and readi are those of fs.c: writei fails beyond the largest     *)
(* file, readi returns what there is.                                      *)
(***************************************************************************)
EXTENDS Integers

CONSTANTS
  Procs,     \* the processes that share the file
  MaxFile,   \* length of the largest file
  MaxLength, \* longest read or write
  None       \* no process

Places == 0 .. MaxFile - 1

VARIABLES
  off,     \* f->off
  length,  \* of the inode
  owner,   \* owner of the inode
  log,     \* the process in a transaction
  pc,      \* where each process is
  n, i, r, \* the variables of its call
  uses     \* history: transfers of each place of the file through f

vars == <<off, length, owner, log, pc, n, i, r, uses>>

Init ==
  /\ off = 0 /\ length \in 0 .. MaxFile
  /\ owner = None /\ log = None
  /\ pc = [p \in Procs |-> "user"]
  /\ n = [p \in Procs |-> 0] /\ i = [p \in Procs |-> 0] /\ r = [p \in Procs |-> 0]
  /\ uses = [k \in Places |-> 0]

Goto(p, label) == pc' = [pc EXCEPT ![p] = label]
Larger(a, b) == IF a < b THEN b ELSE a
Smaller(a, b) == IF a < b THEN a ELSE b

\* Mutant of Unlocked: ilock is not called.
UnlockedAny == TRUE

Unlocked == owner = None

\* The places from off on are read or written.
Transfer(p, count) ==
  /\ r' = [r EXCEPT ![p] = count]
  /\ uses' = [k \in Places |-> IF k >= off /\ k < off + count THEN uses[k] + 1 ELSE uses[k]]

Call(p) ==
  /\ pc[p] = "user"
  /\ \E m \in 1 .. MaxLength : n' = [n EXCEPT ![p] = m]
  /\ i' = [i EXCEPT ![p] = 0]
  /\ \E label \in {"read", "write"} : Goto(p, label)
  /\ UNCHANGED <<off, length, owner, log, r, uses>>

Read(p) ==
  /\ pc[p] = "read" /\ Unlocked
  /\ owner' = p
  /\ Transfer(p, Larger(0, Smaller(n[p], length - off)))
  /\ Goto(p, "readDone")
  /\ UNCHANGED <<off, length, log, n, i>>

ReadDone(p) ==
  /\ pc[p] = "readDone"
  /\ off' = off + r[p]
  /\ owner' = None
  /\ r' = [r EXCEPT ![p] = 0]
  /\ Goto(p, "user")
  /\ UNCHANGED <<length, log, n, i, uses>>

BeginTrans(p) ==
  /\ pc[p] = "write" /\ log = None
  /\ log' = p
  /\ Goto(p, "ilock")
  /\ UNCHANGED <<off, length, owner, n, i, r, uses>>

Writei(p) ==
  /\ pc[p] = "ilock" /\ Unlocked
  /\ owner' = p
  /\ IF off + 1 > MaxFile THEN r' = [r EXCEPT ![p] = -1] /\ UNCHANGED <<length, uses>>
     ELSE Transfer(p, 1) /\ length' = Larger(length, off + 1)
  /\ Goto(p, "written")
  /\ UNCHANGED <<off, log, n, i>>

\* f->off moves, then both locks go back.
Written(p) ==
  /\ pc[p] = "written"
  /\ off' = IF r[p] > 0 THEN off + r[p] ELSE off
  /\ owner' = None
  /\ Goto(p, "commit")
  /\ UNCHANGED <<length, log, n, i, r, uses>>

\* A chunk that fails ends the call with -1; those before it stay written.
Commit(p) ==
  /\ pc[p] = "commit"
  /\ log' = None
  /\ i' = [i EXCEPT ![p] = @ + 1]
  /\ Goto(p, IF r[p] < 0 \/ i'[p] = n[p] THEN "user" ELSE "write")
  /\ r' = [r EXCEPT ![p] = 0]
  /\ UNCHANGED <<off, length, owner, n, uses>>

Next ==
  \E p \in Procs :
    Call(p) \/ Read(p) \/ ReadDone(p) \/ BeginTrans(p) \/ Writei(p) \/ Written(p) \/ Commit(p)

Spec == Init /\ [][Next]_vars
-----------------------------------------------------------------------------
(* Properties                                                              *)

\* Calls that share the file divide it among them, chunk by chunk: each place up
\* to the offset has been read or written once, none behind it.
EachPlaceOnce ==
  owner = None => \A k \in Places : uses[k] = IF k < off THEN 1 ELSE 0
=============================================================================
