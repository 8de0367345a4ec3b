----------------------------- MODULE CharDevice -----------------------------
(***************************************************************************)
(* Lab7/modules/chardev_SDP_lab/chardev_SDP_lab.c: a character device that *)
(* gives back what was last written to it.  content_size and offset belong *)
(* to the module, not to an open file; a semaphore lets one process have   *)
(* the device open.  The device can be opened as soon as cdev_add has      *)
(* returned, before init_module is through.  The bytes are left out.       *)
(*                                                                         *)
(* The kernel unloads a module that nobody uses; a process does one call   *)
(* at a time on the file it has opened.                                    *)
(***************************************************************************)
EXTENDS Naturals, FiniteSets

CONSTANTS
  Procs,   \* the processes that use the device
  Counts,  \* arguments of read and write
  BufLen   \* BUF_LEN

VARIABLES
  module,       \* how far init_module is
  me,           \* the semaphore
  contentSize, offset,
  pc,           \* where each process is: in open, with the device open, or neither
  given         \* history: what each process has read since its open

vars == <<module, me, contentSize, offset, pc, given>>

Init ==
  /\ module = "unloaded"
  /\ me = 1 /\ contentSize = 0 /\ offset = 0
  /\ pc = [p \in Procs |-> "closed"]
  /\ given = [p \in Procs |-> 0]

Goto(p, label) == pc' = [pc EXCEPT ![p] = label]
Least(a, b) == IF a < b THEN a ELSE b

-----------------------------------------------------------------------------
(* init_module and cleanup_module                                          *)

\* insmod brings fresh data; the device numbers may be refused.
AllocRegion ==
  /\ module = "unloaded"
  /\ module' \in {"numbered", "unloaded"}
  /\ me' = 1 /\ contentSize' = 0 /\ offset' = 0
  /\ UNCHANGED <<pc, given>>

CdevAdd ==
  /\ module = "numbered"
  /\ module' \in {"added", "unloaded"}
  /\ UNCHANGED <<me, contentSize, offset, pc, given>>

InitReturns ==
  /\ module = "added"
  /\ contentSize' = 0
  /\ module' = "loaded"
  /\ UNCHANGED <<me, offset, pc, given>>

Cleanup ==
  /\ module = "loaded" /\ \A p \in Procs : pc[p] = "closed"
  /\ module' = "unloaded"
  /\ UNCHANGED <<me, contentSize, offset, pc, given>>

-----------------------------------------------------------------------------
(* The operations                                                          *)

Open(p) ==
  /\ module \in {"added", "loaded"} /\ pc[p] = "closed"
  /\ Goto(p, "opening")
  /\ UNCHANGED <<module, me, contentSize, offset, given>>

Opened(p) ==
  /\ pc[p] = "opening" /\ me > 0
  /\ me' = me - 1
  /\ offset' = 0
  /\ given' = [given EXCEPT ![p] = 0]
  /\ Goto(p, "open")
  /\ UNCHANGED <<module, contentSize>>

\* Mutant of Refused: the result of down_interruptible is not looked at.
RefusedNever == "open"

Refused == "closed"

\* A signal ended down_interruptible: the open fails.
Interrupted(p) ==
  /\ pc[p] = "opening"
  /\ Goto(p, Refused)
  /\ UNCHANGED <<module, me, contentSize, offset, given>>

Release(p) ==
  /\ pc[p] = "open"
  /\ me' = me + 1
  /\ Goto(p, "closed")
  /\ UNCHANGED <<module, contentSize, offset, given>>

Read(p, count) ==
  LET n == IF offset >= contentSize THEN 0 ELSE Least(count, contentSize) IN
  /\ pc[p] = "open"
  /\ offset' = offset + n
  /\ given' = [given EXCEPT ![p] = @ + n]
  /\ UNCHANGED <<module, me, contentSize, pc>>

Write(p, count) ==
  /\ pc[p] = "open"
  /\ contentSize' = Least(count, BufLen)
  /\ UNCHANGED <<module, me, offset, pc, given>>

Step(p) ==
  \/ Open(p) \/ Opened(p) \/ Interrupted(p) \/ Release(p)
  \/ \E count \in Counts : Read(p, count) \/ Write(p, count)

Next == AllocRegion \/ CdevAdd \/ InitReturns \/ Cleanup \/ \E p \in Procs : Step(p)

Spec == Init /\ [][Next]_vars
-----------------------------------------------------------------------------
(* Properties                                                              *)

Holders == {p \in Procs : pc[p] = "open"}

\* The offset that all opens share is that of the one process that has the device
\* open: what it has read since, whoever had the device before, waits for it,
\* gives up waiting or comes while the module is still initialising.
OffsetOfHolder == \A p \in Holders : Holders = {p} /\ offset = given[p]
=============================================================================
