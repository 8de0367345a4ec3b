------------------------------ MODULE Xv6Files ------------------------------
(***************************************************************************)
(* The open files of the xv6 kernel (Lab6/xv6-semaphores/file.c and        *)
(* sysfile.c): ftable with its reference counts, the descriptors of each   *)
(* process, and the system calls open, dup, close, pipe, read, write and   *)
(* fstat as far as they take, share and give back files.                   *)
(*                                                                         *)
(* A section under ftable.lock is one step; a process changes nothing but  *)
(* its own descriptors without a lock.  Inodes, pipes, fork and exit       *)
(* belong to the rest of the kernel: namei and create return an inode with *)
(* one reference for the caller, iput and pipeclose take one back,         *)
(* pipealloc makes a pipe and two files, fork copies the descriptors of    *)
(* the parent with filedup, a process exits when its files are closed.     *)
(***************************************************************************)
EXTENDS Naturals, Sequences, FiniteSets

CONSTANTS
  Procs,      \* processes
  FirstProc,  \* the one that runs at the start
  Inodes,     \* inodes that are opened
  Pipes,      \* pipes that can exist at a time
  NFile,      \* NFILE, size of ftable
  NOFile,     \* NOFILE, descriptors of a process
  None        \* no file, no object, no owner

Files == 1 .. NFile
Fds == 0 .. NOFile - 1
PipeEnds == Pipes \X {"read", "write"}
Objects == Inodes \cup PipeEnds

ASSUME FilesAssumption ==
  /\ IsFiniteSet(Procs) /\ FirstProc \in Procs
  /\ NFile \in Nat /\ NOFile \in Nat
  /\ None \notin Files \cup Objects \cup Procs
  /\ Inodes \cap PipeEnds = {}

VARIABLES
  ref,     \* f->ref
  object,  \* f->ip, or f->pipe and its end; None when f->type is FD_NONE
  ofile,   \* proc->ofile
  held,    \* references that files and calls have on each object
  ilock,   \* owner of each inode's lock, where a call holds it over several steps
  pc,      \* where each process is in a system call
  ip,      \* the inode a call has in hand
  f,       \* the file a call has in hand
  todo     \* the files a call has still to close

vars == <<ref, object, ofile, held, ilock, pc, ip, f, todo>>

Init ==
  /\ ref = [g \in Files |-> 0]
  /\ object = [g \in Files |-> None]
  /\ ofile = [p \in Procs |-> [fd \in Fds |-> None]]
  /\ held = [o \in Objects |-> 0]
  /\ ilock = [i \in Inodes |-> None]
  /\ pc = [p \in Procs |-> IF p = FirstProc THEN "user" ELSE "unused"]
  /\ ip = [p \in Procs |-> None]
  /\ f = [p \in Procs |-> None]
  /\ todo = [p \in Procs |-> <<>>]

Goto(p, label) == pc' = [pc EXCEPT ![p] = label]

\* Mutants of FreeFiles: files that nobody shares are taken for free.
UnsharedFiles == {g \in Files : ref[g] <= 1}

\* What a scan from the start of a table finds.
Lowest(S) == CHOOSE n \in S : \A m \in S : n <= m
FreeFiles == {g \in Files : ref[g] = 0}
FreeFds(p) == {fd \in Fds : ofile[p][fd] = None}

-----------------------------------------------------------------------------
(* sys_open                                                                *)

\* namei or create finds the inode; it stays locked.
OpenInode(p) ==
  /\ pc[p] = "user"
  /\ \E i \in Inodes :
       /\ ilock[i] = None
       /\ ilock' = [ilock EXCEPT ![i] = p]
       /\ held' = [held EXCEPT ![i] = @ + 1]
       /\ ip' = [ip EXCEPT ![p] = i]
  /\ Goto(p, "filealloc")
  /\ UNCHANGED <<ref, object, ofile, f, todo>>

Filealloc(p) ==
  /\ pc[p] = "filealloc"
  /\ IF FreeFiles = {} THEN Goto(p, "openFail") /\ UNCHANGED <<ref, f>>
     ELSE LET g == Lowest(FreeFiles) IN
          ref' = [ref EXCEPT ![g] = 1] /\ f' = [f EXCEPT ![p] = g] /\ Goto(p, "fdalloc")
  /\ UNCHANGED <<object, ofile, held, ilock, ip, todo>>

\* fdalloc takes the descriptor and the rest of sys_open fills the file, which
\* nobody else can see; without a descriptor the file is closed again.
OpenFdalloc(p) ==
  /\ pc[p] = "fdalloc"
  /\ IF FreeFds(p) = {}
     THEN /\ todo' = [todo EXCEPT ![p] = <<f[p]>>]
          /\ Goto(p, "close")
          /\ UNCHANGED <<object, ofile, ilock, ip>>
     ELSE /\ ofile' = [ofile EXCEPT ![p][Lowest(FreeFds(p))] = f[p]]
          /\ ilock' = [ilock EXCEPT ![ip[p]] = None]
          /\ object' = [object EXCEPT ![f[p]] = ip[p]]
          /\ ip' = [ip EXCEPT ![p] = None]
          /\ Goto(p, "user")
          /\ UNCHANGED todo
  /\ f' = [f EXCEPT ![p] = None]
  /\ UNCHANGED <<ref, held>>

\* Mutant of Iput: the reference is kept.
IputForgotten(o) == UNCHANGED held

\* iput or pipeclose.
Iput(o) == held' = [held EXCEPT ![o] = @ - 1]

\* iunlockput and return -1.
OpenFail(p) ==
  /\ pc[p] = "openFail"
  /\ ilock' = [ilock EXCEPT ![ip[p]] = None]
  /\ Iput(ip[p])
  /\ ip' = [ip EXCEPT ![p] = None]
  /\ Goto(p, "user")
  /\ UNCHANGED <<ref, object, ofile, f, todo>>

-----------------------------------------------------------------------------
(* sys_dup: the descriptor first, then the reference it stands for         *)

DupFd(p) ==
  /\ pc[p] = "user" /\ FreeFds(p) # {}
  /\ \E fd \in Fds \ FreeFds(p) :
       /\ f' = [f EXCEPT ![p] = ofile[p][fd]]
       /\ ofile' = [ofile EXCEPT ![p][Lowest(FreeFds(p))] = ofile[p][fd]]
  /\ Goto(p, "filedup")
  /\ UNCHANGED <<ref, object, held, ilock, ip, todo>>

Filedup(p) ==
  /\ pc[p] = "filedup"
  /\ IF ref[f[p]] < 1 THEN Goto(p, "panic") /\ UNCHANGED <<ref, f>>
     ELSE /\ ref' = [ref EXCEPT ![f[p]] = @ + 1]
          /\ f' = [f EXCEPT ![p] = None]
          /\ Goto(p, "user")
  /\ UNCHANGED <<object, ofile, held, ilock, ip, todo>>

-----------------------------------------------------------------------------
(* sys_close and fileclose                                                 *)

CloseFd(p) ==
  /\ pc[p] = "user"
  /\ \E fd \in Fds \ FreeFds(p) :
       /\ todo' = [todo EXCEPT ![p] = <<ofile[p][fd]>>]
       /\ ofile' = [ofile EXCEPT ![p][fd] = None]
  /\ Goto(p, "close")
  /\ UNCHANGED <<ref, object, held, ilock, ip, f>>

\* Where a call goes on when it has closed its files.
AfterClose(p) == IF ip[p] = None THEN "user" ELSE "openFail"

\* Under ftable.lock: drop the reference; the last one empties the file and takes
\* what it referred to along.  (A call that is to put an object after it has an
\* inode in hand already closes only files without type.)
Fileclose(p) ==
  LET g == Head(todo[p]) IN
  /\ pc[p] = "close" /\ todo[p] # <<>>
  /\ IF ref[g] < 1 THEN Goto(p, "panic") /\ UNCHANGED <<ref, object, ip, todo>>
     ELSE /\ ref' = [ref EXCEPT ![g] = @ - 1]
          /\ todo' = [todo EXCEPT ![p] = Tail(@)]
          /\ IF ref'[g] > 0 \/ object[g] = None
             THEN UNCHANGED <<object, ip, pc>>
             ELSE /\ ip' = [ip EXCEPT ![p] = object[g]]
                  /\ object' = [object EXCEPT ![g] = None]
                  /\ Goto(p, "put")
  /\ UNCHANGED <<ofile, held, ilock, f>>

\* pipeclose or, in a transaction, iput, after ftable.lock is released.
Put(p) ==
  /\ pc[p] = "put"
  /\ Iput(ip[p])
  /\ ip' = [ip EXCEPT ![p] = None]
  /\ Goto(p, "close")
  /\ UNCHANGED <<ref, object, ofile, ilock, f, todo>>

CloseReturn(p) ==
  /\ pc[p] = "close" /\ todo[p] = <<>>
  /\ Goto(p, AfterClose(p))
  /\ UNCHANGED <<ref, object, ofile, held, ilock, ip, f, todo>>

-----------------------------------------------------------------------------
(* sys_pipe                                                                *)

\* The ends of a new pipe, and two files for them.
Pipealloc(p, pipe, rf, wf) ==
  /\ \A end \in {"read", "write"} : held[<<pipe, end>>] = 0
  /\ rf = Lowest(FreeFiles) /\ wf = Lowest(FreeFiles \ {rf})
  /\ ref' = [ref EXCEPT ![rf] = 1, ![wf] = 1]
  /\ object' = [object EXCEPT ![rf] = <<pipe, "read">>, ![wf] = <<pipe, "write">>]
  /\ held' = [held EXCEPT ![<<pipe, "read">>] = 1, ![<<pipe, "write">>] = 1]

\* Two descriptors, or none: a first one is given back and both files closed.
Pipe(p) ==
  /\ pc[p] = "user" /\ Cardinality(FreeFiles) >= 2
  /\ \E pipe \in Pipes, rf, wf \in FreeFiles :
       /\ Pipealloc(p, pipe, rf, wf)
       /\ IF Cardinality(FreeFds(p)) >= 2
          THEN LET fd0 == Lowest(FreeFds(p))
                   fd1 == Lowest(FreeFds(p) \ {fd0})
               IN /\ ofile' = [ofile EXCEPT ![p][fd0] = rf, ![p][fd1] = wf]
                  /\ UNCHANGED <<pc, todo>>
          ELSE /\ todo' = [todo EXCEPT ![p] = <<rf, wf>>]
               /\ Goto(p, "close")
               /\ UNCHANGED ofile
  /\ UNCHANGED <<ilock, ip, f>>

-----------------------------------------------------------------------------
(* sys_read, sys_write, sys_fstat: argfd, then work on the file            *)

Argfd(p) ==
  /\ pc[p] = "user"
  /\ \E fd \in Fds \ FreeFds(p) : f' = [f EXCEPT ![p] = ofile[p][fd]]
  /\ Goto(p, "use")
  /\ UNCHANGED <<ref, object, ofile, held, ilock, ip, todo>>

\* fileread, filewrite and filestat lock the inode for each piece of their work;
\* filewrite comes here once for each chunk.  A file that has no type panics.
UseFile(p) ==
  /\ pc[p] = "use"
  /\ object[f[p]] \in Inodes => ilock[object[f[p]]] = None
  /\ IF object[f[p]] = None THEN Goto(p, "panic") /\ UNCHANGED f
     ELSE \/ UNCHANGED <<pc, f>>
          \/ Goto(p, "user") /\ f' = [f EXCEPT ![p] = None]
  /\ UNCHANGED <<ref, object, ofile, held, ilock, ip, todo>>

-----------------------------------------------------------------------------
(* The rest of the kernel                                                  *)

Entries(ps, g) == {e \in ps \X Fds : ofile[e[1]][e[2]] = g}

Fork(p, q) ==
  /\ pc[p] = "user" /\ pc[q] = "unused"
  /\ ref' = [g \in Files |-> ref[g] + Cardinality(Entries({p}, g))]
  /\ ofile' = [ofile EXCEPT ![q] = ofile[p]]
  /\ Goto(q, "user")
  /\ UNCHANGED <<object, held, ilock, ip, f, todo>>

\* exit() has closed every file, in the way CloseFd does.
Exit(p) ==
  /\ pc[p] = "user" /\ FreeFds(p) = Fds
  /\ Goto(p, "unused")
  /\ UNCHANGED <<ref, object, ofile, held, ilock, ip, f, todo>>

Step(p) ==
  \/ OpenInode(p) \/ Filealloc(p) \/ OpenFdalloc(p) \/ OpenFail(p)
  \/ DupFd(p) \/ Filedup(p)
  \/ CloseFd(p) \/ Fileclose(p) \/ Put(p) \/ CloseReturn(p)
  \/ Pipe(p)
  \/ Argfd(p) \/ UseFile(p)
  \/ (\E q \in Procs : Fork(p, q)) \/ Exit(p)

\* Every process has exited.
AllExited == (\A p \in Procs : pc[p] = "unused") /\ UNCHANGED vars

Next == (\E p \in Procs : Step(p)) \/ AllExited

Spec == Init /\ [][Next]_vars
-----------------------------------------------------------------------------
(* Properties                                                              *)

Labels == {"unused", "user", "filealloc", "fdalloc", "openFail", "filedup",
  "close", "put", "use", "panic"}

TypeOK ==
  /\ ref \in [Files -> Nat]
  /\ object \in [Files -> Objects \cup {None}]
  /\ ofile \in [Procs -> [Fds -> Files \cup {None}]]
  /\ held \in [Objects -> Nat]
  /\ ilock \in [Inodes -> Procs \cup {None}]
  /\ pc \in [Procs -> Labels]
  /\ ip \in [Procs -> Objects \cup {None}]
  /\ f \in [Procs -> Files \cup {None}]
  /\ todo \in [Procs -> Seq(Files)]

\* The calls that hold a reference to file g outside of any descriptor.
Calls(g) == {p \in Procs : pc[p] = "fdalloc" /\ f[p] = g}
Closings(g) == {c \in Procs \X {1, 2} : c[2] <= Len(todo[c[1]]) /\ todo[c[1]][c[2]] = g}
\* dup has set the descriptor and not yet counted it.
Uncounted(g) == {p \in Procs : pc[p] = "filedup" /\ f[p] = g}

\* f->ref is the number of descriptors of all processes that name the file, and
\* of calls that have it in hand to open or to close it.
RefsCountUses ==
  \A g \in Files :
    ref[g] + Cardinality(Uncounted(g)) =
      Cardinality(Entries(Procs, g)) + Cardinality(Calls(g)) + Cardinality(Closings(g))

\* Each object has as many references as there are files open on it and calls
\* that have it in hand: nothing is put twice, nothing leaks, on any error path.
ObjectsHeld ==
  \A o \in Objects :
    held[o] = Cardinality({g \in Files : object[g] = o}) + Cardinality({p \in Procs : ip[p] = o})

\* A process in user mode finds behind each of its descriptors a file that is
\* open, whatever the processes it shares the file with are doing.
DescriptorsOpen ==
  \A p \in Procs, fd \in Fds :
    ofile[p][fd] # None => ref[ofile[p][fd]] >= 1 /\ object[ofile[p][fd]] # None
=============================================================================
