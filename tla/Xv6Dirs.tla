------------------------------ MODULE Xv6Dirs ------------------------------
(***************************************************************************)
(* The system calls of Lab6/xv6-semaphores/sysfile.c that work on names:   *)
(* open, mkdir, mknod, link, unlink and chdir, and close as far as it puts *)
(* an inode.  A process waits in two places, at begin_trans for the log    *)
(* and at ilock for an inode; what it does between two waits is one step.  *)
(*                                                                         *)
(* namei, iget, iput, ialloc, dirlookup, dirlink and the log belong to the *)
(* rest of the kernel: iput frees an inode without references and links,   *)
(* which writes to the disk and so must happen in somebody's transaction.  *)
(***************************************************************************)
EXTENDS Naturals, Sequences, FiniteSets

CONSTANTS
  Procs,     \* the processes
  NInodes,   \* inodes of the disk; inode 1 is the root directory
  Names,     \* names of files
  Paths,     \* arguments of the calls: Names and "..", after "/" if absolute
  MaxCalls,  \* bound: calls that each process makes
  None       \* no process

Root == 1
Inums == 1 .. NInodes
NoInode == 0

VARIABLES
  inode,   \* type, nlink and entries of each inode; ".." is its entry up
  ref,     \* ip->ref
  lock,    \* owner of each inode, I_BUSY
  log,     \* the process that is in a transaction
  cwd,     \* proc->cwd
  fd,      \* the inode behind the open file of each process
  pc,      \* where each process is in its call
  op,      \* the call
  path,    \* what namei has still to look up
  at,      \* the inode namei has come to; then dp, or the inode that was named
  ip,      \* the other inode that the call has in hand
  calls,   \* calls each process has made
  panic,   \* the message the kernel has stopped with
  lost     \* history: entries for each inode that vanished with their directory

vars == <<inode, ref, lock, log, cwd, fd, pc, op, path, at, ip, calls, panic, lost>>
hands == <<op, path, at, ip>>

Blank == [type |-> "free", nlink |-> 0, entry |-> [n \in Names |-> NoInode], up |-> NoInode]
Dir(links, parent) == [Blank EXCEPT !.type = "dir", !.nlink = links, !.up = parent]
Enter(d, n, i) == [d EXCEPT !.entry[n] = i]

\* A root with a directory in it, in that a file, another directory, or nothing.
Trees ==
  LET n == CHOOSE m \in Names : TRUE
      Tree(d, last) == [i \in Inums |-> CASE i = Root -> Enter(Dir(2, Root), n, 2)
                                           [] i = 2 -> d [] i = 3 -> last [] OTHER -> Blank]
  IN { Tree(Dir(1, Root), Blank),
       Tree(Enter(Dir(1, Root), n, 3), [Blank EXCEPT !.type = "file", !.nlink = 1]),
       Tree(Enter(Dir(2, Root), n, 3), Dir(1, 2)) }

Init ==
  /\ inode \in Trees
  /\ cwd \in [Procs -> {i \in Inums : inode[i].type = "dir"}]
  /\ ref = [i \in Inums |-> Cardinality({p \in Procs : cwd[p] = i})]
  /\ lock = [i \in Inums |-> None]
  /\ log = None
  /\ fd = [p \in Procs |-> NoInode]
  /\ pc = [p \in Procs |-> "user"]
  /\ op = [p \in Procs |-> "none"]
  /\ path = [p \in Procs |-> <<>>]
  /\ at = [p \in Procs |-> NoInode]
  /\ ip = [p \in Procs |-> NoInode]
  /\ calls = [p \in Procs |-> 0] /\ panic = "" /\ lost = [i \in Inums |-> 0]

Runs(p, label) == panic = "" /\ pc[p] = label
Goto(p, label) == pc' = [pc EXCEPT ![p] = label]
Set(f, p, v) == [f EXCEPT ![p] = v]
Lookup(i, n) == IF n = ".." THEN inode[i].up ELSE inode[i].entry[n]
Lock(i, owner) == lock' = [lock EXCEPT ![i] = owner]
Panic(message) ==
  panic' = message /\ UNCHANGED <<inode, ref, lock, log, cwd, fd, pc, hands, calls, lost>>

Iget(r, i) == [r EXCEPT ![i] = @ + 1]

\* Mutant of Iput: the reference is not taken back.
IputNever(r, i) == r

Iput(r, i) == [r EXCEPT ![i] = @ - 1]

\* Mutant of Unused: open files and working directories are not asked for.
Unlinked(r, i) == TRUE

Unused(r, i) == r[i] = 0

\* The new inodes and references; who put the last reference to an inode without
\* links has freed it, with what it contained.
Settle(new, r) ==
  LET gone == {i \in Inums : new[i].type # "free" /\ new[i].nlink = 0 /\ Unused(r, i)} IN
  /\ ref' = r
  /\ inode' = [i \in Inums |-> IF i \in gone THEN Blank ELSE new[i]]
  /\ lost' = [i \in Inums |->
       lost[i] + Cardinality({e \in gone \X Names : new[e[1]].entry[e[2]] = i})]
  /\ panic' = IF gone # {} /\ log = None THEN "write outside of trans" ELSE ""

-----------------------------------------------------------------------------
(* Calls and namei                                                         *)

Creates == {"creat", "mkdir", "mknod"}

\* link looks up two names, the second with the linked inode in hand.
ByParent(c, linked) == c \in Creates \cup {"unlink"} \/ linked # NoInode

\* Where call c goes on when it has found the inode it asked for, or has not.
Found(c, linked) ==
  CASE c \in Creates -> "create"
    [] c = "link" /\ linked # NoInode -> "dirlink"
    [] c = "unlink" \/ (c = "link" /\ linked = NoInode) -> "begin"
    [] OTHER -> c
NotFound(p) == IF op[p] = "link" /\ ip[p] # NoInode THEN "bad" ELSE "return"

\* namei or nameiparent starts at the root or at the working directory.
Namei(p, c, linked) ==
  \E arg \in Paths :
    LET absolute == arg[1] = "/"
        names == IF absolute THEN Tail(arg) ELSE arg
        start == IF absolute THEN Root ELSE cwd[p]
    IN /\ ByParent(c, linked) => names # <<>>
       /\ at' = Set(at, p, start)
       /\ path' = Set(path, p, names)
       /\ ref' = Iget(ref, start)
       /\ Goto(p, IF names = <<>> THEN Found(c, linked) ELSE "walk")

Call(p) ==
  /\ Runs(p, "user") /\ calls[p] < MaxCalls[p]
  /\ calls' = Set(calls, p, calls[p] + 1)
  /\ \/ \E c \in Creates : op' = Set(op, p, c)
        /\ Goto(p, "begin")
        /\ UNCHANGED <<ref, path, at>>
     \/ \E c \in {"open", "link", "unlink", "chdir"} :
          op' = Set(op, p, c) /\ Namei(p, c, NoInode)
  /\ UNCHANGED <<inode, lock, log, cwd, fd, ip, panic, lost>>

\* Nobody else has the file: fileclose goes on to put its inode.
Close(p) ==
  /\ Runs(p, "user") /\ calls[p] < MaxCalls[p] /\ fd[p] # NoInode
  /\ calls' = Set(calls, p, calls[p] + 1)
  /\ op' = Set(op, p, "close")
  /\ at' = Set(at, p, fd[p])
  /\ fd' = Set(fd, p, NoInode)
  /\ Goto(p, "begin")
  /\ UNCHANGED <<inode, ref, lock, log, cwd, path, ip, panic, lost>>

BeginTrans(p) ==
  /\ Runs(p, "begin") /\ log = None
  /\ log' = p
  /\ IF op[p] \in Creates THEN Namei(p, op[p], NoInode)
     ELSE /\ Goto(p, IF op[p] = "close" THEN "put" ELSE op[p])
          /\ UNCHANGED <<ref, path, at>>
  /\ UNCHANGED <<inode, lock, cwd, fd, op, ip, calls, panic, lost>>

\* One element of the path, under the lock of the directory it is looked up in.
Walk(p) ==
  LET i == at[p]
      n == Head(path[p])
      next == Lookup(i, n)
      Leave == Settle(inode, Iput(ref, i)) /\ Goto(p, NotFound(p)) /\ at' = Set(at, p, NoInode)
  IN
  /\ Runs(p, "walk") /\ lock[i] = None
  /\ IF inode[i].type = "free" THEN Panic("ilock: no type")
     ELSE /\ IF inode[i].type # "dir" THEN Leave /\ UNCHANGED path
             ELSE IF ByParent(op[p], ip[p]) /\ Len(path[p]) = 1
             THEN Goto(p, Found(op[p], ip[p])) /\ UNCHANGED <<path, at, inode, ref, panic, lost>>
             ELSE IF next = NoInode THEN Leave /\ UNCHANGED path
             ELSE /\ Settle(inode, Iput(Iget(ref, next), i))
                  /\ at' = Set(at, p, next)
                  /\ path' = Set(path, p, Tail(path[p]))
                  /\ Goto(p, IF Len(path[p]) = 1 THEN Found(op[p], ip[p]) ELSE "walk")
          /\ UNCHANGED <<lock, log, cwd, fd, op, ip, calls>>

Committed(p) == IF log = p THEN None ELSE log

\* commit_trans, if the call began a transaction, and the return.
Return(p) ==
  /\ Runs(p, "return")
  /\ log' = Committed(p)
  /\ op' = Set(op, p, "none")
  /\ path' = Set(path, p, <<>>)
  /\ Goto(p, "user")
  /\ UNCHANGED <<inode, ref, lock, cwd, fd, at, ip, calls, panic, lost>>

\* Mutant of Iunlock: what the call has locked stays locked.
IunlockNever(p) == lock

Iunlock(p) == [i \in Inums |-> IF lock[i] = p THEN None ELSE lock[i]]

\* Put the inodes in hand, unlocked, and go on; what it does to inodes is "new".
PutBoth(p, new) ==
  LET r == IF ip[p] = NoInode THEN ref ELSE Iput(ref, ip[p]) IN
  /\ Settle(new, IF at[p] = NoInode THEN r ELSE Iput(r, at[p]))
  /\ lock' = Iunlock(p)
  /\ at' = Set(at, p, NoInode) /\ ip' = Set(ip, p, NoInode)
  /\ Goto(p, "return")
  /\ UNCHANGED <<log, cwd, fd, op, path, calls>>

-----------------------------------------------------------------------------
(* create, sys_mkdir, sys_mknod, sys_open                                  *)

FreeInodes == {i \in Inums : inode[i].type = "free"}

\* Mutant of DotDotLinks: no dp->nlink++ for "..".
DotDotLinksNone(type) == 0

DotDotLinks(type) == IF type = "dir" THEN 1 ELSE 0

\* create() under the lock of the parent: the new inode comes back locked.
Create(p) ==
  LET dp == at[p]
      n == Head(path[p])
      type == CASE op[p] = "creat" -> "file" [] op[p] = "mkdir" -> "dir" [] OTHER -> "dev"
      i == CHOOSE j \in FreeInodes : \A k \in FreeInodes : j <= k
      new == [Blank EXCEPT !.type = type, !.nlink = 1, !.up = IF type = "dir" THEN dp ELSE NoInode]
  IN
  /\ Runs(p, "create") /\ lock[dp] = None
  /\ IF Lookup(dp, n) # NoInode
     THEN /\ Settle(inode, Iput(Iget(ref, Lookup(dp, n)), dp))
          /\ at' = Set(at, p, Lookup(dp, n))
          /\ Goto(p, "existing")
          /\ UNCHANGED <<lock, log, cwd, fd, op, path, ip, calls>>
     ELSE IF FreeInodes = {} THEN Panic("create: ialloc")
     ELSE /\ Settle([inode EXCEPT
                      ![i] = new,
                      ![dp] = [Enter(inode[dp], n, i) EXCEPT !.nlink = @ + DotDotLinks(type)]],
                    Iput(Iget(ref, i), dp))
          /\ Lock(i, p)
          /\ at' = Set(at, p, i)
          /\ Goto(p, IF op[p] = "creat" THEN "commit" ELSE "put")
          /\ UNCHANGED <<log, cwd, fd, op, path, ip, calls>>

\* The name exists: only a file can be created again.  A ".." may be stale.
Existing(p) ==
  LET i == at[p] IN
  /\ Runs(p, "existing") /\ lock[i] = None
  /\ IF inode[i].type = "free" THEN Panic("ilock: no type")
     ELSE IF op[p] = "creat" /\ inode[i].type = "file"
     THEN /\ Lock(i, p)
          /\ Goto(p, "commit")
          /\ UNCHANGED <<inode, ref, log, cwd, fd, hands, calls, panic, lost>>
     ELSE PutBoth(p, inode)

\* sys_open after create().
Commit(p) ==
  /\ Runs(p, "commit")
  /\ log' = Committed(p)
  /\ Goto(p, "opened")
  /\ UNCHANGED <<inode, ref, lock, cwd, fd, hands, calls, panic, lost>>

\* sys_open without O_CREATE; a directory may be opened for reading.
Open(p) ==
  LET i == at[p] IN
  /\ Runs(p, "open") /\ lock[i] = None
  /\ IF inode[i].type = "free" THEN Panic("ilock: no type")
     ELSE \/ /\ Lock(i, p)
             /\ Goto(p, "opened")
             /\ UNCHANGED <<inode, ref, log, cwd, fd, hands, calls, panic, lost>>
          \/ /\ inode[i].type = "dir"
             /\ PutBoth(p, inode)

\* A file and a descriptor take the reference over.
Opened(p) ==
  /\ Runs(p, "opened") /\ fd[p] = NoInode
  /\ fd' = Set(fd, p, at[p])
  /\ Lock(at[p], None)
  /\ at' = Set(at, p, NoInode)
  /\ Goto(p, "return")
  /\ UNCHANGED <<inode, ref, log, cwd, op, path, ip, calls, panic, lost>>

\* No file, or no descriptor: iunlockput, outside of the transaction.
NotOpened(p) == Runs(p, "opened") /\ PutBoth(p, inode)

\* iput in a transaction: fileclose, and mkdir and mknod with what they made.
Put(p) == Runs(p, "put") /\ PutBoth(p, inode)

-----------------------------------------------------------------------------
(* sys_link, sys_unlink, sys_chdir                                         *)

\* The link is counted before the directory of the entry is looked up.
Link(p) ==
  LET i == at[p] IN
  /\ Runs(p, "link") /\ lock[i] = None
  /\ IF inode[i].type = "free" THEN Panic("ilock: no type")
     ELSE IF inode[i].type = "dir" THEN PutBoth(p, inode)
     ELSE /\ inode' = [inode EXCEPT ![i].nlink = @ + 1]
          /\ ip' = Set(ip, p, i)
          /\ Namei(p, "link", i)
          /\ UNCHANGED <<lock, log, cwd, fd, op, calls, panic, lost>>

\* A name that exists makes dirlink fail.
Dirlink(p) ==
  LET dp == at[p]
      n == Head(path[p])
  IN
  /\ Runs(p, "dirlink") /\ lock[dp] = None
  /\ IF Lookup(dp, n) = NoInode
     THEN PutBoth(p, [inode EXCEPT ![dp] = Enter(@, n, ip[p])])
     ELSE /\ Settle(inode, Iput(ref, dp))
          /\ at' = Set(at, p, NoInode)
          /\ Goto(p, "bad")
          /\ UNCHANGED <<lock, log, cwd, fd, op, path, ip, calls>>

\* Mutant of Undone: the link stays counted.
UndoneNever(i) == inode

Undone(i) == [inode EXCEPT ![i].nlink = @ - 1]

Bad(p) ==
  /\ Runs(p, "bad") /\ lock[ip[p]] = None
  /\ PutBoth(p, Undone(ip[p]))

\* The parent stays locked while the call waits for the inode in it.
Unlink(p) ==
  LET dp == at[p]
      n == Head(path[p])
  IN
  /\ Runs(p, "unlink") /\ lock[dp] = None
  /\ IF n = ".." \/ Lookup(dp, n) = NoInode THEN PutBoth(p, inode)
     ELSE /\ Lock(dp, p)
          /\ ip' = Set(ip, p, Lookup(dp, n))
          /\ ref' = Iget(ref, Lookup(dp, n))
          /\ Goto(p, "unlinkInode")
          /\ UNCHANGED <<inode, log, cwd, fd, op, path, at, calls, panic, lost>>

IsDirEmpty(i) == \A n \in Names : inode[i].entry[n] = NoInode

UnlinkInode(p) ==
  LET dp == at[p]
      n == Head(path[p])
      i == ip[p]
  IN
  /\ Runs(p, "unlinkInode") /\ lock[i] = None
  /\ IF inode[i].nlink < 1 THEN Panic("unlink: nlink < 1")
     ELSE IF inode[i].type = "dir" /\ ~IsDirEmpty(i) THEN PutBoth(p, inode)
     ELSE PutBoth(p, [inode EXCEPT
            ![dp] = [Enter(inode[dp], n, NoInode) EXCEPT !.nlink = @ - DotDotLinks(inode[i].type)],
            ![i].nlink = @ - 1])

\* The old directory is put outside of any transaction of its own.
Chdir(p) ==
  LET i == at[p] IN
  /\ Runs(p, "chdir") /\ lock[i] = None
  /\ IF inode[i].type = "free" THEN Panic("ilock: no type")
     ELSE IF inode[i].type # "dir" THEN PutBoth(p, inode)
     ELSE /\ Settle(inode, Iput(ref, cwd[p]))
          /\ cwd' = Set(cwd, p, i)
          /\ at' = Set(at, p, NoInode)
          /\ Goto(p, "return")
          /\ UNCHANGED <<lock, log, fd, op, path, ip, calls>>

-----------------------------------------------------------------------------
Step(p) ==
  \/ Call(p) \/ Close(p) \/ BeginTrans(p) \/ Walk(p) \/ Return(p)
  \/ Create(p) \/ Existing(p) \/ Commit(p) \/ Open(p) \/ Opened(p) \/ NotOpened(p) \/ Put(p)
  \/ Link(p) \/ Dirlink(p) \/ Bad(p) \/ Unlink(p) \/ UnlinkInode(p) \/ Chdir(p)

\* Every call that was made has returned, or the kernel has stopped.
Ended == panic # "" \/ (\A p \in Procs : pc[p] = "user" /\ calls[p] = MaxCalls[p])

\* The scheduler looks for a process to run for ever.
Idle == UNCHANGED vars

Next == (\E p \in Procs : Step(p)) \/ Idle

\* The scheduler runs every process; with so many calls a process waits for the
\* log or for an inode a bounded number of times, so weak fairness is enough.
Fairness == \A p \in Procs : WF_vars(Step(p))

Spec == Init /\ [][Next]_vars /\ Fairness
-----------------------------------------------------------------------------
(* Properties                                                              *)

Entries(i) == {e \in Inums \X Names : inode[e[1]].entry[e[2]] = i}
Subdirectories(i) ==
  {n \in Names : inode[i].entry[n] # NoInode /\ inode[inode[i].entry[n]].type = "dir"}
\* Calls of link between nlink++ and the entry, or the undo.
Linking(i) == {p \in Procs : op[p] = "link" /\ ip[p] = i}
Ones(S) == Cardinality(S)

\* A link count is the number of entries that name the inode, one more for each
\* directory in it and for the root itself, although link and unlink change the
\* two in different inodes.  Entries that were made in a directory already
\* removed vanish with it and stay counted; no entry names a free inode.
LinksCountEntries ==
  \A i \in Inums :
    inode[i].nlink = Ones(Entries(i)) + Ones(Subdirectories(i)) + Ones(Linking(i))
                       + lost[i] + (IF i = Root THEN 1 ELSE 0)

\* What a process works in or has open is not freed when its name is removed.
InUseAllocated ==
  \A p \in Procs :
    /\ inode[cwd[p]].type = "dir"
    /\ fd[p] # NoInode => inode[fd[p]].type # "free"

\* The references of an inode are the working directories, the open files and the
\* inodes that calls have in hand, on every path that a call may leave by.
RefsCountHolders ==
  \A i \in Inums :
    ref[i] = Ones({p \in Procs : cwd[p] = i}) + Ones({p \in Procs : fd[p] = i})
               + Ones({p \in Procs : at[p] = i}) + Ones({p \in Procs : ip[p] = i})

\* Every call returns, unless the kernel panics: the log and the inodes that
\* calls wait for are given back.
CallsReturn == <>[]Ended
=============================================================================
