# A TLA+ model of System-DeviceProgramming

The repository is a collection of course work in C: threads, semaphores, signals
and condition variables on Linux, a character device, and extensions of the xv6
kernel. Its programs are independent of each other; what they have in common is
that each one is a small synchronisation protocol. This directory models those
protocols in TLA+, checks them with TLC and proves theorems about them with TLAPS.
`PROJECT.json` lists the runs, the source lines every definition stands for, the
mutants that show that each property can fail, the hazards of the code, the
findings and the theorems.

## The parts of the system

| part | state | operations | what is hard | what makes it correct |
|---|---|---|---|---|
| `Lab3/Lab3.c`, `office.h`: offices | ring buffers `normal_Q`, `special_Q`, `urgent_Q[o]`, `answer_Q[s]`; `cond->urgent[]`, `cond->normal`; `num_students` | `send`, `receive`, `office`, `special_office`, `student` | counters are kept apart from the queues they count and under another lock; desks sleep on one condition for two kinds of work; queues are created by the threads that own them | counters never drift, no desk blocks at work, no request lost or doubled, the process ends when all are served |
| the ring buffer itself | `in`, `out`, `count`, `dim`, two conditions | `send`, `receive` | wrap-around, wakeups shared by many threads | a FIFO queue; everything sent arrives |
| `Lab4/Lab4_2.c`: parallel sort | mapped array, `barrier.counter`, `sem`, `sem2` | sort a region, barrier, swap borders | threads loop through the barrier; one of them touches regions of the others | rounds do not overlap, exit only with the file sorted |
| `homework/reader_writer.c` | two counters with their locks, thread handles | `reader`, `writer`, `main` | a lock taken by one thread and given back by another; joins | exclusion, right count of readers, `main` returns last |
| `Lab6` conditions (`file.c`, `cond.c`) | `mutex->locked`, `condition->value`, spinlocks, sleep channels | `cond_lock` ... `cond_broadcast` | `cond_wait` sleeps twice, the second time with a spinlock held | exclusion, no lost signal, a signalled process goes on |
| `Lab6` semaphores (`file.c`, `sysfile.c`) | `s->ref`, `s->count`, sleepers | `sem_alloc` ... `sem_post` | `if` instead of `while` around the sleep; destroy without the lock | slots handed out once, nobody asleep with permits left |
| `Lab6` files (`file.c`, `sysfile.c`) | `ftable`, `proc->ofile`, inode and pipe references | open, dup, close, pipe, read, write, fstat | references counted in three places, full tables, half-done calls, sharing after fork | counts equal uses on every path |
| `Lab6` offsets (`file.c`) | `f->off`, inode length and lock, log | `fileread`, `filewrite` | writes in chunks, the lock given up between them | each place read and written once |
| `Lab6` directories (`sysfile.c`) | link counts, entries, inode references and locks, log | open, link, unlink, create, mkdir, mknod, chdir | two inodes changed in two steps; locks taken in two orders; error paths in and out of transactions | counts equal entries and holders, no inode freed in use, every call returns |
| `Lab2` merge sort, `merge.c` | array, region per thread | `threaded_sort`, `mergeSort`, `merge` | loops that copy one element too far; parents merge beside running threads | what is printed is sorted |
| `Lab2.3` product | `v`, countdown under a lock | threads, last thread sums up | the last thread reads what all others wrote | one result, that of the sequential program, which is not the product the comments announce |
| `Lab1.3` signal server | two semaphores, one pending signal | clients, `SIGUSR1` handler | the handler waits for a lock its own thread may hold; signals merge | ends unless signals were merged or a handler blocked itself |
| `Lab7` character device | one buffer, `offset`, `content_size`, a semaphore | open, release, read, write, init, exit | state shared by all opens, an open that a signal interrupts | the offset is that of the holder |
| `exam/20110629` | a directory stream and its lock | pick two files, concatenate | searches that rewind a stream shared by all; `break` with the lock held | one thread at a time moves the stream, searches end; `main` returns when no files are left (it does not) |
| `Lab1.1` | local arrays | sort and print | one thread | not modelled: formatted output of textbook sorts |
| `Lab1.2` | a flag set by an alarm | print, pause | output timed by wall-clock seconds | not modelled: nothing but the timing |
| `Lab4_1` | two descriptors | copy a file | one thread | not modelled: twenty lines of sequential I/O |
| `sys_exec`, `syscall.c`, headers, Makefiles | - | copy arguments, tables, declarations | - | not modelled: no state; `exec` itself is not in the repository |

The parts interact inside the programs only: threads share memory and locks,
processes share kernel tables through system calls. What the xv6 code calls and
the repository does not contain (sleep, wakeup, spinlocks, fork, exit, pipes,
`namei`, `iput`, `ialloc`, the log) is modelled from how it is used and marked
external in the map.

## Modules

| module | models | state and steps |
|---|---|---|
| `Office` | all threads of Lab3 over FIFO buffers | `pc` and `info` per thread; a step is a section under one lock. `send()` is two steps, `SendFill` (into the buffer, `buf->lock` stays with `holder`) and `SendCount` (into `cond`, then both locks are released); its wait and that of `receive()` are `SendWait` and `ReceiveWait`; a desk's wait on `cond->cond` is `DeskWait`. `asleep` is the set of threads in a `pthread_cond_wait`; a broadcast removes from it the threads that wait on that condition |
| `OfficeService` | what the offices promise | stage of each student, student of each desk; no locks, queues or counters. `Office` implements it (`ImplementsService`) |
| `BoundedBuffer` | the ring of `send` and `receive` | `buffer`, `in`, `out`, `count`; a call is one step under `buf->lock`, or falls asleep and is tried again |
| `FifoQueue` | what the ring promises | a sequence; `BoundedBuffer` implements it (`ImplementsFifo`). This is why `Office` may use sequences for its buffers |
| `BarrierSort` | `Lab4_2.c` | one step per insertion of the sort, per border, per section under `barrier.lock`, per `sem_wait` |
| `ReaderWriter` | `reader_writer.c` | one step per locked section; the first reader's, which may block with `count->lock` held, is two; `library->counter++` is a load and a store; `main` step by step, with what its joins on an unwritten handle and its frees may do |
| `Xv6Cond` | conditions of `file.c` under `cond.c` | one step per call, except `cond_wait`, which has six; the owner of `condition->lock` and the channel each process sleeps on are variables |
| `Xv6Semaphore` | semaphores of `file.c` | one step per section under `s->lock`; the scan of `sem_alloc` is a step per slot, because `sem_destroy` does not take the lock the scan holds |
| `Xv6Files` | files of `file.c` and `sysfile.c` | one step per section under `ftable.lock`; a call goes on from label to label, its error paths included |
| `Xv6Offsets` | `fileread` and `filewrite` on a shared file | one step per wait for the log or the inode; `filewrite` goes chunk by chunk with its own `n`, `i`, `r` |
| `Xv6Dirs` | the calls of `sysfile.c` on names | a process waits in `begin_trans` and in `ilock`; what it does between two waits is one step. `at` and `ip` are the inodes a call has in hand, `Settle` puts references and frees what has no more; a panic of the kernel stops it |
| `ThreadedSort` | `Lab2.1.c`, `Lab2.2.c`, `merge.c` | a region per call with its label; returning from a region that is not split, creating threads, each recursive call, and `merge`, each one step, with the element too many that `merge` copies |
| `DotProduct` | `Lab2.3_2.c` against `Lab2.3_1.c` | a step per thread created, per product added to an element, per countdown, and the sum of the last one |
| `SignalServer` | `Lab1.3.c` | `pc` per client, `handler` per thread: the server interrupts any of them, `main` too |
| `CharDevice` | the device of Lab7 | a call is one step between two holders of the semaphore; loading and unloading of the module |
| `FileConcatenate` | the exam program | creating the threads, or failing to; a step per turn of the two loops under `dir_lock`, with each `break` and failure |
| `MCXv6Files` | `Xv6Files`, `Xv6Dirs` and `Xv6Offsets` as layers | a behaviour runs one layer; the others keep their initial state |
| `MCLabs` | `CharDevice`, `FileConcatenate`, `SignalServer`, `ThreadedSort`, `DotProduct` | the initial state chooses the program |
| `MCThreads` | `BarrierSort`, `ReaderWriter`, `BoundedBuffer` | as above |
| `MCXv6Sync` | `Xv6Semaphore`, `Xv6Cond` | as above |
| `BufferConstants`, `LibraryConstants`, `CondConstants` | the parameters of `BoundedBuffer`, `ReaderWriter` and `Xv6Cond` with the assumptions on them | TLC evaluates the assumptions of a module that is extended, and these programs are instantiated |
| other `MC...` | constants for TLC | the symmetry sets where they are used |
| `...Proofs` | theorems | see below |

Steps that touch only what one lock protects are atomic where nothing inside the
section blocks and no other code touches the same data without that lock; where
that fails (`send`, the first reader, `cond_wait`, `sem_alloc`) the section is
split. The three xv6 layers are separate because they share no data of the code but
the inode reference: descriptors and files over inodes that stay, the offset of
one open file, and names and inodes under calls that share no file. Operators
called mutant in their comment are not part of a specification: each is an action or
a helper with a plausible bug, and the property it is paired with in `PROJECT.json`
fails with it.

## Runs

| run | instance | what it shows |
|---|---|---|
| `office` | 3 students, 2 offices | counters match queues (`CountsMatchQueues`), desks sleep only while idle, no lost wakeup, queues are used after their creation, one request per student, a clean end |
| `office_live` | 2 students, 2 offices, fair | the process ends; `Office` implements `OfficeService` |
| `office_single` | 1 student, fair | violation: the finding on `k/2` |
| `threads` | library: 4 readers, 2 writers; ring: 3 senders of 2 infos, 2 receivers, 2 slots; sort: all arrays of 5 values out of 3, 3 threads | exclusion, counts, no lost update, `main` returns (`LibraryCloses`); the ring is a FIFO queue and everything arrives; rounds do not overlap, the end is reached (`SortingEnds`) and sorted |
| `reader_writer_join` | 4 readers, 2 writers | violation: the finding on the overwritten handles |
| `xv6_cond_signal` | `cond.c`: 1 child, 4 rounds, limit 2 | violation: the finding on `cond_wait` |
| `xv6_sync` | semaphores: 3 processes, 2 slots, counts from -4 to 2; conditions: 2 children, 6 rounds, limit 2 | slots are allocated once; waits and posts balance; the mutex is held by one, no signal is lost |
| `xv6_files` | 2 processes; files: 1 inode, 1 pipe, 3 files, 2 descriptors each; names: 3 inodes, 2 names, 2 and 1 calls; offsets: 3 places, writes of up to 2 | references of files and inodes equal uses on every path, link counts equal entries, nothing in use is freed, calls return, a shared offset gives each place out once |
| `labs` | 2 processes and a buffer of 2; 2 threads; 2 clients of up to 2 numbers; sorts of 3 to 8 elements; vectors of 3 | the offset is the holder's; a thread's search of the directory ends; the server ends unless a signal is lost; a sort prints its input in order unless `merge` overruns; the threaded product prints what the sequential program prints |
| `files_end` | `MCFiles`: the 2 threads of `labs`, fair | violation: the finding on `dir_lock` |
| `labs_sort` | the same | violation: the finding on `merge` |
| `labs_product` | the same | violation: the finding on `v2[i]` |

Bounds. In `Office` three students give an office both kinds of work at once and
a second student behind a first in every queue; the urgent queues then have one
slot, so students block on a full one. Two students are enough for a desk to mix
up two, which is what the refinement excludes. In `BoundedBuffer` there are more
infos than slots, more senders than slots, and the ring wraps. `BarrierSort` has a
last region longer than the others and two borders, so a value may need several
rounds to arrive, and all inputs over three values hold equal elements too.
`ReaderWriter` has more readers than writers, as the program has (10 and 5), so
some handles are overwritten and some are not. `Xv6Cond` with two children shows
competition for the mutex after a signal; six rounds let the limit be reached
three times. In `Xv6Semaphore` `MaxDebt` and `MaxCount` bound the counts; the debt
exceeds the number of processes, because a process that is woken does not give
its unit back. In `Xv6Files` the table is full before the descriptors are and the
other way round, with a pipe that gets two, one or no descriptor. In `Xv6Dirs` the
root holds a directory that is empty or holds a file or a directory, the working
directories start anywhere, and names are a name, an absolute one, one through
`..` and the root: one process makes two calls (`MaxCalls`), so that a directory
may be removed before the other comes back to it; with three inodes the disk can be
full. In `ThreadedSort` the pairs of length and threshold (`Sizes`, `Unit`) cover the
unsplit array, one and two levels of threads and odd lengths; the length 8 at a
threshold of 9 sorts with calls instead of threads and reaches the overrun described
below, of which `PrintsSorted` claims nothing. The process
table of `Xv6Files` and `FirstProc` stand for fork and exit; the constants of the
program (`NUM_OFFICES` 4, `NFILE` 100, `NOFILE` 16, `NSEM_MAX` 20, `COUNT` 12,
`COUNT_LIMIT` 5, vectors and threads of the labs) are scaled down; the arguments of calls,
lengths and inputs (`MCPaths`, `MCMaxCalls`, `MCSizes`, `MCVectors`, `MCMatrices`) are
constants of the modules and get their values in the `.cfg`. Nothing depends
on these values but the findings described below.

Fairness. Every thread and process is weakly fair: the operating system schedules
it. Locks are not assumed fair. Weak fairness of a thread's next step is enough
because each lock is requested a bounded number of times by the others before
they wait for something else (six calls per student, one barrier per round, two
locked sections per reader, `MaxCalls` calls per process of `Xv6Dirs`): the lock
does not come and go for ever. In `SignalServer` clients, handlers and `main` are
weakly fair. In `FileConcatenate` `main` and the threads are weakly fair, and the end of
the stream comes for a thread that goes on reading: a directory is finite, and
while one thread reads it the others have at most their one new file to add.
`Xv6Semaphore`, `Xv6Files` and `Xv6Offsets` are checked for safety only, as their
callers are arbitrary, and so are the other programs of `MCLabs`. Deadlock is checked in every passing run except `xv6_sync`, where the
program of the conditions does stop (the finding) and processes may all sleep on
a semaphore nobody posts, and the runs of `MCLabs`, whose programs end.

## Findings

* `urgent_Q[o] = B_init(k/2)` (`Lab3.c:163`) has no slots for one student. If that
  student needs the special office it waits in `send(urgent_Q)` for ever and the
  process never ends (run `office_single`).
* `main` of `reader_writer.c` stores the writers' handles over the first readers'
  (line 53), so it does not wait "for the termination of all the threads" (line 56)
  and frees the counters under readers that use them (run `reader_writer_join`).
* `cond_wait` (`file.c:346-353`) takes the mutex again with `condition->lock` held, and
  `cond_unlock` wakes nobody: the child of `cond.c` that `cond_signal` wakes finds the
  mutex taken by the signaller and never returns (run `xv6_cond_signal`). On the
  kernel's own `sched()` the sleep with a second spinlock held would panic; the
  child does not return either way.
* `thread_func` of `file_concatenate.c` leaves its loop by `break` (lines 92 and 118) with
  `dir_lock` held. The thread that comes next waits for ever, and `main` with it (run
  `files_end`). `EndsWithoutFiles` asks for the end only if no thread goes on finding
  files or hangs in a copy; it holds when `Leave` gives the lock back.
* `merge` of Lab2 copies one element more than each of its arrays holds (`Lab2.1.c:19-22`,
  also in `Lab2.2.c` and `merge.c`). When the array of a right half is filled to its
  alignment (`Unit`, 4 elements), that copy overwrites the first element of the left
  half (run `labs_sort`). Built with gcc for x86-64, `Lab2.1 8` prints a 0 in place of
  one of its numbers.
* The comments of `Lab2.3_1.c:34` and `Lab2.3_2.c:54` say "v = mat * v2" and `Lab2/report`
  (41, 46) "T(v1) * mat * v2". Both programs multiply row `i` by `v2[i]` instead of
  `v2[j]` (run `labs_product`). The report compares their results, which agree.

Differences met while modelling that no run of its own shows:

* `cond_signal` wakes everyone, not "one waiting thread"; `cond_alloc` counts its index
  twice per round and so uses half of the table; `cond->urgent` is used
  uninitialised, and the model takes it to be zero.
* `sem_post` lets all sleepers through for one unit (`EvenAboveZero` says what remains
  true).
* The error path of `open`, `chdir`, and each `namei` that comes before `begin_trans` put
  inodes outside of a transaction. The stop "write outside of trans" is reachable in
  `Xv6Dirs`; the test is in `log.c`, outside of the repository, and no property here is
  about it (`CallsReturn` takes a panic for an end). So are "ilock: no type" and
  "create: ialloc" (a full disk); "unlink: nlink < 1" is not. An entry made in a
  directory that was removed meanwhile vanishes with it and stays counted in the
  link count of its inode (`lost` in `LinksCountEntries`).
* Signals of `Lab1.3.c` that arrive while one is pending are merged, and the client
  waits for ever; a handler that interrupts the thread which has the semaphore it
  asks for waits for ever, too (`HandlerBlocksItself`). `EndsUnlessSignalLost` says
  that nothing else goes wrong.
* A file with one number gives `Lab4_2.c:67` no thread, and the length of a region is a
  division by zero. `SortAssumption` of `BarrierSort` asks for a thread.
* `next1` keeps its value from one pair of files to the next, so a first search that
  meets the end of the stream at once goes on with a NULL entry (`Crash`).

## What is proved

The proofs hold for every value of the constants that the named assumptions allow. A
program that `MCThreads`, `MCXv6Sync`, `MCXv6Files` or `MCLabs` instantiates is proved about
as instantiated there (`Buffer!Spec`, `Library!Spec`, ...).

* `OfficeProofs`. `OfficeTyping` is the type invariant; it has content, because the
  counters are natural numbers only if a desk tests before it takes, and a queue
  exists for every target. `CountersMatch`, `DesksNeverStuck`, `WakeupsArrive`,
  `OneRequest` and `CleanEnd` follow from one inductive invariant, `OfficeInv`. Its
  main part, `Journeys`, says for each student where its info is: nowhere, or in one
  buffer once, or in the hands of one desk, according to the labels of the student
  and the desks, and that an answer queue holds only answers of its owner. With that,
  `CountsMatchQueues` is inductive: each count is the length of its queue, less
  the requests a desk has claimed and those whose sender is between `SendFill` and
  `SendCount`. `CreatedBeforeUse` adds `NamesOpen` (who is named by an info has
  created its queue). `OfficesServe` is the refinement, `Spec => ImplementsService`: it
  adds `AllPlaced`, that an info is where its student expects it and at a desk it
  waits for. `SendFill` of a desk maps to a dismissal, `SendCount` of a student to a
  move, a desk's `Receive` to a call, leaving to a move, the end to a close, all
  else to a stutter.
* `BoundedBufferProofs`: `RingStaysAligned`, `NobodyOversleeps` and `RingImplementsFifo`, for
  any size of the ring and any number of threads. The refinement rests on three
  lemmas on the arithmetic of the wrap-around: positions of a queue that fits are
  different slots, so a `Put` changes no element that is still in the queue.
* `BarrierSortProofs`: `BordersTouchedAlone`, `RoundsKeptApart` and `ExitsSorted`. The barrier
  part counts threads per label in its two phases, arriving and releasing, against
  the counter and the tokens of both semaphores. The data part says how far each
  region is sorted, and that when the flag is clear at the end no border was out of
  order; the insertion sort is treated by the number of elements larger than the one
  inserted.
* `ReaderWriterProofs`: `WritersAlone`, `ReadersCounted`, `LockedIffUsed`,
  `NoUpdateLost`. Apart from the count, none of them is inductive alone. The invariant says who owns each
  lock at each label, that `count` is the number of readers that have asked and not
  left, that the library's lock is a reader's as long as readers are inside, and
  that the value a writer has loaded is the current one. The finding does not
  touch the proofs: the counting facts are claimed until the counters are freed,
  and exclusion survives because no writer is left at that time.
* `Xv6SemaphoreProofs`: `SlotsAllocatedOnce`, `SleepersAreOwed`, `EvenWhenPositive`,
  `PostLeavesNobodyAsleep`, without the bounds on the counts. The invariant `Books`
  relates the sign of the count to the number of sleepers and the units handed out.
* `Xv6CondProofs`: `MutexExclusive` and `SignalsArrive`. A waiter keeps `condition->lock` from its
  test to its sleep (`WaiterLocks`), the count it saw is still below the limit
  (`WaiterBelow`), and the parent passes the limit only when nobody waits.
* `Xv6FilesProofs`: `ReferencesCounted`, `ObjectsAreHeld`, `DescriptorsStayOpen` and
  `OffsetsDivide`. The first three follow from `FilesInv`. It says what a call has in
  hand at each of its labels (`Hands`, which leaves no way to a panic) and that a file
  without type is free or in the hands of one `open` that nobody shares it with
  (`Typed`). The point where it could fail is `dup`, whose descriptor is there before it
  is counted: each uncounted call has two descriptors of its own on the file, so
  descriptors exceed uncounted calls (`MoreEntries`) and the count of a file that is
  named anywhere cannot reach zero. Each action then changes the counted sets by one
  or two elements (`OneChanged`, `TwoChanged`), or copies a process's descriptors (`fork`).
  `OffsetsDivide`: every place below the offset has been used once and none above it,
  except by the chunk of the owner of the lock (`OffsetsAssumption`, `FilesAssumption`:
  lengths are natural numbers and `None` is no process).
  `LinksAreCounted`, `InUseIsAllocated` and `RefsAreHeld` are about `Xv6Dirs` and follow
  from `DirsInv`, under `DirsAssumption` (a disk with room for its first tree, finitely
  many names, arguments that are paths of names). None of the three is inductive, and
  none can be had without the others: a link count that is right keeps `iput` from
  freeing what has an entry, references that are right keep it from freeing what a call
  is about to use, and only an inode that is allocated has counts to speak of. `DirsInv`
  adds what a call has in hand at each of its labels (`HandsIn`) and what those are worth
  while other calls run (`HoldsIn`: what `link` counts is no directory, who has a lock
  has the inode in hand, a working directory is a directory even after it was removed).
  `LinksOK` counts for each inode its entries, its subdirectories, the calls of `link`
  between counting and entering, and the entries lost with a directory. Every action
  then changes one table entry and these counts by the same number.
  `LayersKeepInvariants` puts the three layers together: the specification of the run
  `xv6_files` keeps all its invariants; the safety part needs no fairness.
* `LabsProofs`, under `FilesAssumption`, `SortAssumption` and `ProductAssumption` (`nobody` is
  no thread; a sort has at least one number and a product at least one element. Both sizes come
  from the command line; with none, nothing is sorted, and the product prints no
  result because no thread counts down).
  * `OffsetIsTheHolders`: the semaphore of the device is free, or one process has it.
  * `StreamKeptApart`: `dir_lock` is with the thread that reads or that has returned, and
    with no other (`LockOfReader`), so no two read or rewind the stream
    (`StreamReadAlone`).
  * `ProductIsSequential`: each element is the sum of the products of its rounds so far,
    and `b.cnt` is the number of threads that have not counted down (`SumsSoFar`); at zero
    all elements are complete. The theorem says that two programs agree, not that
    either computes what its comment says.
  * `SortsUnlessOverrun`: two calls under way are for disjoint segments, or one is under
    the other, and a call has returned only if those under it have (`Nested`). What has
    returned is therefore touched by nobody but the call above it, which merges two
    sorted halves: `MergedOrdered` and `MergedCount` say that `merge` returns the numbers
    of both, in order. They are by induction on the rounds of its loops, for which
    one set of natural numbers and `WFMin` are enough (`AllNumbers`). The array is
    a permutation of the input and every returned segment sorted (`InOrder`) until a
    copy overwrites a left half.
  * `LabsKeepInvariants`: the specification of the run `labs` keeps all its invariants.

Only model-checked: liveness (`Termination`, `LibraryCloses`, `SortingEnds`, `Delivery`, `CallsReturn`, `SearchEnds`,
`EndsUnlessSignalLost`), which is out of the prover's reach like every property under
fairness. Every other property of the passing runs is stated by a theorem.

## Not modelled

The components marked so in the first table. Besides these: the access modes of files (a
call they refuse changes nothing); crashes and the recovery of the xv6 log, which
is not in the repository; the scan of `cond_alloc` and `cond_destroy`, which the
program `cond.c` uses once and never; the bytes of the device and of the files
that are concatenated; the number that `Lab1.3` doubles; and the rounding of
floats in Lab2.3, which are integers here.
