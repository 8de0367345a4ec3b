------------------------- MODULE ReaderWriterProofs -------------------------
(***************************************************************************)
(* Theorems about the readers and writers of homework/reader_writer.c, for *)
(* any number of them.                                                     *)
(***************************************************************************)
EXTENDS MCThreads, FiniteSetTheorems, TLAPS

Typed ==
  /\ users \in [Library!Threads -> Library!Labels]
  /\ \A r \in Library!Readers : users[r] \notin {"write", "store", "leave"}
  /\ \A w \in Library!Writers : users[w] \notin {"lockLibrary", "read"}
  /\ value \in Nat
  /\ libraryLock \in Library!Threads \cup {Nobody}
  /\ count \in Nat
  /\ countLock \in Library!Readers \cup {Nobody}
  /\ seen \in [Library!Writers -> Nat]
  /\ main \in {"createReaders", "createWriters", "joinReaders", "joinWriters", "free", "exited"}
  /\ i \in Nat
  /\ freed \subseteq {"library", "count"}

\* main() creates each thread once.
CreatedOnce ==
  /\ main = "createReaders" => \A w \in Library!Writers : users[w] = "uncreated"
  /\ main = "createReaders" => \A r \in Library!Readers : r[2] >= i => users[r] = "uncreated"
  /\ main = "createWriters" => \A w \in Library!Writers : w[2] >= i => users[w] = "uncreated"

\* The writers are done when main() has joined the handles that hold them.
WritersJoined ==
  /\ main = "joinReaders" => \A w \in Library!Writers : w[2] < i => users[w] = "done"
  /\ main \in {"joinWriters", "free", "exited"} => \A w \in Library!Writers : users[w] = "done"
  /\ freed # {} => main \in {"free", "exited"}

Counted == {r \in Library!Readers : users[r] \in {"lockLibrary", "read"}}

\* While the counters exist: count->lock is owned by the first reader as long as
\* it waits for the library; the library belongs to the readers inside or to the
\* writer inside.
LocksTell ==
  freed = {} =>
    /\ count = Cardinality(Counted)
    /\ \A r \in Library!Readers : users[r] = "lockLibrary" <=> countLock = r
    /\ countLock # Nobody => Library!Reading = {}
    /\ libraryLock \in Library!Readers <=> Library!Reading # {}
    /\ \A w \in Library!Writers : libraryLock = w <=> w \in Library!Writing

Stored == {w \in Library!Writers : users[w] \in {"leave", "done"}}

\* A writer that is about to store has read the value that is still there.
ValueFresh ==
  /\ value = Cardinality(Stored)
  /\ \A w \in Library!Writers : users[w] = "store" => seen[w] = value

IInv == Typed /\ CreatedOnce /\ WritersJoined /\ LocksTell /\ ValueFresh

-----------------------------------------------------------------------------
\* The free lock is no thread's.
LEMMA NobodyNoThread == Nobody \notin Library!Threads
BY NobodyAssumption DEF Library!Threads, Library!Readers, Library!Writers

LEMMA ThreadSets ==
  /\ IsFiniteSet(Library!Readers) /\ IsFiniteSet(Library!Writers)
  /\ Library!Readers \cap Library!Writers = {}
  /\ \A r \in Library!Readers : r = <<"reader", r[2]>> /\ r[2] \in 0 .. ReaderNum - 1
  /\ \A w \in Library!Writers : w = <<"writer", w[2]>> /\ w[2] \in 0 .. WriterNum - 1
<1>1. IsFiniteSet(0 .. ReaderNum - 1) /\ IsFiniteSet(0 .. WriterNum - 1)
  BY LibraryAssumption, FS_Interval
<1>2. IsFiniteSet({"reader"}) /\ IsFiniteSet({"writer"})
  BY FS_Singleton
<1>3. IsFiniteSet(Library!Readers) /\ IsFiniteSet(Library!Writers)
  BY <1>1, <1>2, FS_Product DEF Library!Readers, Library!Writers
<1> QED BY <1>3, LibraryAssumption DEF Library!Readers, Library!Writers

LEMMA CountedEmpty ==
  /\ IsFiniteSet(Counted) /\ Cardinality(Counted) \in Nat
  /\ Cardinality(Counted) = 0 <=> Counted = {}
BY ThreadSets, FS_Subset, FS_CardinalityType, FS_EmptySet DEF Counted

LEMMA Initial == Library!Init => IInv
<1> SUFFICES ASSUME Library!Init PROVE IInv
  OBVIOUS
<1>1. Typed
  BY DEF Library!Init, Typed, Library!Labels, Library!Threads
<1>2. CreatedOnce /\ WritersJoined
  BY DEF Library!Init, CreatedOnce, WritersJoined, Library!Threads
<1>3. LocksTell
  <2>1. Counted = {} /\ Library!Reading = {} /\ Library!Writing = {}
    BY DEF Library!Init, Counted, Library!Reading, Library!Writing, Library!Threads
  <2> QED BY <2>1, FS_EmptySet, NobodyNoThread DEF Library!Init, LocksTell, Library!Threads
<1>4. ValueFresh
  <2>1. Stored = {}
    BY DEF Library!Init, Stored, Library!Threads
  <2> QED BY <2>1, FS_EmptySet DEF Library!Init, ValueFresh, Library!Threads
<1> QED BY <1>1, <1>2, <1>3, <1>4 DEF IInv

\* A step of a reader leaves the writers and main() as they are.
LEMMA ReaderFrame ==
  ASSUME IInv, NEW r \in Library!Readers, NEW label \in {"request", "lockLibrary", "read", "done"},
         Library!Goto(r, label), users[r] \notin {"uncreated", "done"},
         UNCHANGED <<value, seen, main, i, freed>>
  PROVE  CreatedOnce' /\ WritersJoined' /\ ValueFresh' /\ Library!Writing' = Library!Writing
         /\ users' \in [Library!Threads -> Library!Labels]
         /\ (\A q \in Library!Readers : users'[q] \notin {"write", "store", "leave"})
         /\ (\A w \in Library!Writers : users'[w] = users[w])
<1>1. \A w \in Library!Writers : w # r /\ w \in Library!Threads
  BY ThreadSets DEF Library!Threads
<1>2. \A w \in Library!Writers : users'[w] = users[w]
  BY <1>1 DEF IInv, Typed, Library!Goto
<1>3. r \in Library!Threads /\ \A q \in Library!Readers : q # r => users'[q] = users[q]
  BY DEF IInv, Typed, Library!Goto, Library!Threads
<1>4. Stored' = Stored /\ Library!Writing' = Library!Writing
  BY <1>2 DEF Stored, Library!Writing
<1>5. CreatedOnce' /\ WritersJoined' /\ ValueFresh'
  BY <1>2, <1>3, <1>4 DEF IInv, CreatedOnce, WritersJoined, ValueFresh
<1> QED BY <1>2, <1>3, <1>4, <1>5 DEF IInv, Typed, Library!Goto, Library!Labels

LEMMA RequestStep ==
  ASSUME IInv, NEW r \in Library!Readers, Library!Request(r) PROVE IInv'
<1> USE DEF IInv
<1>1. PICK label \in {"lockLibrary", "read"} : Library!Goto(r, label)
  BY DEF Library!Request, Library!FirstIn
<1>2. /\ CreatedOnce' /\ WritersJoined' /\ ValueFresh' /\ Library!Writing' = Library!Writing
      /\ users' \in [Library!Threads -> Library!Labels]
      /\ \A q \in Library!Readers : users'[q] \notin {"write", "store", "leave"}
      /\ \A w \in Library!Writers : users'[w] = users[w]
  BY <1>1, ReaderFrame DEF Library!Request, Library!Runs, Library!Alive, Library!FirstIn
<1>3. Typed'
  BY <1>2 DEF Library!Request, Typed, Library!FirstIn
<1>4. r \in Library!Threads /\ users'[r] = label /\ \A q \in Library!Readers : q # r => users'[q] = users[q]
  BY <1>1 DEF Typed, Library!Goto, Library!Threads
<1>5. LocksTell'
  <2>1. freed = {} /\ freed' = {} /\ libraryLock' = libraryLock /\ countLock = Nobody
    BY DEF Library!Request, Library!Runs, Library!FirstIn
  <2>2. Counted' = Counted \cup {r} /\ r \notin Counted
    BY <1>1, <1>4 DEF Counted, Library!Request, Library!FirstIn
  <2>3. count' = Cardinality(Counted')
    BY <2>1, <2>2, CountedEmpty, FS_AddElement DEF LocksTell, Library!Request, Library!FirstIn
  <2>4. Nobody \notin Library!Readers
    BY NobodyNoThread DEF Library!Threads
  <2>5. \A q \in Library!Readers : users[q] # "lockLibrary"
    BY <2>1, <2>4 DEF LocksTell
  <2>6. Library!Reading = Counted
    BY <2>5 DEF Library!Reading, Counted
  <2>7. CASE count' = 1
    <3>1. Counted = {}
      BY <2>1, <2>7, CountedEmpty DEF LocksTell, Library!Request, Library!FirstIn
    <3>2. countLock' = r /\ users'[r] = "lockLibrary"
      BY <1>4, <2>7 DEF Library!Request, Typed, Library!Goto, Library!FirstIn
    <3>3. Library!Reading' = {}
      BY <1>4, <2>6, <3>1, <3>2 DEF Library!Reading
    <3> QED BY <1>2, <1>4, <2>1, <2>3, <2>5, <2>6, <3>1, <3>2, <3>3 DEF LocksTell
  <2>8. CASE count' # 1
    <3>1. Counted # {}
      BY <2>1, <2>8, CountedEmpty DEF LocksTell, Library!Request, Library!FirstIn
    <3>2. countLock' = Nobody /\ users'[r] = "read"
      BY <1>4, <2>1, <2>8 DEF Library!Request, Typed, Library!Goto, Library!FirstIn
    <3>3. Library!Reading' # {}
      BY <3>2 DEF Library!Reading
    <3> QED BY <1>2, <1>4, <2>1, <2>3, <2>4, <2>5, <2>6, <3>1, <3>2, <3>3 DEF LocksTell
  <2> QED BY <2>7, <2>8
<1> QED BY <1>2, <1>3, <1>5

LEMMA LockLibraryStep ==
  ASSUME IInv, NEW r \in Library!Readers, Library!LockLibrary(r) PROVE IInv'
<1> USE DEF IInv
<1>1. /\ CreatedOnce' /\ WritersJoined' /\ ValueFresh' /\ Library!Writing' = Library!Writing
      /\ users' \in [Library!Threads -> Library!Labels]
      /\ \A q \in Library!Readers : users'[q] \notin {"write", "store", "leave"}
      /\ \A w \in Library!Writers : users'[w] = users[w]
  BY ReaderFrame DEF Library!LockLibrary, Library!Runs, Library!Alive, Library!LibraryFree
<1>2. r \in Library!Threads /\ users'[r] = "read" /\ \A q \in Library!Readers : q # r => users'[q] = users[q]
  BY DEF Typed, Library!Goto, Library!Threads, Library!LockLibrary, Library!LibraryFree
<1>3. Typed'
  BY <1>1, <1>2 DEF Library!LockLibrary, Typed, Library!LibraryFree
<1>4. LocksTell'
  <2>1. freed = {} /\ freed' = {} /\ libraryLock = Nobody /\ libraryLock' = r /\ countLock' = Nobody
    BY DEF Library!LockLibrary, Library!Runs, Library!Alive, Library!LibraryFree
  <2>2. countLock = r /\ users[r] = "lockLibrary"
    BY <2>1 DEF LocksTell, Library!LockLibrary, Library!LibraryFree
  <2>3. Counted' = Counted /\ count' = count
    BY <1>2, <2>2 DEF Counted, Library!LockLibrary, Library!LibraryFree
  <2>4. \A q \in Library!Readers : users'[q] # "lockLibrary"
    BY <1>2, <2>1, <2>2 DEF LocksTell
  <2>5. r \in Library!Reading'
    BY <1>2 DEF Library!Reading
  <2>6. Nobody \notin Library!Threads /\ \A w \in Library!Writers : w # r
    BY NobodyNoThread, ThreadSets
  <2>7. \A w \in Library!Writers : w \notin Library!Writing'
    BY <1>1, <2>1, <2>6 DEF LocksTell, Library!Threads
  <2> QED BY <2>1, <2>3, <2>4, <2>5, <2>6, <2>7 DEF LocksTell, Library!Threads
<1> QED BY <1>1, <1>3, <1>4

LEMMA DoneStep ==
  ASSUME IInv, NEW r \in Library!Readers, Library!Done(r) PROVE IInv'
<1> USE DEF IInv
<1>1. /\ CreatedOnce' /\ WritersJoined' /\ ValueFresh' /\ Library!Writing' = Library!Writing
      /\ users' \in [Library!Threads -> Library!Labels]
      /\ \A q \in Library!Readers : users'[q] \notin {"write", "store", "leave"}
      /\ \A w \in Library!Writers : users'[w] = users[w]
  BY ReaderFrame DEF Library!Done, Library!Runs, Library!Alive, Library!LastOut
<1>2. r \in Library!Threads /\ users'[r] = "done" /\ \A q \in Library!Readers : q # r => users'[q] = users[q]
  BY DEF Typed, Library!Goto, Library!Threads, Library!Done, Library!LastOut
<1>3. freed = {} /\ freed' = {} /\ countLock = Nobody /\ countLock' = Nobody
  BY DEF Library!Done, Library!Runs, Library!Alive, Library!LastOut
<1>4. Counted' = Counted \ {r} /\ r \in Counted
  BY <1>2 DEF Counted, Library!Done, Library!LastOut
<1>5. count' = Cardinality(Counted') /\ count' \in Nat
  BY <1>3, <1>4, CountedEmpty, FS_RemoveElement, FS_CardinalityType DEF LocksTell, Library!Done,
      Library!LastOut
<1>6. Typed'
  BY <1>1, <1>2, <1>5 DEF Library!Done, Typed, Library!LastOut
<1>7. LocksTell'
  <2>1. Nobody \notin Library!Threads
    BY NobodyNoThread
  <2>2. \A q \in Library!Readers : users[q] # "lockLibrary" /\ users'[q] # "lockLibrary"
    BY <1>2, <1>3, <2>1 DEF LocksTell, Library!Threads
  <2>3. Library!Reading' = Counted'
    BY <2>2 DEF Library!Reading, Counted
  <2>4. r \in Library!Reading /\ libraryLock \in Library!Readers
    BY <1>3 DEF Library!Reading, LocksTell, Library!Done, Library!LastOut
  <2>5. \A w \in Library!Writers : libraryLock # w /\ w \notin Library!Writing
    BY <1>3, <2>4, ThreadSets DEF LocksTell
  <2>6. IsFiniteSet(Counted')
    BY <1>4, CountedEmpty, FS_Subset
  <2>7. count' = 0 <=> Library!Reading' = {}
    BY <1>5, <2>3, <2>6, FS_EmptySet
  <2>8. libraryLock' = IF count' = 0 THEN Nobody ELSE libraryLock
    BY DEF Library!Done, Library!LastOut
  <2> QED BY <1>1, <1>3, <1>5, <2>1, <2>2, <2>4, <2>5, <2>7, <2>8 DEF LocksTell, Library!Threads
<1> QED BY <1>1, <1>6, <1>7

LEMMA UseAfterFreeStep ==
  ASSUME IInv, NEW r \in Library!Readers, Library!UseAfterFree(r) PROVE IInv'
<1> USE DEF IInv
<1>1. freed' # {} /\ freed # {} /\ freed' = freed
  BY DEF Library!UseAfterFree
<1>2. \A w \in Library!Writers : users[w] = "done" /\ w # r
  BY <1>1, ThreadSets DEF WritersJoined
<1>3. CASE main' = "exited" /\ UNCHANGED users
  <2>1. Stored' = Stored
    BY <1>3 DEF Stored
  <2> QED BY <1>1, <1>2, <1>3, <2>1
        DEF Library!UseAfterFree, Typed, CreatedOnce, WritersJoined, LocksTell, ValueFresh
<1>4. CASE UNCHANGED main /\ \E label \in {"lockLibrary", "read", "done"} : Library!Goto(r, label)
  <2>1. PICK label \in {"lockLibrary", "read", "done"} : Library!Goto(r, label)
    BY <1>4
  <2>2. CreatedOnce' /\ WritersJoined' /\ ValueFresh' /\ users' \in [Library!Threads -> Library!Labels]
        /\ (\A q \in Library!Readers : users'[q] \notin {"write", "store", "leave"})
        /\ (\A w \in Library!Writers : users'[w] = users[w])
    BY <1>4, <2>1, ReaderFrame DEF Library!UseAfterFree, Library!Alive
  <2>3. Typed'
    BY <2>2, <1>4 DEF Library!UseAfterFree, Typed
  <2> QED BY <1>1, <2>2, <2>3 DEF LocksTell
<1> QED BY <1>3, <1>4 DEF Library!UseAfterFree

-----------------------------------------------------------------------------
\* A step of a writer leaves the readers as they are and creates nobody.
LEMMA WriterFrame ==
  ASSUME IInv, NEW w \in Library!Writers, NEW label \in {"write", "store", "leave", "done"},
         Library!Goto(w, label), users[w] \notin {"uncreated", "done"}, freed = {},
         UNCHANGED <<count, countLock, main, i, freed>>
  PROVE  /\ CreatedOnce' /\ WritersJoined'
         /\ Counted' = Counted /\ Library!Reading' = Library!Reading
         /\ \A r \in Library!Readers : users'[r] = users[r]
         /\ w \in Library!Threads /\ users' \in [Library!Threads -> Library!Labels] /\ users'[w] = label
         /\ \A v \in Library!Writers : v # w => users'[v] = users[v]
<1>1. \A r \in Library!Readers : w # r /\ r \in Library!Threads
  BY ThreadSets DEF Library!Threads
<1>2. \A r \in Library!Readers : users'[r] = users[r]
  BY <1>1 DEF IInv, Typed, Library!Goto
<1>3. /\ w \in Library!Threads /\ users' \in [Library!Threads -> Library!Labels] /\ users'[w] = label
      /\ \A v \in Library!Writers : v # w => users'[v] = users[v]
  BY DEF IInv, Typed, Library!Goto, Library!Threads, Library!Labels
<1>4. Counted' = Counted /\ Library!Reading' = Library!Reading
  BY <1>2 DEF Counted, Library!Reading
<1>5. CreatedOnce' /\ WritersJoined'
  BY <1>2, <1>3 DEF IInv, CreatedOnce, WritersJoined
<1> QED BY <1>2, <1>3, <1>4, <1>5

LEMMA EnterStep ==
  ASSUME IInv, NEW w \in Library!Writers, Library!Enter(w) PROVE IInv'
<1> USE DEF IInv
<1>0. freed = {} /\ freed' = {} /\ libraryLock = Nobody /\ libraryLock' = w
  BY DEF Library!Enter, Library!Runs, Library!Alive, Library!LibraryFree
<1>1. /\ CreatedOnce' /\ WritersJoined'
      /\ Counted' = Counted /\ Library!Reading' = Library!Reading
      /\ \A r \in Library!Readers : users'[r] = users[r]
      /\ w \in Library!Threads /\ users' \in [Library!Threads -> Library!Labels] /\ users'[w] = "write"
      /\ \A v \in Library!Writers : v # w => users'[v] = users[v]
  BY <1>0, WriterFrame DEF Library!Enter, Library!Runs, Library!Alive, Library!LibraryFree
<1>2. Typed'
  BY <1>0, <1>1 DEF Library!Enter, Typed, Library!LibraryFree
<1>3. Nobody \notin Library!Threads /\ w \notin Library!Readers
  BY NobodyNoThread, ThreadSets
<1>4. Library!Reading = {} /\ \A v \in Library!Writers : v \notin Library!Writing
  BY <1>0, <1>3 DEF LocksTell, Library!Threads
<1>5. \A v \in Library!Writers : v \in Library!Writing' <=> v = w
  BY <1>1, <1>4 DEF Library!Writing
<1>6. LocksTell'
  BY <1>0, <1>1, <1>3, <1>4, <1>5 DEF LocksTell, Library!Enter, Library!LibraryFree
<1>7. Stored' = Stored
  BY <1>1 DEF Stored, Library!Enter, Library!LibraryFree
<1>8. ValueFresh'
  BY <1>1, <1>7 DEF ValueFresh, Library!Enter, Library!LibraryFree
<1> QED BY <1>1, <1>2, <1>6, <1>8

LEMMA LoadStep ==
  ASSUME IInv, NEW w \in Library!Writers, Library!Load(w) PROVE IInv'
<1> USE DEF IInv
<1>0. freed = {} /\ freed' = {} /\ libraryLock' = libraryLock
  BY DEF Library!Load, Library!Runs, Library!Alive
<1>1. /\ CreatedOnce' /\ WritersJoined'
      /\ Counted' = Counted /\ Library!Reading' = Library!Reading
      /\ \A r \in Library!Readers : users'[r] = users[r]
      /\ w \in Library!Threads /\ users' \in [Library!Threads -> Library!Labels] /\ users'[w] = "store"
      /\ \A v \in Library!Writers : v # w => users'[v] = users[v]
  BY <1>0, WriterFrame DEF Library!Load, Library!Runs, Library!Alive
<1>2. Typed'
  BY <1>0, <1>1 DEF Library!Load, Typed
<1>3. Library!Writing' = Library!Writing /\ Stored' = Stored
  BY <1>1 DEF Library!Writing, Stored, Library!Load
<1>4. LocksTell'
  BY <1>0, <1>1, <1>3 DEF LocksTell, Library!Load
<1>5. ValueFresh'
  BY <1>1, <1>3 DEF ValueFresh, Library!Load, Typed
<1> QED BY <1>1, <1>2, <1>4, <1>5

LEMMA StoreStep ==
  ASSUME IInv, NEW w \in Library!Writers, Library!Store(w) PROVE IInv'
<1> USE DEF IInv
<1>0. freed = {} /\ freed' = {} /\ libraryLock' = libraryLock /\ users[w] = "store"
  BY DEF Library!Store, Library!Runs, Library!Alive
<1>1. /\ CreatedOnce' /\ WritersJoined'
      /\ Counted' = Counted /\ Library!Reading' = Library!Reading
      /\ \A r \in Library!Readers : users'[r] = users[r]
      /\ w \in Library!Threads /\ users' \in [Library!Threads -> Library!Labels] /\ users'[w] = "leave"
      /\ \A v \in Library!Writers : v # w => users'[v] = users[v]
  BY <1>0, WriterFrame DEF Library!Store, Library!Runs, Library!Alive
<1>2. Typed'
  BY <1>0, <1>1 DEF Library!Store, Typed
<1>3. Library!Writing' = Library!Writing
  BY <1>0, <1>1 DEF Library!Writing
<1>4. LocksTell'
  BY <1>0, <1>1, <1>3 DEF LocksTell, Library!Store
<1>5. \A v \in Library!Writers : v # w => users[v] # "store"
  BY <1>0 DEF LocksTell, Library!Writing
<1>6. Stored' = Stored \cup {w} /\ w \notin Stored
  BY <1>0, <1>1 DEF Stored
<1>7. value' = Cardinality(Stored')
  <2>1. IsFiniteSet(Stored)
    BY ThreadSets, FS_Subset DEF Stored
  <2> QED BY <1>0, <1>6, <2>1, FS_AddElement DEF ValueFresh, Library!Store
<1>8. ValueFresh'
  BY <1>1, <1>5, <1>7 DEF ValueFresh
<1> QED BY <1>1, <1>2, <1>4, <1>8

LEMMA LeaveStep ==
  ASSUME IInv, NEW w \in Library!Writers, Library!Leave(w) PROVE IInv'
<1> USE DEF IInv
<1>0. freed = {} /\ freed' = {} /\ libraryLock' = Nobody /\ users[w] = "leave"
  BY DEF Library!Leave, Library!Runs, Library!Alive
<1>1. /\ CreatedOnce' /\ WritersJoined'
      /\ Counted' = Counted /\ Library!Reading' = Library!Reading
      /\ \A r \in Library!Readers : users'[r] = users[r]
      /\ w \in Library!Threads /\ users' \in [Library!Threads -> Library!Labels] /\ users'[w] = "done"
      /\ \A v \in Library!Writers : v # w => users'[v] = users[v]
  BY <1>0, WriterFrame DEF Library!Leave, Library!Runs, Library!Alive
<1>2. Typed'
  BY <1>0, <1>1 DEF Library!Leave, Typed
<1>3. Nobody \notin Library!Threads /\ w \notin Library!Readers
  BY NobodyNoThread, ThreadSets
<1>4. libraryLock = w
  BY <1>0 DEF LocksTell, Library!Writing
<1>5. Library!Reading = {} /\ \A v \in Library!Writers : v \notin Library!Writing'
  BY <1>0, <1>1, <1>3, <1>4 DEF LocksTell, Library!Writing
<1>6. LocksTell'
  BY <1>0, <1>1, <1>3, <1>5 DEF LocksTell, Library!Leave, Library!Threads
<1>7. Stored' = Stored
  BY <1>0, <1>1 DEF Stored
<1>8. ValueFresh'
  BY <1>1, <1>7 DEF ValueFresh, Library!Leave
<1> QED BY <1>1, <1>2, <1>6, <1>8

-----------------------------------------------------------------------------
LEMMA CreateStep ==
  ASSUME IInv, Library!CreateReader \/ Library!CreateWriter PROVE IInv'
<1> USE DEF IInv
<1>1. PICK t \in Library!Threads : /\ Library!Goto(t, "request") /\ users[t] = "uncreated"
                           /\ t = IF main = "createReaders" THEN <<"reader", i>> ELSE <<"writer", i>>
  <2>1. CASE Library!CreateReader
    <3>1. i \in 0 .. ReaderNum - 1
      BY <2>1, LibraryAssumption DEF Library!CreateReader, Typed
    <3>2. <<"reader", i>> \in Library!Readers /\ <<"reader", i>>[2] = i /\ i >= i
      BY <3>1 DEF Library!Readers
    <3>3. users[<<"reader", i>>] = "uncreated"
      BY <2>1, <3>2 DEF Library!CreateReader, CreatedOnce
    <3> QED BY <2>1, <3>2, <3>3 DEF Library!CreateReader, Library!Threads
  <2>2. CASE Library!CreateWriter
    <3>1. i \in 0 .. WriterNum - 1
      BY <2>2, LibraryAssumption DEF Library!CreateWriter, Typed
    <3>2. <<"writer", i>> \in Library!Writers /\ <<"writer", i>>[2] = i /\ i >= i
      BY <3>1 DEF Library!Writers
    <3>3. users[<<"writer", i>>] = "uncreated"
      BY <2>2, <3>2 DEF Library!CreateWriter, CreatedOnce
    <3> QED BY <2>2, <3>2, <3>3 DEF Library!CreateWriter, Library!Threads
  <2> QED BY <2>1, <2>2
<1>2. /\ main \in {"createReaders", "createWriters"} /\ i' = i + 1
      /\ UNCHANGED <<value, libraryLock, count, countLock, seen, main, freed>>
  BY DEF Library!CreateReader, Library!CreateWriter
<1>3. users'[t] = "request" /\ \A u \in Library!Threads : u # t => users'[u] = users[u]
  BY <1>1 DEF Library!Goto, Typed
<1>4. users' \in [Library!Threads -> Library!Labels]
  BY <1>1 DEF Library!Goto, Typed, Library!Labels
<1>5. Library!Readers \subseteq Library!Threads /\ Library!Writers \subseteq Library!Threads
  BY DEF Library!Threads
<1>6. Typed'
  BY <1>2, <1>3, <1>4, <1>5 DEF Typed
<1>7. CreatedOnce'
  BY <1>1, <1>2, <1>3, <1>5, ThreadSets DEF CreatedOnce, Typed
<1>8. WritersJoined'
  BY <1>2 DEF WritersJoined
<1>9. Counted' = Counted /\ Library!Reading' = Library!Reading
     /\ Library!Writing' = Library!Writing /\ Stored' = Stored
  BY <1>1, <1>3, <1>5 DEF Counted, Library!Reading, Library!Writing, Stored
<1>10. LocksTell'
  BY <1>1, <1>2, <1>3, <1>5, <1>9 DEF LocksTell
<1>11. ValueFresh'
  BY <1>2, <1>3, <1>5, <1>9 DEF ValueFresh
<1> QED BY <1>6, <1>7, <1>8, <1>10, <1>11

\* The other steps of main() move no thread.
LEMMA MainFrame ==
  ASSUME IInv, UNCHANGED <<users, value, libraryLock, count, countLock, seen>>,
         freed' = {} => freed = {}
  PROVE  LocksTell' /\ ValueFresh'
<1>1. Counted' = Counted /\ Library!Reading' = Library!Reading
     /\ Library!Writing' = Library!Writing /\ Stored' = Stored
  BY DEF Counted, Library!Reading, Library!Writing, Stored
<1> QED BY <1>1 DEF IInv, LocksTell, ValueFresh

LEMMA JoinStep ==
  ASSUME IInv, Library!Join \/ Library!JoinGarbage \/ Library!NextLoop \/ Library!Free \/ Library!Return
  PROVE IInv'
<1> USE DEF IInv
<1>1. LocksTell' /\ ValueFresh'
  BY MainFrame DEF Library!Join, Library!JoinGarbage, Library!NextLoop, Library!Free, Library!Return
<1>2. CASE Library!Join
  <2>1. \A w \in Library!Writers : w[2] = i => users[w] = "done"
    BY <1>2, ThreadSets, LibraryAssumption DEF Library!Join, Library!ThreadsReader, Typed
  <2>2. \A w \in Library!Writers : w[2] < i + 1 => w[2] < i \/ w[2] = i
    BY ThreadSets, LibraryAssumption DEF Typed
  <2>3. WritersJoined'
    BY <1>2, <2>1, <2>2 DEF Library!Join, WritersJoined
  <2> QED BY <1>1, <1>2, <2>3 DEF Library!Join, Typed, CreatedOnce
<1>3. CASE Library!JoinGarbage
  BY <1>1, <1>3 DEF Library!JoinGarbage, Typed, CreatedOnce, WritersJoined
<1>4. CASE Library!NextLoop
  <2>1. Typed'
    BY <1>4 DEF Library!NextLoop, Typed
  <2>2. CreatedOnce'
    BY <1>4, ThreadSets DEF Library!NextLoop, CreatedOnce
  <2>3. \A w \in Library!Writers : ~ w[2] < 0 /\ w[2] < ReaderNum
    BY ThreadSets, LibraryAssumption
  <2>4. WritersJoined'
    BY <1>4, <2>3 DEF Library!NextLoop, WritersJoined
  <2> QED BY <1>1, <2>1, <2>2, <2>4
<1>5. CASE Library!Free
  BY <1>1, <1>5 DEF Library!Free, Typed, CreatedOnce, WritersJoined
<1>6. CASE Library!Return
  BY <1>1, <1>6 DEF Library!Return, Typed, CreatedOnce, WritersJoined
<1> QED BY <1>2, <1>3, <1>4, <1>5, <1>6

LEMMA Inductive == IInv /\ [Library!Next]_(Library!vars) => IInv'
<1> SUFFICES ASSUME IInv, [Library!Next]_(Library!vars) PROVE IInv'
  OBVIOUS
<1>1. ASSUME NEW r \in Library!Readers, Library!ReaderStep(r) \/ Library!UseAfterFree(r) PROVE IInv'
  BY <1>1, RequestStep, LockLibraryStep, DoneStep, UseAfterFreeStep DEF Library!ReaderStep
<1>2. ASSUME NEW w \in Library!Writers, Library!WriterStep(w) PROVE IInv'
  BY <1>2, EnterStep, LoadStep, StoreStep, LeaveStep DEF Library!WriterStep
<1>3. CASE Library!MainStep
  BY <1>3, CreateStep, JoinStep DEF Library!MainStep
<1>4. CASE UNCHANGED Library!vars
  <2>1. LocksTell' /\ ValueFresh'
    BY <1>4, MainFrame DEF Library!vars
  <2> QED BY <1>4, <2>1 DEF Library!vars, IInv, Typed, CreatedOnce, WritersJoined
<1> QED BY <1>1, <1>2, <1>3, <1>4 DEF Library!Next, Library!Ended

-----------------------------------------------------------------------------
\* Nobody shares the library with a writer, in spite of the lock that one reader
\* takes and another gives back.
THEOREM WritersAlone == Library!Spec => []MutualExclusion
<1>1. IInv => MutualExclusion
  <2> SUFFICES ASSUME IInv, NEW w \in Library!Writing
               PROVE Library!Reading = {} /\ Library!Writing = {w}
    BY DEF MutualExclusion, Library!MutualExclusion
  <2>1. w \in Library!Writers /\ users[w] # "done" /\ Library!Writing \subseteq Library!Writers
    BY DEF Library!Writing
  <2>2. freed = {}
    BY <2>1 DEF IInv, WritersJoined
  <2>3. libraryLock = w /\ w \notin Library!Readers
    BY <2>1, <2>2, ThreadSets DEF IInv, LocksTell
  <2> QED BY <2>1, <2>2, <2>3 DEF IInv, LocksTell
<1> QED BY <1>1, Initial, Inductive, PTL DEF Library!Spec

\* count->counter counts the readers that asked for access and have not left.
THEOREM ReadersCounted == Library!Spec => []CountsReaders
<1>1. IInv => CountsReaders
  BY DEF IInv, LocksTell, Counted, CountsReaders, Library!CountsReaders, Library!Cardinality,
      Cardinality
<1> QED BY <1>1, Initial, Inductive, PTL DEF Library!Spec

\* The library is locked exactly while somebody is inside.
THEOREM LockedIffUsed == Library!Spec => []LockedWhileUsed
<1>1. IInv => LockedWhileUsed
  <2> SUFFICES ASSUME IInv, freed = {}
               PROVE libraryLock = Nobody <=> Library!Reading = {} /\ Library!Writing = {}
    BY DEF LockedWhileUsed, Library!LockedWhileUsed
  <2>1. Nobody \notin Library!Readers /\ Nobody \notin Library!Writers
    BY NobodyNoThread DEF Library!Threads
  <2>2. Library!Writing \subseteq Library!Writers
    BY DEF Library!Writing
  <2> QED BY <2>1, <2>2 DEF IInv, Typed, LocksTell, Library!Threads
<1> QED BY <1>1, Initial, Inductive, PTL DEF Library!Spec

\* No update of library->counter is lost.
THEOREM NoUpdateLost == Library!Spec => []UpdatesCounted
<1>1. IInv => UpdatesCounted
  BY DEF IInv, ValueFresh, Stored, UpdatesCounted, Library!UpdatesCounted, Library!Cardinality,
      Cardinality
<1> QED BY <1>1, Initial, Inductive, PTL DEF Library!Spec
=============================================================================
