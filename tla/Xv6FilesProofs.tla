-------------------------- MODULE Xv6FilesProofs --------------------------
(***************************************************************************)
(* Theorems about the file calls of xv6, for any number of processes,      *)
(* files, descriptors, inodes, names and pipes: references count uses, and *)
(* a descriptor's file is open (Xv6Files); the processes that share a file *)
(* divide it among them (Xv6Offsets); links and references of inodes are   *)
(* counted, and what is in use is not freed (Xv6Dirs).                     *)
(***************************************************************************)
EXTENDS MCXv6Files, Integers, FiniteSetTheorems, SequenceTheorems, WellFoundedInduction, TLAPS

-----------------------------------------------------------------------------
(* Xv6Files: the invariant                                                 *)

\* What a call has in hand at each of its labels.
Hands(p) ==
  /\ pc[p] \in {"unused", "user"} => ip[p] = None /\ f[p] = None /\ todo[p] = <<>>
  /\ pc[p] = "unused" => \A d \in Fds : ofile[p][d] = None
  /\ pc[p] \in {"filealloc", "openFail"} => ip[p] \in Inodes /\ f[p] = None /\ todo[p] = <<>>
  /\ pc[p] = "fdalloc" => ip[p] \in Inodes /\ f[p] \in Files /\ todo[p] = <<>>
  /\ pc[p] = "filedup" =>
       /\ ip[p] = None /\ f[p] \in Files /\ todo[p] = <<>>
       /\ \E d, e \in Fds : d # e /\ ofile[p][d] = f[p] /\ ofile[p][e] = f[p]
  /\ pc[p] = "close" =>
       /\ f[p] = None /\ Len(todo[p]) <= 2
       /\ ip[p] # None => ip[p] \in Inodes /\ Len(todo[p]) <= 1
  /\ pc[p] = "put" => f[p] = None /\ ip[p] \in Objects /\ Len(todo[p]) <= 1
  /\ pc[p] = "use" =>
       /\ ip[p] = None /\ f[p] \in Files /\ todo[p] = <<>>
       /\ \E d \in Fds : ofile[p][d] = f[p]
  /\ pc[p] # "panic"

AllHands == \A p \in Procs : Hands(p)

\* The call of open that has file g, without type yet, in hand.
Opens(p, g) ==
  \/ pc[p] = "fdalloc" /\ f[p] = g
  \/ pc[p] = "close" /\ ip[p] # None /\ todo[p] = <<g>>

\* A file without type is free, or an open that has it for itself.
Typed(g) ==
  /\ ref[g] = 0 => object[g] = None
  /\ \A p \in Procs : Opens(p, g) => ref[g] = 1 /\ object[g] = None
  /\ ref[g] > 0 /\ object[g] = None => \E p \in Procs : Opens(p, g)

AllTyped == \A g \in Files : Typed(g)

FilesInv == TypeOK /\ AllHands /\ AllTyped /\ RefsCountUses /\ ObjectsHeld

-----------------------------------------------------------------------------
(* Lemmas about counting                                                   *)

Bit(b) == IF b THEN 1 ELSE 0

\* A set that changes in one element.
LEMMA OneChanged ==
  ASSUME NEW S, IsFiniteSet(S), NEW T, NEW x, \A y \in S \cup T : y # x => (y \in S <=> y \in T)
  PROVE  /\ IsFiniteSet(T) /\ Cardinality(S) \in Nat /\ Cardinality(T) \in Nat
         /\ Cardinality(T) + Bit(x \in S) = Cardinality(S) + Bit(x \in T)
<1>1. Cardinality(S) \in Nat
  BY FS_CardinalityType
<1>2. CASE x \in T
  <2>1. T = S \cup {x}
    BY <1>2
  <2> QED BY <1>1, <1>2, <2>1, FS_AddElement DEF Bit
<1>3. CASE x \notin T
  <2>1. T = S \ {x}
    BY <1>3
  <2>2. /\ IsFiniteSet(T)
        /\ Cardinality(T) = IF x \in S THEN Cardinality(S) - 1 ELSE Cardinality(S)
    BY <2>1, FS_RemoveElement
  <2>3. Cardinality(T) \in Nat
    BY <2>2, FS_CardinalityType
  <2> QED BY <1>1, <1>3, <2>2, <2>3 DEF Bit
<1> QED BY <1>2, <1>3

LEMMA FilesFinite == IsFiniteSet(Files) /\ IsFiniteSet(Fds) /\ IsFiniteSet(Procs)
BY FilesAssumption, FS_Interval DEF Files, Fds

\* What the invariant counts is finite.
LEMMA CountsFinite ==
  /\ \A g : /\ IsFiniteSet(Entries(Procs, g)) /\ Cardinality(Entries(Procs, g)) \in Nat
            /\ IsFiniteSet(Calls(g)) /\ Cardinality(Calls(g)) \in Nat
            /\ IsFiniteSet(Closings(g)) /\ Cardinality(Closings(g)) \in Nat
            /\ IsFiniteSet(Uncounted(g)) /\ Cardinality(Uncounted(g)) \in Nat
  /\ \A o : /\ IsFiniteSet({g \in Files : object[g] = o})
            /\ Cardinality({g \in Files : object[g] = o}) \in Nat
            /\ IsFiniteSet({p \in Procs : ip[p] = o})
            /\ Cardinality({p \in Procs : ip[p] = o}) \in Nat
<1>1. IsFiniteSet(Procs \X Fds)
  BY FilesFinite, FS_Product
<1>2. IsFiniteSet({1, 2})
  <2>1. IsFiniteSet({1} \cup {2})
    BY FS_Singleton, FS_AddElement
  <2>2. {1} \cup {2} = {1, 2}
    OBVIOUS
  <2> QED BY <2>1, <2>2
<1>3. IsFiniteSet(Procs \X {1, 2})
  BY <1>2, FilesFinite, FS_Product
<1>4. \A g : IsFiniteSet(Entries(Procs, g)) /\ IsFiniteSet(Closings(g))
  BY <1>1, <1>3, FS_Subset DEF Entries, Closings
<1>5. \A g : IsFiniteSet(Calls(g)) /\ IsFiniteSet(Uncounted(g))
  BY FilesFinite, FS_Subset DEF Calls, Uncounted
<1>6. \A o : IsFiniteSet({g \in Files : object[g] = o}) /\ IsFiniteSet({p \in Procs : ip[p] = o})
  BY FilesFinite, FS_Subset
<1> QED BY <1>4, <1>5, <1>6, FS_CardinalityType

LEMMA NotEmpty ==
  ASSUME NEW S, IsFiniteSet(S)
  PROVE  Cardinality(S) \in Nat /\ (Cardinality(S) = 0 <=> S = {})
BY FS_EmptySet, FS_CardinalityType

\* A set of two elements or more.
LEMMA TwoElements ==
  ASSUME NEW S, IsFiniteSet(S), NEW x \in S, NEW y \in S, x # y
  PROVE  Cardinality(S) >= 2
<1>1. IsFiniteSet(S \ {x}) /\ Cardinality(S \ {x}) = Cardinality(S) - 1
  BY FS_RemoveElement
<1>2. Cardinality(S \ {x}) # 0 /\ Cardinality(S \ {x}) \in Nat
  BY <1>1, NotEmpty
<1> QED BY <1>1, <1>2, NotEmpty

\* Lowest finds an element.
LEMMA LowestFound ==
  ASSUME NEW S, S \subseteq Nat, S # {}
  PROVE  Lowest(S) \in S
<1> DEFINE Less == {ss \in Nat \X Nat : ss[1] < ss[2]}
<1>1. IsWellFoundedOn(Less, Nat)
  BY NatLessThanWellFounded DEF OpToRel
<1> HIDE DEF Less
<1>2. PICK x \in S : \A y \in S : <<y, x>> \notin Less
  BY <1>1, WFMin
<1>3. \A y \in S : x <= y
  <2> SUFFICES ASSUME NEW y \in S, y < x PROVE FALSE
    OBVIOUS
  <2>1. <<y, x>> \in Nat \X Nat
    OBVIOUS
  <2>2. <<y, x>> \in Less
    BY <2>1 DEF Less
  <2> QED BY <1>2, <2>2
<1> QED BY <1>3 DEF Lowest

\* dup and the uses of a file have a descriptor that names it.
LEMMA UncountedNamed ==
  ASSUME TypeOK, AllHands, NEW p \in Procs, pc[p] \in {"filedup", "use"}
  PROVE  f[p] \in Files /\ Entries(Procs, f[p]) # {}
<1>1. f[p] \in Files /\ \E d \in Fds : ofile[p][d] = f[p]
  BY DEF AllHands, Hands
<1>2. PICK d \in Fds : ofile[p][d] = f[p]
  BY <1>1
<1>3. <<p, d>> \in Entries(Procs, f[p])
  BY <1>2 DEF Entries
<1> QED BY <1>1, <1>3

\* A file that a descriptor names has more of them than calls of dup that have
\* yet to count: each of these has two of its own.
LEMMA MoreEntries ==
  ASSUME TypeOK, AllHands, NEW g \in Files, Entries(Procs, g) # {}
  PROVE  Cardinality(Entries(Procs, g)) > Cardinality(Uncounted(g))
<1> DEFINE E == Entries(Procs, g)
           U == Uncounted(g)
<1>1. IsFiniteSet(E) /\ Cardinality(E) \in Nat /\ Cardinality(U) \in Nat
  BY CountsFinite
<1>2. PICK x \in E : TRUE
  OBVIOUS
<1>3. \A p \in U : \E d \in Fds : <<p, d>> \in E \ {x}
  <2> SUFFICES ASSUME NEW p \in U PROVE \E d \in Fds : <<p, d>> \in E \ {x}
    OBVIOUS
  <2>1. p \in Procs /\ pc[p] = "filedup" /\ f[p] = g
    BY DEF Uncounted
  <2>2. PICK d, e \in Fds : d # e /\ ofile[p][d] = g /\ ofile[p][e] = g
    BY <2>1 DEF AllHands, Hands
  <2>3. <<p, d>> \in E /\ <<p, e>> \in E /\ <<p, d>> # <<p, e>>
    BY <2>1, <2>2 DEF Entries
  <2> QED BY <2>3
<1> DEFINE m == [p \in U |-> <<p, CHOOSE d \in Fds : <<p, d>> \in E \ {x}>>]
<1>4. m \in Injection(U, E \ {x})
  <2> HIDE DEF E, U
  <2>1. m \in [U -> E \ {x}]
    BY <1>3
  <2>2. \A p, q \in U : m[p] = m[q] => p = q
    OBVIOUS
  <2> HIDE DEF m
  <2> QED BY <2>1, <2>2 DEF Injection, IsInjective
<1>5. IsFiniteSet(E \ {x}) /\ Cardinality(E \ {x}) = Cardinality(E) - 1
  BY <1>1, <1>2, FS_RemoveElement
<1>6. Cardinality(U) <= Cardinality(E \ {x})
  <2> HIDE DEF E, U, m
  <2> QED BY <1>4, <1>5, FS_Injection
<1> QED BY <1>1, <1>5, <1>6

\* A file that anything refers to is counted.
LEMMA Referenced ==
  ASSUME TypeOK, AllHands, RefsCountUses, NEW g \in Files,
         Entries(Procs, g) # {} \/ Calls(g) # {} \/ Closings(g) # {}
  PROVE  ref[g] >= 1
<1>1. ref[g] + Cardinality(Uncounted(g)) =
        Cardinality(Entries(Procs, g)) + Cardinality(Calls(g)) + Cardinality(Closings(g))
  BY DEF RefsCountUses
<1>2. ref[g] \in Nat
  BY DEF TypeOK
<1>3. CASE Entries(Procs, g) # {}
  BY <1>1, <1>2, <1>3, MoreEntries, CountsFinite
<1>4. CASE Entries(Procs, g) = {}
  <2>1. Uncounted(g) = {}
    BY <1>4, UncountedNamed DEF Uncounted
  <2>2. Cardinality(Uncounted(g)) = 0
    BY <2>1, FS_EmptySet
  <2>3. Cardinality(Calls(g)) + Cardinality(Closings(g)) >= 1
    BY <1>4, CountsFinite, NotEmpty
  <2> QED BY <1>1, <1>2, <2>2, <2>3, CountsFinite
<1> QED BY <1>3, <1>4

\* Nothing else refers to a file that a call of open has in hand.
LEMMA OpensAlone ==
  ASSUME TypeOK, AllHands, AllTyped, RefsCountUses,
         NEW g \in Files, NEW p \in Procs, Opens(p, g)
  PROVE  /\ Entries(Procs, g) = {}
         /\ \A q \in Procs \ {p} : q \notin Calls(g) /\ \A k \in {1, 2} : <<q, k>> \notin Closings(g)
<1>1. ref[g] = 1
  BY DEF AllTyped, Typed
<1>2. 1 + Cardinality(Uncounted(g)) =
        Cardinality(Entries(Procs, g)) + Cardinality(Calls(g)) + Cardinality(Closings(g))
  BY <1>1 DEF RefsCountUses
<1>3. p \in Calls(g) \/ <<p, 1>> \in Closings(g)
  <2>1. CASE pc[p] = "fdalloc" /\ f[p] = g
    BY <2>1 DEF Calls
  <2>2. CASE todo[p] = <<g>>
    <3>1. Len(<<g>>) = 1 /\ <<g>>[1] = g /\ 1 <= 1
      OBVIOUS
    <3>2. 1 <= Len(todo[p]) /\ todo[p][1] = g
      BY <2>2, <3>1
    <3> QED BY <3>2 DEF Closings
  <2> QED BY <2>1, <2>2 DEF Opens
<1>4. Cardinality(Calls(g)) + Cardinality(Closings(g)) >= 1
  BY <1>3, CountsFinite, NotEmpty
<1>5. Entries(Procs, g) = {}
  BY <1>2, <1>4, MoreEntries, CountsFinite
<1>6. Uncounted(g) = {}
  BY <1>5, UncountedNamed DEF Uncounted
<1>7. Cardinality(Calls(g)) + Cardinality(Closings(g)) = 1
  BY <1>2, <1>5, <1>6, FS_EmptySet, CountsFinite
<1>8. ASSUME NEW q \in Procs \ {p}, q \in Calls(g) \/ \E k \in {1, 2} : <<q, k>> \in Closings(g)
      PROVE  FALSE
  <2>1. Calls(g) # {} => Cardinality(Calls(g)) >= 1
    BY CountsFinite, NotEmpty
  <2>2. Closings(g) # {} => Cardinality(Closings(g)) >= 1
    BY CountsFinite, NotEmpty
  <2>3. CASE p \in Calls(g) /\ q \in Calls(g)
    BY <1>7, <1>8, <2>3, TwoElements, CountsFinite
  <2>4. CASE <<p, 1>> \in Closings(g) /\ \E k \in {1, 2} : <<q, k>> \in Closings(g)
    <3>1. PICK k \in {1, 2} : <<q, k>> \in Closings(g)
      BY <2>4
    <3>2. <<p, 1>> # <<q, k>>
      BY <1>8
    <3> QED BY <1>7, <2>4, <3>1, <3>2, TwoElements, CountsFinite
  <2> QED BY <1>3, <1>7, <1>8, <2>1, <2>2, <2>3, <2>4, CountsFinite
<1> QED BY <1>5, <1>8

LEMMA OpensOnly ==
  ASSUME TypeOK, AllHands, AllTyped, RefsCountUses,
         NEW g \in Files, NEW p \in Procs, Opens(p, g), NEW q \in Procs, Opens(q, g)
  PROVE  p = q
<1> SUFFICES ASSUME p # q PROVE FALSE
  OBVIOUS
<1>1. CASE pc[q] = "fdalloc" /\ f[q] = g
  <2>1. q \in Calls(g)
    BY <1>1 DEF Calls
  <2> QED BY <2>1, OpensAlone
<1>2. CASE todo[q] = <<g>>
  <2>1. Len(<<g>>) = 1 /\ <<g>>[1] = g /\ 1 <= 1
    OBVIOUS
  <2>2. 1 <= Len(todo[q]) /\ todo[q][1] = g
    BY <1>2, <2>1
  <2>3. <<q, 1>> \in Closings(g)
    BY <2>2 DEF Closings
  <2> QED BY <2>3, OpensAlone
<1> QED BY <1>1, <1>2 DEF Opens

-----------------------------------------------------------------------------
(* Steps of one process                                                    *)

Opening(p, g) == pc[p] = "fdalloc" /\ f[p] = g
Dups(p, g) == pc[p] = "filedup" /\ f[p] = g
OpenOn(o) == {g \in Files : object[g] = o}
Having(o) == {p \in Procs : ip[p] = o}
Among(s, g) == Bit(1 <= Len(s) /\ s[1] = g) + Bit(2 <= Len(s) /\ s[2] = g)
Pending(p, g) == Among(todo[p], g)

\* A step of p leaves what belongs to the other processes alone.
StepOf(p) ==
  \A q \in Procs \ {p} :
    pc'[q] = pc[q] /\ ip'[q] = ip[q] /\ f'[q] = f[q] /\ todo'[q] = todo[q] /\ ofile'[q] = ofile[q]

\* What is counted changes by what p has in hand.
LEMMA OneProcess ==
  ASSUME NEW p \in Procs, StepOf(p), NEW g
  PROVE  /\ Cardinality(Calls(g)') =
              Cardinality(Calls(g)) + Bit(Opening(p, g)') - Bit(Opening(p, g))
         /\ Cardinality(Uncounted(g)') =
              Cardinality(Uncounted(g)) + Bit(Dups(p, g)') - Bit(Dups(p, g))
         /\ Cardinality(Closings(g)') =
              Cardinality(Closings(g)) + Pending(p, g)' - Pending(p, g)
         /\ Cardinality(Having(g)') =
              Cardinality(Having(g)) + Bit(ip'[p] = g) - Bit(ip[p] = g)
<1> \A b : Bit(b) \in {0, 1}
  BY DEF Bit
<1>1. Cardinality(Calls(g)') =
              Cardinality(Calls(g)) + Bit(Opening(p, g)') - Bit(Opening(p, g))
  <2>1. \A q \in Calls(g) \cup Calls(g)' : q # p => (q \in Calls(g) <=> q \in Calls(g)')
    BY DEF Calls, StepOf
  <2>2. IsFiniteSet(Calls(g))
    BY CountsFinite
  <2>3. /\ Cardinality(Calls(g)) \in Nat /\ Cardinality(Calls(g)') \in Nat
        /\ Cardinality(Calls(g)') + Bit(p \in Calls(g)) = Cardinality(Calls(g)) + Bit(p \in Calls(g)')
    BY <2>1, <2>2, OneChanged
  <2>4. (p \in Calls(g) <=> Opening(p, g)) /\ (p \in Calls(g)' <=> Opening(p, g)')
    BY DEF Calls, Opening
  <2> QED BY <2>3, <2>4 DEF Bit
<1>2. Cardinality(Uncounted(g)') =
              Cardinality(Uncounted(g)) + Bit(Dups(p, g)') - Bit(Dups(p, g))
  <2>1. \A q \in Uncounted(g) \cup Uncounted(g)' :
          q # p => (q \in Uncounted(g) <=> q \in Uncounted(g)')
    BY DEF Uncounted, StepOf
  <2>2. IsFiniteSet(Uncounted(g))
    BY CountsFinite
  <2>3. /\ Cardinality(Uncounted(g)) \in Nat /\ Cardinality(Uncounted(g)') \in Nat
        /\ Cardinality(Uncounted(g)') + Bit(p \in Uncounted(g)) =
             Cardinality(Uncounted(g)) + Bit(p \in Uncounted(g)')
    BY <2>1, <2>2, OneChanged
  <2>4. (p \in Uncounted(g) <=> Dups(p, g)) /\ (p \in Uncounted(g)' <=> Dups(p, g)')
    BY DEF Uncounted, Dups
  <2> QED BY <2>3, <2>4 DEF Bit
<1>3. Cardinality(Closings(g)') =
              Cardinality(Closings(g)) + Pending(p, g)' - Pending(p, g)
  <2> DEFINE A == Closings(g)
             C == Closings(g)'
             B == {c \in A : c # <<p, 1>>} \cup {c \in C : c = <<p, 1>>}
  <2>1. \A c \in A \cup B : c # <<p, 1>> => (c \in A <=> c \in B)
    OBVIOUS
  <2>2. \A c \in B \cup C : c # <<p, 2>> => (c \in B <=> c \in C)
    <3> SUFFICES ASSUME NEW c \in B \cup C, c # <<p, 2>>, c # <<p, 1>>
                 PROVE  c \in A <=> c \in C
      OBVIOUS
    <3>1. c \in Procs \X {1, 2} /\ c[1] # p
      BY DEF Closings
    <3> QED BY <3>1 DEF Closings, StepOf
  <2>3. /\ <<p, 1>> \in A <=> 1 <= Len(todo[p]) /\ todo[p][1] = g
        /\ <<p, 1>> \in C <=> 1 <= Len(todo'[p]) /\ todo'[p][1] = g
        /\ <<p, 2>> \in A <=> 2 <= Len(todo[p]) /\ todo[p][2] = g
        /\ <<p, 2>> \in C <=> 2 <= Len(todo'[p]) /\ todo'[p][2] = g
    BY DEF Closings
  <2>4. IsFiniteSet(A)
    BY CountsFinite
  <2>5. (<<p, 1>> \in B <=> <<p, 1>> \in C) /\ (<<p, 2>> \in B <=> <<p, 2>> \in A)
    <3>1. <<p, 1>> # <<p, 2>>
      OBVIOUS
    <3> QED BY <3>1
  <2> HIDE DEF A, B, C
  <2>6. /\ IsFiniteSet(B) /\ Cardinality(A) \in Nat /\ Cardinality(B) \in Nat
        /\ Cardinality(B) + Bit(<<p, 1>> \in A) = Cardinality(A) + Bit(<<p, 1>> \in B)
    BY <2>1, <2>4, OneChanged
  <2>7. /\ Cardinality(C) \in Nat
        /\ Cardinality(C) + Bit(<<p, 2>> \in B) = Cardinality(B) + Bit(<<p, 2>> \in C)
    BY <2>2, <2>6, OneChanged
  <2>8. Cardinality(C) + Pending(p, g) = Cardinality(A) + Pending(p, g)'
    BY <2>3, <2>5, <2>6, <2>7 DEF Pending, Among, Bit
  <2>9. Pending(p, g) \in Nat /\ Pending(p, g)' \in Nat
    BY DEF Pending, Among, Bit
  <2> QED BY <2>6, <2>7, <2>8, <2>9 DEF A, C
<1>4. Cardinality(Having(g)') =
              Cardinality(Having(g)) + Bit(ip'[p] = g) - Bit(ip[p] = g)
  <2> DEFINE S == Having(g)
             T == Having(g)'
  <2>1. \A q \in S \cup T : q # p => (q \in S <=> q \in T)
    BY DEF StepOf, Having
  <2>2. IsFiniteSet(S)
    BY CountsFinite DEF Having
  <2>3. (p \in S <=> ip[p] = g) /\ (p \in T <=> ip'[p] = g)
    BY DEF Having
  <2> HIDE DEF S, T
  <2>4. /\ Cardinality(S) \in Nat /\ Cardinality(T) \in Nat
        /\ Cardinality(T) + Bit(p \in S) = Cardinality(S) + Bit(p \in T)
    BY <2>1, <2>2, OneChanged
  <2>5. Cardinality(T) = Cardinality(S) + Bit(ip'[p] = g) - Bit(ip[p] = g)
    BY <2>3, <2>4 DEF Bit
  <2> QED BY <2>5 DEF S, T
<1> QED BY <1>1, <1>2, <1>3, <1>4

\* One descriptor of p changes.
LEMMA OneEntry ==
  ASSUME NEW p \in Procs, NEW d \in Fds, NEW g,
         \A q \in Procs, e \in Fds : <<q, e>> # <<p, d>> => ofile'[q][e] = ofile[q][e]
  PROVE  Cardinality(Entries(Procs, g)') =
           Cardinality(Entries(Procs, g)) + Bit(ofile'[p][d] = g) - Bit(ofile[p][d] = g)
<1> DEFINE S == Entries(Procs, g)
           T == Entries(Procs, g)'
<1>1. \A x \in S \cup T : x # <<p, d>> => (x \in S <=> x \in T)
  <2> SUFFICES ASSUME NEW x \in Procs \X Fds, x # <<p, d>>
               PROVE  x \in S <=> x \in T
    BY DEF Entries
  <2>1. x = <<x[1], x[2]>> /\ x[1] \in Procs /\ x[2] \in Fds
    OBVIOUS
  <2> QED BY <2>1 DEF Entries
<1>2. IsFiniteSet(S)
  BY CountsFinite
<1>3. (<<p, d>> \in S <=> ofile[p][d] = g) /\ (<<p, d>> \in T <=> ofile'[p][d] = g)
  BY DEF Entries
<1> HIDE DEF S, T
<1>4. /\ Cardinality(S) \in Nat /\ Cardinality(T) \in Nat
      /\ Cardinality(T) + Bit(<<p, d>> \in S) = Cardinality(S) + Bit(<<p, d>> \in T)
  BY <1>1, <1>2, OneChanged
<1>5. Cardinality(T) = Cardinality(S) + Bit(ofile'[p][d] = g) - Bit(ofile[p][d] = g)
  BY <1>3, <1>4 DEF Bit
<1> QED BY <1>5 DEF S, T

\* One file is opened or emptied.
LEMMA OneFile ==
  ASSUME NEW h \in Files, NEW o, \A g \in Files \ {h} : object'[g] = object[g]
  PROVE  Cardinality(OpenOn(o)') =
           Cardinality(OpenOn(o)) + Bit(object'[h] = o) - Bit(object[h] = o)
<1> DEFINE S == OpenOn(o)
           T == OpenOn(o)'
<1>1. \A x \in S \cup T : x # h => (x \in S <=> x \in T)
  BY DEF OpenOn
<1>2. IsFiniteSet(S)
  BY CountsFinite DEF OpenOn
<1>3. (h \in S <=> object[h] = o) /\ (h \in T <=> object'[h] = o)
  BY DEF OpenOn
<1> HIDE DEF S, T
<1>4. /\ Cardinality(S) \in Nat /\ Cardinality(T) \in Nat
      /\ Cardinality(T) + Bit(h \in S) = Cardinality(S) + Bit(h \in T)
  BY <1>1, <1>2, OneChanged
<1>5. Cardinality(T) = Cardinality(S) + Bit(object'[h] = o) - Bit(object[h] = o)
  BY <1>3, <1>4 DEF Bit
<1> QED BY <1>5 DEF S, T

\* The references balance when what p gives up and takes does.
LEMMA Balanced ==
  ASSUME RefsCountUses, TypeOK, NEW p \in Procs, StepOf(p), NEW g \in Files,
         ref'[g] \in Nat, NEW de \in Int,
         Cardinality(Entries(Procs, g)') = Cardinality(Entries(Procs, g)) + de,
         ref'[g] + Bit(Dups(p, g)') + Bit(Opening(p, g)) + Pending(p, g) =
           ref[g] + de + Bit(Dups(p, g)) + Bit(Opening(p, g)') + Pending(p, g)'
  PROVE  ref'[g] + Cardinality(Uncounted(g)') =
           Cardinality(Entries(Procs, g)') + Cardinality(Calls(g)') + Cardinality(Closings(g)')
<1>1. ref[g] \in Nat
  BY DEF TypeOK
<1>2. ref[g] + Cardinality(Uncounted(g)) =
        Cardinality(Entries(Procs, g)) + Cardinality(Calls(g)) + Cardinality(Closings(g))
  BY DEF RefsCountUses
<1>3. \A b : Bit(b) \in {0, 1}
  BY DEF Bit
<1>4. Pending(p, g) \in Nat /\ Pending(p, g)' \in Nat
  BY DEF Pending, Among, Bit
<1>5. /\ Bit(Dups(p, g)) \in Nat /\ Bit(Dups(p, g)') \in Nat
      /\ Bit(Opening(p, g)) \in Nat /\ Bit(Opening(p, g)') \in Nat
  BY <1>3
<1>6. /\ Cardinality(Calls(g)') = Cardinality(Calls(g)) + Bit(Opening(p, g)') - Bit(Opening(p, g))
      /\ Cardinality(Uncounted(g)') = Cardinality(Uncounted(g)) + Bit(Dups(p, g)') - Bit(Dups(p, g))
      /\ Cardinality(Closings(g)') = Cardinality(Closings(g)) + Pending(p, g)' - Pending(p, g)
  BY OneProcess
<1>7. /\ Cardinality(Entries(Procs, g)) \in Nat /\ Cardinality(Calls(g)) \in Nat
      /\ Cardinality(Uncounted(g)) \in Nat /\ Cardinality(Closings(g)) \in Nat
  BY CountsFinite
<1> DEFINE dups == Bit(Dups(p, g))
           dupsNow == Bit(Dups(p, g)')
           opens == Bit(Opening(p, g))
           opensNow == Bit(Opening(p, g)')
           closes == Pending(p, g)
           closesNow == Pending(p, g)'
           entries == Cardinality(Entries(Procs, g))
           entriesNow == Cardinality(Entries(Procs, g)')
           uncounted == Cardinality(Uncounted(g))
           uncountedNow == Cardinality(Uncounted(g)')
           fileOpens == Cardinality(Calls(g))
           fileOpensNow == Cardinality(Calls(g)')
           closings == Cardinality(Closings(g))
           closingsNow == Cardinality(Closings(g)')
           refs == ref[g]
           refsNow == ref'[g]
<1>8. /\ entriesNow = entries + de
      /\ refsNow + dupsNow + opens + closes = refs + de + dups + opensNow + closesNow
      /\ refs + uncounted = entries + fileOpens + closings
      /\ fileOpensNow = fileOpens + opensNow - opens
      /\ uncountedNow = uncounted + dupsNow - dups
      /\ closingsNow = closings + closesNow - closes
  BY <1>2, <1>6
<1>9. /\ dups \in Nat /\ dupsNow \in Nat /\ opens \in Nat /\ opensNow \in Nat
      /\ closes \in Nat /\ closesNow \in Nat /\ entries \in Nat /\ uncounted \in Nat
      /\ fileOpens \in Nat /\ closings \in Nat /\ refs \in Nat /\ refsNow \in Nat
  BY <1>1, <1>4, <1>5, <1>7
<1>10. refsNow + uncountedNow = entriesNow + fileOpensNow + closingsNow
  <2> HIDE DEF dups, dupsNow, opens, opensNow, closes, closesNow, entries, entriesNow,
        uncounted, uncountedNow, fileOpens, fileOpensNow, closings, closingsNow, refs, refsNow
  <2> DEFINE had == opens + closes
             has == opensNow + closesNow
             left == refsNow + uncountedNow
             right == entriesNow + fileOpensNow + closingsNow
  <2>1. /\ had \in Nat /\ has \in Nat
        /\ refsNow + dupsNow + had = refs + de + dups + has
    BY <1>8, <1>9
  <2>2. left = refsNow + uncounted + dupsNow - dups
    BY <1>8, <1>9
  <2>3. right = (entries + fileOpens + closings) + de + has - had
    BY <1>8, <1>9
  <2>4. right = refs + uncounted + de + has - had
    BY <1>8, <1>9, <2>1, <2>3
  <2> HIDE DEF had, has, left, right
  <2>5. left = right
    BY <1>9, <2>1, <2>2, <2>4
  <2> QED BY <2>5 DEF left, right
<1> QED BY <1>10

\* The same for objects.
LEMMA HeldBalanced ==
  ASSUME ObjectsHeld, TypeOK, NEW p \in Procs, StepOf(p), NEW o \in Objects,
         held'[o] \in Nat, NEW df \in Int,
         Cardinality(OpenOn(o)') =
           Cardinality(OpenOn(o)) + df,
         held'[o] + Bit(ip[p] = o) = held[o] + df + Bit(ip'[p] = o)
  PROVE  held'[o] = Cardinality(OpenOn(o)')
                      + Cardinality(Having(o)')
<1>1. held[o] \in Nat
  BY DEF TypeOK
<1>2. held[o] = Cardinality(OpenOn(o)) + Cardinality(Having(o))
  BY DEF ObjectsHeld, OpenOn, Having
<1>3. Bit(ip[p] = o) \in Nat /\ Bit(ip'[p] = o) \in Nat
  BY DEF Bit
<1>4. Cardinality(Having(o)') =
        Cardinality(Having(o)) + Bit(ip'[p] = o) - Bit(ip[p] = o)
  BY OneProcess
<1>5. /\ Cardinality(OpenOn(o)) \in Nat
      /\ Cardinality(Having(o)) \in Nat
  BY CountsFinite DEF OpenOn, Having
<1> DEFINE was == Bit(ip[p] = o)
           is == Bit(ip'[p] = o)
<1>6. /\ held'[o] + was = held[o] + df + is /\ was \in Nat /\ is \in Nat
      /\ Cardinality(Having(o)') = Cardinality(Having(o)) + is - was
  BY <1>3, <1>4
<1> HIDE DEF was, is
<1> QED BY <1>1, <1>2, <1>5, <1>6

\* What a call has in hand is held.
LEMMA HeldByCall ==
  ASSUME ObjectsHeld, TypeOK, NEW p \in Procs, ip[p] \in Objects
  PROVE  held[ip[p]] >= 1
<1>1. p \in Having(ip[p])
  BY DEF Having
<1>2. IsFiniteSet(Having(ip[p])) /\ Cardinality(OpenOn(ip[p])) \in Nat
  BY CountsFinite DEF Having, OpenOn
<1>3. Cardinality(Having(ip[p])) \in Nat /\ Cardinality(Having(ip[p])) # 0
  BY <1>1, <1>2, NotEmpty
<1>4. held[ip[p]] = Cardinality(OpenOn(ip[p])) + Cardinality(Having(ip[p]))
  BY DEF ObjectsHeld, Having, OpenOn
<1> QED BY <1>2, <1>3, <1>4

LEMMA SameEntries ==
  ASSUME ofile' = ofile, NEW g
  PROVE  Cardinality(Entries(Procs, g)') = Cardinality(Entries(Procs, g)) + 0
<1>1. Entries(Procs, g)' = Entries(Procs, g)
  BY DEF Entries
<1> QED BY <1>1, CountsFinite

LEMMA SameObjects ==
  ASSUME object' = object, NEW o
  PROVE  Cardinality(OpenOn(o)') = Cardinality(OpenOn(o)) + 0
<1>1. OpenOn(o)' = OpenOn(o) /\ Cardinality(OpenOn(o)) \in Nat
  BY CountsFinite DEF OpenOn
<1> QED BY <1>1

LEMMA HandsOfOne ==
  ASSUME AllHands, NEW p \in Procs, StepOf(p), Hands(p)'
  PROVE  AllHands'
<1>1. ASSUME NEW q \in Procs, q # p PROVE Hands(q)'
  BY <1>1 DEF AllHands, Hands, StepOf
<1> QED BY <1>1 DEF AllHands

\* A step that moves no references.
LEMMA RefsKept ==
  ASSUME RefsCountUses, TypeOK, NEW p \in Procs, StepOf(p),
         ref' = ref, ofile' = ofile, todo' = todo,
         \A g \in Files : (Opening(p, g)' <=> Opening(p, g)) /\ (Dups(p, g)' <=> Dups(p, g))
  PROVE  RefsCountUses'
<1> SUFFICES ASSUME NEW g \in Files
             PROVE ref'[g] + Cardinality(Uncounted(g)') =
               Cardinality(Entries(Procs, g)') + Cardinality(Calls(g)') + Cardinality(Closings(g)')
  BY DEF RefsCountUses
<1>1. Entries(Procs, g)' = Entries(Procs, g)
  BY DEF Entries
<1>2. Pending(p, g)' = Pending(p, g) /\ Pending(p, g) \in Nat
  BY DEF Pending, Among, Bit
<1>3. ref'[g] = ref[g] /\ ref[g] \in Nat
  BY DEF TypeOK
<1>4. /\ Bit(Opening(p, g)') = Bit(Opening(p, g)) /\ Bit(Dups(p, g)') = Bit(Dups(p, g))
      /\ Bit(Opening(p, g)) \in Nat /\ Bit(Dups(p, g)) \in Nat
  BY DEF Bit
<1>5. Cardinality(Entries(Procs, g)') = Cardinality(Entries(Procs, g)) + 0
  BY <1>1, CountsFinite
<1> QED BY <1>2, <1>3, <1>4, <1>5, Balanced

LEMMA HeldKept ==
  ASSUME ObjectsHeld, object' = object, held' = held, ip' = ip
  PROVE  ObjectsHeld'
BY DEF ObjectsHeld

LEMMA TypedKept ==
  ASSUME AllTyped, NEW p \in Procs, StepOf(p), ref' = ref, object' = object,
         \A g \in Files : Opens(p, g)' <=> Opens(p, g)
  PROVE  AllTyped'
<1>1. \A q \in Procs, g \in Files : Opens(q, g)' <=> Opens(q, g)
  BY DEF Opens, StepOf
<1> QED BY <1>1 DEF AllTyped, Typed

-----------------------------------------------------------------------------
(* Xv6Files: one lemma per action                                          *)

LEMMA OpenInodeKeeps ==
  ASSUME FilesInv, NEW p \in Procs, OpenInode(p)
  PROVE  FilesInv'
<1> USE DEF FilesInv
<1>1. PICK o \in Inodes :
        /\ ilock' = [ilock EXCEPT ![o] = p]
        /\ held' = [held EXCEPT ![o] = @ + 1]
        /\ ip' = [ip EXCEPT ![p] = o]
  BY DEF OpenInode
<1>2. /\ pc[p] = "user" /\ pc' = [pc EXCEPT ![p] = "filealloc"]
      /\ ref' = ref /\ object' = object /\ ofile' = ofile /\ f' = f /\ todo' = todo
  BY DEF OpenInode, Goto
<1>3. o \in Objects
  BY DEF Objects
<1>4. TypeOK'
  BY <1>1, <1>2, <1>3 DEF TypeOK, Labels
<1>5. StepOf(p)
  BY <1>1, <1>2 DEF StepOf, TypeOK
<1>6. ip[p] = None /\ f[p] = None /\ todo[p] = <<>>
  BY <1>2 DEF AllHands, Hands
<1>7. ip'[p] = o /\ pc'[p] = "filealloc"
  BY <1>1, <1>2 DEF TypeOK
<1>8. AllHands'
  <2>1. Hands(p)'
    BY <1>2, <1>6, <1>7 DEF Hands
  <2> QED BY <1>5, <2>1, HandsOfOne
<1>9. AllTyped'
  BY <1>2, <1>5, <1>7, TypedKept DEF Opens
<1>10. RefsCountUses'
  BY <1>2, <1>5, <1>7, RefsKept DEF Opening, Dups
<1>11. ObjectsHeld'
  <2> SUFFICES ASSUME NEW x \in Objects
               PROVE  held'[x] = Cardinality(OpenOn(x)') + Cardinality(Having(x)')
    BY DEF ObjectsHeld, OpenOn, Having
  <2>1. Cardinality(OpenOn(x)') = Cardinality(OpenOn(x)) + 0
    BY <1>2, SameObjects
  <2>2. held'[x] + Bit(ip[p] = x) = held[x] + 0 + Bit(ip'[p] = x)
    BY <1>1, <1>3, <1>6, <1>7, FilesAssumption DEF Bit, TypeOK
  <2>3. held'[x] \in Nat
    BY <1>4 DEF TypeOK
  <2> QED BY <1>5, <2>1, <2>2, <2>3, HeldBalanced
<1> QED BY <1>4, <1>8, <1>9, <1>10, <1>11

LEMMA FileallocKeeps ==
  ASSUME FilesInv, NEW p \in Procs, Filealloc(p)
  PROVE  FilesInv'
<1> USE DEF FilesInv
<1>1. /\ pc[p] = "filealloc"
      /\ object' = object /\ ofile' = ofile /\ held' = held /\ ilock' = ilock
      /\ ip' = ip /\ todo' = todo
  BY DEF Filealloc
<1>2. ip[p] \in Inodes /\ f[p] = None /\ todo[p] = <<>>
  BY <1>1 DEF AllHands, Hands
<1>3. ObjectsHeld'
  BY <1>1, HeldKept
<1>4. CASE FreeFiles = {}
  <2>1. pc' = [pc EXCEPT ![p] = "openFail"] /\ ref' = ref /\ f' = f
    BY <1>4 DEF Filealloc, Goto
  <2>2. pc'[p] = "openFail"
    BY <2>1 DEF TypeOK
  <2>3. TypeOK'
    BY <1>1, <2>1 DEF TypeOK, Labels
  <2>4. StepOf(p)
    BY <1>1, <2>1 DEF StepOf, TypeOK
  <2>5. Hands(p)'
    BY <1>1, <1>2, <2>1, <2>2 DEF Hands
  <2>6. AllTyped'
    BY <1>1, <2>1, <2>2, <2>4, TypedKept DEF Opens
  <2>7. RefsCountUses'
    BY <1>1, <2>1, <2>2, <2>4, RefsKept DEF Opening, Dups
  <2> QED BY <1>3, <2>3, <2>4, <2>5, <2>6, <2>7, HandsOfOne
<1>5. CASE FreeFiles # {}
  <2> DEFINE h == Lowest(FreeFiles)
  <2>1. h \in FreeFiles
    <3>1. FreeFiles \subseteq Nat
      BY DEF FreeFiles, Files
    <3> QED BY <1>5, <3>1, LowestFound
  <2>2. h \in Files /\ ref[h] = 0
    BY <2>1 DEF FreeFiles
  <2>3. /\ ref' = [ref EXCEPT ![h] = 1] /\ f' = [f EXCEPT ![p] = h]
        /\ pc' = [pc EXCEPT ![p] = "fdalloc"]
    BY <1>5 DEF Filealloc, Goto
  <2> HIDE DEF h
  <2>4. TypeOK'
    BY <1>1, <2>2, <2>3 DEF TypeOK, Labels
  <2>5. StepOf(p)
    BY <1>1, <2>3 DEF StepOf, TypeOK
  <2>6. pc'[p] = "fdalloc" /\ f'[p] = h
    BY <2>3 DEF TypeOK
  <2>7. Hands(p)'
    BY <1>1, <1>2, <2>2, <2>6 DEF Hands
  <2>8. \A g \in Files : ref'[g] = IF g = h THEN 1 ELSE ref[g]
    BY <2>3 DEF TypeOK
  <2>9. AllTyped'
    <3> SUFFICES ASSUME NEW g \in Files PROVE Typed(g)'
      BY DEF AllTyped
    <3>1. Typed(g)
      BY DEF AllTyped
    <3>2. \A q \in Procs : q # p => (Opens(q, g)' <=> Opens(q, g))
      BY <2>5 DEF Opens, StepOf
    <3>3. Opens(p, g)' <=> g = h
      BY <2>6 DEF Opens
    <3>4. ~Opens(p, g)
      BY <1>1 DEF Opens
    <3>5. CASE g = h
      BY <1>1, <2>2, <2>8, <3>1, <3>2, <3>3, <3>5 DEF Typed
    <3>6. CASE g # h
      BY <1>1, <2>8, <3>1, <3>2, <3>3, <3>4, <3>6 DEF Typed
    <3> QED BY <3>5, <3>6
  <2>10. RefsCountUses'
    <3> SUFFICES ASSUME NEW g \in Files
                 PROVE ref'[g] + Cardinality(Uncounted(g)') =
                   Cardinality(Entries(Procs, g)') + Cardinality(Calls(g)') + Cardinality(Closings(g)')
      BY DEF RefsCountUses
    <3>1. Cardinality(Entries(Procs, g)') = Cardinality(Entries(Procs, g)) + 0
      BY <1>1, SameEntries
    <3>2. Pending(p, g)' = Pending(p, g) /\ Pending(p, g) \in Nat
      BY <1>1 DEF Pending, Among, Bit
    <3>3. /\ ~Dups(p, g) /\ ~Dups(p, g)' /\ ~Opening(p, g)
          /\ Opening(p, g)' <=> g = h
      BY <1>1, <2>6 DEF Dups, Opening
    <3>4. ref'[g] \in Nat /\ ref[g] \in Nat /\ ref'[g] = ref[g] + Bit(g = h)
      BY <2>2, <2>8 DEF TypeOK, Bit
    <3>5. ref'[g] + Bit(Dups(p, g)') + Bit(Opening(p, g)) + Pending(p, g) =
           ref[g] + 0 + Bit(Dups(p, g)) + Bit(Opening(p, g)') + Pending(p, g)'
      BY <3>2, <3>3, <3>4 DEF Bit
    <3> QED BY <2>5, <3>1, <3>4, <3>5, Balanced
  <2> QED BY <1>3, <2>4, <2>5, <2>7, <2>9, <2>10, HandsOfOne
<1> QED BY <1>4, <1>5

LEMMA OpenFailKeeps ==
  ASSUME FilesInv, NEW p \in Procs, OpenFail(p)
  PROVE  FilesInv'
<1> USE DEF FilesInv
<1>1. /\ pc[p] = "openFail" /\ pc' = [pc EXCEPT ![p] = "user"]
      /\ ilock' = [ilock EXCEPT ![ip[p]] = None]
      /\ held' = [held EXCEPT ![ip[p]] = @ - 1]
      /\ ip' = [ip EXCEPT ![p] = None]
      /\ ref' = ref /\ object' = object /\ ofile' = ofile /\ f' = f /\ todo' = todo
  BY DEF OpenFail, Goto, Iput
<1>2. ip[p] \in Inodes /\ f[p] = None /\ todo[p] = <<>>
  BY <1>1 DEF AllHands, Hands
<1>3. ip[p] \in Objects
  BY <1>2 DEF Objects
<1>4. held[ip[p]] >= 1
  BY <1>3, HeldByCall
<1>5. TypeOK'
  BY <1>1, <1>2, <1>3, <1>4 DEF TypeOK, Labels
<1>6. StepOf(p)
  BY <1>1 DEF StepOf, TypeOK
<1>7. ip'[p] = None /\ pc'[p] = "user"
  BY <1>1 DEF TypeOK
<1>8. Hands(p)'
  BY <1>1, <1>2, <1>7 DEF Hands
<1>9. AllTyped'
  BY <1>1, <1>6, <1>7, TypedKept DEF Opens
<1>10. RefsCountUses'
  BY <1>1, <1>6, <1>7, RefsKept DEF Opening, Dups
<1>11. ObjectsHeld'
  <2> SUFFICES ASSUME NEW x \in Objects
               PROVE  held'[x] = Cardinality(OpenOn(x)') + Cardinality(Having(x)')
    BY DEF ObjectsHeld, OpenOn, Having
  <2>1. Cardinality(OpenOn(x)') = Cardinality(OpenOn(x)) + 0
    BY <1>1, SameObjects
  <2>2. held'[x] + Bit(ip[p] = x) = held[x] + 0 + Bit(ip'[p] = x)
    BY <1>1, <1>3, <1>7, FilesAssumption DEF Bit, TypeOK
  <2>3. held'[x] \in Nat
    BY <1>5 DEF TypeOK
  <2> QED BY <1>6, <2>1, <2>2, <2>3, HeldBalanced
<1> QED BY <1>5, <1>6, <1>8, <1>9, <1>10, <1>11, HandsOfOne

LEMMA PutKeeps ==
  ASSUME FilesInv, NEW p \in Procs, Put(p)
  PROVE  FilesInv'
<1> USE DEF FilesInv
<1>1. /\ pc[p] = "put" /\ pc' = [pc EXCEPT ![p] = "close"]
      /\ held' = [held EXCEPT ![ip[p]] = @ - 1]
      /\ ip' = [ip EXCEPT ![p] = None]
      /\ ref' = ref /\ object' = object /\ ofile' = ofile /\ ilock' = ilock /\ f' = f /\ todo' = todo
  BY DEF Put, Goto, Iput
<1>2. ip[p] \in Objects /\ f[p] = None /\ Len(todo[p]) <= 1
  BY <1>1 DEF AllHands, Hands
<1>3. held[ip[p]] >= 1
  BY <1>2, HeldByCall
<1>4. TypeOK'
  BY <1>1, <1>2, <1>3 DEF TypeOK, Labels
<1>5. StepOf(p)
  BY <1>1 DEF StepOf, TypeOK
<1>6. ip'[p] = None /\ pc'[p] = "close"
  BY <1>1 DEF TypeOK
<1>7. Hands(p)'
  <2>1. todo[p] \in Seq(Files)
    BY DEF TypeOK
  <2>2. Len(todo[p]) \in Nat
    BY <2>1
  <2> QED BY <1>1, <1>2, <1>6, <2>2 DEF Hands
<1>8. AllTyped'
  BY <1>1, <1>5, <1>6, TypedKept DEF Opens
<1>9. RefsCountUses'
  BY <1>1, <1>5, <1>6, RefsKept DEF Opening, Dups
<1>10. ObjectsHeld'
  <2> SUFFICES ASSUME NEW x \in Objects
               PROVE  held'[x] = Cardinality(OpenOn(x)') + Cardinality(Having(x)')
    BY DEF ObjectsHeld, OpenOn, Having
  <2>1. Cardinality(OpenOn(x)') = Cardinality(OpenOn(x)) + 0
    BY <1>1, SameObjects
  <2>2. held'[x] + Bit(ip[p] = x) = held[x] + 0 + Bit(ip'[p] = x)
    BY <1>1, <1>2, <1>6, FilesAssumption DEF Bit, TypeOK
  <2>3. held'[x] \in Nat
    BY <1>4 DEF TypeOK
  <2> QED BY <1>5, <2>1, <2>2, <2>3, HeldBalanced
<1> QED BY <1>4, <1>5, <1>7, <1>8, <1>9, <1>10, HandsOfOne

LEMMA CloseReturnKeeps ==
  ASSUME FilesInv, NEW p \in Procs, CloseReturn(p)
  PROVE  FilesInv'
<1> USE DEF FilesInv
<1>1. /\ pc[p] = "close" /\ todo[p] = <<>> /\ pc' = [pc EXCEPT ![p] = AfterClose(p)]
      /\ ref' = ref /\ object' = object /\ ofile' = ofile /\ held' = held
      /\ ilock' = ilock /\ ip' = ip /\ f' = f /\ todo' = todo
  BY DEF CloseReturn, Goto
<1>2. f[p] = None /\ (ip[p] # None => ip[p] \in Inodes)
  BY <1>1 DEF AllHands, Hands
<1>3. pc'[p] = (IF ip[p] = None THEN "user" ELSE "openFail")
  BY <1>1 DEF TypeOK, AfterClose
<1>4. TypeOK'
  BY <1>1 DEF TypeOK, Labels, AfterClose
<1>5. StepOf(p)
  BY <1>1 DEF StepOf, TypeOK
<1>6. Hands(p)'
  BY <1>1, <1>2, <1>3 DEF Hands
<1>7. AllTyped'
  BY <1>1, <1>3, <1>5, TypedKept DEF Opens
<1>8. RefsCountUses'
  BY <1>1, <1>3, <1>5, RefsKept DEF Opening, Dups
<1>9. ObjectsHeld'
  BY <1>1, HeldKept
<1> QED BY <1>4, <1>5, <1>6, <1>7, <1>8, <1>9, HandsOfOne

LEMMA OpenFdallocKeeps ==
  ASSUME FilesInv, NEW p \in Procs, OpenFdalloc(p)
  PROVE  FilesInv'
<1> USE DEF FilesInv
<1> DEFINE h == f[p]
<1>1. /\ pc[p] = "fdalloc" /\ f' = [f EXCEPT ![p] = None] /\ ref' = ref /\ held' = held
  BY DEF OpenFdalloc
<1>2. ip[p] \in Inodes /\ h \in Files /\ todo[p] = <<>>
  BY <1>1 DEF AllHands, Hands
<1>3. Opens(p, h) /\ ref[h] = 1 /\ object[h] = None
  <2>1. Opens(p, h)
    BY <1>1 DEF Opens
  <2> QED BY <1>2, <2>1 DEF AllTyped, Typed
<1>4. f'[p] = None
  BY <1>1 DEF TypeOK
<1>5. \A g \in Files : Opening(p, g) <=> g = h
  BY <1>1 DEF Opening
<1>6. CASE FreeFds(p) = {}
  <2>1. /\ todo' = [todo EXCEPT ![p] = <<h>>] /\ pc' = [pc EXCEPT ![p] = "close"]
        /\ object' = object /\ ofile' = ofile /\ ilock' = ilock /\ ip' = ip
    BY <1>6 DEF OpenFdalloc, Goto
  <2>2. pc'[p] = "close" /\ todo'[p] = <<h>> /\ ip'[p] = ip[p]
    BY <2>1 DEF TypeOK
  <2>3. TypeOK'
    BY <1>1, <1>2, <2>1 DEF TypeOK, Labels
  <2>4. StepOf(p)
    BY <1>1, <2>1 DEF StepOf, TypeOK
  <2>5. Hands(p)'
    BY <1>2, <1>4, <2>2 DEF Hands
  <2>6. \A g \in Files : Opens(p, g)' <=> Opens(p, g)
    <3>1. ip[p] # None
      BY <1>2, FilesAssumption DEF Objects
    <3>2. \A g \in Files : <<h>> = <<g>> <=> h = g
      OBVIOUS
    <3> QED BY <1>1, <2>2, <3>1, <3>2 DEF Opens
  <2>7. AllTyped'
    BY <1>1, <2>1, <2>4, <2>6, TypedKept
  <2>8. RefsCountUses'
    <3> SUFFICES ASSUME NEW g \in Files
                 PROVE ref'[g] + Cardinality(Uncounted(g)') =
                   Cardinality(Entries(Procs, g)') + Cardinality(Calls(g)') + Cardinality(Closings(g)')
      BY DEF RefsCountUses
    <3>1. Cardinality(Entries(Procs, g)') = Cardinality(Entries(Procs, g)) + 0
      BY <2>1, SameEntries
    <3>2. Pending(p, g) = 0 /\ Pending(p, g)' = Bit(h = g)
      BY <1>2, <2>2 DEF Pending, Among, Bit
    <3>3. ~Dups(p, g) /\ ~Dups(p, g)' /\ ~Opening(p, g)' /\ (Opening(p, g) <=> h = g)
      BY <1>1, <1>5, <2>2 DEF Dups, Opening
    <3>4. ref'[g] = ref[g] /\ ref[g] \in Nat
      BY <1>1 DEF TypeOK
    <3>5. ref'[g] + Bit(Dups(p, g)') + Bit(Opening(p, g)) + Pending(p, g) =
           ref[g] + 0 + Bit(Dups(p, g)) + Bit(Opening(p, g)') + Pending(p, g)'
      BY <3>2, <3>3, <3>4 DEF Bit
    <3> QED BY <2>4, <3>1, <3>4, <3>5, Balanced
  <2>9. ObjectsHeld'
    BY <1>1, <2>1, HeldKept
  <2> QED BY <2>3, <2>4, <2>5, <2>7, <2>8, <2>9, HandsOfOne
<1>7. CASE FreeFds(p) # {}
  <2> DEFINE d == Lowest(FreeFds(p))
  <2>1. d \in Fds /\ ofile[p][d] = None
    <3>1. FreeFds(p) \subseteq Nat
      BY DEF FreeFds, Fds
    <3>2. d \in FreeFds(p)
      BY <1>7, <3>1, LowestFound
    <3> QED BY <3>2 DEF FreeFds
  <2>2. /\ ofile' = [ofile EXCEPT ![p][d] = h]
        /\ ilock' = [ilock EXCEPT ![ip[p]] = None]
        /\ object' = [object EXCEPT ![h] = ip[p]]
        /\ ip' = [ip EXCEPT ![p] = None]
        /\ pc' = [pc EXCEPT ![p] = "user"] /\ todo' = todo
    BY <1>7 DEF OpenFdalloc, Goto
  <2> HIDE DEF d
  <2>3. pc'[p] = "user" /\ ip'[p] = None
    BY <2>2 DEF TypeOK
  <2>4. \A q \in Procs, e \in Fds :
          ofile'[q][e] = IF <<q, e>> = <<p, d>> THEN h ELSE ofile[q][e]
    BY <2>1, <2>2 DEF TypeOK
  <2>5. TypeOK'
    BY <1>1, <1>2, <2>1, <2>2 DEF TypeOK, Labels, Objects
  <2>6. StepOf(p)
    BY <1>1, <2>2 DEF StepOf, TypeOK
  <2>7. Hands(p)'
    BY <1>2, <1>4, <2>2, <2>3 DEF Hands
  <2>8. \A g \in Files : object'[g] = IF g = h THEN ip[p] ELSE object[g]
    BY <2>2 DEF TypeOK
  <2>9. ip[p] # None /\ ip[p] \in Objects
    BY <1>2, FilesAssumption DEF Objects
  <2>10. AllTyped'
    <3> SUFFICES ASSUME NEW g \in Files PROVE Typed(g)'
      BY DEF AllTyped
    <3>1. Typed(g)
      BY DEF AllTyped
    <3>2. \A q \in Procs : q # p => (Opens(q, g)' <=> Opens(q, g))
      BY <2>6 DEF Opens, StepOf
    <3>3. ~Opens(p, g)' /\ (Opens(p, g) <=> g = h)
      BY <1>1, <2>3 DEF Opens
    <3>4. CASE g = h
      <4>1. \A q \in Procs \ {p} : ~Opens(q, h)
        BY <1>2, <1>3, OpensOnly
      <4> QED BY <1>1, <1>3, <2>8, <2>9, <3>2, <3>3, <3>4, <4>1 DEF Typed
    <3>5. CASE g # h
      BY <1>1, <2>8, <3>1, <3>2, <3>3, <3>5 DEF Typed
    <3> QED BY <3>4, <3>5
  <2>11. RefsCountUses'
    <3> SUFFICES ASSUME NEW g \in Files
                 PROVE ref'[g] + Cardinality(Uncounted(g)') =
                   Cardinality(Entries(Procs, g)') + Cardinality(Calls(g)') + Cardinality(Closings(g)')
      BY DEF RefsCountUses
    <3>1. Cardinality(Entries(Procs, g)') = Cardinality(Entries(Procs, g)) + Bit(h = g)
      <4>1. Cardinality(Entries(Procs, g)') =
              Cardinality(Entries(Procs, g)) + Bit(ofile'[p][d] = g) - Bit(ofile[p][d] = g)
        BY <2>1, <2>4, OneEntry
      <4>2. ofile'[p][d] = h /\ ofile[p][d] # g
        BY <2>1, <2>4, FilesAssumption
      <4> QED BY <4>1, <4>2, CountsFinite DEF Bit
    <3>2. Pending(p, g) = 0 /\ Pending(p, g)' = 0
      BY <1>2, <2>2 DEF Pending, Among, Bit
    <3>3. ~Dups(p, g) /\ ~Dups(p, g)' /\ ~Opening(p, g)' /\ (Opening(p, g) <=> h = g)
      BY <1>1, <1>5, <2>3 DEF Dups, Opening
    <3>4. ref'[g] = ref[g] /\ ref[g] \in Nat
      BY <1>1 DEF TypeOK
    <3>5. ref'[g] + Bit(Dups(p, g)') + Bit(Opening(p, g)) + Pending(p, g) =
           ref[g] + Bit(h = g) + Bit(Dups(p, g)) + Bit(Opening(p, g)') + Pending(p, g)'
      BY <3>2, <3>3, <3>4 DEF Bit
    <3>6. Bit(h = g) \in Int
      BY DEF Bit
    <3> QED BY <2>6, <3>1, <3>4, <3>5, <3>6, Balanced
  <2>12. ObjectsHeld'
    <3> SUFFICES ASSUME NEW x \in Objects
                 PROVE  held'[x] = Cardinality(OpenOn(x)') + Cardinality(Having(x)')
      BY DEF ObjectsHeld, OpenOn, Having
    <3>1. Cardinality(OpenOn(x)') = Cardinality(OpenOn(x)) + Bit(ip[p] = x)
      <4>1. Cardinality(OpenOn(x)') =
              Cardinality(OpenOn(x)) + Bit(object'[h] = x) - Bit(object[h] = x)
        BY <1>2, <2>8, OneFile
      <4>2. object'[h] = ip[p] /\ object[h] # x
        BY <1>2, <1>3, <2>8, FilesAssumption
      <4>3. Cardinality(OpenOn(x)) \in Nat
        BY CountsFinite DEF OpenOn
      <4> QED BY <4>1, <4>2, <4>3 DEF Bit
    <3>2. held'[x] = held[x] /\ held[x] \in Nat
      BY <1>1 DEF TypeOK
    <3>3. Bit(ip[p] = x) \in Int /\ Bit(ip'[p] = x) = 0
      BY <2>3, FilesAssumption DEF Bit
    <3>4. held'[x] + Bit(ip[p] = x) = held[x] + Bit(ip[p] = x) + Bit(ip'[p] = x)
      BY <3>2, <3>3
    <3> QED BY <2>6, <3>1, <3>2, <3>3, <3>4, HeldBalanced
  <2> QED BY <2>5, <2>6, <2>7, <2>10, <2>11, <2>12, HandsOfOne
<1> QED BY <1>6, <1>7

LEMMA DupFdKeeps ==
  ASSUME FilesInv, NEW p \in Procs, DupFd(p)
  PROVE  FilesInv'
<1> USE DEF FilesInv
<1> DEFINE d == Lowest(FreeFds(p))
<1>1. /\ pc[p] = "user" /\ pc' = [pc EXCEPT ![p] = "filedup"]
      /\ ref' = ref /\ object' = object /\ held' = held /\ ilock' = ilock
      /\ ip' = ip /\ todo' = todo
  BY DEF DupFd, Goto
<1>2. PICK e \in Fds \ FreeFds(p) :
        f' = [f EXCEPT ![p] = ofile[p][e]] /\ ofile' = [ofile EXCEPT ![p][d] = ofile[p][e]]
  BY DEF DupFd
<1> DEFINE h == ofile[p][e]
<1>3. d \in Fds /\ ofile[p][d] = None
  <2>1. FreeFds(p) \subseteq Nat /\ FreeFds(p) # {}
    BY DEF FreeFds, Fds, DupFd
  <2>2. d \in FreeFds(p)
    BY <2>1, LowestFound
  <2> QED BY <2>2 DEF FreeFds
<1>4. h \in Files /\ d # e
  BY <1>2, <1>3 DEF TypeOK, FreeFds
<1> HIDE DEF d
<1>5. ip[p] = None /\ f[p] = None /\ todo[p] = <<>>
  BY <1>1 DEF AllHands, Hands
<1>6. pc'[p] = "filedup" /\ f'[p] = h
  BY <1>1, <1>2 DEF TypeOK
<1>7. \A q \in Procs, x \in Fds :
        ofile'[q][x] = IF <<q, x>> = <<p, d>> THEN h ELSE ofile[q][x]
  BY <1>2, <1>3 DEF TypeOK
<1>8. TypeOK'
  BY <1>1, <1>2, <1>3, <1>4 DEF TypeOK, Labels
<1>9. StepOf(p)
  BY <1>1, <1>2 DEF StepOf, TypeOK
<1>10. Hands(p)'
  <2>1. ofile'[p][d] = h /\ ofile'[p][e] = h
    BY <1>2, <1>3, <1>4, <1>7
  <2> QED BY <1>1, <1>2, <1>3, <1>4, <1>5, <1>6, <2>1 DEF Hands
<1>11. AllTyped'
  BY <1>1, <1>6, <1>9, TypedKept DEF Opens
<1>12. RefsCountUses'
  <2> SUFFICES ASSUME NEW g \in Files
               PROVE ref'[g] + Cardinality(Uncounted(g)') =
                 Cardinality(Entries(Procs, g)') + Cardinality(Calls(g)') + Cardinality(Closings(g)')
    BY DEF RefsCountUses
  <2>1. Cardinality(Entries(Procs, g)') = Cardinality(Entries(Procs, g)) + Bit(h = g)
    <3>1. Cardinality(Entries(Procs, g)') =
            Cardinality(Entries(Procs, g)) + Bit(ofile'[p][d] = g) - Bit(ofile[p][d] = g)
      BY <1>3, <1>7, OneEntry
    <3>2. ofile'[p][d] = h /\ ofile[p][d] # g
      BY <1>3, <1>7, FilesAssumption
    <3> QED BY <3>1, <3>2, CountsFinite DEF Bit
  <2>2. Pending(p, g) = 0 /\ Pending(p, g)' = 0
    BY <1>1, <1>5 DEF Pending, Among, Bit
  <2>3. ~Dups(p, g) /\ ~Opening(p, g) /\ ~Opening(p, g)' /\ (Dups(p, g)' <=> h = g)
    BY <1>1, <1>6 DEF Dups, Opening
  <2>4. ref'[g] = ref[g] /\ ref[g] \in Nat
    BY <1>1 DEF TypeOK
  <2>5. ref'[g] + Bit(Dups(p, g)') + Bit(Opening(p, g)) + Pending(p, g) =
         ref[g] + Bit(h = g) + Bit(Dups(p, g)) + Bit(Opening(p, g)') + Pending(p, g)'
    BY <2>2, <2>3, <2>4 DEF Bit
  <2>6. Bit(h = g) \in Int
    BY DEF Bit
  <2> QED BY <1>9, <2>1, <2>4, <2>5, <2>6, Balanced
<1>13. ObjectsHeld'
  BY <1>1, HeldKept
<1> QED BY <1>8, <1>9, <1>10, <1>11, <1>12, <1>13, HandsOfOne

LEMMA FiledupKeeps ==
  ASSUME FilesInv, NEW p \in Procs, Filedup(p)
  PROVE  FilesInv'
<1> USE DEF FilesInv
<1> DEFINE h == f[p]
<1>1. /\ pc[p] = "filedup"
      /\ object' = object /\ ofile' = ofile /\ held' = held /\ ilock' = ilock
      /\ ip' = ip /\ todo' = todo
  BY DEF Filedup
<1>2. ip[p] = None /\ h \in Files /\ todo[p] = <<>>
  BY <1>1 DEF AllHands, Hands
<1>3. Entries(Procs, h) # {}
  BY <1>1, UncountedNamed
<1>4. ref[h] >= 1
  BY <1>2, <1>3, Referenced
<1>5. ref[h] \in Nat
  BY <1>2 DEF TypeOK
<1>6. /\ ref' = [ref EXCEPT ![h] = @ + 1] /\ f' = [f EXCEPT ![p] = None]
      /\ pc' = [pc EXCEPT ![p] = "user"]
  BY <1>4, <1>5 DEF Filedup, Goto
<1>7. pc'[p] = "user" /\ f'[p] = None
  BY <1>6 DEF TypeOK
<1>8. \A g \in Files : ref'[g] = IF g = h THEN ref[g] + 1 ELSE ref[g]
  BY <1>6 DEF TypeOK
<1>9. TypeOK'
  BY <1>1, <1>2, <1>6 DEF TypeOK, Labels
<1>10. StepOf(p)
  BY <1>1, <1>6 DEF StepOf, TypeOK
<1>11. Hands(p)'
  BY <1>1, <1>2, <1>7 DEF Hands
<1>12. AllTyped'
  <2> SUFFICES ASSUME NEW g \in Files PROVE Typed(g)'
    BY DEF AllTyped
  <2>1. Typed(g)
    BY DEF AllTyped
  <2>2. \A q \in Procs : Opens(q, g)' <=> Opens(q, g)
    <3>1. ~Opens(p, g) /\ ~Opens(p, g)'
      BY <1>1, <1>7 DEF Opens
    <3> QED BY <1>10, <3>1 DEF Opens, StepOf
  <2>3. \A q \in Procs : ~Opens(q, h)
    BY <1>2, <1>3, OpensAlone
  <2>4. ref[g] \in Nat
    BY DEF TypeOK
  <2> QED BY <1>1, <1>4, <1>8, <2>1, <2>2, <2>3, <2>4 DEF Typed
<1>13. RefsCountUses'
  <2> SUFFICES ASSUME NEW g \in Files
               PROVE ref'[g] + Cardinality(Uncounted(g)') =
                 Cardinality(Entries(Procs, g)') + Cardinality(Calls(g)') + Cardinality(Closings(g)')
    BY DEF RefsCountUses
  <2>1. Cardinality(Entries(Procs, g)') = Cardinality(Entries(Procs, g)) + 0
    BY <1>1, SameEntries
  <2>2. Pending(p, g) = 0 /\ Pending(p, g)' = 0
    BY <1>1, <1>2 DEF Pending, Among, Bit
  <2>3. ~Dups(p, g)' /\ ~Opening(p, g) /\ ~Opening(p, g)' /\ (Dups(p, g) <=> h = g)
    BY <1>1, <1>7 DEF Dups, Opening
  <2>4. ref[g] \in Nat /\ ref'[g] = ref[g] + Bit(h = g) /\ ref'[g] \in Nat
    BY <1>8 DEF TypeOK, Bit
  <2>5. ref'[g] + Bit(Dups(p, g)') + Bit(Opening(p, g)) + Pending(p, g) =
         ref[g] + 0 + Bit(Dups(p, g)) + Bit(Opening(p, g)') + Pending(p, g)'
    BY <2>2, <2>3, <2>4 DEF Bit
  <2> QED BY <1>10, <2>1, <2>4, <2>5, Balanced
<1>14. ObjectsHeld'
  BY <1>1, HeldKept
<1> QED BY <1>9, <1>10, <1>11, <1>12, <1>13, <1>14, HandsOfOne

LEMMA CloseFdKeeps ==
  ASSUME FilesInv, NEW p \in Procs, CloseFd(p)
  PROVE  FilesInv'
<1> USE DEF FilesInv
<1>1. /\ pc[p] = "user" /\ pc' = [pc EXCEPT ![p] = "close"]
      /\ ref' = ref /\ object' = object /\ held' = held /\ ilock' = ilock
      /\ ip' = ip /\ f' = f
  BY DEF CloseFd, Goto
<1>2. PICK d \in Fds \ FreeFds(p) :
        todo' = [todo EXCEPT ![p] = <<ofile[p][d]>>] /\ ofile' = [ofile EXCEPT ![p][d] = None]
  BY DEF CloseFd
<1> DEFINE h == ofile[p][d]
<1>3. h \in Files
  BY <1>2 DEF TypeOK, FreeFds
<1>4. ip[p] = None /\ f[p] = None /\ todo[p] = <<>>
  BY <1>1 DEF AllHands, Hands
<1>5. pc'[p] = "close" /\ todo'[p] = <<h>>
  BY <1>1, <1>2 DEF TypeOK
<1>6. \A q \in Procs, x \in Fds :
        ofile'[q][x] = IF <<q, x>> = <<p, d>> THEN None ELSE ofile[q][x]
  BY <1>2 DEF TypeOK
<1>7. TypeOK'
  <2>1. <<h>> \in Seq(Files)
    BY <1>3
  <2> QED BY <1>1, <1>2, <2>1 DEF TypeOK, Labels
<1>8. StepOf(p)
  BY <1>1, <1>2 DEF StepOf, TypeOK
<1>9. Hands(p)'
  BY <1>1, <1>4, <1>5 DEF Hands
<1>10. AllTyped'
  BY <1>1, <1>4, <1>5, <1>8, TypedKept DEF Opens
<1>11. RefsCountUses'
  <2> SUFFICES ASSUME NEW g \in Files
               PROVE ref'[g] + Cardinality(Uncounted(g)') =
                 Cardinality(Entries(Procs, g)') + Cardinality(Calls(g)') + Cardinality(Closings(g)')
    BY DEF RefsCountUses
  <2>1. Cardinality(Entries(Procs, g)') = Cardinality(Entries(Procs, g)) + (0 - Bit(h = g))
    <3>1. Cardinality(Entries(Procs, g)') =
            Cardinality(Entries(Procs, g)) + Bit(ofile'[p][d] = g) - Bit(ofile[p][d] = g)
      BY <1>6, OneEntry
    <3>2. ofile'[p][d] # g
      BY <1>6, FilesAssumption
    <3> QED BY <3>1, <3>2, CountsFinite DEF Bit
  <2>2. Pending(p, g) = 0 /\ Pending(p, g)' = Bit(h = g)
    BY <1>4, <1>5 DEF Pending, Among, Bit
  <2>3. ~Dups(p, g) /\ ~Dups(p, g)' /\ ~Opening(p, g) /\ ~Opening(p, g)'
    BY <1>1, <1>5 DEF Dups, Opening
  <2>4. ref'[g] = ref[g] /\ ref[g] \in Nat
    BY <1>1 DEF TypeOK
  <2>5. Bit(h = g) \in Int /\ 0 - Bit(h = g) \in Int
    BY DEF Bit
  <2>6. ref'[g] + Bit(Dups(p, g)') + Bit(Opening(p, g)) + Pending(p, g) =
         ref[g] + (0 - Bit(h = g)) + Bit(Dups(p, g)) + Bit(Opening(p, g)') + Pending(p, g)'
    BY <2>2, <2>3, <2>4 DEF Bit
  <2> QED BY <1>8, <2>1, <2>4, <2>5, <2>6, Balanced
<1>12. ObjectsHeld'
  BY <1>1, HeldKept
<1> QED BY <1>7, <1>8, <1>9, <1>10, <1>11, <1>12, HandsOfOne

\* The files a call has still to close, after the first of them.
LEMMA PendingTail ==
  ASSUME NEW s \in Seq(Files), s # <<>>, Len(s) <= 2, NEW g
  PROVE  /\ Len(s) \in Nat /\ Len(s) >= 1
         /\ Head(s) \in Files /\ Tail(s) \in Seq(Files) /\ Len(Tail(s)) = Len(s) - 1
         /\ Len(s) = 1 => s = <<Head(s)>> /\ Tail(s) = <<>>
         /\ Among(s, g) = Bit(Head(s) = g) + Among(Tail(s), g)
<1>1. Len(s) \in Nat /\ Len(s) >= 1 /\ Head(s) = s[1]
  BY EmptySeq
<1>2. Tail(s) \in Seq(Files) /\ Len(Tail(s)) = Len(s) - 1 /\ Head(s) \in Files
  BY HeadTailProperties
<1> DEFINE t == Tail(s)
           l == Len(s)
           b1 == Bit(s[1] = g)
           b2 == Bit(s[2] = g)
           zero == Bit(FALSE)
           before == Among(s, g)
           after == Among(t, g)
<1>3. /\ t \in Seq(Files) /\ Len(t) = l - 1
      /\ \A k \in 1 .. Len(t) : t[k] = s[k + 1]
  BY HeadTailProperties
<1>4. l = 1 \/ l = 2
  <2>1. l \in Nat /\ l >= 1 /\ l <= 2
    BY <1>1
  <2> HIDE DEF l
  <2> QED BY <2>1
<1>5. Len(t) \in Nat /\ (Len(t) = 0 => t = <<>>)
  <2> HIDE DEF t
  <2> QED BY <1>3, EmptySeq
<1> HIDE DEF t
<1>6. CASE l = 1
  <2>1. Len(t) = 0
    <3> HIDE DEF l
    <3> QED BY <1>3, <1>6
  <2>2. s = <<s[1]>>
    BY <1>6
  <2>3. before = b1 + zero /\ after = zero + zero
    BY <1>6, <2>1 DEF Among, Bit
  <2>4. zero = 0 /\ b1 \in Nat
    BY DEF Bit
  <2>5. before = b1 + after
    <3> HIDE DEF before, after, b1, zero
    <3> QED BY <2>3, <2>4
  <2> QED BY <1>1, <1>2, <1>5, <1>6, <2>1, <2>2, <2>5 DEF t
<1>7. CASE l = 2
  <2>1. Len(t) = 1
    <3> HIDE DEF l
    <3> QED BY <1>3, <1>7
  <2>2. t[1] = s[1 + 1]
    BY <1>3, <2>1
  <2>3. before = b1 + b2 /\ after = b2 + zero
    BY <1>7, <2>1, <2>2 DEF Among, Bit
  <2>4. zero = 0 /\ b1 \in Nat /\ b2 \in Nat
    BY DEF Bit
  <2>5. before = b1 + after
    <3> HIDE DEF before, after, b1, b2, zero
    <3> QED BY <2>3, <2>4
  <2> QED BY <1>1, <1>2, <1>7, <2>5 DEF t
<1> QED BY <1>4, <1>6, <1>7

LEMMA FilecloseKeeps ==
  ASSUME FilesInv, NEW p \in Procs, Fileclose(p)
  PROVE  FilesInv'
<1> USE DEF FilesInv
<1> DEFINE h == Head(todo[p])
           empties == ref[h] = 1 /\ object[h] # None
<1>1. /\ pc[p] = "close" /\ todo[p] # <<>>
      /\ ofile' = ofile /\ held' = held /\ ilock' = ilock /\ f' = f
  BY DEF Fileclose
<1>2. /\ f[p] = None /\ Len(todo[p]) <= 2
      /\ ip[p] # None => ip[p] \in Inodes /\ Len(todo[p]) <= 1
  BY <1>1 DEF AllHands, Hands
<1>3. todo[p] \in Seq(Files)
  BY DEF TypeOK
<1>4. /\ h \in Files /\ Tail(todo[p]) \in Seq(Files) /\ Len(Tail(todo[p])) = Len(todo[p]) - 1
      /\ Len(todo[p]) \in Nat /\ Len(todo[p]) >= 1
      /\ Len(todo[p]) = 1 => todo[p] = <<h>> /\ Tail(todo[p]) = <<>>
  BY <1>1, <1>2, <1>3, PendingTail
<1>5. <<p, 1>> \in Closings(h)
  BY <1>1, <1>3 DEF Closings
<1>6. ref[h] >= 1 /\ ref[h] \in Nat
  BY <1>4, <1>5, Referenced DEF TypeOK
<1>7. /\ ref' = [ref EXCEPT ![h] = @ - 1]
      /\ todo' = [todo EXCEPT ![p] = Tail(@)]
  BY <1>6 DEF Fileclose
<1>8. \A g \in Files : ref'[g] = IF g = h THEN ref[g] - 1 ELSE ref[g]
  BY <1>7 DEF TypeOK
<1>9. /\ empties => /\ ip' = [ip EXCEPT ![p] = object[h]]
                    /\ object' = [object EXCEPT ![h] = None]
                    /\ pc' = [pc EXCEPT ![p] = "put"]
      /\ ~empties => object' = object /\ ip' = ip /\ pc' = pc
  <2>1. ref'[h] = ref[h] - 1
    BY <1>4, <1>8
  <2>2. (ref'[h] > 0 \/ object[h] = None) <=> ~empties
    BY <1>6, <2>1
  <2> QED BY <1>6, <2>2 DEF Fileclose, Goto
<1>10. todo'[p] = Tail(todo[p])
  BY <1>7 DEF TypeOK
<1>11. empties => pc'[p] = "put" /\ ip'[p] = object[h] /\ object[h] \in Objects
  BY <1>4, <1>9 DEF TypeOK
<1>12. ip[p] # None => Opens(p, h) /\ object[h] = None /\ ref[h] = 1 /\ ~empties /\ todo'[p] = <<>>
  <2> HAVE ip[p] # None
  <2> DEFINE l == Len(todo[p])
  <2>1. l <= 1 /\ l >= 1 /\ l \in Nat
    BY <1>2, <1>4
  <2> HIDE DEF l
  <2>4. l = 1
    BY <2>1
  <2>2. todo[p] = <<h>> /\ Tail(todo[p]) = <<>>
    BY <1>4, <2>4 DEF l
  <2>3. Opens(p, h)
    BY <1>1, <2>2 DEF Opens
  <2> QED BY <1>4, <1>10, <2>2, <2>3 DEF AllTyped, Typed
<1> HIDE DEF empties, h
<1>13. TypeOK'
  <2>1. ref' \in [Files -> Nat]
    BY <1>4, <1>6, <1>7 DEF TypeOK
  <2>2. todo' \in [Procs -> Seq(Files)]
    BY <1>4, <1>7 DEF TypeOK
  <2>3. object' \in [Files -> Objects \cup {None}] /\ ip' \in [Procs -> Objects \cup {None}]
    BY <1>9, <1>11 DEF TypeOK
  <2>4. pc' \in [Procs -> Labels]
    BY <1>9 DEF TypeOK, Labels
  <2> QED BY <1>1, <2>1, <2>2, <2>3, <2>4 DEF TypeOK
<1>14. StepOf(p)
  BY <1>1, <1>7, <1>9 DEF StepOf, TypeOK
<1>15. Hands(p)'
  <2>1. Len(todo[p]) \in Nat /\ Len(todo'[p]) = Len(todo[p]) - 1
    BY <1>3, <1>4, <1>10
  <2>2. CASE empties
    <3>1. pc'[p] = "put" /\ f'[p] = None /\ ip'[p] \in Objects
      BY <1>1, <1>2, <1>11, <2>2
    <3> QED BY <1>2, <2>1, <3>1 DEF Hands
  <2>3. CASE ~empties
    <3>1. pc'[p] = "close" /\ f'[p] = None /\ ip'[p] = ip[p]
      BY <1>1, <1>2, <1>9, <2>3
    <3> QED BY <1>2, <2>1, <3>1 DEF Hands
  <2> QED BY <2>2, <2>3
<1>16. AllTyped'
  <2> SUFFICES ASSUME NEW g \in Files PROVE Typed(g)'
    BY DEF AllTyped
  <2>1. Typed(g)
    BY DEF AllTyped
  <2>2. \A q \in Procs : q # p => (Opens(q, g)' <=> Opens(q, g))
    BY <1>14 DEF Opens, StepOf
  <2>3. ~Opens(p, g)'
    <3>1. CASE empties
      BY <1>11, <3>1 DEF Opens
    <3>2. CASE ~empties
      <4>1. ip'[p] = ip[p] /\ pc'[p] = "close"
        BY <1>1, <1>9, <3>2
      <4>2. ip[p] # None => todo'[p] # <<g>>
        <5>1. <<g>> # <<>>
          OBVIOUS
        <5> QED BY <1>12, <5>1
      <4> QED BY <4>1, <4>2 DEF Opens
    <3> QED BY <3>1, <3>2
  <2>4. Opens(p, g) => g = h
    <3> SUFFICES ASSUME todo[p] = <<g>> PROVE g = h
      BY <1>1 DEF Opens
    <3> QED BY DEF h
  <2>5. \A q \in Procs : q # p => ~Opens(q, h)
    <3> SUFFICES ASSUME NEW q \in Procs, q # p, Opens(q, h) PROVE FALSE
      OBVIOUS
    <3>1. <<p, 1>> \notin Closings(h)
      BY <1>4, OpensAlone
    <3> QED BY <1>5, <3>1
  <2>6. CASE g # h
    <3>1. object'[g] = object[g]
      BY <1>9, <2>6 DEF TypeOK
    <3> QED BY <1>8, <2>1, <2>2, <2>3, <2>4, <2>6, <3>1 DEF Typed
  <2>7. CASE g = h
    <3>1. \A q \in Procs : ~Opens(q, g)'
      BY <2>2, <2>3, <2>5, <2>7
    <3>2. ref'[g] = 0 => object'[g] = None
      BY <1>4, <1>6, <1>8, <1>9, <2>7 DEF TypeOK, empties
    <3>3. ref'[g] > 0 => object'[g] # None
      <4> HAVE ref'[g] > 0
      <4>1. ~empties /\ ref[h] # 1
        BY <1>4, <1>6, <1>8, <2>7 DEF empties
      <4>2. object'[g] = object[g]
        BY <1>9, <4>1
      <4>3. ~Opens(p, h)
        BY <1>4, <4>1 DEF AllTyped, Typed
      <4>4. object[g] # None
        BY <1>4, <1>6, <2>5, <2>7, <4>3 DEF AllTyped, Typed
      <4> QED BY <4>2, <4>4
    <3> QED BY <3>1, <3>2, <3>3 DEF Typed
  <2> QED BY <2>6, <2>7
<1>17. RefsCountUses'
  <2> SUFFICES ASSUME NEW g \in Files
               PROVE ref'[g] + Cardinality(Uncounted(g)') =
                 Cardinality(Entries(Procs, g)') + Cardinality(Calls(g)') + Cardinality(Closings(g)')
    BY DEF RefsCountUses
  <2>1. Cardinality(Entries(Procs, g)') = Cardinality(Entries(Procs, g)) + 0
    BY <1>1, SameEntries
  <2>2. Pending(p, g) = Bit(h = g) + Pending(p, g)'
    <3>1. Among(todo[p], g) = Bit(h = g) + Among(Tail(todo[p]), g)
      BY <1>1, <1>2, <1>3, PendingTail DEF h
    <3> QED BY <1>10, <3>1 DEF Pending
  <2>3. Pending(p, g)' \in Nat /\ Bit(h = g) \in Nat
    BY DEF Pending, Among, Bit
  <2>4. ~Dups(p, g) /\ ~Dups(p, g)' /\ ~Opening(p, g) /\ ~Opening(p, g)'
    BY <1>1, <1>9, <1>11 DEF Dups, Opening
  <2>5. ref[g] \in Nat /\ ref'[g] \in Nat /\ ref'[g] = ref[g] - Bit(h = g)
    BY <1>6, <1>8, <1>13 DEF TypeOK, Bit
  <2>6. ref'[g] + Bit(Dups(p, g)') + Bit(Opening(p, g)) + Pending(p, g) =
         ref[g] + 0 + Bit(Dups(p, g)) + Bit(Opening(p, g)') + Pending(p, g)'
    <3>1. Bit(Dups(p, g)') = 0 /\ Bit(Opening(p, g)) = 0 /\ Bit(Dups(p, g)) = 0 /\ Bit(Opening(p, g)') = 0
      BY <2>4 DEF Bit
    <3> QED BY <2>2, <2>3, <2>5, <3>1
  <2> QED BY <1>14, <2>1, <2>5, <2>6, Balanced
<1>18. ObjectsHeld'
  <2>1. CASE ~empties
    BY <1>1, <1>9, <2>1, HeldKept
  <2>2. CASE empties
    <3>1. ip[p] = None
      BY <1>12, <2>2
    <3>2. \A g \in Files : object'[g] = IF g = h THEN None ELSE object[g]
      BY <1>9, <2>2 DEF TypeOK
    <3> SUFFICES ASSUME NEW x \in Objects
                 PROVE  held'[x] = Cardinality(OpenOn(x)') + Cardinality(Having(x)')
      BY DEF ObjectsHeld, OpenOn, Having
    <3>3. x # None
      BY FilesAssumption
    <3>4. Cardinality(OpenOn(x)') = Cardinality(OpenOn(x)) + (0 - Bit(object[h] = x))
      <4>1. Cardinality(OpenOn(x)') =
              Cardinality(OpenOn(x)) + Bit(object'[h] = x) - Bit(object[h] = x)
        BY <1>4, <3>2, OneFile
      <4>2. object'[h] # x
        BY <1>4, <3>2, <3>3
      <4>3. Cardinality(OpenOn(x)) \in Nat
        BY CountsFinite DEF OpenOn
      <4> QED BY <4>1, <4>2, <4>3 DEF Bit
    <3>5. held'[x] = held[x] /\ held[x] \in Nat
      BY <1>1 DEF TypeOK
    <3>6. /\ Bit(object[h] = x) \in Int /\ 0 - Bit(object[h] = x) \in Int
          /\ Bit(ip[p] = x) = 0 /\ Bit(ip'[p] = x) = Bit(object[h] = x)
      BY <1>11, <2>2, <3>1, <3>3 DEF Bit
    <3>7. held'[x] + Bit(ip[p] = x) = held[x] + (0 - Bit(object[h] = x)) + Bit(ip'[p] = x)
      BY <3>5, <3>6
    <3> QED BY <1>14, <3>4, <3>5, <3>6, <3>7, HeldBalanced
  <2> QED BY <2>1, <2>2
<1> QED BY <1>13, <1>14, <1>15, <1>16, <1>17, <1>18, HandsOfOne

LEMMA ArgfdKeeps ==
  ASSUME FilesInv, NEW p \in Procs, Argfd(p)
  PROVE  FilesInv'
<1> USE DEF FilesInv
<1>1. /\ pc[p] = "user" /\ pc' = [pc EXCEPT ![p] = "use"]
      /\ ref' = ref /\ object' = object /\ ofile' = ofile /\ held' = held /\ ilock' = ilock
      /\ ip' = ip /\ todo' = todo
  BY DEF Argfd, Goto
<1>2. PICK d \in Fds \ FreeFds(p) : f' = [f EXCEPT ![p] = ofile[p][d]]
  BY DEF Argfd
<1>3. ofile[p][d] \in Files
  BY <1>2 DEF TypeOK, FreeFds
<1>4. ip[p] = None /\ f[p] = None /\ todo[p] = <<>>
  BY <1>1 DEF AllHands, Hands
<1>5. pc'[p] = "use" /\ f'[p] = ofile[p][d]
  BY <1>1, <1>2 DEF TypeOK
<1>6. TypeOK'
  BY <1>1, <1>2, <1>3 DEF TypeOK, Labels
<1>7. StepOf(p)
  BY <1>1, <1>2 DEF StepOf, TypeOK
<1>8. Hands(p)'
  BY <1>1, <1>3, <1>4, <1>5 DEF Hands
<1>9. AllTyped'
  BY <1>1, <1>5, <1>7, TypedKept DEF Opens
<1>10. RefsCountUses'
  BY <1>1, <1>5, <1>7, RefsKept DEF Opening, Dups
<1>11. ObjectsHeld'
  BY <1>1, HeldKept
<1> QED BY <1>6, <1>7, <1>8, <1>9, <1>10, <1>11, HandsOfOne

\* Behind a descriptor is a file that is counted and has a type.
LEMMA EntryOpen ==
  ASSUME FilesInv, NEW g \in Files, Entries(Procs, g) # {}
  PROVE  ref[g] >= 1 /\ object[g] # None
<1> USE DEF FilesInv
<1>1. ref[g] >= 1
  BY Referenced
<1>2. \A q \in Procs : ~Opens(q, g)
  BY OpensAlone
<1>3. ref[g] \in Nat
  BY DEF TypeOK
<1> QED BY <1>1, <1>2, <1>3 DEF AllTyped, Typed

LEMMA UseFileKeeps ==
  ASSUME FilesInv, NEW p \in Procs, UseFile(p)
  PROVE  FilesInv'
<1> USE DEF FilesInv
<1>1. /\ pc[p] = "use"
      /\ ref' = ref /\ object' = object /\ ofile' = ofile /\ held' = held /\ ilock' = ilock
      /\ ip' = ip /\ todo' = todo
  BY DEF UseFile
<1>2. object[f[p]] # None
  BY <1>1, UncountedNamed, EntryOpen
<1>3. CASE pc' = pc /\ f' = f
  <2>1. TypeOK'
    BY <1>1, <1>3 DEF TypeOK
  <2>2. StepOf(p)
    BY <1>1, <1>3 DEF StepOf
  <2>3. Hands(p)'
    BY <1>1, <1>3 DEF AllHands, Hands
  <2>4. AllTyped'
    BY <1>1, <1>3, <2>2, TypedKept DEF Opens
  <2>5. RefsCountUses'
    BY <1>1, <1>3, <2>2, RefsKept DEF Opening, Dups
  <2>6. ObjectsHeld'
    BY <1>1, HeldKept
  <2> QED BY <2>1, <2>2, <2>3, <2>4, <2>5, <2>6, HandsOfOne
<1>4. CASE pc' = [pc EXCEPT ![p] = "user"] /\ f' = [f EXCEPT ![p] = None]
  <2>1. pc'[p] = "user" /\ f'[p] = None
    BY <1>4 DEF TypeOK
  <2>2. TypeOK'
    BY <1>1, <1>4 DEF TypeOK, Labels
  <2>3. StepOf(p)
    BY <1>1, <1>4 DEF StepOf, TypeOK
  <2>4. Hands(p)'
    BY <1>1, <2>1 DEF AllHands, Hands
  <2>5. AllTyped'
    BY <1>1, <2>1, <2>3, TypedKept DEF Opens
  <2>6. RefsCountUses'
    BY <1>1, <2>1, <2>3, RefsKept DEF Opening, Dups
  <2>7. ObjectsHeld'
    BY <1>1, HeldKept
  <2> QED BY <2>2, <2>3, <2>4, <2>5, <2>6, <2>7, HandsOfOne
<1> QED BY <1>2, <1>3, <1>4 DEF UseFile, Goto

LEMMA ExitKeeps ==
  ASSUME FilesInv, NEW p \in Procs, Exit(p)
  PROVE  FilesInv'
<1> USE DEF FilesInv
<1>1. /\ pc[p] = "user" /\ pc' = [pc EXCEPT ![p] = "unused"] /\ FreeFds(p) = Fds
      /\ ref' = ref /\ object' = object /\ ofile' = ofile /\ held' = held /\ ilock' = ilock
      /\ ip' = ip /\ f' = f /\ todo' = todo
  BY DEF Exit, Goto
<1>2. pc'[p] = "unused"
  BY <1>1 DEF TypeOK
<1>3. TypeOK'
  BY <1>1 DEF TypeOK, Labels
<1>4. StepOf(p)
  BY <1>1 DEF StepOf, TypeOK
<1>5. Hands(p)'
  BY <1>1, <1>2 DEF AllHands, Hands, FreeFds
<1>6. AllTyped'
  BY <1>1, <1>2, <1>4, TypedKept DEF Opens
<1>7. RefsCountUses'
  BY <1>1, <1>2, <1>4, RefsKept DEF Opening, Dups
<1>8. ObjectsHeld'
  BY <1>1, HeldKept
<1> QED BY <1>3, <1>4, <1>5, <1>6, <1>7, <1>8, HandsOfOne

LEMMA UnchangedKeeps ==
  ASSUME FilesInv, UNCHANGED vars
  PROVE  FilesInv'
<1> USE DEF FilesInv
<1>1. /\ ref' = ref /\ object' = object /\ ofile' = ofile /\ held' = held /\ ilock' = ilock
      /\ pc' = pc /\ ip' = ip /\ f' = f /\ todo' = todo
  BY DEF vars
<1>2. TypeOK'
  BY <1>1 DEF TypeOK
<1>3. AllHands'
  BY <1>1 DEF AllHands, Hands
<1>4. AllTyped'
  BY <1>1 DEF AllTyped, Typed, Opens
<1>5. RefsCountUses'
  BY <1>1 DEF RefsCountUses, Uncounted, Entries, Calls, Closings
<1>6. ObjectsHeld'
  BY <1>1, HeldKept
<1> QED BY <1>2, <1>3, <1>4, <1>5, <1>6

LEMMA InitFilesInv == Init => FilesInv
<1> SUFFICES ASSUME Init PROVE FilesInv
  OBVIOUS
<1>1. TypeOK
  <2>1. <<>> \in Seq(Files)
    OBVIOUS
  <2> QED BY <2>1 DEF Init, TypeOK, Labels
<1>2. /\ \A p \in Procs : /\ pc[p] \in {"user", "unused"} /\ ip[p] = None /\ f[p] = None
                          /\ todo[p] = <<>> /\ \A d \in Fds : ofile[p][d] = None
      /\ \A g \in Files : ref[g] = 0 /\ object[g] = None
      /\ \A o \in Objects : held[o] = 0
  BY DEF Init
<1>3. AllHands
  BY <1>2 DEF AllHands, Hands
<1>4. AllTyped
  BY <1>2 DEF AllTyped, Typed, Opens
<1>5. RefsCountUses
  <2> SUFFICES ASSUME NEW g \in Files
               PROVE ref[g] + Cardinality(Uncounted(g)) =
                 Cardinality(Entries(Procs, g)) + Cardinality(Calls(g)) + Cardinality(Closings(g))
    BY DEF RefsCountUses
  <2>1. Uncounted(g) = {} /\ Calls(g) = {}
    BY <1>2 DEF Uncounted, Calls
  <2>2. Entries(Procs, g) = {}
    <3> SUFFICES ASSUME NEW x \in Procs \X Fds, ofile[x[1]][x[2]] = g PROVE FALSE
      BY DEF Entries
    <3>1. x[1] \in Procs /\ x[2] \in Fds
      OBVIOUS
    <3> QED BY <1>2, <3>1, FilesAssumption
  <2>3. Closings(g) = {}
    <3> SUFFICES ASSUME NEW x \in Procs \X {1, 2}, x[2] <= Len(todo[x[1]]) PROVE FALSE
      BY DEF Closings
    <3>1. x[1] \in Procs /\ x[2] \in {1, 2}
      OBVIOUS
    <3>2. todo[x[1]] = <<>>
      BY <1>2, <3>1
    <3>3. Len(todo[x[1]]) = 0
      BY <3>2
    <3> QED BY <3>1, <3>3
  <2> QED BY <1>2, <2>1, <2>2, <2>3, FS_EmptySet
<1>6. ObjectsHeld
  <2> SUFFICES ASSUME NEW o \in Objects
               PROVE held[o] = Cardinality(OpenOn(o)) + Cardinality(Having(o))
    BY DEF ObjectsHeld, OpenOn, Having
  <2>1. OpenOn(o) = {} /\ Having(o) = {}
    BY <1>2, FilesAssumption DEF OpenOn, Having
  <2> QED BY <1>2, <2>1, FS_EmptySet
<1> QED BY <1>1, <1>3, <1>4, <1>5, <1>6 DEF FilesInv

\* A set that changes in two elements.
LEMMA TwoChanged ==
  ASSUME NEW S, IsFiniteSet(S), NEW T, NEW x, NEW y, x # y,
         \A z \in S \cup T : z # x /\ z # y => (z \in S <=> z \in T)
  PROVE  /\ Cardinality(S) \in Nat /\ Cardinality(T) \in Nat
         /\ Cardinality(T) + Bit(x \in S) + Bit(y \in S) =
              Cardinality(S) + Bit(x \in T) + Bit(y \in T)
<1> DEFINE M == {z \in S : z # x} \cup {z \in T : z = x}
<1>1. (x \in M <=> x \in T) /\ (y \in M <=> y \in S)
  OBVIOUS
<1>2. \A z \in S \cup M : z # x => (z \in S <=> z \in M)
  OBVIOUS
<1>3. \A z \in M \cup T : z # y => (z \in M <=> z \in T)
  OBVIOUS
<1> HIDE DEF M
<1>4. /\ IsFiniteSet(M) /\ Cardinality(S) \in Nat /\ Cardinality(M) \in Nat
      /\ Cardinality(M) + Bit(x \in S) = Cardinality(S) + Bit(x \in M)
  BY <1>2, OneChanged
<1>5. /\ Cardinality(T) \in Nat
      /\ Cardinality(T) + Bit(y \in M) = Cardinality(M) + Bit(y \in T)
  BY <1>3, <1>4, OneChanged
<1> QED BY <1>1, <1>4, <1>5 DEF Bit

LEMMA TwoLowest ==
  ASSUME NEW S, S \subseteq Nat, IsFiniteSet(S), Cardinality(S) >= 2
  PROVE  Lowest(S) \in S /\ Lowest(S \ {Lowest(S)}) \in S \ {Lowest(S)}
<1>1. S # {}
  BY FS_EmptySet
<1>2. Lowest(S) \in S
  BY <1>1, LowestFound
<1>3. S \ {Lowest(S)} # {}
  <2>1. /\ IsFiniteSet(S \ {Lowest(S)}) /\ Cardinality(S) \in Nat
        /\ Cardinality(S \ {Lowest(S)}) = Cardinality(S) - 1
    BY <1>2, FS_RemoveElement, FS_CardinalityType
  <2> QED BY <2>1, FS_EmptySet
<1> QED BY <1>2, <1>3, LowestFound

\* A step changes no other descriptors than d and e of p.
OnlyEntries(p, d, e) ==
  \A q \in Procs, x \in Fds :
    <<q, x>> # <<p, d>> /\ <<q, x>> # <<p, e>> => ofile'[q][x] = ofile[q][x]

\* Two descriptors of p that are free are set.
LEMMA TwoEntries ==
  ASSUME NEW p \in Procs, NEW d \in Fds, NEW e \in Fds, d # e, NEW g,
         OnlyEntries(p, d, e), ofile[p][d] # g, ofile[p][e] # g
  PROVE  Cardinality(Entries(Procs, g)') =
           Cardinality(Entries(Procs, g)) + (Bit(ofile'[p][d] = g) + Bit(ofile'[p][e] = g))
<1> DEFINE S == Entries(Procs, g)
           T == Entries(Procs, g)'
           u == <<p, d>>
           w == <<p, e>>
<1>1. \A x \in S \cup T : x # u /\ x # w => (x \in S <=> x \in T)
  <2> SUFFICES ASSUME NEW x \in Procs \X Fds, x # <<p, d>>, x # <<p, e>>
               PROVE  x \in S <=> x \in T
    BY DEF Entries
  <2>1. x = <<x[1], x[2]>> /\ x[1] \in Procs /\ x[2] \in Fds
    OBVIOUS
  <2> QED BY <2>1 DEF Entries, OnlyEntries
<1>2. IsFiniteSet(S)
  BY CountsFinite
<1>3. /\ u \notin S /\ (u \in T <=> ofile'[p][d] = g)
      /\ w \notin S /\ (w \in T <=> ofile'[p][e] = g)
  BY DEF Entries
<1>4. u # w
  OBVIOUS
<1> HIDE DEF S, T, u, w
<1>5. /\ Cardinality(S) \in Nat /\ Cardinality(T) \in Nat
      /\ Cardinality(T) + Bit(u \in S) + Bit(w \in S) =
           Cardinality(S) + Bit(u \in T) + Bit(w \in T)
  BY <1>1, <1>2, <1>4, TwoChanged
<1>6. Cardinality(T) = Cardinality(S) + (Bit(ofile'[p][d] = g) + Bit(ofile'[p][e] = g))
  BY <1>3, <1>5 DEF Bit
<1> QED BY <1>6 DEF S, T

\* Two files that are empty are opened.
LEMMA TwoFiles ==
  ASSUME NEW h \in Files, NEW k \in Files, h # k, NEW o,
         \A g \in Files : g # h /\ g # k => object'[g] = object[g],
         object[h] # o, object[k] # o
  PROVE  Cardinality(OpenOn(o)') =
           Cardinality(OpenOn(o)) + (Bit(object'[h] = o) + Bit(object'[k] = o))
<1> DEFINE S == OpenOn(o)
           T == OpenOn(o)'
<1>1. \A x \in S \cup T : x # h /\ x # k => (x \in S <=> x \in T)
  BY DEF OpenOn
<1>2. IsFiniteSet(S)
  BY CountsFinite DEF OpenOn
<1>3. /\ h \notin S /\ (h \in T <=> object'[h] = o)
      /\ k \notin S /\ (k \in T <=> object'[k] = o)
  BY DEF OpenOn
<1> HIDE DEF S, T
<1>4. /\ Cardinality(S) \in Nat /\ Cardinality(T) \in Nat
      /\ Cardinality(T) + Bit(h \in S) + Bit(k \in S) =
           Cardinality(S) + Bit(h \in T) + Bit(k \in T)
  BY <1>1, <1>2, TwoChanged
<1>5. Cardinality(T) = Cardinality(S) + (Bit(object'[h] = o) + Bit(object'[k] = o))
  BY <1>3, <1>4 DEF Bit
<1> QED BY <1>5 DEF S, T

LEMMA ForkKeeps ==
  ASSUME FilesInv, NEW p \in Procs, NEW q \in Procs, Fork(p, q)
  PROVE  FilesInv'
<1> USE DEF FilesInv
<1>1. /\ pc[p] = "user" /\ pc[q] = "unused" /\ pc' = [pc EXCEPT ![q] = "user"]
      /\ ref' = [g \in Files |-> ref[g] + Cardinality(Entries({p}, g))]
      /\ ofile' = [ofile EXCEPT ![q] = ofile[p]]
      /\ object' = object /\ held' = held /\ ilock' = ilock /\ ip' = ip /\ f' = f /\ todo' = todo
  BY DEF Fork, Goto
<1>2. /\ p # q /\ ip[q] = None /\ f[q] = None /\ todo[q] = <<>>
      /\ \A d \in Fds : ofile[q][d] = None
  BY <1>1 DEF AllHands, Hands
<1>3. pc'[q] = "user"
  BY <1>1 DEF TypeOK
<1>4. \A g : /\ Entries({p}, g) \subseteq Entries(Procs, g)
             /\ IsFiniteSet(Entries({p}, g)) /\ Cardinality(Entries({p}, g)) \in Nat
  <2> TAKE g
  <2>1. Entries({p}, g) \subseteq Entries(Procs, g)
    BY DEF Entries
  <2> QED BY <2>1, CountsFinite, FS_Subset, FS_CardinalityType
<1>5. \A x \in Procs, d \in Fds : ofile'[x][d] = IF x = q THEN ofile[p][d] ELSE ofile[x][d]
  BY <1>1 DEF TypeOK
<1>6. TypeOK'
  <2>1. ref' \in [Files -> Nat]
    <3>1. ASSUME NEW g \in Files PROVE ref[g] + Cardinality(Entries({p}, g)) \in Nat
      <4>1. ref[g] \in Nat
        BY DEF TypeOK
      <4>2. Cardinality(Entries({p}, g)) \in Nat
        BY <1>4
      <4> QED BY <4>1, <4>2
    <3> QED BY <1>1, <3>1
  <2> QED BY <1>1, <2>1 DEF TypeOK, Labels
<1>7. StepOf(q)
  BY <1>1 DEF StepOf, TypeOK
<1>8. Hands(q)'
  BY <1>1, <1>2, <1>3 DEF Hands
<1>9. \A g \in Files : /\ ref'[g] = ref[g] + Cardinality(Entries({p}, g))
                       /\ ref[g] \in Nat /\ Cardinality(Entries({p}, g)) \in Nat
  BY <1>1, <1>4 DEF TypeOK
<1>10. AllTyped'
  <2> SUFFICES ASSUME NEW g \in Files PROVE Typed(g)'
    BY DEF AllTyped
  <2>1. Typed(g)
    BY DEF AllTyped
  <2>2. \A x \in Procs : Opens(x, g)' <=> Opens(x, g)
    <3>1. ~Opens(q, g) /\ ~Opens(q, g)'
      BY <1>1, <1>3 DEF Opens
    <3> QED BY <1>7, <3>1 DEF Opens, StepOf
  <2>3. CASE Entries(Procs, g) = {}
    <3>1. Entries({p}, g) = {}
      BY <1>4, <2>3
    <3>2. Cardinality(Entries({p}, g)) = 0
      BY <3>1, FS_EmptySet
    <3>3. ref'[g] = ref[g]
      <4>1. ref'[g] = ref[g] + Cardinality(Entries({p}, g)) /\ ref[g] \in Nat
        BY <1>9
      <4> QED BY <3>2, <4>1
    <3> QED BY <1>1, <2>1, <2>2, <3>3 DEF Typed
  <2>4. CASE Entries(Procs, g) # {}
    <3>1. ref[g] >= 1 /\ object[g] # None
      BY <2>4, EntryOpen
    <3>2. \A x \in Procs : ~Opens(x, g)
      BY <2>4, OpensAlone
    <3>3. ref'[g] # 0
      BY <1>9, <3>1
    <3> QED BY <1>1, <2>2, <3>1, <3>2, <3>3 DEF Typed
  <2> QED BY <2>3, <2>4
<1>11. RefsCountUses'
  <2> SUFFICES ASSUME NEW g \in Files
               PROVE ref'[g] + Cardinality(Uncounted(g)') =
                 Cardinality(Entries(Procs, g)') + Cardinality(Calls(g)') + Cardinality(Closings(g)')
    BY DEF RefsCountUses
  <2> DEFINE A == Entries(Procs, g)
             B == Entries({p}, g)
             C == {x \in {q} \X Fds : ofile[p][x[2]] = g}
             m == [x \in B |-> <<q, x[2]>>]
  <2>1. Entries(Procs, g)' = A \cup C
    <3>1. ASSUME NEW x \in Procs \X Fds
          PROVE  x \in Entries(Procs, g)' <=> x \in A \cup C
      <4>1. x = <<x[1], x[2]>> /\ x[1] \in Procs /\ x[2] \in Fds
        OBVIOUS
      <4>2. CASE x[1] = q
        <5>1. x \notin A
          BY <1>2, <4>1, <4>2, FilesAssumption DEF Entries
        <5>2. x \in {q} \X Fds
          BY <4>1, <4>2
        <5> QED BY <1>5, <4>1, <4>2, <5>1, <5>2 DEF Entries
      <4>3. CASE x[1] # q
        BY <1>5, <4>1, <4>3 DEF Entries
      <4> QED BY <4>2, <4>3
    <3>2. Entries(Procs, g)' \subseteq Procs \X Fds /\ A \cup C \subseteq Procs \X Fds
      BY DEF Entries
    <3> QED BY <3>1, <3>2
  <2>2. A \cap C = {}
    <3> SUFFICES ASSUME NEW x \in A, x \in C PROVE FALSE
      OBVIOUS
    <3>1. x[1] = q /\ x[2] \in Fds
      OBVIOUS
    <3>2. ofile[q][x[2]] = g
      BY <3>1 DEF Entries
    <3> QED BY <1>2, <3>1, <3>2, FilesAssumption
  <2>3. m \in Bijection(B, C)
    <3>1. \A x \in B : x = <<p, x[2]>> /\ x[2] \in Fds /\ ofile[p][x[2]] = g
      BY DEF Entries
    <3>2. m \in [B -> C]
      BY <3>1
    <3>3. \A x, y \in B : m[x] = m[y] => x = y
      <4> SUFFICES ASSUME NEW x \in B, NEW y \in B, m[x] = m[y] PROVE x = y
        OBVIOUS
      <4>1. x[2] = y[2]
        OBVIOUS
      <4> QED BY <3>1, <4>1
    <3>4. \A y \in C : \E x \in B : m[x] = y
      <4> SUFFICES ASSUME NEW y \in C PROVE \E x \in B : m[x] = y
        OBVIOUS
      <4>1. y = <<q, y[2]>> /\ y[2] \in Fds /\ ofile[p][y[2]] = g
        OBVIOUS
      <4>2. <<p, y[2]>> \in B
        BY <4>1 DEF Entries
      <4> QED BY <4>1, <4>2
    <3> HIDE DEF m, B, C
    <3> QED BY <3>2, <3>3, <3>4 DEF Bijection, Injection, Surjection, IsInjective
  <2> HIDE DEF m, C
  <2>4. IsFiniteSet(C) /\ Cardinality(C) = Cardinality(B)
    <3>1. ExistsBijection(B, C) /\ IsFiniteSet(B)
      BY <1>4, <2>3 DEF ExistsBijection
    <3> HIDE DEF B
    <3> QED BY <3>1, FS_Bijection
  <2>5. Cardinality(A \cup C) = Cardinality(A) + Cardinality(B)
    <3>1. Cardinality(A \cup C) = Cardinality(A) + Cardinality(C) - Cardinality(A \cap C)
      BY <2>4, CountsFinite, FS_Union
    <3>2. Cardinality(A \cap C) = 0
      BY <2>2, FS_EmptySet
    <3>3. Cardinality(A) \in Nat /\ Cardinality(B) \in Nat
      BY <1>4, CountsFinite
    <3> HIDE DEF A, B
    <3> QED BY <2>4, <3>1, <3>2, <3>3
  <2>6. Pending(q, g) = 0 /\ Pending(q, g)' = 0
    BY <1>1, <1>2 DEF Pending, Among, Bit
  <2>7. ~Dups(q, g) /\ ~Dups(q, g)' /\ ~Opening(q, g) /\ ~Opening(q, g)'
    BY <1>1, <1>3 DEF Dups, Opening
  <2>8. ref'[g] + Bit(Dups(q, g)') + Bit(Opening(q, g)) + Pending(q, g) =
         ref[g] + Cardinality(B) + Bit(Dups(q, g)) + Bit(Opening(q, g)') + Pending(q, g)'
    BY <1>9, <2>6, <2>7 DEF Bit
  <2>9. Cardinality(B) \in Int
    <3>1. Cardinality(B) \in Nat
      BY <1>4
    <3> HIDE DEF B
    <3> QED BY <3>1
  <2>10. ref'[g] \in Nat
    BY <1>6 DEF TypeOK
  <2>11. Cardinality(Entries(Procs, g)') = Cardinality(Entries(Procs, g)) + Cardinality(B)
    BY <2>1, <2>5
  <2> HIDE DEF B
  <2> QED BY <1>7, <2>8, <2>9, <2>10, <2>11, Balanced
<1>12. ObjectsHeld'
  BY <1>1, HeldKept
<1> QED BY <1>6, <1>7, <1>8, <1>10, <1>11, <1>12, HandsOfOne

LEMMA PipeKeeps ==
  ASSUME FilesInv, NEW p \in Procs, Pipe(p)
  PROVE  FilesInv'
<1> USE DEF FilesInv
<1>1. /\ pc[p] = "user" /\ Cardinality(FreeFiles) >= 2
      /\ ilock' = ilock /\ ip' = ip /\ f' = f
  BY DEF Pipe
<1>2. PICK pp \in Pipes, h \in FreeFiles, k \in FreeFiles :
        /\ Pipealloc(p, pp, h, k)
        /\ IF Cardinality(FreeFds(p)) >= 2
           THEN LET d == Lowest(FreeFds(p))
                    e == Lowest(FreeFds(p) \ {d})
                IN /\ ofile' = [ofile EXCEPT ![p][d] = h, ![p][e] = k]
                   /\ UNCHANGED <<pc, todo>>
           ELSE /\ todo' = [todo EXCEPT ![p] = <<h, k>>]
                /\ Goto(p, "close")
                /\ UNCHANGED ofile
  BY DEF Pipe
<1> DEFINE rd == <<pp, "read">>
           wr == <<pp, "write">>
<1>3. rd \in Objects /\ wr \in Objects /\ rd # wr /\ rd # None /\ wr # None
  BY FilesAssumption DEF Objects, PipeEnds
<1>4. /\ held[rd] = 0 /\ held[wr] = 0 /\ h = Lowest(FreeFiles) /\ k = Lowest(FreeFiles \ {h})
      /\ ref' = [ref EXCEPT ![h] = 1, ![k] = 1]
      /\ object' = [object EXCEPT ![h] = rd, ![k] = wr]
      /\ held' = [held EXCEPT ![rd] = 1, ![wr] = 1]
  BY <1>2 DEF Pipealloc
<1> HIDE DEF rd, wr
<1>5. h \in Files /\ k \in Files /\ h # k /\ ref[h] = 0 /\ ref[k] = 0
  <2>1. FreeFiles \subseteq Files /\ FreeFiles \subseteq Nat /\ IsFiniteSet(FreeFiles)
    <3>1. FreeFiles \subseteq Files /\ Files \subseteq Nat
      BY FilesAssumption DEF FreeFiles, Files
    <3> QED BY <3>1, FilesFinite, FS_Subset
  <2>2. k \in FreeFiles \ {h}
    BY <1>1, <1>4, <2>1, TwoLowest
  <2> QED BY <1>2, <2>1, <2>2 DEF FreeFiles
<1>6. object[h] = None /\ object[k] = None /\ \A q \in Procs : ~Opens(q, h) /\ ~Opens(q, k)
  <2>1. Typed(h) /\ Typed(k)
    BY <1>5 DEF AllTyped
  <2> QED BY <1>5, <2>1 DEF Typed
<1>7. ip[p] = None /\ f[p] = None /\ todo[p] = <<>>
  BY <1>1 DEF AllHands, Hands
<1>8. \A g \in Files : ref'[g] = (IF g = h \/ g = k THEN 1 ELSE ref[g])
  BY <1>4, <1>5 DEF TypeOK
<1>9. \A g \in Files : object'[g] = (IF g = h THEN rd ELSE IF g = k THEN wr ELSE object[g])
  BY <1>4, <1>5 DEF TypeOK
<1>10. \A x \in Objects : held'[x] = (IF x = rd \/ x = wr THEN 1 ELSE held[x])
  BY <1>3, <1>4 DEF TypeOK
<1>11. /\ ref' \in [Files -> Nat] /\ object' \in [Files -> Objects \cup {None}]
       /\ held' \in [Objects -> Nat]
  BY <1>3, <1>4, <1>5 DEF TypeOK
<1>12. ASSUME \A q \in Procs, g \in Files : Opens(q, g)' <=> Opens(q, g) PROVE AllTyped'
  <2> SUFFICES ASSUME NEW g \in Files PROVE Typed(g)'
    BY DEF AllTyped
  <2>1. Typed(g)
    BY DEF AllTyped
  <2>2. CASE g = h \/ g = k
    <3>1. ref'[g] = 1 /\ object'[g] # None
      BY <1>3, <1>8, <1>9, <2>2
    <3>2. \A q \in Procs : ~Opens(q, g)'
      BY <1>6, <1>12, <2>2
    <3> QED BY <3>1, <3>2 DEF Typed
  <2>3. CASE g # h /\ g # k
    <3>1. ref'[g] = ref[g] /\ object'[g] = object[g]
      BY <1>8, <1>9, <2>3
    <3> QED BY <1>12, <2>1, <3>1 DEF Typed
  <2> QED BY <2>2, <2>3
<1>13. ASSUME StepOf(p) PROVE ObjectsHeld'
  <2> SUFFICES ASSUME NEW x \in Objects
               PROVE  held'[x] = Cardinality(OpenOn(x)') + Cardinality(Having(x)')
    BY DEF ObjectsHeld, OpenOn, Having
  <2> DEFINE df == Bit(rd = x) + Bit(wr = x)
  <2>1. Cardinality(OpenOn(x)') = Cardinality(OpenOn(x)) + df
    <3>1. object[h] # x /\ object[k] # x
      BY <1>6, FilesAssumption
    <3>2. object'[h] = rd /\ object'[k] = wr
      BY <1>5, <1>9
    <3>3. Cardinality(OpenOn(x)') =
            Cardinality(OpenOn(x)) + (Bit(object'[h] = x) + Bit(object'[k] = x))
      BY <1>5, <1>9, <3>1, TwoFiles
    <3> QED BY <3>2, <3>3
  <2>2. held'[x] = held[x] + df /\ held[x] \in Nat /\ held'[x] \in Nat /\ df \in Int
    BY <1>3, <1>4, <1>10 DEF TypeOK, Bit
  <2>3. held'[x] + Bit(ip[p] = x) = held[x] + df + Bit(ip'[p] = x)
    <3>1. ip'[p] # x /\ ip[p] # x
      BY <1>1, <1>7, FilesAssumption
    <3>2. Bit(ip'[p] = x) = 0 /\ Bit(ip[p] = x) = 0
      BY <3>1 DEF Bit
    <3> HIDE DEF df
    <3> QED BY <2>2, <3>2
  <2> HIDE DEF df
  <2> QED BY <1>13, <2>1, <2>2, <2>3, HeldBalanced
<1>14. CASE Cardinality(FreeFds(p)) >= 2
  <2> DEFINE d == Lowest(FreeFds(p))
             e == Lowest(FreeFds(p) \ {d})
  <2>1. /\ ofile' = [ofile EXCEPT ![p][d] = h, ![p][e] = k]
        /\ pc' = pc /\ todo' = todo
    BY <1>2, <1>14
  <2>2. d \in Fds /\ e \in Fds /\ d # e /\ ofile[p][d] = None /\ ofile[p][e] = None
    <3>1. FreeFds(p) \subseteq Fds /\ FreeFds(p) \subseteq Nat /\ IsFiniteSet(FreeFds(p))
      <4>1. FreeFds(p) \subseteq Fds /\ Fds \subseteq Nat
        BY FilesAssumption DEF FreeFds, Fds
      <4> QED BY <4>1, FilesFinite, FS_Subset
    <3>2. d \in FreeFds(p) /\ e \in FreeFds(p) \ {d}
      BY <1>14, <3>1, TwoLowest
    <3> QED BY <3>1, <3>2 DEF FreeFds
  <2> HIDE DEF d, e
  <2>3. /\ ofile' \in [Procs -> [Fds -> Files \cup {None}]]
        /\ ofile'[p][d] = h /\ ofile'[p][e] = k
    BY <1>5, <2>1, <2>2 DEF TypeOK
  <2>4. OnlyEntries(p, d, e)
    BY <2>1, <2>2 DEF TypeOK, OnlyEntries
  <2>5. TypeOK'
    BY <1>1, <1>11, <2>1, <2>3 DEF TypeOK
  <2>6. StepOf(p)
    BY <1>1, <2>1 DEF StepOf, TypeOK
  <2>7. Hands(p)'
    BY <1>1, <1>7, <2>1 DEF Hands
  <2>8. \A q \in Procs, g \in Files : Opens(q, g)' <=> Opens(q, g)
    BY <1>1, <2>1 DEF Opens
  <2>9. RefsCountUses'
    <3> SUFFICES ASSUME NEW g \in Files
                 PROVE ref'[g] + Cardinality(Uncounted(g)') =
                   Cardinality(Entries(Procs, g)') + Cardinality(Calls(g)') + Cardinality(Closings(g)')
      BY DEF RefsCountUses
    <3> DEFINE de == Bit(h = g) + Bit(k = g)
    <3>1. Cardinality(Entries(Procs, g)') = Cardinality(Entries(Procs, g)) + de
      <4>1. ofile[p][d] # g /\ ofile[p][e] # g
        BY <2>2, FilesAssumption
      <4>2. Cardinality(Entries(Procs, g)') =
              Cardinality(Entries(Procs, g)) + (Bit(ofile'[p][d] = g) + Bit(ofile'[p][e] = g))
        BY <2>2, <2>4, <4>1, TwoEntries
      <4> QED BY <2>3, <4>2
    <3>2. Pending(p, g) = 0 /\ Pending(p, g)' = 0
      BY <1>7, <2>1 DEF Pending, Among, Bit
    <3>3. ~Dups(p, g) /\ ~Opening(p, g) /\ ~Opening(p, g)' /\ ~Dups(p, g)'
      BY <1>1, <2>1 DEF Dups, Opening
    <3>4. ref'[g] = ref[g] + de /\ ref[g] \in Nat /\ ref'[g] \in Nat /\ de \in Int
      BY <1>5, <1>8 DEF TypeOK, Bit
    <3>5. ref'[g] + Bit(Dups(p, g)') + Bit(Opening(p, g)) + Pending(p, g) =
           ref[g] + de + Bit(Dups(p, g)) + Bit(Opening(p, g)') + Pending(p, g)'
      <4>1. /\ Bit(Dups(p, g)') = 0 /\ Bit(Opening(p, g)) = 0
            /\ Bit(Dups(p, g)) = 0 /\ Bit(Opening(p, g)') = 0
        BY <3>3 DEF Bit
      <4> HIDE DEF de
      <4> QED BY <3>2, <3>4, <4>1
    <3> HIDE DEF de
    <3> QED BY <2>6, <3>1, <3>4, <3>5, Balanced
  <2>10. AllTyped' /\ ObjectsHeld'
    BY <1>12, <1>13, <2>6, <2>8
  <2> QED BY <2>5, <2>6, <2>7, <2>9, <2>10, HandsOfOne
<1>15. CASE ~(Cardinality(FreeFds(p)) >= 2)
  <2>1. /\ todo' = [todo EXCEPT ![p] = <<h, k>>]
        /\ pc' = [pc EXCEPT ![p] = "close"] /\ ofile' = ofile
    BY <1>2, <1>15 DEF Goto
  <2>2. todo'[p] = <<h, k>> /\ pc'[p] = "close"
    BY <2>1 DEF TypeOK
  <2>3. TypeOK'
    <3>1. <<h, k>> \in Seq(Files)
      BY <1>5
    <3> QED BY <1>1, <1>11, <2>1, <3>1 DEF TypeOK, Labels
  <2>4. StepOf(p)
    BY <1>1, <2>1 DEF StepOf, TypeOK
  <2>5. Hands(p)'
    <3>1. Len(todo'[p]) = 2
      BY <2>2
    <3> QED BY <1>1, <1>7, <2>2, <3>1 DEF Hands
  <2>6. \A q \in Procs, g \in Files : Opens(q, g)' <=> Opens(q, g)
    <3>1. \A g \in Files : ~Opens(p, g) /\ ~Opens(p, g)'
      BY <1>1, <1>7, <2>2 DEF Opens
    <3> QED BY <2>4, <3>1 DEF Opens, StepOf
  <2>7. RefsCountUses'
    <3> SUFFICES ASSUME NEW g \in Files
                 PROVE ref'[g] + Cardinality(Uncounted(g)') =
                   Cardinality(Entries(Procs, g)') + Cardinality(Calls(g)') + Cardinality(Closings(g)')
      BY DEF RefsCountUses
    <3> DEFINE de == Bit(h = g) + Bit(k = g)
    <3>1. Cardinality(Entries(Procs, g)') = Cardinality(Entries(Procs, g)) + 0
      BY <2>1, SameEntries
    <3>2. Pending(p, g) = 0 /\ Pending(p, g)' = de
      BY <1>7, <2>2 DEF Pending, Among, Bit
    <3>3. ~Dups(p, g) /\ ~Opening(p, g) /\ ~Opening(p, g)' /\ ~Dups(p, g)'
      BY <1>1, <2>2 DEF Dups, Opening
    <3>4. ref'[g] = ref[g] + de /\ ref[g] \in Nat /\ ref'[g] \in Nat /\ de \in Int
      BY <1>5, <1>8 DEF TypeOK, Bit
    <3>5. ref'[g] + Bit(Dups(p, g)') + Bit(Opening(p, g)) + Pending(p, g) =
           ref[g] + 0 + Bit(Dups(p, g)) + Bit(Opening(p, g)') + Pending(p, g)'
      <4>1. /\ Bit(Dups(p, g)') = 0 /\ Bit(Opening(p, g)) = 0
            /\ Bit(Dups(p, g)) = 0 /\ Bit(Opening(p, g)') = 0
        BY <3>3 DEF Bit
      <4> HIDE DEF de
      <4> QED BY <3>2, <3>4, <4>1
    <3> HIDE DEF de
    <3> QED BY <2>4, <3>1, <3>4, <3>5, Balanced
  <2>8. AllTyped' /\ ObjectsHeld'
    BY <1>12, <1>13, <2>4, <2>6
  <2> QED BY <2>3, <2>4, <2>5, <2>7, <2>8, HandsOfOne
<1> QED BY <1>14, <1>15

-----------------------------------------------------------------------------
(* Xv6Files: the theorems                                                  *)

LEMMA NextFilesInv == FilesInv /\ [Next]_vars => FilesInv'
<1> SUFFICES ASSUME FilesInv, [Next]_vars PROVE FilesInv'
  OBVIOUS
<1>1. ASSUME NEW p \in Procs, Step(p) PROVE FilesInv'
  <2>1. CASE OpenInode(p)
    BY <2>1, OpenInodeKeeps
  <2>2. CASE Filealloc(p)
    BY <2>2, FileallocKeeps
  <2>3. CASE OpenFdalloc(p)
    BY <2>3, OpenFdallocKeeps
  <2>4. CASE OpenFail(p)
    BY <2>4, OpenFailKeeps
  <2>5. CASE DupFd(p)
    BY <2>5, DupFdKeeps
  <2>6. CASE Filedup(p)
    BY <2>6, FiledupKeeps
  <2>7. CASE CloseFd(p)
    BY <2>7, CloseFdKeeps
  <2>8. CASE Fileclose(p)
    BY <2>8, FilecloseKeeps
  <2>9. CASE Put(p)
    BY <2>9, PutKeeps
  <2>10. CASE CloseReturn(p)
    BY <2>10, CloseReturnKeeps
  <2>11. CASE Pipe(p)
    BY <2>11, PipeKeeps
  <2>12. CASE Argfd(p)
    BY <2>12, ArgfdKeeps
  <2>13. CASE UseFile(p)
    BY <2>13, UseFileKeeps
  <2>14. ASSUME NEW q \in Procs, Fork(p, q) PROVE FilesInv'
    BY <2>14, ForkKeeps
  <2>15. CASE Exit(p)
    BY <2>15, ExitKeeps
  <2> QED BY <1>1, <2>1, <2>2, <2>3, <2>4, <2>5, <2>6, <2>7, <2>8, <2>9, <2>10, <2>11,
        <2>12, <2>13, <2>14, <2>15 DEF Step
<1>2. CASE AllExited
  BY <1>2, UnchangedKeeps DEF AllExited
<1>3. CASE UNCHANGED vars
  BY <1>3, UnchangedKeeps
<1> QED BY <1>1, <1>2, <1>3 DEF Next

LEMMA FilesAlways == Spec => []FilesInv
BY InitFilesInv, NextFilesInv, PTL DEF Spec

\* f->ref is at all times the number of descriptors, and of calls that open or
\* close the file, that refer to it (filealloc, filedup, fileclose, sys_dup, fork).
THEOREM ReferencesCounted == Spec => []RefsCountUses
<1>1. FilesInv => RefsCountUses
  BY DEF FilesInv
<1> QED BY <1>1, FilesAlways, PTL

\* No inode and no end of a pipe is put twice or leaked, on any path out of
\* sys_open, sys_pipe and fileclose.
THEOREM ObjectsAreHeld == Spec => []ObjectsHeld
<1>1. FilesInv => ObjectsHeld
  BY DEF FilesInv
<1> QED BY <1>1, FilesAlways, PTL

\* What a descriptor names is an open file, although sys_dup sets the descriptor
\* before it counts it and other processes close the file meanwhile.
THEOREM DescriptorsStayOpen == Spec => []DescriptorsOpen
<1>1. FilesInv => DescriptorsOpen
  <2> SUFFICES ASSUME FilesInv, NEW p \in Procs, NEW d \in Fds, ofile[p][d] # None
               PROVE  ref[ofile[p][d]] >= 1 /\ object[ofile[p][d]] # None
    BY DEF DescriptorsOpen
  <2>1. ofile[p][d] \in Files
    BY DEF FilesInv, TypeOK
  <2>2. <<p, d>> \in Entries(Procs, ofile[p][d])
    BY DEF Entries
  <2> QED BY <2>1, <2>2, EntryOpen
<1> QED BY <1>1, FilesAlways, PTL

-----------------------------------------------------------------------------
(* Xv6Offsets                                                              *)

OffsetLabels == {"user", "read", "readDone", "write", "ilock", "written", "commit"}

OffsetTypes ==
  /\ off \in Nat /\ length \in Nat
  /\ call \in [Procs -> OffsetLabels]
  /\ n \in [Procs -> Nat]
  /\ r \in [Procs -> Int]
  /\ uses \in [Offsets!Places -> Nat]

\* A process is between its ilock and its iunlock.
Transferring(p) == call[p] \in {"readDone", "written"}

OwnerTransfers == \A p \in Procs : Transferring(p) <=> owner = p

UsedUpTo(end) == \A k \in Offsets!Places : uses[k] = IF k < end THEN 1 ELSE 0

\* While a process holds the inode, what it has transferred is ahead of f->off.
UsedOnce ==
  /\ owner = None => UsedUpTo(off)
  /\ \A p \in Procs : owner = p => UsedUpTo(off + Offsets!Larger(0, r[p]))

\* Only a write fails.
ReadsCount == \A p \in Procs : call[p] = "readDone" => r[p] >= 0

OwnerKnown == owner \in Procs \cup {None}

OffsetInv == OffsetTypes /\ OwnerKnown /\ OwnerTransfers /\ UsedOnce /\ ReadsCount

LEMMA InitOffsetInv == Offsets!Init => OffsetInv
BY OffsetsAssumption, FilesAssumption DEF Offsets!Init, OffsetInv, OffsetTypes, OffsetLabels, OwnerKnown, OwnerTransfers, Transferring, UsedOnce,
  UsedUpTo, Offsets!Larger, ReadsCount, Offsets!Places

\* A transfer of places from f->off on uses those up to its end, and only those.
LEMMA TransferUses ==
  ASSUME OffsetTypes, NEW p \in Procs, NEW count \in Nat, UsedUpTo(off), Offsets!Transfer(p, count)
  PROVE  /\ uses' \in [Offsets!Places -> Nat]
         /\ r' \in [Procs -> Int] /\ r'[p] = count
         /\ \A k \in Offsets!Places : uses'[k] = IF k < off + count THEN 1 ELSE 0
BY DEF OffsetTypes, UsedUpTo, Offsets!Transfer, Offsets!Places

LEMMA NextOffsetInv == OffsetInv /\ [Offsets!Next]_(Offsets!vars) => OffsetInv'
<1> SUFFICES ASSUME OffsetInv, [Offsets!Next]_(Offsets!vars) PROVE OffsetInv'
  OBVIOUS
<1> USE OffsetsAssumption, FilesAssumption DEF OffsetInv, OffsetTypes, OffsetLabels, OwnerKnown, OwnerTransfers, Transferring, UsedOnce,
      UsedUpTo, ReadsCount, Offsets!Goto
<1>1. ASSUME NEW p \in Procs, Offsets!Call(p) PROVE OffsetInv'
  BY <1>1 DEF Offsets!Call
<1>2. ASSUME NEW p \in Procs, Offsets!Read(p) PROVE OffsetInv'
  <2> DEFINE c == Offsets!Larger(0, Offsets!Smaller(n[p], length - off))
  <2>1. c \in Nat
    BY DEF Offsets!Larger, Offsets!Smaller
  <2>2. owner = None /\ Offsets!Transfer(p, c)
    BY <1>2 DEF Offsets!Read, Offsets!Unlocked
  <2>3. /\ uses' \in [Offsets!Places -> Nat]
        /\ r' \in [Procs -> Int] /\ r'[p] = c
        /\ \A k \in Offsets!Places : uses'[k] = IF k < off + c THEN 1 ELSE 0
    BY <2>1, <2>2, TransferUses
  <2> HIDE DEF c
  <2>4. Offsets!Larger(0, r'[p]) = c
    BY <2>1, <2>3 DEF Offsets!Larger
  <2>5. owner' = p /\ off' = off /\ length' = length /\ n' = n /\ Offsets!Goto(p, "readDone")
    BY <1>2 DEF Offsets!Read
  <2>6. UsedOnce'
    BY <2>3, <2>4, <2>5
  <2>7. OffsetTypes' /\ OwnerKnown' /\ OwnerTransfers' /\ ReadsCount'
    BY <2>1, <2>2, <2>3, <2>5
  <2>8. QED
    BY <2>6, <2>7
<1>3. ASSUME NEW p \in Procs, Offsets!ReadDone(p) PROVE OffsetInv'
  BY <1>3 DEF Offsets!ReadDone, Offsets!Larger
<1>4. ASSUME NEW p \in Procs, Offsets!BeginTrans(p) PROVE OffsetInv'
  BY <1>4 DEF Offsets!BeginTrans
<1>5. ASSUME NEW p \in Procs, Offsets!Writei(p) PROVE OffsetInv'
  <2>1. owner = None
    BY <1>5 DEF Offsets!Writei, Offsets!Unlocked
  <2>2. CASE off + 1 > MaxFile
    BY <1>5, <2>1, <2>2 DEF Offsets!Writei, Offsets!Larger
  <2>3. CASE ~(off + 1 > MaxFile)
    <3>1. Offsets!Transfer(p, 1)
      BY <1>5, <2>3 DEF Offsets!Writei
    <3>2. /\ uses' \in [Offsets!Places -> Nat]
          /\ r' \in [Procs -> Int] /\ r'[p] = 1
          /\ \A k \in Offsets!Places : uses'[k] = IF k < off + 1 THEN 1 ELSE 0
      BY <2>1, <3>1, TransferUses
    <3>3. Offsets!Larger(0, r'[p]) = 1 /\ length' \in Nat
      BY <1>5, <2>3, <3>2 DEF Offsets!Larger, Offsets!Writei
    <3>4. QED
      BY <1>5, <2>1, <3>2, <3>3 DEF Offsets!Writei
  <2>4. QED
    BY <2>2, <2>3
<1>6. ASSUME NEW p \in Procs, Offsets!Written(p) PROVE OffsetInv'
  BY <1>6 DEF Offsets!Written, Offsets!Larger
<1>7. ASSUME NEW p \in Procs, Offsets!Commit(p) PROVE OffsetInv'
  BY <1>7 DEF Offsets!Commit
<1>8. CASE UNCHANGED Offsets!vars
  BY <1>8 DEF Offsets!vars
<1>9. QED
  BY <1>1, <1>2, <1>3, <1>4, <1>5, <1>6, <1>7, <1>8 DEF Offsets!Next

\* Each place up to the offset that the processes share has been read or written
\* once and none behind it, whatever the order of the chunks.
THEOREM OffsetsDivide == Offsets!Spec => []EachPlaceOnce
<1>1. Offsets!Init => OffsetInv
  BY InitOffsetInv
<1>2. OffsetInv /\ [Offsets!Next]_(Offsets!vars) => OffsetInv'
  BY NextOffsetInv
<1>3. OffsetInv => EachPlaceOnce
  BY DEF OffsetInv, UsedOnce, UsedUpTo, EachPlaceOnce, Offsets!EachPlaceOnce
<1>4. QED
  BY <1>1, <1>2, <1>3, PTL DEF Offsets!Spec

-----------------------------------------------------------------------------
(* Xv6Dirs: the invariant.  What it says of the inodes it says of a table w *)
(* of inodes: a step makes a new table, and then frees what has no links    *)
(* and no references.                                                       *)

Inums == Dirs!Inums
Steps == Names \cup {".."}

NoEntries == [m \in Names |-> Dirs!NoInode]
Nodes == [type : {"free", "file", "dir", "dev"}, nlink : Int,
          entry : [Names -> Inums \cup {Dirs!NoInode}], up : Inums \cup {Dirs!NoInode}]
WellFormed(x) ==
  /\ x.type = "free" => x.nlink = 0
  /\ x.type # "dir" => x.entry = NoEntries
  /\ x.type = "dir" => x.up \in Inums
Tables == [Inums -> {x \in Nodes : WellFormed(x)}]

DirLabels ==
  {"user", "return", "begin", "walk", "create", "existing", "commit", "opened", "open", "chdir",
   "put", "link", "dirlink", "bad", "unlink", "unlinkInode"}

CallTypes ==
  /\ iref \in [Inums -> Int]
  /\ lock \in [Inums -> Procs \cup {None}]
  /\ cwd \in [Procs -> Inums]
  /\ fd \in [Procs -> Inums \cup {Dirs!NoInode}]
  /\ at \in [Procs -> Inums \cup {Dirs!NoInode}]
  /\ dip \in [Procs -> Inums \cup {Dirs!NoInode}]
  /\ where \in [Procs -> DirLabels]
  /\ op \in [Procs -> Dirs!Creates \cup {"none", "open", "link", "unlink", "chdir", "close"}]
  /\ path \in [Procs -> Seq(Steps)]

DirTypes == inode \in Tables /\ lost \in [Inums -> Nat] /\ CallTypes

Has(w, a, types) == a \in Inums /\ w[a].type \in types
Allocated == {"file", "dir", "dev"}

\* What the call of p has in hand at each of its labels.
HandsIn(w, p) ==
  /\ where[p] \in {"user", "return"} => at[p] = Dirs!NoInode /\ dip[p] = Dirs!NoInode
  /\ where[p] = "begin" =>
       /\ dip[p] = Dirs!NoInode
       /\ op[p] \in Dirs!Creates \cup {"link", "unlink", "close"}
       /\ op[p] \in Dirs!Creates <=> at[p] = Dirs!NoInode
       /\ op[p] = "unlink" => Has(w, at[p], {"dir"}) /\ path[p] # <<>>
  /\ where[p] = "walk" =>
       /\ at[p] \in Inums /\ path[p] # <<>>
       /\ op[p] \in Dirs!Creates \cup {"open", "link", "unlink", "chdir"}
       /\ dip[p] # Dirs!NoInode => op[p] = "link"
  /\ where[p] = "create" =>
       Has(w, at[p], {"dir"}) /\ dip[p] = Dirs!NoInode /\ path[p] # <<>> /\ op[p] \in Dirs!Creates
  /\ where[p] = "existing" => at[p] \in Inums /\ dip[p] = Dirs!NoInode /\ op[p] \in Dirs!Creates
  /\ where[p] \in {"commit", "opened"} =>
       Has(w, at[p], Allocated) /\ lock[at[p]] = p /\ dip[p] = Dirs!NoInode
  /\ where[p] \in {"open", "chdir", "put", "link"} => at[p] \in Inums /\ dip[p] = Dirs!NoInode
  /\ where[p] = "link" => op[p] = "link"
  /\ where[p] = "dirlink" =>
       Has(w, at[p], {"dir"}) /\ dip[p] \in Inums /\ op[p] = "link" /\ path[p] # <<>>
  /\ where[p] = "bad" => at[p] = Dirs!NoInode /\ dip[p] \in Inums /\ op[p] = "link"
  /\ where[p] = "unlink" =>
       Has(w, at[p], {"dir"}) /\ dip[p] = Dirs!NoInode /\ op[p] = "unlink" /\ path[p] # <<>>
  /\ where[p] = "unlinkInode" =>
       /\ Has(w, at[p], {"dir"}) /\ lock[at[p]] = p /\ op[p] = "unlink"
       /\ path[p] # <<>> /\ Head(path[p]) \in Names
       /\ dip[p] \in Inums /\ w[at[p]].entry[Head(path[p])] = dip[p]

\* What it has linked is no directory; what it has locked it has in hand; what it
\* works in and has open is allocated.
HoldsIn(w, p) ==
  /\ op[p] = "link" /\ dip[p] # Dirs!NoInode => Has(w, dip[p], {"file", "dev"})
  /\ \A a \in Inums : lock[a] = p => at[p] = a /\ w[a].type \in Allocated
  /\ Has(w, cwd[p], {"dir"})
  /\ fd[p] # Dirs!NoInode => Has(w, fd[p], Allocated)

EntriesIn(w, a) == {e \in Inums \X Names : w[e[1]].entry[e[2]] = a}
SubsIn(w, a) ==
  {m \in Names : w[a].entry[m] # Dirs!NoInode /\ w[w[a].entry[m]].type = "dir"}

\* The links of each inode, with lk calls of link under way and ls entries lost.
LinksOK(w, lk, ls) ==
  \A a \in Inums :
    w[a].nlink = Cardinality(EntriesIn(w, a)) + Cardinality(SubsIn(w, a)) + lk[a] + ls[a]
                   + Bit(a = Dirs!Root)
Linked == [a \in Inums |-> Cardinality({q \in Procs : op[q] = "link" /\ dip[q] = a})]

DirsInv ==
  /\ DirTypes
  /\ \A p \in Procs : HandsIn(inode, p) /\ HoldsIn(inode, p)
  /\ LinksOK(inode, Linked, lost)
  /\ RefsCountHolders

-----------------------------------------------------------------------------
(* Xv6Dirs: lemmas about tables of inodes                                  *)

LEMMA DirsFinite ==
  /\ Inums = 1 .. NInodes /\ Dirs!NoInode = 0 /\ Dirs!Root = 1 /\ Dirs!NoInode \notin Inums
  /\ Dirs!Root \in Inums
  /\ IsFiniteSet(Inums) /\ IsFiniteSet(Names) /\ IsFiniteSet(Procs) /\ IsFiniteSet(Inums \X Names)
<1>1. Inums = 1 .. NInodes /\ Dirs!NoInode = 0 /\ Dirs!Root = 1
  BY DEF Inums, Dirs!Inums, Dirs!NoInode, Dirs!Root
<1>2. NInodes \in Nat /\ NInodes >= 3 /\ IsFiniteSet(Names) /\ IsFiniteSet(Procs)
  BY DirsAssumption, FilesAssumption
<1>3. IsFiniteSet(1 .. NInodes)
  BY <1>2, FS_Interval
<1>4. IsFiniteSet(Inums \X Names)
  BY <1>1, <1>2, <1>3, FS_Product
<1> QED BY <1>1, <1>2, <1>3, <1>4

LEMMA TableCounts ==
  ASSUME NEW w, NEW a
  PROVE  /\ IsFiniteSet(EntriesIn(w, a)) /\ Cardinality(EntriesIn(w, a)) \in Nat
         /\ IsFiniteSet(SubsIn(w, a)) /\ Cardinality(SubsIn(w, a)) \in Nat
         /\ (Cardinality(EntriesIn(w, a)) = 0 <=> EntriesIn(w, a) = {})
         /\ (Cardinality(SubsIn(w, a)) = 0 <=> SubsIn(w, a) = {})
<1>1. IsFiniteSet(EntriesIn(w, a)) /\ IsFiniteSet(SubsIn(w, a))
  BY DirsFinite, FS_Subset DEF EntriesIn, SubsIn
<1> QED BY <1>1, NotEmpty

LEMMA InTable ==
  ASSUME NEW w \in Tables, NEW a \in Inums
  PROVE  /\ w[a] \in Nodes /\ WellFormed(w[a]) /\ w[a].nlink \in Int
         /\ w[a].type \in {"free", "file", "dir", "dev"}
         /\ w[a].entry \in [Names -> Inums \cup {Dirs!NoInode}]
         /\ \A m \in Names : w[a].entry[m] \in Inums \cup {Dirs!NoInode}
<1>1. w[a] \in Nodes /\ WellFormed(w[a])
  BY DEF Tables
<1> QED BY <1>1 DEF Nodes

\* An inode without links is named nowhere and has no directory in it.
LEMMA NoLinks ==
  ASSUME NEW w \in Tables, NEW lk \in [Inums -> Nat], NEW ls \in [Inums -> Nat],
         LinksOK(w, lk, ls), NEW a \in Inums, w[a].nlink = 0
  PROVE  EntriesIn(w, a) = {} /\ SubsIn(w, a) = {} /\ lk[a] = 0 /\ ls[a] = 0 /\ a # Dirs!Root
<1>1. 0 = Cardinality(EntriesIn(w, a)) + Cardinality(SubsIn(w, a)) + lk[a] + ls[a]
            + Bit(a = Dirs!Root)
  BY DEF LinksOK
<1>2. lk[a] \in Nat /\ ls[a] \in Nat
  OBVIOUS
<1> QED BY <1>1, <1>2, TableCounts DEF Bit

Freed(w, G) == [a \in Inums |-> IF a \in G THEN Dirs!Blank ELSE w[a]]
Vanished(w, G, a) == {e \in G \X Names : w[e[1]].entry[e[2]] = a}
LostWith(w, G, ls) == [a \in Inums |-> ls[a] + Cardinality(Vanished(w, G, a))]

LEMMA BlankIs ==
  /\ Dirs!Blank \in Nodes /\ WellFormed(Dirs!Blank) /\ Dirs!Blank.nlink = 0
  /\ Dirs!Blank.type = "free" /\ Dirs!Blank.entry = NoEntries
  /\ \A m \in Names : Dirs!Blank.entry[m] = Dirs!NoInode
BY DEF Dirs!Blank, Nodes, WellFormed, NoEntries

\* The entries of the inodes that are freed are lost, and name nobody else.
LEMMA FreeingKeeps ==
  ASSUME NEW w \in Tables, NEW lk \in [Inums -> Nat], NEW ls \in [Inums -> Nat],
         LinksOK(w, lk, ls), NEW G \in SUBSET Inums, \A a \in G : w[a].nlink = 0
  PROVE  /\ Freed(w, G) \in Tables /\ LostWith(w, G, ls) \in [Inums -> Nat]
         /\ LinksOK(Freed(w, G), lk, LostWith(w, G, ls))
<1> DEFINE u == Freed(w, G)
<1>1. \A a \in Inums : u[a] = IF a \in G THEN Dirs!Blank ELSE w[a]
  BY DEF Freed
<1>2. u \in Tables
  BY InTable, BlankIs DEF Freed, Tables
<1>3. ASSUME NEW a \in Inums
      PROVE IsFiniteSet(Vanished(w, G, a)) /\ Cardinality(Vanished(w, G, a)) \in Nat
  <2>1. Vanished(w, G, a) \subseteq Inums \X Names
    BY DEF Vanished
  <2> QED BY <2>1, DirsFinite, FS_Subset, FS_CardinalityType
<1>4. ASSUME NEW a \in Inums
      PROVE Cardinality(EntriesIn(w, a)) = Cardinality(EntriesIn(u, a)) + Cardinality(Vanished(w, G, a))
  <2>1. \A e \in Inums \X Names : u[e[1]].entry[e[2]] = IF e[1] \in G THEN Dirs!NoInode ELSE w[e[1]].entry[e[2]]
    BY <1>1, BlankIs
  <2>2. EntriesIn(w, a) = EntriesIn(u, a) \cup Vanished(w, G, a)
    <3>1. ASSUME NEW e PROVE e \in EntriesIn(w, a) <=> e \in EntriesIn(u, a) \cup Vanished(w, G, a)
      <4>1. CASE e \in Inums \X Names /\ e[1] \in G
        BY <2>1, <4>1, DirsFinite DEF EntriesIn, Vanished
      <4>2. CASE e \in Inums \X Names /\ e[1] \notin G
        BY <2>1, <4>2, DirsFinite DEF EntriesIn, Vanished
      <4>3. CASE e \notin Inums \X Names
        BY <4>3 DEF EntriesIn, Vanished
      <4> QED BY <4>1, <4>2, <4>3
    <3> QED BY <3>1
  <2>3. EntriesIn(u, a) \cap Vanished(w, G, a) = {}
    BY <2>1, DirsFinite DEF EntriesIn, Vanished
  <2>4. Cardinality({}) = 0
    BY FS_EmptySet
  <2>5. IsFiniteSet(EntriesIn(u, a)) /\ IsFiniteSet(Vanished(w, G, a))
    BY <1>3, TableCounts
  <2>6. Cardinality(EntriesIn(w, a))
          = Cardinality(EntriesIn(u, a)) + Cardinality(Vanished(w, G, a)) - Cardinality({})
    <3> HIDE DEF u
    <3> QED BY <2>2, <2>3, <2>5, FS_Union
  <2>7. Cardinality(EntriesIn(u, a)) \in Nat /\ Cardinality(Vanished(w, G, a)) \in Nat
    BY <1>3, TableCounts
  <2> HIDE DEF u
  <2> QED BY <2>4, <2>6, <2>7
<1>5. ASSUME NEW a \in Inums PROVE SubsIn(u, a) = SubsIn(w, a)
  <2>1. CASE a \in G
    <3>1. SubsIn(w, a) = {}
      BY <2>1, NoLinks
    <3>2. SubsIn(u, a) = {}
      BY <1>1, <2>1, BlankIs DEF SubsIn
    <3> QED BY <3>1, <3>2
  <2>2. CASE a \notin G
    <3>1. ASSUME NEW m \in Names, w[a].entry[m] # Dirs!NoInode
          PROVE  u[w[a].entry[m]] = w[w[a].entry[m]]
      <4>1. w[a].entry[m] \in Inums
        BY <3>1, InTable
      <4>2. <<a, m>> \in EntriesIn(w, w[a].entry[m])
        BY DEF EntriesIn
      <4>3. w[a].entry[m] \notin G
        BY <4>1, <4>2, NoLinks
      <4> QED BY <1>1, <4>1, <4>3
    <3>2. u[a] = w[a]
      BY <1>1, <2>2
    <3> QED BY <3>1, <3>2 DEF SubsIn
  <2> QED BY <2>1, <2>2
<1>6. LostWith(w, G, ls) \in [Inums -> Nat]
  BY <1>3 DEF LostWith
<1>7. ASSUME NEW a \in Inums
      PROVE u[a].nlink = Cardinality(EntriesIn(u, a)) + Cardinality(SubsIn(u, a)) + lk[a]
                           + LostWith(w, G, ls)[a] + Bit(a = Dirs!Root)
  <2>1. u[a].nlink = w[a].nlink
    BY <1>1, BlankIs
  <2>2. LostWith(w, G, ls)[a] = ls[a] + Cardinality(Vanished(w, G, a))
    BY DEF LostWith
  <2>3. w[a].nlink = Cardinality(EntriesIn(w, a)) + Cardinality(SubsIn(w, a)) + lk[a] + ls[a]
                       + Bit(a = Dirs!Root)
    BY DEF LinksOK
  <2>4. lk[a] \in Nat /\ ls[a] \in Nat /\ Bit(a = Dirs!Root) \in Nat
    BY DEF Bit
  <2> HIDE DEF u
  <2> QED BY <1>3, <1>4, <1>5, <2>1, <2>2, <2>3, <2>4, TableCounts
<1> QED BY <1>2, <1>6, <1>7 DEF LinksOK

\* One entry changes.
LEMMA EntriesChange ==
  ASSUME NEW w \in Tables, NEW u \in Tables, NEW d \in Inums, NEW m \in Names,
         \A e \in Inums \X Names : e # <<d, m>> => u[e[1]].entry[e[2]] = w[e[1]].entry[e[2]],
         NEW a \in Inums
  PROVE  Cardinality(EntriesIn(u, a)) + Bit(w[d].entry[m] = a)
           = Cardinality(EntriesIn(w, a)) + Bit(u[d].entry[m] = a)
<1> DEFINE S == EntriesIn(w, a)
           T == EntriesIn(u, a)
           x == <<d, m>>
<1>1. \A y \in S \cup T : y # x => (y \in S <=> y \in T)
  BY DEF EntriesIn
<1>2. (x \in S <=> w[d].entry[m] = a) /\ (x \in T <=> u[d].entry[m] = a)
  BY DEF EntriesIn
<1>3. IsFiniteSet(S)
  BY TableCounts
<1> HIDE DEF S, T, x
<1>4. Cardinality(T) + Bit(x \in S) = Cardinality(S) + Bit(x \in T)
  BY <1>1, <1>3, OneChanged
<1>5. Cardinality(T) + Bit(w[d].entry[m] = a) = Cardinality(S) + Bit(u[d].entry[m] = a)
  BY <1>2, <1>4
<1> QED BY <1>5 DEF S, T

\* What is named by an entry keeps its type.
NamedKeep(w, u) ==
  \A a \in Inums : \A m \in Names : w[a].entry[m] # Dirs!NoInode =>
    (u[w[a].entry[m]].type = "dir" <=> w[w[a].entry[m]].type = "dir")

LEMMA SubsChange ==
  ASSUME NEW w \in Tables, NEW u \in Tables, NEW d \in Inums, NEW m \in Names,
         \A e \in Inums \X Names : e # <<d, m>> => u[e[1]].entry[e[2]] = w[e[1]].entry[e[2]],
         NamedKeep(w, u)
  PROVE  /\ \A a \in Inums : a # d => SubsIn(u, a) = SubsIn(w, a)
         /\ Cardinality(SubsIn(u, d)) + Bit(m \in SubsIn(w, d))
              = Cardinality(SubsIn(w, d)) + Bit(m \in SubsIn(u, d))
<1>1. ASSUME NEW a \in Inums, NEW k \in Names, <<a, k>> # <<d, m>>
      PROVE  k \in SubsIn(u, a) <=> k \in SubsIn(w, a)
  <2>1. u[a].entry[k] = w[a].entry[k]
    <3>1. <<a, k>> \in Inums \X Names
      OBVIOUS
    <3> QED BY <1>1, <3>1
  <2> QED BY <2>1 DEF SubsIn, NamedKeep
<1>2. ASSUME NEW a \in Inums, a # d PROVE SubsIn(u, a) = SubsIn(w, a)
  <2>1. \A k \in Names : k \in SubsIn(u, a) <=> k \in SubsIn(w, a)
    BY <1>1, <1>2
  <2>2. SubsIn(u, a) \subseteq Names /\ SubsIn(w, a) \subseteq Names
    BY DEF SubsIn
  <2> QED BY <2>1, <2>2
<1>3. \A k \in SubsIn(w, d) \cup SubsIn(u, d) : k # m => (k \in SubsIn(w, d) <=> k \in SubsIn(u, d))
  <2>1. SubsIn(u, d) \subseteq Names /\ SubsIn(w, d) \subseteq Names
    BY DEF SubsIn
  <2> QED BY <1>1, <2>1
<1>4. Cardinality(SubsIn(u, d)) + Bit(m \in SubsIn(w, d))
        = Cardinality(SubsIn(w, d)) + Bit(m \in SubsIn(u, d))
  BY <1>3, TableCounts, OneChanged
<1> QED BY <1>2, <1>4

\* No entry changes.
LEMMA EntriesSame ==
  ASSUME NEW w \in Tables, NEW u \in Tables,
         \A a \in Inums : u[a].entry = w[a].entry, NamedKeep(w, u)
  PROVE  \A a \in Inums : EntriesIn(u, a) = EntriesIn(w, a) /\ SubsIn(u, a) = SubsIn(w, a)
BY DEF EntriesIn, SubsIn, NamedKeep

-----------------------------------------------------------------------------
(* Xv6Dirs: what a step has to keep                                        *)

\* The step of p leaves the other calls alone.
OthersSame(p) ==
  \A q \in Procs : q # p =>
    /\ cwd'[q] = cwd[q] /\ fd'[q] = fd[q] /\ at'[q] = at[q] /\ dip'[q] = dip[q]
    /\ where'[q] = where[q] /\ op'[q] = op[q] /\ path'[q] = path[q]

\* 1 if they are the same.
Is(x, a) == IF x = a THEN 1 ELSE 0

HeldBy(p, a) == Is(cwd[p], a) + Is(fd[p], a) + Is(at[p], a) + Is(dip[p], a)

\* A function of processes that changes for one of them.
CountOf(hand, a) == Cardinality({q \in Procs : hand[q] = a})
CountMoves(old, now, p, a) ==
  /\ CountOf(old, a) \in Nat /\ CountOf(now, a) \in Nat
  /\ CountOf(now, a) + Is(old[p], a) = CountOf(old, a) + Is(now[p], a)

LEMMA OneCaller ==
  ASSUME NEW old, NEW now, NEW p \in Procs, \A q \in Procs : q # p => now[q] = old[q], NEW a
  PROVE  CountMoves(old, now, p, a)
<1> DEFINE S == {q \in Procs : old[q] = a}
           T == {q \in Procs : now[q] = a}
<1>1. IsFiniteSet(S)
  BY DirsFinite, FS_Subset
<1>2. \A y \in S \cup T : y # p => (y \in S <=> y \in T)
  OBVIOUS
<1>3. (p \in S <=> old[p] = a) /\ (p \in T <=> now[p] = a)
  OBVIOUS
<1> HIDE DEF S, T
<1>4. /\ IsFiniteSet(T) /\ Cardinality(S) \in Nat /\ Cardinality(T) \in Nat
      /\ Cardinality(T) + Bit(p \in S) = Cardinality(S) + Bit(p \in T)
  BY <1>1, <1>2, OneChanged
<1>5. Cardinality(T) + Is(old[p], a) = Cardinality(S) + Is(now[p], a)
  BY <1>3, <1>4 DEF Is, Bit
<1> QED BY <1>4, <1>5 DEF S, T, CountOf, CountMoves

LEMMA RefsCounted ==
  /\ RefsCountHolders <=>
       \A a \in Inums : iref[a] = CountOf(cwd, a) + CountOf(fd, a) + CountOf(at, a) + CountOf(dip, a)
  /\ RefsCountHolders' <=>
       \A a \in Inums : iref'[a] = CountOf(cwd', a) + CountOf(fd', a) + CountOf(at', a) + CountOf(dip', a)
<1>1. \A a : \A hand : Dirs!Ones({q \in Procs : hand[q] = a}) = CountOf(hand, a)
  BY DEF Dirs!Ones, CountOf, Dirs!Cardinality, Cardinality
<1> QED BY <1>1 DEF RefsCountHolders, Dirs!RefsCountHolders, Inums

LEMMA HandsChange ==
  ASSUME NEW p \in Procs, OthersSame(p), NEW a
  PROVE  /\ CountMoves(cwd, cwd', p, a) /\ CountMoves(fd, fd', p, a)
         /\ CountMoves(at, at', p, a) /\ CountMoves(dip, dip', p, a)
BY OneCaller DEF OthersSame

LEMMA RefsBalance ==
  ASSUME NEW p \in Procs, RefsCountHolders, OthersSame(p),
         iref \in [Inums -> Int], iref' \in [Inums -> Int],
         \A a \in Inums : iref'[a] + HeldBy(p, a) = iref[a] + HeldBy(p, a)'
  PROVE  RefsCountHolders'
<1> SUFFICES ASSUME NEW a \in Inums
    PROVE iref'[a] = CountOf(cwd', a) + CountOf(fd', a) + CountOf(at', a) + CountOf(dip', a)
  BY RefsCounted
<1>1. iref[a] = CountOf(cwd, a) + CountOf(fd, a) + CountOf(at, a) + CountOf(dip, a) /\ iref'[a] \in Int
  BY RefsCounted
<1>2. /\ CountOf(cwd, a) \in Nat /\ CountOf(cwd', a) \in Nat
      /\ CountOf(cwd', a) + Is(cwd[p], a) = CountOf(cwd, a) + Is(cwd'[p], a)
      /\ CountOf(fd, a) \in Nat /\ CountOf(fd', a) \in Nat
      /\ CountOf(fd', a) + Is(fd[p], a) = CountOf(fd, a) + Is(fd'[p], a)
      /\ CountOf(at, a) \in Nat /\ CountOf(at', a) \in Nat
      /\ CountOf(at', a) + Is(at[p], a) = CountOf(at, a) + Is(at'[p], a)
      /\ CountOf(dip, a) \in Nat /\ CountOf(dip', a) \in Nat
      /\ CountOf(dip', a) + Is(dip[p], a) = CountOf(dip, a) + Is(dip'[p], a)
  BY HandsChange DEF CountMoves
<1>6. iref'[a] + (Is(cwd[p], a) + Is(fd[p], a) + Is(at[p], a) + Is(dip[p], a))
        = iref[a] + (Is(cwd'[p], a) + Is(fd'[p], a) + Is(at'[p], a) + Is(dip'[p], a))
  BY DEF HeldBy
<1> DEFINE c0 == CountOf(cwd, a)
           c1 == CountOf(cwd', a)
           f0 == CountOf(fd, a)
           f1 == CountOf(fd', a)
           a0 == CountOf(at, a)
           a1 == CountOf(at', a)
           d0 == CountOf(dip, a)
           d1 == CountOf(dip', a)
<1> DEFINE bc0 == Is(cwd[p], a)
           bc1 == Is(cwd'[p], a)
           bf0 == Is(fd[p], a)
           bf1 == Is(fd'[p], a)
           ba0 == Is(at[p], a)
           ba1 == Is(at'[p], a)
           bd0 == Is(dip[p], a)
           bd1 == Is(dip'[p], a)
           r1 == iref'[a]
<1>7. /\ bc0 \in Nat /\ bc1 \in Nat /\ bf0 \in Nat /\ bf1 \in Nat
      /\ ba0 \in Nat /\ ba1 \in Nat /\ bd0 \in Nat /\ bd1 \in Nat
  BY DEF Bit, Is
<1>8. /\ c1 + bc0 = c0 + bc1 /\ f1 + bf0 = f0 + bf1 /\ a1 + ba0 = a0 + ba1 /\ d1 + bd0 = d0 + bd1
      /\ r1 + (bc0 + bf0 + ba0 + bd0) = c0 + f0 + a0 + d0 + (bc1 + bf1 + ba1 + bd1)
      /\ r1 \in Int
  BY <1>1, <1>2, <1>6
<1>9. c0 \in Nat /\ f0 \in Nat /\ a0 \in Nat /\ d0 \in Nat /\ c1 \in Nat /\ f1 \in Nat /\ a1 \in Nat /\ d1 \in Nat
  BY <1>2
<1> HIDE DEF c0, c1, f0, f1, a0, a1, d0, d1, bc0, bc1, bf0, bf1, ba0, ba1, bd0, bd1, r1
<1>10. r1 = c1 + f1 + a1 + d1
  BY <1>7, <1>8, <1>9
<1> QED BY <1>10 DEF c1, f1, a1, d1, r1

\* What somebody has in hand has references.
LEMMA HeldHasRefs ==
  ASSUME NEW q \in Procs, NEW a \in Inums, RefsCountHolders',
         cwd'[q] = a \/ fd'[q] = a \/ at'[q] = a \/ dip'[q] = a
  PROVE  iref'[a] # 0
<1>1. iref'[a] = CountOf(cwd', a) + CountOf(fd', a) + CountOf(at', a) + CountOf(dip', a)
  BY RefsCounted
<1>2. \A hand : CountOf(hand, a) \in Nat /\ (hand[q] = a => CountOf(hand, a) # 0)
  <2> TAKE hand
  <2> DEFINE S == {x \in Procs : hand[x] = a}
  <2>1. IsFiniteSet(S) /\ (hand[q] = a => q \in S)
    BY DirsFinite, FS_Subset
  <2> HIDE DEF S
  <2>2. Cardinality(S) \in Nat /\ (hand[q] = a => Cardinality(S) # 0)
    BY <2>1, NotEmpty
  <2> QED BY <2>2 DEF S, CountOf
<1>3. /\ CountOf(cwd', a) \in Nat /\ CountOf(fd', a) \in Nat /\ CountOf(at', a) \in Nat
      /\ CountOf(dip', a) \in Nat
      /\ CountOf(cwd', a) # 0 \/ CountOf(fd', a) # 0 \/ CountOf(at', a) # 0 \/ CountOf(dip', a) # 0
  BY <1>2
<1> QED BY <1>1, <1>3

LEMMA LinkedIs ==
  /\ Linked \in [Inums -> Nat] /\ Linked' \in [Inums -> Nat]
  /\ \A p \in Procs : OthersSame(p) =>
       \A a \in Inums : Linked'[a] + Bit(op[p] = "link" /\ dip[p] = a)
                          = Linked[a] + Bit(op'[p] = "link" /\ dip'[p] = a)
<1>1. ASSUME NEW a \in Inums
      PROVE  /\ IsFiniteSet({q \in Procs : op[q] = "link" /\ dip[q] = a})
             /\ IsFiniteSet({q \in Procs : op'[q] = "link" /\ dip'[q] = a})
  BY DirsFinite, FS_Subset
<1>2. Linked \in [Inums -> Nat] /\ Linked' \in [Inums -> Nat]
  BY <1>1, FS_CardinalityType DEF Linked
<1>3. ASSUME NEW p \in Procs, OthersSame(p), NEW a \in Inums
      PROVE  Linked'[a] + Bit(op[p] = "link" /\ dip[p] = a) = Linked[a] + Bit(op'[p] = "link" /\ dip'[p] = a)
  <2> DEFINE S == {q \in Procs : op[q] = "link" /\ dip[q] = a}
             T == {q \in Procs : op'[q] = "link" /\ dip'[q] = a}
  <2>1. \A y \in S \cup T : y # p => (y \in S <=> y \in T)
    BY <1>3 DEF OthersSame
  <2>2. (p \in S <=> op[p] = "link" /\ dip[p] = a) /\ (p \in T <=> op'[p] = "link" /\ dip'[p] = a)
    OBVIOUS
  <2>3. Linked[a] = Cardinality(S) /\ Linked'[a] = Cardinality(T) /\ IsFiniteSet(S)
    BY <1>1 DEF Linked
  <2> HIDE DEF S, T
  <2>4. Cardinality(T) + Bit(p \in S) = Cardinality(S) + Bit(p \in T)
    BY <2>1, <2>3, OneChanged
  <2> QED BY <2>2, <2>3, <2>4
<1> QED BY <1>2, <1>3

-----------------------------------------------------------------------------
(* Xv6Dirs: a step that makes the table w and frees what it may            *)

Frees(w, G) ==
  /\ inode' = Freed(w, G) /\ lost' = LostWith(w, G, lost)
  /\ \A a \in G : w[a].nlink = 0 /\ iref'[a] = 0
Makes(w) == \E G \in SUBSET Inums : Frees(w, G)

\* Types stay, and what others have locked.
Steady(p, w) ==
  /\ OthersSame(p)
  /\ \A a \in Inums : inode[a].type # "free" => w[a].type = inode[a].type
  /\ \A a \in Inums : \A q \in Procs : q # p =>
       (lock'[a] = q <=> lock[a] = q) /\ (lock[a] = q => w[a].entry = inode[a].entry)

RefsMove(p) == \A a \in Inums : iref'[a] + HeldBy(p, a) = iref[a] + HeldBy(p, a)'

LEMMA OthersHands ==
  ASSUME DirsInv, NEW p \in Procs, NEW w, Steady(p, w), NEW q \in Procs, q # p
  PROVE  HandsIn(w, q)' /\ HoldsIn(w, q)'
<1>1. HandsIn(inode, q) /\ HoldsIn(inode, q)
  BY DEF DirsInv
<1>2. /\ cwd'[q] = cwd[q] /\ fd'[q] = fd[q] /\ at'[q] = at[q] /\ dip'[q] = dip[q]
      /\ where'[q] = where[q] /\ op'[q] = op[q] /\ path'[q] = path[q]
  BY DEF Steady, OthersSame
<1>3. \A a : \A types \in {{"dir"}, Allocated, {"file", "dev"}} :
        Has(inode, a, types) => Has(w, a, types)
  BY DEF Steady, Has, Allocated
<1>4. \A a \in Inums : /\ lock'[a] = q <=> lock[a] = q
                       /\ lock[a] = q => w[a].entry = inode[a].entry
  BY DEF Steady
<1>5. HandsIn(w, q)'
  <2>1. ASSUME where[q] \in {"commit", "opened"} PROVE Has(w, at[q], Allocated) /\ lock'[at[q]] = q
    BY <1>1, <1>3, <1>4, <2>1 DEF HandsIn, Has
  <2>2. ASSUME where[q] = "unlinkInode"
        PROVE  Has(w, at[q], {"dir"}) /\ lock'[at[q]] = q /\ w[at[q]].entry[Head(path[q])] = dip[q]
    BY <1>1, <1>3, <1>4, <2>2 DEF HandsIn, Has
  <2>3. ASSUME where[q] \in {"create", "dirlink", "unlink"} PROVE Has(w, at[q], {"dir"})
    BY <1>1, <1>3, <2>3 DEF HandsIn
  <2>4. ASSUME where[q] = "begin", op[q] = "unlink" PROVE Has(w, at[q], {"dir"})
    BY <1>1, <1>3, <2>4 DEF HandsIn
  <2> QED BY <1>1, <1>2, <2>1, <2>2, <2>3, <2>4 DEF HandsIn
<1>6. HoldsIn(w, q)'
  <2>1. \A a \in Inums : lock'[a] = q => at'[q] = a /\ w[a].type \in Allocated
    BY <1>1, <1>2, <1>4 DEF HoldsIn, Steady, Allocated
  <2> QED BY <1>1, <1>2, <1>3, <2>1 DEF HoldsIn
<1> QED BY <1>5, <1>6

LEMMA StepKeeps ==
  ASSUME DirsInv, NEW p \in Procs, NEW w \in Tables, Makes(w), CallTypes', Steady(p, w),
         LinksOK(w, Linked', lost), RefsMove(p), HandsIn(w, p)', HoldsIn(w, p)'
  PROVE  DirsInv'
<1>1. PICK G \in SUBSET Inums : Frees(w, G)
  BY DEF Makes
<1>2. RefsCountHolders'
  BY RefsBalance DEF DirsInv, DirTypes, CallTypes, Steady, RefsMove
<1>3. /\ Freed(w, G) \in Tables /\ LostWith(w, G, lost) \in [Inums -> Nat]
      /\ LinksOK(Freed(w, G), Linked', LostWith(w, G, lost))
  <2>1. \A a \in G : w[a].nlink = 0
    BY <1>1 DEF Frees
  <2>2. lost \in [Inums -> Nat] /\ Linked' \in [Inums -> Nat]
    BY LinkedIs DEF DirsInv, DirTypes
  <2> QED BY <2>1, <2>2, FreeingKeeps
<1>4. DirTypes'
  BY <1>1, <1>3 DEF DirTypes, Frees
<1>5. LinksOK(inode, Linked, lost)'
  <2>1. LinksOK(inode', Linked', lost')
    BY <1>1, <1>3 DEF Frees
  <2> QED BY <2>1 DEF LinksOK, EntriesIn, SubsIn
<1>6. ASSUME NEW q \in Procs PROVE HandsIn(inode, q)' /\ HoldsIn(inode, q)'
  <2>1. HandsIn(w, q)' /\ HoldsIn(w, q)'
    BY OthersHands
  <2>2. \A a \in Inums : cwd'[q] = a \/ fd'[q] = a \/ at'[q] = a \/ dip'[q] = a => inode'[a] = w[a]
    BY <1>1, <1>2, HeldHasRefs DEF Frees, Freed
  <2>3. \A a : \A types : cwd'[q] = a \/ fd'[q] = a \/ at'[q] = a \/ dip'[q] = a =>
                            (Has(w, a, types) => Has(inode', a, types))
    BY <2>2 DEF Has
  <2>4. HandsIn(inode, q)'
    <3>1. ASSUME where'[q] = "unlinkInode" PROVE inode'[at'[q]].entry[Head(path'[q])] = dip'[q]
      BY <2>1, <2>2, <3>1 DEF HandsIn, Has
    <3> QED BY <2>1, <2>3, <3>1 DEF HandsIn
  <2>5. HoldsIn(inode, q)'
    BY <2>1, <2>2, <2>3 DEF HoldsIn
  <2> QED BY <2>4, <2>5
<1> QED BY <1>2, <1>4, <1>5, <1>6 DEF DirsInv

LEMMA CardinalitySame == \A S : Dirs!Cardinality(S) = Cardinality(S)
BY DEF Dirs!Cardinality, Cardinality

LEMMA Settles ==
  ASSUME NEW w, NEW refs, Dirs!Settle(w, refs)
  PROVE  iref' = refs /\ Makes(w)
<1> DEFINE G == {a \in Inums : w[a].type # "free" /\ w[a].nlink = 0 /\ Dirs!Unused(refs, a)}
<1>1. iref' = refs
  BY DEF Dirs!Settle
<1>2. inode' = Freed(w, G)
  BY DEF Dirs!Settle, Freed, Inums
<1>3. lost' = LostWith(w, G, lost)
  BY CardinalitySame DEF Dirs!Settle, LostWith, Vanished, Inums
<1>4. \A a \in G : w[a].nlink = 0 /\ iref'[a] = 0
  BY <1>1 DEF Dirs!Unused
<1> QED BY <1>1, <1>2, <1>3, <1>4 DEF Makes, Frees

LEMMA NoneFreed ==
  ASSUME NEW w \in Tables, inode' = w, lost' = lost, lost \in [Inums -> Nat]
  PROVE  Makes(w)
<1>1. \A a : Vanished(w, {}, a) = {}
  BY DEF Vanished
<1>2. Cardinality({}) = 0
  BY FS_EmptySet
<1>3. Freed(w, {}) = w
  BY DEF Freed, Tables
<1>4. LostWith(w, {}, lost) = lost
  <2>1. \A a \in Inums : lost[a] + Cardinality(Vanished(w, {}, a)) = lost[a]
    BY <1>1, <1>2
  <2> QED BY <2>1 DEF LostWith
<1>5. Frees(w, {})
  BY <1>3, <1>4 DEF Frees
<1> QED BY <1>5 DEF Makes

LocksKept(p) ==
  \A a \in Inums : \A q \in Procs : q # p => (lock'[a] = q <=> lock[a] = q)

\* Whether it is linking, and what, stays.
LinkingSame(p) ==
  \A a \in Inums : (op'[p] = "link" /\ dip'[p] = a) <=> (op[p] = "link" /\ dip[p] = a)

LEMMA SameTable ==
  ASSUME DirsInv, NEW p \in Procs, NEW w, w = inode, Makes(w), CallTypes', OthersSame(p),
         LocksKept(p), LinkingSame(p), RefsMove(p), HandsIn(w, p)', HoldsIn(w, p)'
  PROVE  DirsInv'
<1>1. w \in Tables /\ LinksOK(w, Linked, lost)
  BY DEF DirsInv, DirTypes
<1>2. Steady(p, w)
  BY DEF Steady, LocksKept
<1>3. LinksOK(w, Linked', lost)
  <2>1. \A a \in Inums : Linked'[a] = Linked[a]
    BY LinkedIs DEF LinkingSame, Bit
  <2> QED BY <1>1, <2>1 DEF LinksOK
<1> QED BY <1>1, <1>2, <1>3, StepKeeps

LEMMA NameiIs ==
  ASSUME CallTypes, NEW p \in Procs, NEW c, NEW linked, Dirs!Namei(p, c, linked)
  PROVE  \E start \in Inums : \E names \in Seq(Steps) :
           /\ at' = [at EXCEPT ![p] = start] /\ path' = [path EXCEPT ![p] = names]
           /\ iref' = [iref EXCEPT ![start] = @ + 1]
           /\ c \in Dirs!Creates \cup {"unlink"} \/ linked # Dirs!NoInode => names # <<>>
           /\ where' = [where EXCEPT ![p] = IF names = <<>> THEN Dirs!Found(c, linked) ELSE "walk"]
<1> DEFINE Names0(arg) == IF arg[1] = "/" THEN Tail(arg) ELSE arg
           Start(arg) == IF arg[1] = "/" THEN Dirs!Root ELSE cwd[p]
<1>1. PICK arg \in Paths :
        /\ at' = [at EXCEPT ![p] = Start(arg)] /\ path' = [path EXCEPT ![p] = Names0(arg)]
        /\ iref' = [iref EXCEPT ![Start(arg)] = @ + 1]
        /\ Dirs!ByParent(c, linked) => Names0(arg) # <<>>
        /\ where' = [where EXCEPT ![p] = IF Names0(arg) = <<>> THEN Dirs!Found(c, linked) ELSE "walk"]
  BY DEF Dirs!Namei, Dirs!Set, Dirs!Iget, Dirs!Goto
<1>2. Names0(arg) \in Seq(Steps)
  BY DirsAssumption DEF Steps
<1>3. Start(arg) \in Inums
  BY DirsFinite DEF CallTypes
<1> QED BY <1>1, <1>2, <1>3 DEF Dirs!ByParent

-----------------------------------------------------------------------------
(* Xv6Dirs: the steps that free nothing                                    *)

LEMMA HandsOf ==
  ASSUME DirsInv, NEW p \in Procs
  PROVE  /\ CallTypes /\ inode \in Tables /\ lost \in [Inums -> Nat]
         /\ HandsIn(inode, p) /\ HoldsIn(inode, p)
         /\ at[p] = Dirs!NoInode => \A a \in Inums : lock[a] # p
BY DirsFinite DEF DirsInv, DirTypes, HoldsIn

LEMMA CallKeeps ==
  ASSUME DirsInv, NEW p \in Procs, Dirs!Call(p)
  PROVE  DirsInv'
<1> PICK w : w = inode
  OBVIOUS
<1>1. /\ CallTypes /\ w \in Tables /\ lost \in [Inums -> Nat] /\ HoldsIn(w, p)
      /\ where[p] = "user" /\ at[p] = Dirs!NoInode /\ dip[p] = Dirs!NoInode
      /\ \A a \in Inums : lock[a] # p
  BY HandsOf DEF HandsIn, Dirs!Call, Dirs!Runs
<1>2. inode' = w /\ lock' = lock /\ cwd' = cwd /\ fd' = fd /\ dip' = dip /\ lost' = lost
  BY DEF Dirs!Call
<1>3. Makes(w) /\ LocksKept(p)
  BY <1>1, <1>2, NoneFreed DEF LocksKept
<1>4. ASSUME NEW c \in Dirs!Creates, op' = [op EXCEPT ![p] = c],
             where' = [where EXCEPT ![p] = "begin"], iref' = iref, path' = path, at' = at
      PROVE  DirsInv'
  <2>1. CallTypes' /\ OthersSame(p)
    BY <1>1, <1>2, <1>4 DEF CallTypes, OthersSame, DirLabels
  <2>2. LinkingSame(p) /\ RefsMove(p)
    BY <1>1, <1>2, <1>4, DirsFinite DEF LinkingSame, RefsMove, HeldBy
  <2>3. HandsIn(w, p)' /\ HoldsIn(w, p)'
    BY <1>1, <1>2, <1>4 DEF CallTypes, HandsIn, HoldsIn, Has, Dirs!Creates
  <2> QED BY <1>3, <2>1, <2>2, <2>3, SameTable
<1>5. ASSUME NEW c \in {"open", "link", "unlink", "chdir"}, op' = [op EXCEPT ![p] = c],
             Dirs!Namei(p, c, Dirs!NoInode)
      PROVE  DirsInv'
  <2>1. PICK start \in Inums : \E names \in Seq(Steps) :
           /\ at' = [at EXCEPT ![p] = start] /\ path' = [path EXCEPT ![p] = names]
           /\ iref' = [iref EXCEPT ![start] = @ + 1]
           /\ c \in Dirs!Creates \cup {"unlink"} => names # <<>>
           /\ where' = [where EXCEPT ![p] = IF names = <<>> THEN Dirs!Found(c, Dirs!NoInode) ELSE "walk"]
    BY <1>1, <1>5, NameiIs
  <2>2. PICK names \in Seq(Steps) :
           /\ at' = [at EXCEPT ![p] = start] /\ path' = [path EXCEPT ![p] = names]
           /\ iref' = [iref EXCEPT ![start] = @ + 1]
           /\ c \in Dirs!Creates \cup {"unlink"} => names # <<>>
           /\ where' = [where EXCEPT ![p] = IF names = <<>> THEN Dirs!Found(c, Dirs!NoInode) ELSE "walk"]
    BY <2>1
  <2>3. Dirs!Found(c, Dirs!NoInode) = IF c = "link" \/ c = "unlink" THEN "begin" ELSE c
    BY <1>5 DEF Dirs!Found, Dirs!Creates
  <2>4. CallTypes' /\ OthersSame(p)
    BY <1>1, <1>2, <1>5, <2>2, <2>3 DEF CallTypes, OthersSame, DirLabels
  <2>5. LinkingSame(p) /\ RefsMove(p)
    BY <1>1, <1>2, <1>5, <2>2, DirsFinite DEF LinkingSame, RefsMove, HeldBy, CallTypes, Bit, Is
  <2>6. HandsIn(w, p)'
    BY <1>1, <1>2, <1>5, <2>2, <2>3, DirsFinite DEF CallTypes, HandsIn, Has, Dirs!Creates
  <2>7. HoldsIn(w, p)'
    BY <1>1, <1>2, <1>5, <2>2, <2>3, DirsFinite DEF CallTypes, HoldsIn, Has
  <2> QED BY <1>3, <2>4, <2>5, <2>6, <2>7, SameTable
<1> QED BY <1>4, <1>5, <1>2 DEF Dirs!Call, Dirs!Set, Dirs!Goto

LEMMA CloseKeeps ==
  ASSUME DirsInv, NEW p \in Procs, Dirs!Close(p)
  PROVE  DirsInv'
<1> PICK w : w = inode
  OBVIOUS
<1>1. /\ CallTypes /\ w \in Tables /\ lost \in [Inums -> Nat] /\ HoldsIn(w, p)
      /\ where[p] = "user" /\ at[p] = Dirs!NoInode /\ dip[p] = Dirs!NoInode
      /\ \A a \in Inums : lock[a] # p
  BY HandsOf DEF HandsIn, Dirs!Close, Dirs!Runs
<1>2. /\ inode' = w /\ lock' = lock /\ cwd' = cwd /\ dip' = dip /\ lost' = lost
      /\ iref' = iref /\ path' = path
      /\ fd[p] # Dirs!NoInode /\ fd' = [fd EXCEPT ![p] = Dirs!NoInode] /\ at' = [at EXCEPT ![p] = fd[p]]
      /\ op' = [op EXCEPT ![p] = "close"] /\ where' = [where EXCEPT ![p] = "begin"]
  BY DEF Dirs!Close, Dirs!Set, Dirs!Goto
<1>3. Makes(w) /\ LocksKept(p)
  BY <1>1, <1>2, NoneFreed DEF LocksKept
<1>4. CallTypes' /\ OthersSame(p)
  BY <1>1, <1>2 DEF CallTypes, OthersSame, DirLabels
<1>5. LinkingSame(p) /\ RefsMove(p)
  BY <1>1, <1>2, DirsFinite DEF LinkingSame, RefsMove, HeldBy, CallTypes, Bit, Is
<1>6. HandsIn(w, p)' /\ HoldsIn(w, p)'
  BY <1>1, <1>2, DirsFinite DEF CallTypes, HandsIn, HoldsIn, Has, Dirs!Creates
<1> QED BY <1>3, <1>4, <1>5, <1>6, SameTable

LEMMA BeginTransKeeps ==
  ASSUME DirsInv, NEW p \in Procs, Dirs!BeginTrans(p)
  PROVE  DirsInv'
<1> PICK w : w = inode
  OBVIOUS
<1>1. /\ CallTypes /\ w \in Tables /\ lost \in [Inums -> Nat] /\ HoldsIn(w, p) /\ HandsIn(w, p)
      /\ where[p] = "begin" /\ dip[p] = Dirs!NoInode
  BY HandsOf DEF HandsIn, Dirs!BeginTrans, Dirs!Runs
<1>2. inode' = w /\ lock' = lock /\ cwd' = cwd /\ fd' = fd /\ op' = op /\ dip' = dip /\ lost' = lost
  BY DEF Dirs!BeginTrans
<1>3. Makes(w) /\ LocksKept(p)
  BY <1>1, <1>2, NoneFreed DEF LocksKept
<1>4. CASE op[p] \in Dirs!Creates
  <2>1. Dirs!Namei(p, op[p], Dirs!NoInode) /\ at[p] = Dirs!NoInode
    BY <1>1, <1>4 DEF Dirs!BeginTrans, HandsIn
  <2>2. PICK start \in Inums : \E names \in Seq(Steps) :
           /\ at' = [at EXCEPT ![p] = start] /\ path' = [path EXCEPT ![p] = names]
           /\ iref' = [iref EXCEPT ![start] = @ + 1] /\ names # <<>>
           /\ where' = [where EXCEPT ![p] = "walk"]
    BY <1>1, <1>4, <2>1, NameiIs
  <2>3. PICK names \in Seq(Steps) :
           /\ at' = [at EXCEPT ![p] = start] /\ path' = [path EXCEPT ![p] = names]
           /\ iref' = [iref EXCEPT ![start] = @ + 1] /\ names # <<>>
           /\ where' = [where EXCEPT ![p] = "walk"]
    BY <2>2
  <2>4. CallTypes' /\ OthersSame(p)
    BY <1>1, <1>2, <2>3 DEF CallTypes, OthersSame, DirLabels
  <2>5. LinkingSame(p) /\ RefsMove(p)
    BY <1>1, <1>2, <2>1, <2>3, DirsFinite DEF LinkingSame, RefsMove, HeldBy, CallTypes, Bit, Is
  <2>6. HandsIn(w, p)'
    BY <1>1, <1>2, <1>4, <2>3, DirsFinite DEF CallTypes, HandsIn, Has
  <2>7. HoldsIn(w, p)'
    BY <1>1, <1>2, <2>1, <2>3, DirsFinite DEF CallTypes, HoldsIn, Has
  <2> QED BY <1>3, <2>4, <2>5, <2>6, <2>7, SameTable
<1>5. CASE op[p] \notin Dirs!Creates
  <2>1. /\ iref' = iref /\ path' = path /\ at' = at
        /\ where' = [where EXCEPT ![p] = IF op[p] = "close" THEN "put" ELSE op[p]]
        /\ op[p] \in {"link", "unlink", "close"} /\ at[p] \in Inums
    BY <1>1, <1>5 DEF Dirs!BeginTrans, Dirs!Goto, HandsIn, CallTypes
  <2>2. CallTypes' /\ OthersSame(p)
    BY <1>1, <1>2, <2>1 DEF CallTypes, OthersSame, DirLabels
  <2>3. LinkingSame(p) /\ RefsMove(p)
    BY <1>1, <1>2, <2>1 DEF LinkingSame, RefsMove, HeldBy
  <2>4. HandsIn(w, p)' /\ HoldsIn(w, p)'
    BY <1>1, <1>2, <2>1, DirsFinite DEF CallTypes, HandsIn, HoldsIn, Has, Dirs!Creates
  <2> QED BY <1>3, <2>2, <2>3, <2>4, SameTable
<1> QED BY <1>4, <1>5

LEMMA ReturnKeeps ==
  ASSUME DirsInv, NEW p \in Procs, Dirs!Return(p)
  PROVE  DirsInv'
<1> PICK w : w = inode
  OBVIOUS
<1>1. /\ CallTypes /\ w \in Tables /\ lost \in [Inums -> Nat] /\ HoldsIn(w, p)
      /\ where[p] = "return" /\ at[p] = Dirs!NoInode /\ dip[p] = Dirs!NoInode
  BY HandsOf DEF HandsIn, Dirs!Return, Dirs!Runs
<1>2. /\ inode' = w /\ lock' = lock /\ cwd' = cwd /\ fd' = fd /\ dip' = dip /\ lost' = lost
      /\ iref' = iref /\ at' = at
      /\ op' = [op EXCEPT ![p] = "none"] /\ path' = [path EXCEPT ![p] = <<>>]
      /\ where' = [where EXCEPT ![p] = "user"]
  BY DEF Dirs!Return, Dirs!Set, Dirs!Goto
<1>3. Makes(w) /\ LocksKept(p)
  BY <1>1, <1>2, NoneFreed DEF LocksKept
<1>4. CallTypes' /\ OthersSame(p)
  BY <1>1, <1>2 DEF CallTypes, OthersSame, DirLabels
<1>5. LinkingSame(p) /\ RefsMove(p)
  BY <1>1, <1>2, DirsFinite DEF LinkingSame, RefsMove, HeldBy, CallTypes
<1>6. HandsIn(w, p)' /\ HoldsIn(w, p)'
  BY <1>1, <1>2, DirsFinite DEF CallTypes, HandsIn, HoldsIn, Has
<1> QED BY <1>3, <1>4, <1>5, <1>6, SameTable

LEMMA CommitKeeps ==
  ASSUME DirsInv, NEW p \in Procs, Dirs!Commit(p)
  PROVE  DirsInv'
<1> PICK w : w = inode
  OBVIOUS
<1>1. /\ CallTypes /\ w \in Tables /\ lost \in [Inums -> Nat] /\ HoldsIn(w, p) /\ HandsIn(w, p)
      /\ where[p] = "commit"
  BY HandsOf DEF Dirs!Commit, Dirs!Runs
<1>2. /\ inode' = w /\ lock' = lock /\ cwd' = cwd /\ fd' = fd /\ dip' = dip /\ lost' = lost
      /\ iref' = iref /\ at' = at /\ op' = op /\ path' = path
      /\ where' = [where EXCEPT ![p] = "opened"]
  BY DEF Dirs!Commit, Dirs!Goto, Dirs!hands
<1>3. Makes(w) /\ LocksKept(p)
  BY <1>1, <1>2, NoneFreed DEF LocksKept
<1>4. CallTypes' /\ OthersSame(p)
  BY <1>1, <1>2 DEF CallTypes, OthersSame, DirLabels
<1>5. LinkingSame(p) /\ RefsMove(p)
  BY <1>1, <1>2 DEF LinkingSame, RefsMove, HeldBy
<1>6. HandsIn(w, p)' /\ HoldsIn(w, p)'
  BY <1>1, <1>2, DirsFinite DEF CallTypes, HandsIn, HoldsIn, Has
<1> QED BY <1>3, <1>4, <1>5, <1>6, SameTable

LEMMA OpenedKeeps ==
  ASSUME DirsInv, NEW p \in Procs, Dirs!Opened(p)
  PROVE  DirsInv'
<1> PICK w : w = inode
  OBVIOUS
<1>1. /\ CallTypes /\ w \in Tables /\ lost \in [Inums -> Nat] /\ HoldsIn(w, p)
      /\ where[p] = "opened" /\ Has(w, at[p], Allocated) /\ lock[at[p]] = p /\ dip[p] = Dirs!NoInode
  BY HandsOf DEF HandsIn, Dirs!Opened, Dirs!Runs
<1>2. /\ inode' = w /\ lock' = [lock EXCEPT ![at[p]] = None] /\ cwd' = cwd /\ dip' = dip /\ lost' = lost
      /\ iref' = iref /\ op' = op /\ path' = path
      /\ fd[p] = Dirs!NoInode /\ fd' = [fd EXCEPT ![p] = at[p]] /\ at' = [at EXCEPT ![p] = Dirs!NoInode]
      /\ where' = [where EXCEPT ![p] = "return"]
  BY DEF Dirs!Opened, Dirs!Set, Dirs!Goto, Dirs!Lock
<1>3. Makes(w)
  BY <1>1, <1>2, NoneFreed
<1>4. LocksKept(p)
  BY <1>1, <1>2, FilesAssumption DEF LocksKept, CallTypes
<1>5. CallTypes' /\ OthersSame(p)
  BY <1>1, <1>2 DEF CallTypes, OthersSame, DirLabels, Has
<1>6. LinkingSame(p) /\ RefsMove(p)
  BY <1>1, <1>2, DirsFinite DEF LinkingSame, RefsMove, HeldBy, CallTypes, Bit, Is, Has
<1>7. HandsIn(w, p)'
  BY <1>1, <1>2, DirsFinite DEF CallTypes, HandsIn, Has
<1>8. HoldsIn(w, p)'
  BY <1>1, <1>2, DirsFinite, FilesAssumption DEF CallTypes, HoldsIn, Has
<1> QED BY <1>3, <1>4, <1>5, <1>6, <1>7, <1>8, SameTable

-----------------------------------------------------------------------------
(* Xv6Dirs: the steps that put inodes                                      *)

TypesKept(w) == \A a \in Inums : inode[a].type # "free" => w[a].type = inode[a].type
LockedKept(p, w) ==
  \A a \in Inums : \A q \in Procs : q # p /\ lock[a] = q => w[a].entry = inode[a].entry

Unref(refs, x) == IF x = Dirs!NoInode THEN refs ELSE Dirs!Iput(refs, x)

LEMMA PutOne ==
  ASSUME NEW refs \in [Inums -> Int], NEW x \in Inums \cup {Dirs!NoInode}
  PROVE  /\ Unref(refs, x) \in [Inums -> Int]
         /\ \A a \in Inums : Unref(refs, x)[a] = refs[a] - Is(x, a)
<1>1. CASE x = Dirs!NoInode
  <2>1. \A a \in Inums : x # a
    BY <1>1, DirsFinite
  <2> QED BY <1>1, <2>1 DEF Unref, Bit, Is
<1>2. CASE x \in Inums
  <2>1. Unref(refs, x) = [refs EXCEPT ![x] = refs[x] - 1]
    BY <1>2, DirsFinite DEF Unref, Dirs!Iput
  <2> QED BY <1>2, <2>1 DEF Bit, Is
<1> QED BY <1>1, <1>2

LEMMA PutBothIs ==
  ASSUME CallTypes, NEW p \in Procs, NEW w, Dirs!PutBoth(p, w)
  PROVE  /\ Makes(w) /\ CallTypes' /\ OthersSame(p) /\ LocksKept(p) /\ RefsMove(p)
         /\ \A a \in Inums : lock'[a] # p
         /\ cwd' = cwd /\ fd' = fd /\ op' = op /\ path' = path /\ where'[p] = "return"
         /\ at'[p] = Dirs!NoInode /\ dip'[p] = Dirs!NoInode
<1> DEFINE r1 == IF dip[p] = Dirs!NoInode THEN iref ELSE Dirs!Iput(iref, dip[p])
           r2 == IF at[p] = Dirs!NoInode THEN r1 ELSE Dirs!Iput(r1, at[p])
<1>1. /\ Dirs!Settle(w, r2) /\ lock' = Dirs!Iunlock(p)
      /\ at' = [at EXCEPT ![p] = Dirs!NoInode] /\ dip' = [dip EXCEPT ![p] = Dirs!NoInode]
      /\ where' = [where EXCEPT ![p] = "return"]
      /\ cwd' = cwd /\ fd' = fd /\ op' = op /\ path' = path
  BY DEF Dirs!PutBoth, Dirs!Set, Dirs!Goto
<1>2. iref' = r2 /\ Makes(w)
  BY <1>1, Settles
<1>3. lock' = [a \in Inums |-> IF lock[a] = p THEN None ELSE lock[a]]
  BY <1>1 DEF Dirs!Iunlock, Inums
<1>4. /\ r1 \in [Inums -> Int]
      /\ \A a \in Inums : r1[a] = iref[a] - Is(dip[p], a)
  <2>1. iref \in [Inums -> Int] /\ dip[p] \in Inums \cup {Dirs!NoInode}
    BY DEF CallTypes
  <2> QED BY <2>1, PutOne DEF Unref
<1>5. /\ r2 \in [Inums -> Int]
      /\ \A a \in Inums : r2[a] = r1[a] - Is(at[p], a)
  <2>1. at[p] \in Inums \cup {Dirs!NoInode}
    BY DEF CallTypes
  <2>2. r2 = Unref(r1, at[p])
    BY DEF Unref
  <2> HIDE DEF r1, r2
  <2> QED BY <1>4, <2>1, <2>2, PutOne
<1>6. CallTypes'
  BY <1>1, <1>2, <1>3, <1>5 DEF CallTypes, DirLabels
<1>7. OthersSame(p)
  BY <1>1 DEF OthersSame, CallTypes
<1>8. LocksKept(p) /\ \A a \in Inums : lock'[a] # p
  BY <1>3, FilesAssumption DEF LocksKept
<1>9. RefsMove(p)
  <2> SUFFICES ASSUME NEW a \in Inums PROVE iref'[a] + HeldBy(p, a) = iref[a] + HeldBy(p, a)'
    BY DEF RefsMove
  <2> HIDE DEF r1, r2
  <2>1. iref'[a] = iref[a] - Is(dip[p], a) - Is(at[p], a)
    BY <1>2, <1>4, <1>5
  <2>2. at'[p] # a /\ dip'[p] # a /\ cwd'[p] = cwd[p] /\ fd'[p] = fd[p]
    BY <1>1, DirsFinite DEF CallTypes
  <2>3. Is(at'[p], a) = 0 /\ Is(dip'[p], a) = 0
    BY <2>2 DEF Bit, Is
  <2>4. HeldBy(p, a)' = Is(cwd[p], a) + Is(fd[p], a) + 0 + 0
    BY <2>2, <2>3 DEF HeldBy
  <2>5. HeldBy(p, a) = Is(cwd[p], a) + Is(fd[p], a) + Is(at[p], a) + Is(dip[p], a)
    BY DEF HeldBy
  <2>6. /\ Is(cwd[p], a) \in Nat /\ Is(fd[p], a) \in Nat /\ Is(at[p], a) \in Nat
        /\ Is(dip[p], a) \in Nat /\ iref[a] \in Int
    BY DEF Bit, Is, CallTypes
  <2> QED BY <2>1, <2>4, <2>5, <2>6
<1>10. where'[p] = "return" /\ at'[p] = Dirs!NoInode /\ dip'[p] = Dirs!NoInode
  BY <1>1 DEF CallTypes
<1> QED BY <1>1, <1>2, <1>6, <1>7, <1>8, <1>9, <1>10

LEMMA PutBothKeeps ==
  ASSUME DirsInv, NEW p \in Procs, NEW w \in Tables, Dirs!PutBoth(p, w), TypesKept(w),
         LockedKept(p, w), LinksOK(w, Linked', lost)
  PROVE  DirsInv'
<1>1. CallTypes /\ HoldsIn(inode, p)
  BY HandsOf
<1>2. /\ Makes(w) /\ CallTypes' /\ OthersSame(p) /\ LocksKept(p) /\ RefsMove(p)
      /\ \A a \in Inums : lock'[a] # p
      /\ cwd' = cwd /\ fd' = fd /\ op' = op /\ path' = path /\ where'[p] = "return"
      /\ at'[p] = Dirs!NoInode /\ dip'[p] = Dirs!NoInode
  BY <1>1, PutBothIs
<1>3. Steady(p, w)
  BY <1>2 DEF Steady, TypesKept, LockedKept, LocksKept
<1>4. HandsIn(w, p)'
  BY <1>2 DEF HandsIn
<1>5. HoldsIn(w, p)'
  BY <1>1, <1>2 DEF HoldsIn, Has, TypesKept, Allocated
<1> QED BY <1>2, <1>3, <1>4, <1>5, StepKeeps

\* Putting what is in hand, with all inodes as they are.
LEMMA PutKeepsDirs ==
  ASSUME DirsInv, NEW p \in Procs, Dirs!PutBoth(p, inode),
         op[p] # "link" \/ dip[p] = Dirs!NoInode
  PROVE  DirsInv'
<1> PICK w : w = inode
  OBVIOUS
<1>1. CallTypes /\ w \in Tables /\ LinksOK(w, Linked, lost)
  BY DEF DirsInv, DirTypes
<1>2. Dirs!PutBoth(p, w)
  OBVIOUS
<1>3. TypesKept(w) /\ LockedKept(p, w)
  BY DEF TypesKept, LockedKept
<1>4. OthersSame(p) /\ dip'[p] = Dirs!NoInode
  BY <1>1, <1>2, PutBothIs
<1>5. \A a \in Inums : Linked'[a] = Linked[a]
  BY <1>4, LinkedIs, DirsFinite DEF Bit, Is
<1>6. LinksOK(w, Linked', lost)
  BY <1>1, <1>5 DEF LinksOK
<1> QED BY <1>1, <1>2, <1>3, <1>6, PutBothKeeps

LEMMA NotOpenedKeeps ==
  ASSUME DirsInv, NEW p \in Procs, Dirs!NotOpened(p) \/ Dirs!Put(p)
  PROVE  DirsInv'
<1>1. dip[p] = Dirs!NoInode
  BY HandsOf DEF HandsIn, Dirs!NotOpened, Dirs!Put, Dirs!Runs
<1> QED BY <1>1, PutKeepsDirs DEF Dirs!NotOpened, Dirs!Put

\* A panic changes nothing else.
LEMMA PanicKeeps ==
  ASSUME DirsInv, NEW message, Dirs!Panic(message) \/ UNCHANGED dirVars
  PROVE  DirsInv'
<1>1. UNCHANGED <<inode, iref, lock, cwd, fd, where, op, path, at, dip, lost>>
  BY DEF Dirs!Panic, Dirs!hands, dirVars
<1>2. DirTypes' /\ LinksOK(inode, Linked, lost)'
  <2>1. DirTypes'
    BY <1>1 DEF DirsInv, DirTypes, CallTypes
  <2>2. LinksOK(inode, Linked, lost)'
    <3>1. \A a \in Inums : EntriesIn(inode, a)' = EntriesIn(inode, a) /\ SubsIn(inode, a)' = SubsIn(inode, a)
      BY <1>1 DEF EntriesIn, SubsIn
    <3>2. Linked' = Linked
      BY <1>1 DEF Linked
    <3> QED BY <1>1, <3>1, <3>2 DEF DirsInv, LinksOK
  <2> QED BY <2>1, <2>2
<1>3. RefsCountHolders'
  BY <1>1, RefsCounted DEF DirsInv
<1>4. \A p \in Procs : HandsIn(inode, p)' /\ HoldsIn(inode, p)'
  BY <1>1 DEF DirsInv, HandsIn, HoldsIn, Has
<1> QED BY <1>2, <1>3, <1>4 DEF DirsInv

LEMMA ExistingKeeps ==
  ASSUME DirsInv, NEW p \in Procs, Dirs!Existing(p)
  PROVE  DirsInv'
<1> PICK w : w = inode
  OBVIOUS
<1>1. /\ CallTypes /\ w \in Tables /\ lost \in [Inums -> Nat] /\ HoldsIn(w, p)
      /\ where[p] = "existing" /\ at[p] \in Inums /\ dip[p] = Dirs!NoInode /\ op[p] \in Dirs!Creates
      /\ lock[at[p]] = None
  BY HandsOf DEF HandsIn, Dirs!Existing, Dirs!Runs
<1>2. CASE Dirs!Panic("ilock: no type")
  BY <1>2, PanicKeeps
<1>3. CASE Dirs!PutBoth(p, inode)
  BY <1>1, <1>3, PutKeepsDirs
<1>4. ASSUME inode[at[p]].type = "file", Dirs!Lock(at[p], p), Dirs!Goto(p, "commit"),
             UNCHANGED <<inode, iref, log, cwd, fd, Dirs!hands, calls, panic, lost>>
      PROVE  DirsInv'
  <2>1. /\ inode' = w /\ lock' = [lock EXCEPT ![at[p]] = p] /\ cwd' = cwd /\ fd' = fd /\ dip' = dip
        /\ lost' = lost /\ iref' = iref /\ at' = at /\ op' = op /\ path' = path
        /\ where' = [where EXCEPT ![p] = "commit"]
    BY <1>4 DEF Dirs!Goto, Dirs!Lock, Dirs!hands
  <2>2. Makes(w)
    BY <1>1, <2>1, NoneFreed
  <2>3. LocksKept(p)
    BY <1>1, <2>1, FilesAssumption DEF LocksKept, CallTypes
  <2>4. CallTypes' /\ OthersSame(p)
    BY <1>1, <2>1 DEF CallTypes, OthersSame, DirLabels
  <2>5. LinkingSame(p) /\ RefsMove(p)
    BY <1>1, <2>1 DEF LinkingSame, RefsMove, HeldBy
  <2>6. HandsIn(w, p)'
    BY <1>1, <1>4, <2>1, DirsFinite DEF CallTypes, HandsIn, Has, Allocated
  <2>7. HoldsIn(w, p)'
    BY <1>1, <1>4, <2>1, DirsFinite DEF CallTypes, HoldsIn, Has, Allocated
  <2> QED BY <2>2, <2>3, <2>4, <2>5, <2>6, <2>7, SameTable
<1> QED BY <1>2, <1>3, <1>4 DEF Dirs!Existing

LEMMA OpenKeeps ==
  ASSUME DirsInv, NEW p \in Procs, Dirs!Open(p)
  PROVE  DirsInv'
<1> PICK w : w = inode
  OBVIOUS
<1>1. /\ CallTypes /\ w \in Tables /\ lost \in [Inums -> Nat] /\ HoldsIn(w, p)
      /\ where[p] = "open" /\ at[p] \in Inums /\ dip[p] = Dirs!NoInode /\ lock[at[p]] = None
  BY HandsOf DEF HandsIn, Dirs!Open, Dirs!Runs
<1>2. CASE Dirs!Panic("ilock: no type")
  BY <1>2, PanicKeeps
<1>3. CASE Dirs!PutBoth(p, inode)
  BY <1>1, <1>3, PutKeepsDirs
<1>4. ASSUME inode[at[p]].type # "free", Dirs!Lock(at[p], p), Dirs!Goto(p, "opened"),
             UNCHANGED <<inode, iref, log, cwd, fd, Dirs!hands, calls, panic, lost>>
      PROVE  DirsInv'
  <2>1. /\ inode' = w /\ lock' = [lock EXCEPT ![at[p]] = p] /\ cwd' = cwd /\ fd' = fd /\ dip' = dip
        /\ lost' = lost /\ iref' = iref /\ at' = at /\ op' = op /\ path' = path
        /\ where' = [where EXCEPT ![p] = "opened"]
    BY <1>4 DEF Dirs!Goto, Dirs!Lock, Dirs!hands
  <2>2. Makes(w) /\ w[at[p]].type \in Allocated
    BY <1>1, <1>4, <2>1, NoneFreed, InTable DEF Allocated
  <2>3. LocksKept(p)
    BY <1>1, <2>1, FilesAssumption DEF LocksKept, CallTypes
  <2>4. CallTypes' /\ OthersSame(p)
    BY <1>1, <2>1 DEF CallTypes, OthersSame, DirLabels
  <2>5. LinkingSame(p) /\ RefsMove(p)
    BY <1>1, <2>1 DEF LinkingSame, RefsMove, HeldBy
  <2>6. HandsIn(w, p)'
    BY <1>1, <2>1, <2>2, DirsFinite DEF CallTypes, HandsIn, Has
  <2>7. HoldsIn(w, p)'
    BY <1>1, <2>1, <2>2, DirsFinite DEF CallTypes, HoldsIn, Has
  <2> QED BY <2>2, <2>3, <2>4, <2>5, <2>6, <2>7, SameTable
<1> QED BY <1>2, <1>3, <1>4 DEF Dirs!Open

LEMMA GetOne ==
  ASSUME NEW refs \in [Inums -> Int], NEW x \in Inums
  PROVE  /\ Dirs!Iget(refs, x) \in [Inums -> Int]
         /\ \A a \in Inums : Dirs!Iget(refs, x)[a] = refs[a] + Is(x, a)
<1>1. Dirs!Iget(refs, x) = [refs EXCEPT ![x] = refs[x] + 1]
  BY DEF Dirs!Iget
<1> QED BY <1>1 DEF Bit, Is

LEMMA PutGot ==
  ASSUME NEW refs \in [Inums -> Int], NEW x \in Inums, NEW y \in Inums
  PROVE  /\ Dirs!Iput(refs, y) \in [Inums -> Int]
         /\ \A a \in Inums : Dirs!Iput(refs, y)[a] = refs[a] - Is(y, a)
         /\ Dirs!Iput(Dirs!Iget(refs, x), y) \in [Inums -> Int]
         /\ \A a \in Inums : Dirs!Iput(Dirs!Iget(refs, x), y)[a] = refs[a] + Is(x, a) - Is(y, a)
<1> DEFINE got == Dirs!Iget(refs, x)
<1>1. got \in [Inums -> Int] /\ \A a \in Inums : got[a] = refs[a] + Is(x, a)
  BY GetOne
<1>2. Dirs!Iput(refs, y) = Unref(refs, y) /\ Dirs!Iput(got, y) = Unref(got, y)
  BY DirsFinite DEF Unref
<1> HIDE DEF got
<1>3. Unref(refs, y) \in [Inums -> Int] /\ \A a \in Inums : Unref(refs, y)[a] = refs[a] - Is(y, a)
  BY PutOne
<1>4. Unref(got, y) \in [Inums -> Int] /\ \A a \in Inums : Unref(got, y)[a] = got[a] - Is(y, a)
  BY <1>1, PutOne
<1>5. ASSUME NEW a \in Inums PROVE Unref(got, y)[a] = refs[a] + Is(x, a) - Is(y, a)
  <2>1. Unref(got, y)[a] = got[a] - Is(y, a) /\ got[a] = refs[a] + Is(x, a) /\ refs[a] \in Int
    BY <1>1, <1>4
  <2>2. Is(x, a) \in Int /\ Is(y, a) \in Int
    BY DEF Is
  <2> QED BY <2>1, <2>2
<1>6. Dirs!Iput(got, y) \in [Inums -> Int] /\ \A a \in Inums : Dirs!Iput(got, y)[a] = refs[a] + Is(x, a) - Is(y, a)
  BY <1>2, <1>4, <1>5
<1>7. Dirs!Iput(refs, y) \in [Inums -> Int] /\ \A a \in Inums : Dirs!Iput(refs, y)[a] = refs[a] - Is(y, a)
  BY <1>2, <1>3
<1> QED BY <1>6, <1>7 DEF got

LEMMA PutAlone ==
  ASSUME NEW refs \in [Inums -> Int], NEW y \in Inums
  PROVE  /\ Dirs!Iput(refs, y) \in [Inums -> Int]
         /\ \A a \in Inums : Dirs!Iput(refs, y)[a] = refs[a] - Is(y, a)
BY PutGot

LEMMA LookupIs ==
  ASSUME inode \in Tables, NEW a \in Inums, inode[a].type = "dir", NEW m \in Steps
  PROVE  /\ Dirs!Lookup(a, m) \in Inums \cup {Dirs!NoInode}
         /\ m = ".." => Dirs!Lookup(a, m) \in Inums
         /\ m # ".." => m \in Names /\ Dirs!Lookup(a, m) = inode[a].entry[m]
BY InTable DEF Dirs!Lookup, Steps, WellFormed

LEMMA HeadTail ==
  ASSUME NEW s \in Seq(Steps), s # <<>>
  PROVE  Head(s) \in Steps /\ Tail(s) \in Seq(Steps) /\ Len(s) \in Nat /\ (Len(s) # 1 => Tail(s) # <<>>)
<1>1. Head(s) \in Steps /\ Tail(s) \in Seq(Steps) /\ Len(s) \in Nat /\ Len(Tail(s)) = Len(s) - 1
  OBVIOUS
<1>2. Tail(s) = <<>> => Len(Tail(s)) = 0
  <2> DEFINE rest == Tail(s)
  <2>1. rest = <<>> => Len(rest) = 0
    <3> HIDE DEF rest
    <3> QED OBVIOUS
  <2> QED BY <2>1
<1> QED BY <1>1, <1>2

\* Where namei goes on.
LEMMA FoundIs ==
  ASSUME NEW c, NEW linked
  PROVE  /\ c \in Dirs!Creates => Dirs!Found(c, linked) = "create"
         /\ c = "link" => Dirs!Found(c, linked) = IF linked # Dirs!NoInode THEN "dirlink" ELSE "begin"
         /\ c = "unlink" => Dirs!Found(c, linked) = "begin"
         /\ c \in {"open", "chdir"} => Dirs!Found(c, linked) = c
<1>1. c \in Dirs!Creates => Dirs!Found(c, linked) = "create"
  BY DEF Dirs!Found, Dirs!Creates
<1>2. c = "link" => Dirs!Found(c, linked) = IF linked # Dirs!NoInode THEN "dirlink" ELSE "begin"
  <2>1. CASE linked = Dirs!NoInode
    BY <2>1 DEF Dirs!Found, Dirs!Creates
  <2>2. CASE linked # Dirs!NoInode
    BY <2>2 DEF Dirs!Found, Dirs!Creates
  <2> QED BY <2>1, <2>2
<1>3. c = "unlink" => Dirs!Found(c, linked) = "begin"
  BY DEF Dirs!Found, Dirs!Creates
<1>4. c \in {"open", "chdir"} => Dirs!Found(c, linked) = c
  BY DEF Dirs!Found, Dirs!Creates
<1> QED BY <1>1, <1>2, <1>3, <1>4

LEMMA RefsMoveAt ==
  ASSUME CallTypes, NEW p \in Procs, cwd'[p] = cwd[p], fd'[p] = fd[p], dip'[p] = dip[p],
         \A a \in Inums : iref'[a] = iref[a] + Is(at'[p], a) - Is(at[p], a)
  PROVE  RefsMove(p)
<1> SUFFICES ASSUME NEW a \in Inums PROVE iref'[a] + HeldBy(p, a) = iref[a] + HeldBy(p, a)'
  BY DEF RefsMove
<1> DEFINE x == Is(cwd[p], a)
           y == Is(fd[p], a)
           z == Is(dip[p], a)
           s == Is(at[p], a)
           t == Is(at'[p], a)
           u == iref[a]
           w == iref'[a]
<1>1. HeldBy(p, a) = x + y + s + z /\ HeldBy(p, a)' = x + y + t + z
  BY DEF HeldBy
<1>2. x \in Int /\ y \in Int /\ z \in Int /\ s \in Int /\ t \in Int /\ u \in Int
  BY DEF Is, CallTypes
<1>3. w = u + t - s
  OBVIOUS
<1> HIDE DEF x, y, z, s, t, u, w
<1>4. w + (x + y + s + z) = u + (x + y + t + z)
  BY <1>2, <1>3
<1> QED BY <1>1, <1>4 DEF u, w

LEMMA WalkKeeps ==
  ASSUME DirsInv, NEW p \in Procs, Dirs!Walk(p)
  PROVE  DirsInv'
<1> PICK w : w = inode
  OBVIOUS
<1> DEFINE a0 == at[p]
           next == Dirs!Lookup(at[p], Head(path[p]))
<1>1. /\ CallTypes /\ w \in Tables /\ lost \in [Inums -> Nat] /\ HoldsIn(w, p)
      /\ where[p] = "walk" /\ at[p] \in Inums /\ path[p] # <<>> /\ path[p] \in Seq(Steps)
      /\ op[p] \in Dirs!Creates \cup {"open", "link", "unlink", "chdir"}
      /\ dip[p] # Dirs!NoInode => op[p] = "link"
      /\ dip[p] \in Inums \cup {Dirs!NoInode}
      /\ lock[at[p]] = None
  BY HandsOf DEF HandsIn, Dirs!Walk, Dirs!Runs, CallTypes
<1>2. \A a \in Inums : lock[a] # p
  BY <1>1, FilesAssumption DEF HoldsIn
<1>3. CASE Dirs!Panic("ilock: no type")
  BY <1>3, PanicKeeps
<1>4. ASSUME Dirs!Settle(inode, Dirs!Iput(iref, at[p])), Dirs!Goto(p, Dirs!NotFound(p)),
             at' = Dirs!Set(at, p, Dirs!NoInode), path' = path,
             UNCHANGED <<lock, log, cwd, fd, op, dip, calls>>
      PROVE  DirsInv'
  <2>1. iref' = Dirs!Iput(iref, at[p]) /\ Makes(w)
    BY <1>4, Settles
  <2>2. iref' \in [Inums -> Int] /\ \A a \in Inums : iref'[a] = iref[a] - Is(at[p], a)
    BY <1>1, <2>1, PutAlone DEF CallTypes
  <2>3. /\ lock' = lock /\ cwd' = cwd /\ fd' = fd /\ op' = op /\ dip' = dip
        /\ at' = [at EXCEPT ![p] = Dirs!NoInode]
        /\ where' = [where EXCEPT ![p] =
             IF op[p] = "link" /\ dip[p] # Dirs!NoInode THEN "bad" ELSE "return"]
    BY <1>4 DEF Dirs!Goto, Dirs!Set, Dirs!NotFound
  <2>4. CallTypes' /\ OthersSame(p) /\ LocksKept(p)
    BY <1>1, <1>4, <2>2, <2>3 DEF CallTypes, OthersSame, DirLabels, LocksKept
  <2>5. LinkingSame(p)
    BY <2>3 DEF LinkingSame
  <2>6. RefsMove(p)
    <3>1. cwd'[p] = cwd[p] /\ fd'[p] = fd[p] /\ dip'[p] = dip[p] /\ at'[p] = Dirs!NoInode
      BY <1>1, <2>3 DEF CallTypes
    <3>2. ASSUME NEW a \in Inums PROVE iref'[a] = iref[a] + Is(at'[p], a) - Is(at[p], a)
      <4>1. Is(at'[p], a) = 0
        BY <3>1, DirsFinite DEF Is
      <4>2. iref[a] \in Int /\ Is(at[p], a) \in Int
        BY <1>1 DEF CallTypes, Is
      <4> QED BY <2>2, <4>1, <4>2
    <3> QED BY <1>1, <3>1, <3>2, RefsMoveAt
  <2>7. HandsIn(w, p)' /\ HoldsIn(w, p)'
    BY <1>1, <1>2, <2>3, DirsFinite DEF CallTypes, HandsIn, HoldsIn, Has
  <2> QED BY <2>1, <2>4, <2>5, <2>6, <2>7, SameTable
<1>5. ASSUME inode[at[p]].type = "dir", Dirs!ByParent(op[p], dip[p]),
             Dirs!Goto(p, Dirs!Found(op[p], dip[p])),
             UNCHANGED <<path, at, inode, iref, panic, lost, lock, log, cwd, fd, op, dip, calls>>
      PROVE  DirsInv'
  <2>1. Makes(w)
    BY <1>1, <1>5, NoneFreed
  <2>2. \/ op[p] \in Dirs!Creates /\ Dirs!Found(op[p], dip[p]) = "create"
        \/ op[p] = "unlink" /\ Dirs!Found(op[p], dip[p]) = "begin"
        \/ op[p] = "link" /\ dip[p] # Dirs!NoInode /\ Dirs!Found(op[p], dip[p]) = "dirlink"
    BY <1>1, <1>5, FoundIs DEF Dirs!ByParent
  <2>3. where' = [where EXCEPT ![p] = Dirs!Found(op[p], dip[p])]
    BY <1>5 DEF Dirs!Goto
  <2>4. CallTypes' /\ OthersSame(p) /\ LocksKept(p)
    BY <1>1, <1>5, <2>2, <2>3 DEF CallTypes, OthersSame, DirLabels, LocksKept
  <2>5. LinkingSame(p) /\ RefsMove(p)
    BY <1>5 DEF LinkingSame, RefsMove, HeldBy
  <2>6. HandsIn(w, p)'
    BY <1>1, <1>5, <2>2, <2>3, DirsFinite DEF CallTypes, HandsIn, Has, Dirs!Creates
  <2>7. HoldsIn(w, p)'
    BY <1>1, <1>5 DEF HoldsIn, Has
  <2> QED BY <2>1, <2>4, <2>5, <2>6, <2>7, SameTable
<1>6. ASSUME inode[at[p]].type = "dir", ~(Dirs!ByParent(op[p], dip[p]) /\ Len(path[p]) = 1),
             next # Dirs!NoInode, Dirs!Settle(inode, Dirs!Iput(Dirs!Iget(iref, next), at[p])),
             at' = Dirs!Set(at, p, next), path' = Dirs!Set(path, p, Tail(path[p])),
             Dirs!Goto(p, IF Len(path[p]) = 1 THEN Dirs!Found(op[p], dip[p]) ELSE "walk"),
             UNCHANGED <<lock, log, cwd, fd, op, dip, calls>>
      PROVE  DirsInv'
  <2>1. next \in Inums /\ Tail(path[p]) \in Seq(Steps) /\ (Len(path[p]) # 1 => Tail(path[p]) # <<>>)
    BY <1>1, <1>6, LookupIs, HeadTail
  <2> HIDE DEF next
  <2>2. iref' = Dirs!Iput(Dirs!Iget(iref, next), at[p]) /\ Makes(w)
    BY <1>6, Settles
  <2>3. iref' \in [Inums -> Int] /\ \A a \in Inums : iref'[a] = iref[a] + Is(next, a) - Is(at[p], a)
    <3>1. iref \in [Inums -> Int] /\ at[p] \in Inums /\ next \in Inums
      BY <1>1, <2>1 DEF CallTypes
    <3>2. PICK refs : refs = Dirs!Iput(Dirs!Iget(iref, next), at[p])
      OBVIOUS
    <3>3. refs \in [Inums -> Int] /\ \A a \in Inums : refs[a] = iref[a] + Is(next, a) - Is(at[p], a)
      BY <3>1, <3>2, PutGot
    <3> QED BY <3>2, <3>3, <2>2
  <2>4. /\ lock' = lock /\ cwd' = cwd /\ fd' = fd /\ op' = op /\ dip' = dip
        /\ at' = [at EXCEPT ![p] = next] /\ path' = [path EXCEPT ![p] = Tail(path[p])]
        /\ where' = [where EXCEPT ![p] =
             IF Len(path[p]) = 1 THEN Dirs!Found(op[p], dip[p]) ELSE "walk"]
    BY <1>6 DEF Dirs!Goto, Dirs!Set
  <2>5. \/ Len(path[p]) # 1 /\ where'[p] = "walk"
        \/ op[p] = "link" /\ dip[p] = Dirs!NoInode /\ where'[p] = "begin"
        \/ op[p] = "open" /\ dip[p] = Dirs!NoInode /\ where'[p] = "open"
        \/ op[p] = "chdir" /\ dip[p] = Dirs!NoInode /\ where'[p] = "chdir"
    BY <1>1, <1>6, <2>4, FoundIs DEF Dirs!ByParent, CallTypes
  <2>6. CallTypes' /\ OthersSame(p) /\ LocksKept(p)
    <3>1. where'[p] \in DirLabels
      BY <2>5 DEF DirLabels
    <3> QED BY <1>1, <2>1, <2>3, <2>4, <3>1 DEF CallTypes, OthersSame, LocksKept
  <2>7. LinkingSame(p)
    BY <2>4 DEF LinkingSame
  <2>8. RefsMove(p)
    <3>1. cwd'[p] = cwd[p] /\ fd'[p] = fd[p] /\ dip'[p] = dip[p] /\ at'[p] = next
      BY <1>1, <2>4 DEF CallTypes
    <3> QED BY <1>1, <2>3, <3>1, RefsMoveAt
  <2>9. HandsIn(w, p)'
    BY <1>1, <2>1, <2>4, <2>5, DirsFinite DEF CallTypes, HandsIn, Has, Dirs!Creates
  <2>10. HoldsIn(w, p)'
    BY <1>1, <1>2, <2>4 DEF HoldsIn, Has
  <2> QED BY <2>2, <2>6, <2>7, <2>8, <2>9, <2>10, SameTable
<1> QED BY <1>3, <1>4, <1>5, <1>6, Zenon DEF Dirs!Walk

\* References that move with one hand, or two.
LEMMA RefsMoveDip ==
  ASSUME CallTypes, NEW p \in Procs, cwd'[p] = cwd[p], fd'[p] = fd[p], at'[p] = at[p],
         \A a \in Inums : iref'[a] = iref[a] + Is(dip'[p], a) - Is(dip[p], a)
  PROVE  RefsMove(p)
<1> SUFFICES ASSUME NEW a \in Inums PROVE iref'[a] + HeldBy(p, a) = iref[a] + HeldBy(p, a)'
  BY DEF RefsMove
<1> DEFINE x == Is(cwd[p], a)
           y == Is(fd[p], a)
           z == Is(at[p], a)
           d0 == Is(dip[p], a)
           d1 == Is(dip'[p], a)
           r0 == iref[a]
           r1 == iref'[a]
<1>1. HeldBy(p, a) = x + y + z + d0 /\ HeldBy(p, a)' = x + y + z + d1
  BY DEF HeldBy
<1>2. x \in Int /\ y \in Int /\ z \in Int /\ d0 \in Int /\ d1 \in Int /\ r0 \in Int /\ r1 = r0 + d1 - d0
  BY DEF Is, CallTypes
<1> HIDE DEF x, y, z, d0, d1, r0, r1
<1>3. r1 + (x + y + z + d0) = r0 + (x + y + z + d1)
  BY <1>2
<1> QED BY <1>1, <1>3 DEF r0, r1

LEMMA RefsMoveCwdAt ==
  ASSUME CallTypes, NEW p \in Procs, fd'[p] = fd[p], dip'[p] = dip[p],
         \A a \in Inums :
           iref'[a] = iref[a] - Is(cwd[p], a) + Is(cwd'[p], a) - Is(at[p], a) + Is(at'[p], a)
  PROVE  RefsMove(p)
<1> SUFFICES ASSUME NEW a \in Inums PROVE iref'[a] + HeldBy(p, a) = iref[a] + HeldBy(p, a)'
  BY DEF RefsMove
<1> DEFINE c0 == Is(cwd[p], a)
           c1 == Is(cwd'[p], a)
           y == Is(fd[p], a)
           a0 == Is(at[p], a)
           a1 == Is(at'[p], a)
           z == Is(dip[p], a)
           r0 == iref[a]
           r1 == iref'[a]
<1>1. HeldBy(p, a) = c0 + y + a0 + z /\ HeldBy(p, a)' = c1 + y + a1 + z
  BY DEF HeldBy
<1>2. /\ c0 \in Int /\ c1 \in Int /\ y \in Int /\ a0 \in Int /\ a1 \in Int /\ z \in Int /\ r0 \in Int
      /\ r1 = r0 - c0 + c1 - a0 + a1
  BY DEF Is, CallTypes
<1> HIDE DEF c0, c1, y, a0, a1, z, r0, r1
<1>3. r1 + (c0 + y + a0 + z) = r0 + (c1 + y + a1 + z)
  BY <1>2
<1> QED BY <1>1, <1>3 DEF r0, r1

LEMMA UnlinkKeeps ==
  ASSUME DirsInv, NEW p \in Procs, Dirs!Unlink(p)
  PROVE  DirsInv'
<1> PICK w : w = inode
  OBVIOUS
<1> DEFINE m == Head(path[p])
           next == Dirs!Lookup(at[p], m)
<1>1. /\ CallTypes /\ w \in Tables /\ lost \in [Inums -> Nat] /\ HoldsIn(w, p)
      /\ where[p] = "unlink" /\ Has(w, at[p], {"dir"}) /\ dip[p] = Dirs!NoInode /\ op[p] = "unlink"
      /\ path[p] # <<>> /\ path[p] \in Seq(Steps) /\ lock[at[p]] = None
  BY HandsOf DEF HandsIn, Dirs!Unlink, Dirs!Runs, CallTypes
<1>2. CASE Dirs!PutBoth(p, inode)
  BY <1>1, <1>2, PutKeepsDirs
<1>3. ASSUME m # "..", next # Dirs!NoInode, Dirs!Lock(at[p], p), dip' = Dirs!Set(dip, p, next),
             iref' = Dirs!Iget(iref, next), Dirs!Goto(p, "unlinkInode"),
             UNCHANGED <<inode, log, cwd, fd, op, path, at, calls, panic, lost>>
      PROVE  DirsInv'
  <2>1. m \in Names /\ next \in Inums /\ w[at[p]].entry[m] = next
    BY <1>1, <1>3, LookupIs, HeadTail DEF Has
  <2> HIDE DEF next
  <2>2. iref' \in [Inums -> Int] /\ \A a \in Inums : iref'[a] = iref[a] + Is(next, a)
    BY <1>1, <1>3, <2>1, GetOne DEF CallTypes
  <2>3. /\ inode' = w /\ lock' = [lock EXCEPT ![at[p]] = p] /\ cwd' = cwd /\ fd' = fd /\ lost' = lost
        /\ dip' = [dip EXCEPT ![p] = next] /\ at' = at /\ op' = op /\ path' = path
        /\ where' = [where EXCEPT ![p] = "unlinkInode"]
    BY <1>3 DEF Dirs!Goto, Dirs!Lock, Dirs!Set
  <2>4. Makes(w)
    BY <1>1, <2>3, NoneFreed
  <2>5. LocksKept(p)
    BY <1>1, <2>3, FilesAssumption DEF LocksKept, CallTypes
  <2>6. CallTypes' /\ OthersSame(p)
    BY <1>1, <2>1, <2>2, <2>3 DEF CallTypes, OthersSame, DirLabels, Has
  <2>7. LinkingSame(p)
    BY <1>1, <2>3 DEF LinkingSame
  <2>8. RefsMove(p)
    <3>1. cwd'[p] = cwd[p] /\ fd'[p] = fd[p] /\ at'[p] = at[p] /\ dip'[p] = next
      BY <1>1, <2>3 DEF CallTypes
    <3>2. \A a \in Inums : iref'[a] = iref[a] + Is(next, a) - Is(dip[p], a)
      <4> SUFFICES ASSUME NEW a \in Inums PROVE iref'[a] = iref[a] + Is(next, a) - Is(dip[p], a)
        OBVIOUS
      <4>1. Is(dip[p], a) = 0
        BY <1>1, DirsFinite DEF Is
      <4>2. Is(next, a) \in Int /\ iref[a] \in Int
        BY <1>1 DEF Is, CallTypes
      <4> QED BY <2>2, <4>1, <4>2
    <3> QED BY <1>1, <3>1, <3>2, RefsMoveDip
  <2>9. HandsIn(w, p)'
    BY <1>1, <2>1, <2>3, DirsFinite DEF CallTypes, HandsIn, Has
  <2>10. HoldsIn(w, p)'
    BY <1>1, <2>3, DirsFinite DEF CallTypes, HoldsIn, Has, Allocated
  <2> QED BY <2>4, <2>5, <2>6, <2>7, <2>8, <2>9, <2>10, SameTable
<1> QED BY <1>2, <1>3 DEF Dirs!Unlink

LEMMA ChdirKeeps ==
  ASSUME DirsInv, NEW p \in Procs, Dirs!Chdir(p)
  PROVE  DirsInv'
<1> PICK w : w = inode
  OBVIOUS
<1>1. /\ CallTypes /\ w \in Tables /\ lost \in [Inums -> Nat] /\ HoldsIn(w, p)
      /\ where[p] = "chdir" /\ at[p] \in Inums /\ dip[p] = Dirs!NoInode /\ lock[at[p]] = None
  BY HandsOf DEF HandsIn, Dirs!Chdir, Dirs!Runs
<1>2. CASE Dirs!Panic("ilock: no type")
  BY <1>2, PanicKeeps
<1>3. CASE Dirs!PutBoth(p, inode)
  BY <1>1, <1>3, PutKeepsDirs
<1>4. ASSUME inode[at[p]].type = "dir", Dirs!Settle(inode, Dirs!Iput(iref, cwd[p])),
             cwd' = Dirs!Set(cwd, p, at[p]), at' = Dirs!Set(at, p, Dirs!NoInode),
             Dirs!Goto(p, "return"), UNCHANGED <<lock, log, fd, op, path, dip, calls>>
      PROVE  DirsInv'
  <2>1. iref' = Dirs!Iput(iref, cwd[p]) /\ Makes(w)
    BY <1>4, Settles
  <2>2. iref' \in [Inums -> Int] /\ \A a \in Inums : iref'[a] = iref[a] - Is(cwd[p], a)
    <3>1. iref \in [Inums -> Int] /\ cwd[p] \in Inums
      BY <1>1 DEF CallTypes
    <3> QED BY <2>1, <3>1, PutAlone
  <2>3. /\ lock' = lock /\ fd' = fd /\ op' = op /\ dip' = dip /\ path' = path
        /\ at' = [at EXCEPT ![p] = Dirs!NoInode] /\ cwd' = [cwd EXCEPT ![p] = at[p]]
        /\ where' = [where EXCEPT ![p] = "return"]
    BY <1>4 DEF Dirs!Goto, Dirs!Set
  <2>4. CallTypes' /\ OthersSame(p) /\ LocksKept(p)
    BY <1>1, <2>2, <2>3 DEF CallTypes, OthersSame, DirLabels, LocksKept
  <2>5. LinkingSame(p)
    BY <2>3 DEF LinkingSame
  <2>6. RefsMove(p)
    <3>1. cwd'[p] = at[p] /\ fd'[p] = fd[p] /\ at'[p] = Dirs!NoInode /\ dip'[p] = dip[p]
      BY <1>1, <2>3 DEF CallTypes
    <3>2. \A a \in Inums : iref'[a] = iref[a] - Is(cwd[p], a) + Is(cwd'[p], a) - Is(at[p], a) + Is(at'[p], a)
      <4> SUFFICES ASSUME NEW a \in Inums
          PROVE iref'[a] = iref[a] - Is(cwd[p], a) + Is(cwd'[p], a) - Is(at[p], a) + Is(at'[p], a)
        OBVIOUS
      <4>1. Is(at'[p], a) = 0 /\ Is(cwd'[p], a) = Is(at[p], a)
        BY <3>1, DirsFinite DEF Is
      <4>2. Is(at[p], a) \in Int /\ Is(cwd[p], a) \in Int /\ iref[a] \in Int
        BY <1>1 DEF Is, CallTypes
      <4> QED BY <2>2, <4>1, <4>2
    <3> QED BY <1>1, <3>1, <3>2, RefsMoveCwdAt
  <2>7. HandsIn(w, p)'
    BY <1>1, <2>3, DirsFinite DEF CallTypes, HandsIn
  <2>8. HoldsIn(w, p)'
    <3>1. \A a \in Inums : lock[a] # p
      BY <1>1, FilesAssumption DEF HoldsIn
    <3> QED BY <1>1, <1>4, <2>3, <3>1 DEF CallTypes, HoldsIn, Has
  <2> QED BY <2>1, <2>4, <2>5, <2>6, <2>7, <2>8, SameTable
<1> QED BY <1>2, <1>3, <1>4 DEF Dirs!Chdir

-----------------------------------------------------------------------------
(* Xv6Dirs: the steps that change links                                    *)

\* Link counts move with the calls of link, and no entry does.
EntriesKept(w, u) == \A a \in Inums : u[a].entry = w[a].entry /\ u[a].type = w[a].type
NlinkMoves(w, u, lk, new) == \A a \in Inums : u[a].nlink + lk[a] = w[a].nlink + new[a]

\* A sum after one of its terms has moved with it.
LEMMA Balance ==
  ASSUME NEW es \in Nat, NEW ss \in Nat, NEW b \in Nat, NEW h \in Nat, NEW l0 \in Nat,
         NEW l1 \in Nat, NEW u0 \in Int, NEW w0 \in Int,
         w0 = es + ss + l0 + h + b, u0 + l0 = w0 + l1
  PROVE  u0 = es + ss + l1 + h + b
OBVIOUS

LEMMA LinksMove ==
  ASSUME NEW w \in Tables, NEW u \in Tables,
         NEW lk \in [Inums -> Nat], NEW new \in [Inums -> Nat], NEW ls \in [Inums -> Nat],
         LinksOK(w, lk, ls),
         EntriesKept(w, u), NlinkMoves(w, u, lk, new)
  PROVE  LinksOK(u, new, ls)
<1>1. NamedKeep(w, u)
  <2> SUFFICES ASSUME NEW a \in Inums, NEW m \in Names, w[a].entry[m] # Dirs!NoInode
      PROVE u[w[a].entry[m]].type = w[w[a].entry[m]].type
    BY DEF NamedKeep
  <2>1. w[a].entry[m] \in Inums
    BY InTable
  <2> QED BY <2>1 DEF EntriesKept
<1>2. \A a \in Inums : EntriesIn(u, a) = EntriesIn(w, a) /\ SubsIn(u, a) = SubsIn(w, a)
  BY <1>1, EntriesSame DEF EntriesKept
<1>3. ASSUME NEW a \in Inums
      PROVE u[a].nlink = Cardinality(EntriesIn(u, a)) + Cardinality(SubsIn(u, a)) + new[a] + ls[a]
                           + Bit(a = Dirs!Root)
  <2> DEFINE es == Cardinality(EntriesIn(w, a))
             ss == Cardinality(SubsIn(w, a))
             b == Bit(a = Dirs!Root)
             u0 == u[a].nlink
             w0 == w[a].nlink
             l0 == lk[a]
             l1 == new[a]
             h == ls[a]
  <2>1. w0 = es + ss + l0 + h + b
    BY DEF LinksOK
  <2>2. /\ es \in Nat /\ ss \in Nat /\ b \in Nat /\ l0 \in Nat /\ h \in Nat /\ l1 \in Nat
        /\ u0 \in Int /\ w0 \in Int /\ u0 + l0 = w0 + l1
    BY TableCounts, InTable DEF Bit, NlinkMoves
  <2>3. EntriesIn(u, a) = EntriesIn(w, a) /\ SubsIn(u, a) = SubsIn(w, a)
    BY <1>2
  <2> HIDE DEF es, ss, b, u0, w0, l0, l1, h
  <2>4. u0 = es + ss + l1 + h + b
    BY <2>1, <2>2, Balance
  <2> QED BY <2>3, <2>4 DEF es, ss, b, u0, l1, h
<1> QED BY <1>3 DEF LinksOK

SubAt(w, d, m) == IF w[d].entry[m] # Dirs!NoInode /\ w[w[d].entry[m]].type = "dir" THEN 1 ELSE 0
IfAt(a, d, x) == IF a = d THEN x ELSE 0

\* One entry changes, and the link counts with it.
LEMMA OneEntryLinks ==
  ASSUME NEW w \in Tables, NEW u \in Tables, NEW d \in Inums, NEW m \in Names,
         \A e \in Inums \X Names : e # <<d, m>> => u[e[1]].entry[e[2]] = w[e[1]].entry[e[2]],
         NamedKeep(w, u),
         NEW lk \in [Inums -> Nat], NEW new \in [Inums -> Nat], NEW ls \in [Inums -> Nat],
         LinksOK(w, lk, ls),
         \A a \in Inums :
           u[a].nlink + Is(w[d].entry[m], a) + IfAt(a, d, SubAt(w, d, m)) + lk[a]
             = w[a].nlink + Is(u[d].entry[m], a) + IfAt(a, d, SubAt(u, d, m)) + new[a]
  PROVE  LinksOK(u, new, ls)
<1> SUFFICES ASSUME NEW a \in Inums
    PROVE u[a].nlink = Cardinality(EntriesIn(u, a)) + Cardinality(SubsIn(u, a)) + new[a] + ls[a]
                           + Bit(a = Dirs!Root)
  BY DEF LinksOK
<1> DEFINE es == Cardinality(EntriesIn(w, a))
           eu == Cardinality(EntriesIn(u, a))
           ss == Cardinality(SubsIn(w, a))
           su == Cardinality(SubsIn(u, a))
           b == Bit(a = Dirs!Root)
           u0 == u[a].nlink
           w0 == w[a].nlink
           iw == Is(w[d].entry[m], a)
           iu == Is(u[d].entry[m], a)
           dw == IfAt(a, d, SubAt(w, d, m))
           du == IfAt(a, d, SubAt(u, d, m))
           l0 == lk[a]
           l1 == new[a]
           h == ls[a]
<1>1. w0 = es + ss + l0 + h + b
  BY DEF LinksOK
<1>2. eu + iw = es + iu
  <2>1. eu + Bit(w[d].entry[m] = a) = es + Bit(u[d].entry[m] = a)
    BY EntriesChange
  <2>2. Bit(w[d].entry[m] = a) = iw /\ Bit(u[d].entry[m] = a) = iu
    BY DEF Bit, Is
  <2> HIDE DEF es, eu, iw, iu
  <2> QED BY <2>1, <2>2
<1>3. su + dw = ss + du
  <2>1. /\ \A x \in Inums : x # d => SubsIn(u, x) = SubsIn(w, x)
        /\ Cardinality(SubsIn(u, d)) + Bit(m \in SubsIn(w, d))
             = Cardinality(SubsIn(w, d)) + Bit(m \in SubsIn(u, d))
    BY SubsChange
  <2>2. Bit(m \in SubsIn(w, d)) = SubAt(w, d, m) /\ Bit(m \in SubsIn(u, d)) = SubAt(u, d, m)
    BY DEF Bit, SubAt, SubsIn
  <2>3. CASE a = d
    <3>1. dw = SubAt(w, d, m) /\ du = SubAt(u, d, m)
      BY <2>3 DEF IfAt
    <3>2. su + Bit(m \in SubsIn(w, d)) = ss + Bit(m \in SubsIn(u, d))
      BY <2>1, <2>3
    <3> HIDE DEF su, ss, dw, du
    <3> QED BY <2>2, <3>1, <3>2
  <2>4. CASE a # d
    <3>1. dw = 0 /\ du = 0 /\ su = ss
      BY <2>1, <2>4 DEF IfAt
    <3> HIDE DEF su, ss, dw, du
    <3> QED BY <3>1
  <2> QED BY <2>3, <2>4
<1>4. u0 + iw + dw + l0 = w0 + iu + du + l1
  OBVIOUS
<1>5. /\ es \in Nat /\ eu \in Nat /\ ss \in Nat /\ su \in Nat /\ u0 \in Int /\ w0 \in Int
      /\ l0 \in Nat /\ l1 \in Nat /\ h \in Nat
  BY TableCounts, InTable
<1>6. b \in Nat /\ iw \in Nat /\ iu \in Nat /\ dw \in Nat /\ du \in Nat
  BY DEF Bit, Is, IfAt, SubAt
<1> HIDE DEF es, eu, ss, su, b, u0, w0, iw, iu, dw, du, l0, l1, h
<1>7. eu = es + iu - iw /\ su = ss + du - dw
  BY <1>2, <1>3, <1>5, <1>6
<1>8. u0 = w0 + iu + du + l1 - iw - dw - l0
  BY <1>4, <1>5, <1>6
<1>9. u0 = eu + su + l1 + h + b
  BY <1>1, <1>5, <1>6, <1>7, <1>8
<1> QED BY <1>9 DEF u0, eu, su, b, l1, h

LEMMA RefsMoveAtDip ==
  ASSUME CallTypes, NEW p \in Procs, cwd'[p] = cwd[p], fd'[p] = fd[p],
         \A a \in Inums :
           iref'[a] = iref[a] - Is(at[p], a) + Is(at'[p], a) - Is(dip[p], a) + Is(dip'[p], a)
  PROVE  RefsMove(p)
<1> SUFFICES ASSUME NEW a \in Inums PROVE iref'[a] + HeldBy(p, a) = iref[a] + HeldBy(p, a)'
  BY DEF RefsMove
<1> DEFINE x == Is(cwd[p], a)
           y == Is(fd[p], a)
           a0 == Is(at[p], a)
           a1 == Is(at'[p], a)
           d0 == Is(dip[p], a)
           d1 == Is(dip'[p], a)
           r0 == iref[a]
           r1 == iref'[a]
<1>1. HeldBy(p, a) = x + y + a0 + d0 /\ HeldBy(p, a)' = x + y + a1 + d1
  BY DEF HeldBy
<1>2. /\ x \in Int /\ y \in Int /\ a0 \in Int /\ a1 \in Int /\ d0 \in Int /\ d1 \in Int /\ r0 \in Int
      /\ r1 = r0 - a0 + a1 - d0 + d1
  BY DEF Is, CallTypes
<1> HIDE DEF x, y, a0, a1, d0, d1, r0, r1
<1>3. r1 + (x + y + a0 + d0) = r0 + (x + y + a1 + d1)
  BY <1>2
<1> QED BY <1>1, <1>3 DEF r0, r1

\* Another link count.
Recounted(w, a, k) == [w EXCEPT ![a].nlink = k]

LEMMA LinkCounted ==
  ASSUME NEW w \in Tables, NEW a \in Inums, w[a].type # "free", NEW k \in Int,
         NEW u, u = Recounted(w, a, k)
  PROVE  /\ u \in Tables /\ EntriesKept(w, u)
         /\ \A b \in Inums : u[b].nlink = IF b = a THEN k ELSE w[b].nlink
<1>1. w[a] \in Nodes /\ WellFormed(w[a])
  BY InTable
<1> DEFINE x == [w[a] EXCEPT !.nlink = k]
<1>2. /\ x \in Nodes /\ WellFormed(x) /\ x.entry = w[a].entry /\ x.type = w[a].type /\ x.nlink = k
  BY <1>1 DEF Nodes, WellFormed
<1> HIDE DEF x
<1>3. u = [w EXCEPT ![a] = x]
  BY DEF x, Recounted
<1>4. \A b \in Inums : u[b] = IF b = a THEN x ELSE w[b]
  BY <1>3 DEF Tables
<1>5. u \in Tables
  BY <1>2, <1>3 DEF Tables
<1> QED BY <1>2, <1>4, <1>5 DEF EntriesKept

LEMMA LinkKeeps ==
  ASSUME DirsInv, NEW p \in Procs, Dirs!Link(p)
  PROVE  DirsInv'
<1>1. /\ CallTypes /\ inode \in Tables /\ lost \in [Inums -> Nat] /\ HoldsIn(inode, p)
      /\ where[p] = "link" /\ at[p] \in Inums /\ dip[p] = Dirs!NoInode /\ op[p] = "link"
      /\ lock[at[p]] = None
  BY HandsOf DEF HandsIn, Dirs!Link, Dirs!Runs
<1>2. CASE Dirs!Panic("ilock: no type")
  BY <1>2, PanicKeeps
<1>3. CASE Dirs!PutBoth(p, inode)
  BY <1>1, <1>3, PutKeepsDirs
<1>4. ASSUME inode[at[p]].type # "free", inode[at[p]].type # "dir",
             inode' = [inode EXCEPT ![at[p]].nlink = @ + 1], dip' = Dirs!Set(dip, p, at[p]),
             Dirs!Namei(p, "link", at[p]), UNCHANGED <<lock, log, cwd, fd, op, calls, panic, lost>>
      PROVE  DirsInv'
  <2> PICK v, w : v = inode /\ w = Recounted(inode, at[p], inode[at[p]].nlink + 1)
    OBVIOUS
  <2>1. inode' = w
    BY <1>4 DEF Recounted
  <2>2. /\ w \in Tables /\ EntriesKept(v, w)
        /\ \A b \in Inums : w[b].nlink = IF b = at[p] THEN v[at[p]].nlink + 1 ELSE v[b].nlink
    <3>1. v \in Tables /\ v[at[p]].type \in {"file", "dev"} /\ v[at[p]].nlink + 1 \in Int
      BY <1>1, <1>4, InTable
    <3>2. w = Recounted(v, at[p], v[at[p]].nlink + 1)
      OBVIOUS
    <3> QED BY <1>1, <3>1, <3>2, LinkCounted
  <2>3. PICK start \in Inums : \E names \in Seq(Steps) :
           /\ at' = [at EXCEPT ![p] = start] /\ path' = [path EXCEPT ![p] = names]
           /\ iref' = [iref EXCEPT ![start] = @ + 1] /\ names # <<>>
           /\ where' = [where EXCEPT ![p] = "walk"]
    <3>1. at[p] # Dirs!NoInode
      BY <1>1, DirsFinite
    <3> QED BY <1>1, <1>4, <3>1, NameiIs
  <2>4. PICK names \in Seq(Steps) :
           /\ at' = [at EXCEPT ![p] = start] /\ path' = [path EXCEPT ![p] = names]
           /\ iref' = [iref EXCEPT ![start] = @ + 1] /\ names # <<>>
           /\ where' = [where EXCEPT ![p] = "walk"]
    BY <2>3
  <2>5. /\ lock' = lock /\ cwd' = cwd /\ fd' = fd /\ op' = op /\ lost' = lost
        /\ dip' = [dip EXCEPT ![p] = at[p]]
    BY <1>4 DEF Dirs!Set
  <2>6. Makes(w)
    BY <1>1, <2>1, <2>2, <2>5, NoneFreed
  <2>7. CallTypes' /\ OthersSame(p)
    BY <1>1, <2>4, <2>5 DEF CallTypes, OthersSame, DirLabels
  <2>8. Steady(p, w)
    BY <2>2, <2>5, <2>7 DEF Steady, EntriesKept
  <2>9. RefsMove(p)
    <3>1. cwd'[p] = cwd[p] /\ fd'[p] = fd[p] /\ at'[p] = start /\ dip'[p] = at[p]
      BY <1>1, <2>4, <2>5 DEF CallTypes
    <3>2. \A a \in Inums :
            iref'[a] = iref[a] - Is(at[p], a) + Is(at'[p], a) - Is(dip[p], a) + Is(dip'[p], a)
      <4> SUFFICES ASSUME NEW a \in Inums
          PROVE iref'[a] = iref[a] - Is(at[p], a) + Is(at'[p], a) - Is(dip[p], a) + Is(dip'[p], a)
        OBVIOUS
      <4>1. Is(dip[p], a) = 0 /\ Is(dip'[p], a) = Is(at[p], a)
        BY <1>1, <3>1, DirsFinite DEF Is
      <4>2. iref'[a] = iref[a] + Is(at'[p], a) /\ iref[a] \in Int
        BY <1>1, <2>4, <3>1 DEF CallTypes, Is
      <4>3. Is(at[p], a) \in Int /\ Is(at'[p], a) \in Int
        BY DEF Is
      <4> QED BY <4>1, <4>2, <4>3
    <3> QED BY <1>1, <3>1, <3>2, RefsMoveAtDip
  <2>10. LinksOK(w, Linked', lost)
    <3>1. v \in Tables /\ LinksOK(v, Linked, lost)
      BY DEF DirsInv, DirTypes
    <3>2. Linked \in [Inums -> Nat] /\ Linked' \in [Inums -> Nat]
      BY LinkedIs
    <3>3. ASSUME NEW a \in Inums PROVE w[a].nlink + Linked[a] = v[a].nlink + Linked'[a]
      <4>1. Linked'[a] + Bit(op[p] = "link" /\ dip[p] = a) = Linked[a] + Bit(op'[p] = "link" /\ dip'[p] = a)
        BY <2>7, LinkedIs
      <4>2. (op[p] = "link" /\ dip[p] = a) = FALSE /\ (op'[p] = "link" /\ dip'[p] = a) = (at[p] = a)
        BY <1>1, <2>5, DirsFinite DEF CallTypes
      <4>3. Bit(op[p] = "link" /\ dip[p] = a) = 0
        BY <4>2 DEF Bit
      <4>4. Bit(op'[p] = "link" /\ dip'[p] = a) = IF at[p] = a THEN 1 ELSE 0
        BY <4>2 DEF Bit
      <4>5. Linked'[a] = Linked[a] + (IF at[p] = a THEN 1 ELSE 0)
        BY <3>2, <4>1, <4>3, <4>4
      <4>6. v[a].nlink \in Int /\ Linked[a] \in Int
        BY <3>1, <3>2, InTable
      <4>7. CASE at[p] = a
        <5>1. w[a].nlink = v[a].nlink + 1 /\ Linked'[a] = Linked[a] + 1
          BY <1>1, <2>2, <4>5, <4>7
        <5> QED BY <4>6, <5>1
      <4>8. CASE at[p] # a
        <5>1. w[a].nlink = v[a].nlink /\ Linked'[a] = Linked[a]
          BY <1>1, <2>2, <4>5, <4>6, <4>8
        <5> QED BY <4>6, <5>1
      <4> QED BY <4>7, <4>8
    <3>4. NlinkMoves(v, w, Linked, Linked')
      BY <3>3 DEF NlinkMoves
    <3> QED BY <1>1, <2>2, <3>1, <3>2, <3>3, <3>4, LinksMove
  <2>11. HandsIn(w, p)'
    BY <1>1, <2>4, <2>5, DirsFinite DEF CallTypes, HandsIn, Has
  <2>12. HoldsIn(w, p)'
    <3>1. \A a \in Inums : lock[a] # p
      BY <1>1, FilesAssumption DEF HoldsIn
    <3>2. w[at[p]].type \in {"file", "dev"}
      BY <1>1, <1>4, <2>2, InTable DEF EntriesKept
    <3>3. \A a : \A types : Has(inode, a, types) => Has(w, a, types)
      BY <2>2 DEF Has, EntriesKept
    <3> QED BY <1>1, <2>4, <2>5, <3>1, <3>2, <3>3 DEF CallTypes, HoldsIn, Has
  <2> QED BY <2>2, <2>6, <2>7, <2>8, <2>9, <2>10, <2>11, <2>12, StepKeeps
<1> QED BY <1>2, <1>3, <1>4 DEF Dirs!Link

LEMMA UncountLinking ==
  ASSUME NEW p \in Procs, OthersSame(p), op[p] = "link", dip'[p] = Dirs!NoInode, NEW a \in Inums
  PROVE  Linked[a] \in Nat /\ Linked'[a] \in Nat /\ Linked'[a] + Is(dip[p], a) = Linked[a]
<1>1. Linked'[a] + Bit(op[p] = "link" /\ dip[p] = a) = Linked[a] + Bit(op'[p] = "link" /\ dip'[p] = a)
  BY LinkedIs
<1>2. (op'[p] = "link" /\ dip'[p] = a) = FALSE /\ (op[p] = "link" /\ dip[p] = a) = (dip[p] = a)
  BY DirsFinite
<1>3. Bit(op'[p] = "link" /\ dip'[p] = a) = 0
  BY <1>2 DEF Bit
<1>4. Bit(op[p] = "link" /\ dip[p] = a) = Is(dip[p], a)
  BY <1>2 DEF Bit, Is
<1>5. Linked[a] \in Nat /\ Linked'[a] \in Nat
  BY LinkedIs
<1> QED BY <1>1, <1>3, <1>4, <1>5

LEMMA BadKeeps ==
  ASSUME DirsInv, NEW p \in Procs, Dirs!Bad(p)
  PROVE  DirsInv'
<1>1. /\ CallTypes /\ inode \in Tables /\ lost \in [Inums -> Nat] /\ HoldsIn(inode, p)
      /\ where[p] = "bad" /\ dip[p] \in Inums /\ op[p] = "link"
  BY HandsOf DEF HandsIn, Dirs!Bad, Dirs!Runs
<1>2. inode[dip[p]].type \in {"file", "dev"}
  BY <1>1, DirsFinite DEF HoldsIn, Has
<1> PICK v, w : v = inode /\ w = Recounted(inode, dip[p], inode[dip[p]].nlink - 1)
  OBVIOUS
<1>3. Dirs!PutBoth(p, w)
  <2>1. w = Dirs!Undone(dip[p])
    BY DEF Dirs!Undone, Recounted
  <2> QED BY <2>1 DEF Dirs!Bad
<1>4. /\ w \in Tables /\ EntriesKept(v, w)
      /\ \A b \in Inums : w[b].nlink = IF b = dip[p] THEN v[dip[p]].nlink - 1 ELSE v[b].nlink
  <2>1. v \in Tables /\ v[dip[p]].nlink - 1 \in Int
    BY <1>1, InTable
  <2>2. w = Recounted(v, dip[p], v[dip[p]].nlink - 1)
    OBVIOUS
  <2> QED BY <1>1, <1>2, <2>1, <2>2, LinkCounted
<1>5. TypesKept(w) /\ LockedKept(p, w)
  BY <1>4 DEF TypesKept, LockedKept, EntriesKept
<1>6. LinksOK(w, Linked', lost)
  <2>1. v \in Tables /\ LinksOK(v, Linked, lost) /\ Linked \in [Inums -> Nat] /\ Linked' \in [Inums -> Nat]
    BY LinkedIs DEF DirsInv, DirTypes
  <2>2. OthersSame(p) /\ dip'[p] = Dirs!NoInode
    BY <1>1, <1>3, PutBothIs
  <2>3. ASSUME NEW a \in Inums PROVE w[a].nlink + Linked[a] = v[a].nlink + Linked'[a]
    <3>1. Linked[a] \in Nat /\ Linked'[a] \in Nat /\ Linked'[a] + Is(dip[p], a) = Linked[a]
      BY <1>1, <2>2, UncountLinking
    <3>2. v[a].nlink \in Int
      BY <2>1, InTable
    <3>3. CASE dip[p] = a
      <4>1. w[a].nlink = v[a].nlink - 1 /\ Is(dip[p], a) = 1
        BY <1>1, <1>4, <3>3 DEF Is
      <4> QED BY <3>1, <3>2, <4>1
    <3>4. CASE dip[p] # a
      <4>1. w[a].nlink = v[a].nlink /\ Is(dip[p], a) = 0
        BY <1>1, <1>4, <3>4 DEF Is
      <4> QED BY <3>1, <3>2, <4>1
    <3> QED BY <3>3, <3>4
  <2>4. NlinkMoves(v, w, Linked, Linked')
    BY <2>3 DEF NlinkMoves
  <2> QED BY <1>1, <1>4, <2>1, <2>4, LinksMove
<1> QED BY <1>3, <1>4, <1>5, <1>6, PutBothKeeps

\* A directory d with another entry m.
Entered(w, d, m, a, k) == [w EXCEPT ![d] = [w[d] EXCEPT !.entry[m] = a, !.nlink = k]]

OneEntryChanges(w, u, d, m) ==
  \A e \in Inums \X Names : e # <<d, m>> => u[e[1]].entry[e[2]] = w[e[1]].entry[e[2]]

LEMMA EntryMade ==
  ASSUME NEW w \in Tables, NEW d \in Inums, w[d].type = "dir", NEW m \in Names,
         NEW a \in Inums \cup {Dirs!NoInode}, NEW k \in Int, NEW u, u = Entered(w, d, m, a, k)
  PROVE  /\ u \in Tables /\ OneEntryChanges(w, u, d, m)
         /\ \A b \in Inums : u[b].type = w[b].type
         /\ \A b \in Inums : u[b].nlink = IF b = d THEN k ELSE w[b].nlink
         /\ \A b \in Inums : b # d => u[b] = w[b]
         /\ u[d].entry[m] = a
<1>1. w[d] \in Nodes /\ WellFormed(w[d]) /\ w[d].entry \in [Names -> Inums \cup {Dirs!NoInode}]
  BY InTable
<1> DEFINE x == [w[d] EXCEPT !.entry[m] = a, !.nlink = k]
<1>2. /\ x.type = w[d].type /\ x.nlink = k /\ x.up = w[d].up
      /\ x.entry = [w[d].entry EXCEPT ![m] = a] /\ x \in Nodes
  BY <1>1 DEF Nodes
<1>3. WellFormed(x)
  BY <1>1, <1>2 DEF WellFormed
<1> HIDE DEF x
<1>4. u = [w EXCEPT ![d] = x]
  BY DEF x, Entered
<1>5. \A b \in Inums : u[b] = IF b = d THEN x ELSE w[b]
  BY <1>4 DEF Tables
<1>6. u \in Tables
  BY <1>2, <1>3, <1>4 DEF Tables
<1>7. x.entry[m] = a /\ \A y \in Names : y # m => x.entry[y] = w[d].entry[y]
  BY <1>1, <1>2
<1>8. OneEntryChanges(w, u, d, m)
  BY <1>5, <1>7 DEF OneEntryChanges
<1> QED BY <1>2, <1>5, <1>6, <1>7, <1>8

LEMMA NamedTypes ==
  ASSUME NEW w \in Tables, NEW u, \A b \in Inums : u[b].type = w[b].type
  PROVE  NamedKeep(w, u)
<1> SUFFICES ASSUME NEW a \in Inums, NEW m \in Names, w[a].entry[m] # Dirs!NoInode
    PROVE u[w[a].entry[m]].type = w[w[a].entry[m]].type
  BY DEF NamedKeep
<1>1. w[a].entry[m] \in Inums
  BY InTable
<1> QED BY <1>1

EntryMoves(w, u, d, m, lk, new) ==
  \A a \in Inums :
    u[a].nlink + Is(w[d].entry[m], a) + IfAt(a, d, SubAt(w, d, m)) + lk[a]
      = w[a].nlink + Is(u[d].entry[m], a) + IfAt(a, d, SubAt(u, d, m)) + new[a]

LEMMA EntryLinks ==
  ASSUME NEW w \in Tables, NEW u \in Tables, NEW d \in Inums, NEW m \in Names,
         OneEntryChanges(w, u, d, m), NamedKeep(w, u),
         NEW lk \in [Inums -> Nat], NEW new \in [Inums -> Nat], NEW ls \in [Inums -> Nat],
         LinksOK(w, lk, ls), EntryMoves(w, u, d, m, lk, new)
  PROVE  LinksOK(u, new, ls)
BY OneEntryLinks DEF OneEntryChanges, EntryMoves

LEMMA DirlinkKeeps ==
  ASSUME DirsInv, NEW p \in Procs, Dirs!Dirlink(p)
  PROVE  DirsInv'
<1> DEFINE m == Head(path[p])
<1>1. /\ CallTypes /\ inode \in Tables /\ lost \in [Inums -> Nat] /\ HoldsIn(inode, p)
      /\ where[p] = "dirlink" /\ at[p] \in Inums /\ inode[at[p]].type = "dir"
      /\ dip[p] \in Inums /\ op[p] = "link"
      /\ path[p] # <<>> /\ path[p] \in Seq(Steps) /\ lock[at[p]] = None
  BY HandsOf DEF HandsIn, Has, Dirs!Dirlink, Dirs!Runs, CallTypes
<1>2. inode[dip[p]].type \in {"file", "dev"}
  BY <1>1, DirsFinite DEF HoldsIn, Has
<1>3. \A a \in Inums : lock[a] # p
  BY <1>1, FilesAssumption DEF HoldsIn
<1>4. ASSUME Dirs!Lookup(at[p], m) = Dirs!NoInode,
             Dirs!PutBoth(p, [inode EXCEPT ![at[p]] = Dirs!Enter(inode[at[p]], m, dip[p])])
      PROVE  DirsInv'
  <2> PICK v, w : v = inode /\ w = Entered(inode, at[p], m, dip[p], inode[at[p]].nlink)
    OBVIOUS
  <2>1. m \in Names /\ v[at[p]].entry[m] = Dirs!NoInode
    BY <1>1, <1>4, LookupIs, HeadTail, DirsFinite
  <2> HIDE DEF m
  <2>2. Dirs!PutBoth(p, w)
    <3>1. [inode[at[p]] EXCEPT !.entry[m] = dip[p], !.nlink = inode[at[p]].nlink]
            = [inode[at[p]] EXCEPT !.entry[m] = dip[p]]
      <4>1. inode[at[p]] \in Nodes
        BY <1>1, InTable
      <4> QED BY <4>1 DEF Nodes
    <3>2. w = [inode EXCEPT ![at[p]] = Dirs!Enter(inode[at[p]], m, dip[p])]
      BY <3>1 DEF Entered, Dirs!Enter
    <3> QED BY <1>4, <3>2
  <2>3. /\ w \in Tables /\ OneEntryChanges(v, w, at[p], m)
        /\ \A b \in Inums : w[b].type = v[b].type
        /\ \A b \in Inums : w[b].nlink = IF b = at[p] THEN v[at[p]].nlink ELSE v[b].nlink
        /\ \A b \in Inums : b # at[p] => w[b] = v[b]
        /\ w[at[p]].entry[m] = dip[p]
    <3>1. v \in Tables /\ v[at[p]].nlink \in Int /\ v[at[p]].type = "dir"
      BY <1>1, InTable
    <3>2. w = Entered(v, at[p], m, dip[p], v[at[p]].nlink)
      OBVIOUS
    <3> QED BY <1>1, <2>1, <3>1, <3>2, EntryMade
  <2>4. TypesKept(w)
    BY <2>3 DEF TypesKept
  <2>5. LockedKept(p, w)
    BY <1>1, <2>3, FilesAssumption DEF LockedKept
  <2>6. OthersSame(p) /\ dip'[p] = Dirs!NoInode
    BY <1>1, <2>2, PutBothIs
  <2>7. v \in Tables /\ LinksOK(v, Linked, lost) /\ Linked \in [Inums -> Nat] /\ Linked' \in [Inums -> Nat]
    BY LinkedIs DEF DirsInv, DirTypes
  <2>8. SubAt(v, at[p], m) = 0 /\ SubAt(w, at[p], m) = 0
    BY <1>1, <1>2, <2>1, <2>3, DirsFinite DEF SubAt
  <2>9. ASSUME NEW a \in Inums
        PROVE  w[a].nlink + Is(v[at[p]].entry[m], a) + IfAt(a, at[p], SubAt(v, at[p], m)) + Linked[a]
                 = v[a].nlink + Is(w[at[p]].entry[m], a) + IfAt(a, at[p], SubAt(w, at[p], m)) + Linked'[a]
    <3>1. Linked[a] \in Nat /\ Linked'[a] \in Nat /\ Linked'[a] + Is(dip[p], a) = Linked[a]
      BY <1>1, <2>6, UncountLinking
    <3>2. Is(v[at[p]].entry[m], a) = 0 /\ Is(w[at[p]].entry[m], a) = Is(dip[p], a)
      BY <2>1, <2>3, DirsFinite DEF Is
    <3>3. IfAt(a, at[p], SubAt(v, at[p], m)) = 0 /\ IfAt(a, at[p], SubAt(w, at[p], m)) = 0
      BY <2>8 DEF IfAt
    <3>4. w[a].nlink = v[a].nlink /\ v[a].nlink \in Int /\ Is(dip[p], a) \in Int
      BY <2>3, <2>7, InTable DEF Is
    <3> QED BY <3>1, <3>2, <3>3, <3>4
  <2>10. EntryMoves(v, w, at[p], m, Linked, Linked')
    BY <2>9 DEF EntryMoves
  <2>11. NamedKeep(v, w)
    BY <2>3, <2>7, NamedTypes
  <2>12. LinksOK(w, Linked', lost)
    BY <1>1, <2>1, <2>3, <2>7, <2>10, <2>11, EntryLinks
  <2> QED BY <2>2, <2>3, <2>4, <2>5, <2>12, PutBothKeeps
<1>5. ASSUME Dirs!Settle(inode, Dirs!Iput(iref, at[p])), at' = Dirs!Set(at, p, Dirs!NoInode),
             Dirs!Goto(p, "bad"), UNCHANGED <<lock, log, cwd, fd, op, path, dip, calls>>
      PROVE  DirsInv'
  <2> PICK w : w = inode
    OBVIOUS
  <2>1. iref' = Dirs!Iput(iref, at[p]) /\ Makes(w)
    BY <1>5, Settles
  <2>2. iref' \in [Inums -> Int] /\ \A a \in Inums : iref'[a] = iref[a] - Is(at[p], a)
    <3>1. iref \in [Inums -> Int]
      BY <1>1 DEF CallTypes
    <3> QED BY <1>1, <2>1, <3>1, PutAlone
  <2>3. /\ lock' = lock /\ cwd' = cwd /\ fd' = fd /\ op' = op /\ dip' = dip /\ path' = path
        /\ at' = [at EXCEPT ![p] = Dirs!NoInode] /\ where' = [where EXCEPT ![p] = "bad"]
    BY <1>5 DEF Dirs!Goto, Dirs!Set
  <2>4. CallTypes' /\ OthersSame(p) /\ LocksKept(p)
    BY <1>1, <2>2, <2>3 DEF CallTypes, OthersSame, DirLabels, LocksKept
  <2>5. LinkingSame(p)
    BY <2>3 DEF LinkingSame
  <2>6. RefsMove(p)
    <3>1. cwd'[p] = cwd[p] /\ fd'[p] = fd[p] /\ at'[p] = Dirs!NoInode /\ dip'[p] = dip[p]
      BY <1>1, <2>3 DEF CallTypes
    <3>2. \A a \in Inums : iref'[a] = iref[a] - Is(cwd[p], a) + Is(cwd'[p], a) - Is(at[p], a) + Is(at'[p], a)
      <4> SUFFICES ASSUME NEW a \in Inums
          PROVE iref'[a] = iref[a] - Is(cwd[p], a) + Is(cwd'[p], a) - Is(at[p], a) + Is(at'[p], a)
        OBVIOUS
      <4>1. Is(at'[p], a) = 0 /\ Is(cwd'[p], a) = Is(cwd[p], a)
        BY <3>1, DirsFinite DEF Is
      <4>2. Is(at[p], a) \in Int /\ Is(cwd[p], a) \in Int /\ iref[a] \in Int
        BY <1>1 DEF Is, CallTypes
      <4> QED BY <2>2, <4>1, <4>2
    <3> QED BY <1>1, <3>1, <3>2, RefsMoveCwdAt
  <2>7. HandsIn(w, p)'
    BY <1>1, <2>3, DirsFinite DEF CallTypes, HandsIn
  <2>8. HoldsIn(w, p)'
    BY <1>1, <1>3, <2>3 DEF HoldsIn, Has
  <2> QED BY <2>1, <2>4, <2>5, <2>6, <2>7, <2>8, SameTable
<1> QED BY <1>4, <1>5 DEF Dirs!Dirlink

LEMMA LinkingKept ==
  ASSUME NEW p \in Procs, OthersSame(p), op[p] # "link", op'[p] = op[p]
  PROVE  Linked' = Linked
<1>1. ASSUME NEW a \in Inums PROVE Linked'[a] = Linked[a]
  <2>1. Linked'[a] + Bit(op[p] = "link" /\ dip[p] = a) = Linked[a] + Bit(op'[p] = "link" /\ dip'[p] = a)
    BY LinkedIs
  <2>2. (op'[p] = "link" /\ dip'[p] = a) = FALSE /\ (op[p] = "link" /\ dip[p] = a) = FALSE
    OBVIOUS
  <2>3. Bit(op'[p] = "link" /\ dip'[p] = a) = 0 /\ Bit(op[p] = "link" /\ dip[p] = a) = 0
    BY <2>2 DEF Bit
  <2>4. Linked[a] \in Nat /\ Linked'[a] \in Nat
    BY LinkedIs
  <2> QED BY <2>1, <2>3, <2>4
<1> QED BY <1>1 DEF Linked

\* The table after the entry m of d, which named a, is gone.
Unlinked(w, d, m, a) ==
  [w EXCEPT
    ![d] = [Dirs!Enter(w[d], m, Dirs!NoInode) EXCEPT !.nlink = @ - Dirs!DotDotLinks(w[a].type)],
    ![a].nlink = @ - 1]

LEMMA UnlinkedTable ==
  ASSUME NEW v \in Tables, NEW d \in Inums, v[d].type = "dir", NEW m \in Names,
         NEW a \in Inums, a # d, v[d].entry[m] = a,
         NEW lk \in [Inums -> Nat], NEW ls \in [Inums -> Nat], LinksOK(v, lk, ls),
         NEW w, w = Unlinked(v, d, m, a)
  PROVE  /\ w \in Tables /\ LinksOK(w, lk, ls)
         /\ \A b \in Inums : w[b].type = v[b].type
         /\ \A b \in Inums : b # d => w[b].entry = v[b].entry
<1>1. PICK dots \in {0, 1} : /\ dots = Dirs!DotDotLinks(v[a].type)
                            /\ dots = IF v[a].type = "dir" THEN 1 ELSE 0
  BY DEF Dirs!DotDotLinks
<1>2. PICK k \in Int : k = v[d].nlink - dots
  BY InTable
<1>3. PICK u : u = Entered(v, d, m, Dirs!NoInode, k)
  OBVIOUS
<1>4. /\ u \in Tables /\ OneEntryChanges(v, u, d, m)
      /\ \A b \in Inums : u[b].type = v[b].type
      /\ \A b \in Inums : u[b].nlink = IF b = d THEN k ELSE v[b].nlink
      /\ \A b \in Inums : b # d => u[b] = v[b]
      /\ u[d].entry[m] = Dirs!NoInode
  <2>1. PICK none \in Inums \cup {Dirs!NoInode} : none = Dirs!NoInode
    OBVIOUS
  <2>2. u = Entered(v, d, m, none, k)
    BY <1>3, <2>1
  <2>3. /\ u \in Tables /\ OneEntryChanges(v, u, d, m)
        /\ \A b \in Inums : u[b].type = v[b].type
        /\ \A b \in Inums : u[b].nlink = IF b = d THEN k ELSE v[b].nlink
        /\ \A b \in Inums : b # d => u[b] = v[b]
        /\ u[d].entry[m] = none
    BY <2>2, EntryMade
  <2> QED BY <2>1, <2>3
<1>5. PICK l \in Int : l = v[a].nlink - 1
  BY InTable
<1>6. w = Recounted(u, a, l)
  <2>1. [Dirs!Enter(v[d], m, Dirs!NoInode) EXCEPT !.nlink = v[d].nlink - dots]
          = [v[d] EXCEPT !.entry[m] = Dirs!NoInode, !.nlink = k]
    <3>1. v[d] \in Nodes
      BY InTable
    <3> QED BY <1>2, <3>1 DEF Nodes, Dirs!Enter
  <2>2. Dirs!Enter(v[d], m, Dirs!NoInode).nlink = v[d].nlink
    <3>1. v[d] \in Nodes
      BY InTable
    <3> QED BY <3>1 DEF Nodes, Dirs!Enter
  <2>3. PICK x : x = [v[d] EXCEPT !.entry[m] = Dirs!NoInode, !.nlink = k]
    OBVIOUS
  <2>4. w = [v EXCEPT ![d] = x, ![a].nlink = v[a].nlink - 1]
    BY <1>1, <2>1, <2>2, <2>3 DEF Unlinked
  <2>5. u = [v EXCEPT ![d] = x]
    BY <1>3, <2>3 DEF Entered
  <2>6. u[a] = v[a]
    BY <1>4
  <2>7. w = [u EXCEPT ![a].nlink = l]
    BY <1>5, <2>4, <2>5, <2>6
  <2> QED BY <2>7 DEF Recounted
<1>7. v[a].type # "free"
  <2>1. v[a].nlink # 0
    <3>1. <<d, m>> \in EntriesIn(v, a)
      BY DEF EntriesIn
    <3> QED BY <3>1, NoLinks
  <2> QED BY <2>1, InTable DEF WellFormed
<1>8. /\ w \in Tables /\ EntriesKept(u, w)
      /\ \A b \in Inums : w[b].nlink = IF b = a THEN l ELSE u[b].nlink
  <2>1. u[a].type # "free"
    BY <1>4, <1>7
  <2> QED BY <1>4, <1>5, <1>6, <2>1, LinkCounted
<1>9. /\ OneEntryChanges(v, w, d, m)
      /\ \A b \in Inums : w[b].type = v[b].type
      /\ \A b \in Inums : b # d => w[b].entry = v[b].entry
      /\ w[d].entry[m] = Dirs!NoInode
  <2>1. \A b \in Inums : w[b].type = u[b].type /\ w[b].entry = u[b].entry
    BY <1>8 DEF EntriesKept
  <2> QED BY <1>4, <2>1 DEF OneEntryChanges
<1>10. SubAt(v, d, m) = dots /\ SubAt(w, d, m) = 0
  BY <1>1, <1>9, DirsFinite DEF SubAt
<1>11. ASSUME NEW b \in Inums
       PROVE  w[b].nlink + Is(v[d].entry[m], b) + IfAt(b, d, SubAt(v, d, m)) + lk[b]
                = v[b].nlink + Is(w[d].entry[m], b) + IfAt(b, d, SubAt(w, d, m)) + lk[b]
  <2>1. Is(v[d].entry[m], b) = Is(a, b) /\ Is(w[d].entry[m], b) = 0
    BY <1>9, DirsFinite DEF Is
  <2>2. IfAt(b, d, SubAt(v, d, m)) = IfAt(b, d, dots) /\ IfAt(b, d, SubAt(w, d, m)) = 0
    BY <1>10 DEF IfAt
  <2>3. v[b].nlink \in Int /\ lk[b] \in Nat
    BY InTable
  <2>4. w[b].nlink + Is(a, b) + IfAt(b, d, dots) = v[b].nlink
    <3>1. CASE b = d
      <4>1. w[b].nlink = v[b].nlink - dots /\ Is(a, b) = 0 /\ IfAt(b, d, dots) = dots
        BY <1>2, <1>4, <1>8, <3>1 DEF Is, IfAt
      <4> QED BY <2>3, <4>1
    <3>2. CASE b = a
      <4>1. w[b].nlink = v[b].nlink - 1 /\ Is(a, b) = 1 /\ IfAt(b, d, dots) = 0
        BY <1>5, <1>8, <3>2 DEF Is, IfAt
      <4> QED BY <2>3, <4>1
    <3>3. CASE b # d /\ b # a
      <4>1. w[b].nlink = v[b].nlink /\ Is(a, b) = 0 /\ IfAt(b, d, dots) = 0
        BY <1>4, <1>8, <3>3 DEF Is, IfAt
      <4> QED BY <2>3, <4>1
    <3> QED BY <3>1, <3>2, <3>3
  <2>5. w[b].nlink \in Int /\ Is(a, b) \in Int /\ IfAt(b, d, dots) \in Int
    BY <1>8, InTable DEF Is, IfAt
  <2> QED BY <2>1, <2>2, <2>3, <2>4, <2>5
<1>12. EntryMoves(v, w, d, m, lk, lk)
  BY <1>11 DEF EntryMoves
<1>13. NamedKeep(v, w)
  BY <1>9, NamedTypes
<1>14. LinksOK(w, lk, ls)
  BY <1>8, <1>9, <1>12, <1>13, EntryLinks
<1> QED BY <1>8, <1>9, <1>14

LEMMA UnlinkInodeKeeps ==
  ASSUME DirsInv, NEW p \in Procs, Dirs!UnlinkInode(p)
  PROVE  DirsInv'
<1>1. /\ CallTypes /\ inode \in Tables /\ lost \in [Inums -> Nat]
      /\ at[p] \in Inums /\ inode[at[p]].type = "dir" /\ lock[at[p]] = p /\ op[p] = "unlink"
      /\ Head(path[p]) \in Names /\ dip[p] \in Inums /\ inode[at[p]].entry[Head(path[p])] = dip[p]
      /\ lock[dip[p]] = None
  BY HandsOf DEF HandsIn, Has, Dirs!UnlinkInode, Dirs!Runs
<1>2. dip[p] # at[p]
  BY <1>1, FilesAssumption
<1>3. CASE Dirs!Panic("unlink: nlink < 1")
  BY <1>3, PanicKeeps
<1>4. CASE Dirs!PutBoth(p, inode)
  BY <1>1, <1>4, PutKeepsDirs
<1>5. ASSUME Dirs!PutBoth(p, [inode EXCEPT
               ![at[p]] = [Dirs!Enter(inode[at[p]], Head(path[p]), Dirs!NoInode) EXCEPT
                            !.nlink = @ - Dirs!DotDotLinks(inode[dip[p]].type)],
               ![dip[p]].nlink = @ - 1])
      PROVE  DirsInv'
  <2>1. PICK w : w = Unlinked(inode, at[p], Head(path[p]), dip[p])
    OBVIOUS
  <2>2. Dirs!PutBoth(p, w)
    BY <1>5, <2>1 DEF Unlinked
  <2>3. LinksOK(inode, Linked, lost) /\ Linked \in [Inums -> Nat]
    BY LinkedIs DEF DirsInv
  <2>4. /\ w \in Tables /\ LinksOK(w, Linked, lost)
        /\ \A b \in Inums : w[b].type = inode[b].type
        /\ \A b \in Inums : b # at[p] => w[b].entry = inode[b].entry
    BY <1>1, <1>2, <2>1, <2>3, UnlinkedTable
  <2>5. TypesKept(w) /\ LockedKept(p, w)
    BY <1>1, <2>4 DEF TypesKept, LockedKept
  <2>6. LinksOK(w, Linked', lost)
    <3>1. OthersSame(p) /\ op' = op
      BY <1>1, <2>2, PutBothIs
    <3> QED BY <1>1, <2>4, <3>1, LinkingKept
  <2> QED BY <2>2, <2>4, <2>5, <2>6, PutBothKeeps
<1> QED BY <1>3, <1>4, <1>5 DEF Dirs!UnlinkInode

\* The table with a new inode x at a, which the entry m of d names.
Created(w, d, m, a, x, type) ==
  [w EXCEPT
    ![a] = x,
    ![d] = [Dirs!Enter(w[d], m, a) EXCEPT !.nlink = @ + Dirs!DotDotLinks(type)]]

LEMMA CreatedTable ==
  ASSUME NEW v \in Tables, NEW d \in Inums, v[d].type = "dir", NEW m \in Names,
         v[d].entry[m] = Dirs!NoInode, NEW a \in Inums, v[a].type = "free",
         NEW x \in Nodes, WellFormed(x), x.nlink = 1, x.entry = NoEntries, x.type # "free",
         NEW lk \in [Inums -> Nat], NEW ls \in [Inums -> Nat], LinksOK(v, lk, ls),
         NEW type, x.type = type, NEW w, w = Created(v, d, m, a, x, type)
  PROVE  /\ w \in Tables /\ LinksOK(w, lk, ls)
         /\ w[a] = x
         /\ \A b \in Inums : b # a => w[b].type = v[b].type
         /\ \A b \in Inums : b # d => w[b].entry = v[b].entry
<1>1. PICK dots \in {0, 1} : /\ dots = Dirs!DotDotLinks(type)
                            /\ dots = IF x.type = "dir" THEN 1 ELSE 0
  BY DEF Dirs!DotDotLinks
<1>2. PICK k \in Int : k = v[d].nlink + dots
  BY InTable
<1>3. a # d /\ v[a].nlink = 0 /\ v[a].entry = NoEntries
  BY InTable DEF WellFormed
<1>4. PICK u : u = [v EXCEPT ![a] = x]
  OBVIOUS
<1>5. /\ u \in Tables /\ u[a] = x
      /\ \A b \in Inums : b # a => u[b] = v[b]
  BY <1>4 DEF Tables
<1>6. w = Entered(u, d, m, a, k)
  <2>1. [Dirs!Enter(v[d], m, a) EXCEPT !.nlink = v[d].nlink + dots]
          = [v[d] EXCEPT !.entry[m] = a, !.nlink = k]
    <3>1. v[d] \in Nodes
      BY InTable
    <3> QED BY <1>2, <3>1 DEF Nodes, Dirs!Enter
  <2>2. Dirs!Enter(v[d], m, a).nlink = v[d].nlink
    <3>1. v[d] \in Nodes
      BY InTable
    <3> QED BY <3>1 DEF Nodes, Dirs!Enter
  <2>3. PICK y : y = [v[d] EXCEPT !.entry[m] = a, !.nlink = k]
    OBVIOUS
  <2>4. w = [v EXCEPT ![a] = x, ![d] = y]
    BY <1>1, <2>1, <2>2, <2>3 DEF Created
  <2>5. u[d] = v[d]
    BY <1>3, <1>5
  <2>6. w = [u EXCEPT ![d] = y]
    BY <1>4, <2>4
  <2> QED BY <2>3, <2>5, <2>6 DEF Entered
<1>7. /\ w \in Tables /\ OneEntryChanges(u, w, d, m)
      /\ \A b \in Inums : w[b].type = u[b].type
      /\ \A b \in Inums : w[b].nlink = IF b = d THEN k ELSE u[b].nlink
      /\ \A b \in Inums : b # d => w[b] = u[b]
      /\ w[d].entry[m] = a
  <2>1. u[d].type = "dir"
    BY <1>3, <1>5
  <2>2. a \in Inums \cup {Dirs!NoInode}
    OBVIOUS
  <2> QED BY <1>5, <1>6, <2>1, <2>2, EntryMade
<1>8. \A b \in Inums : u[b].entry = v[b].entry
  BY <1>3, <1>5
<1>9. /\ OneEntryChanges(v, w, d, m) /\ w[a] = x
      /\ \A b \in Inums : b # a => w[b].type = v[b].type
      /\ \A b \in Inums : b # d => w[b].entry = v[b].entry
  <2>1. OneEntryChanges(v, w, d, m)
    BY <1>7, <1>8 DEF OneEntryChanges
  <2>2. w[a] = x
    BY <1>3, <1>5, <1>7
  <2>3. \A b \in Inums : b # a => w[b].type = v[b].type
    BY <1>5, <1>7
  <2>4. \A b \in Inums : b # d => w[b].entry = v[b].entry
    BY <1>7, <1>8
  <2> QED BY <2>1, <2>2, <2>3, <2>4
<1>10. EntriesIn(v, a) = {}
  BY <1>3, NoLinks
<1>11. NamedKeep(v, w)
  <2> SUFFICES ASSUME NEW b \in Inums, NEW y \in Names, v[b].entry[y] # Dirs!NoInode
      PROVE w[v[b].entry[y]].type = v[v[b].entry[y]].type
    BY DEF NamedKeep
  <2>1. v[b].entry[y] \in Inums
    BY InTable
  <2>2. v[b].entry[y] # a
    <3>1. <<b, y>> \notin EntriesIn(v, a)
      BY <1>10
    <3> QED BY <3>1 DEF EntriesIn
  <2> QED BY <1>9, <2>1, <2>2
<1>12. SubAt(v, d, m) = 0 /\ SubAt(w, d, m) = dots
  BY <1>1, <1>7, <1>9, DirsFinite DEF SubAt
<1>13. ASSUME NEW b \in Inums
       PROVE  w[b].nlink + Is(v[d].entry[m], b) + IfAt(b, d, SubAt(v, d, m)) + lk[b]
                = v[b].nlink + Is(w[d].entry[m], b) + IfAt(b, d, SubAt(w, d, m)) + lk[b]
  <2>1. Is(v[d].entry[m], b) = 0 /\ Is(w[d].entry[m], b) = Is(a, b)
    BY <1>7, DirsFinite DEF Is
  <2>2. IfAt(b, d, SubAt(v, d, m)) = 0 /\ IfAt(b, d, SubAt(w, d, m)) = IfAt(b, d, dots)
    BY <1>12 DEF IfAt
  <2>3. v[b].nlink \in Int /\ lk[b] \in Nat
    BY InTable
  <2>4. w[b].nlink = v[b].nlink + Is(a, b) + IfAt(b, d, dots)
    <3>1. CASE b = d
      <4>1. w[b].nlink = v[b].nlink + dots /\ Is(a, b) = 0 /\ IfAt(b, d, dots) = dots
        BY <1>2, <1>3, <1>7, <3>1 DEF Is, IfAt
      <4> QED BY <2>3, <4>1
    <3>2. CASE b = a
      <4>1. w[b].nlink = 1 /\ v[b].nlink = 0 /\ Is(a, b) = 1 /\ IfAt(b, d, dots) = 0
        BY <1>3, <1>9, <3>2 DEF Is, IfAt
      <4> QED BY <4>1
    <3>3. CASE b # d /\ b # a
      <4>1. w[b].nlink = v[b].nlink /\ Is(a, b) = 0 /\ IfAt(b, d, dots) = 0
        BY <1>5, <1>7, <3>3 DEF Is, IfAt
      <4> QED BY <2>3, <4>1
    <3> QED BY <3>1, <3>2, <3>3
  <2>5. w[b].nlink \in Int /\ Is(a, b) \in Int /\ IfAt(b, d, dots) \in Int
    BY <1>7, InTable DEF Is, IfAt
  <2> QED BY <2>1, <2>2, <2>3, <2>4, <2>5
<1>14. EntryMoves(v, w, d, m, lk, lk)
  BY <1>13 DEF EntryMoves
<1>15. LinksOK(w, lk, ls)
  BY <1>7, <1>9, <1>11, <1>14, EntryLinks
<1> QED BY <1>7, <1>9, <1>15

\* The inode that create() makes.
NewType(p) == CASE op[p] = "creat" -> "file" [] op[p] = "mkdir" -> "dir" [] OTHER -> "dev"
NewNode(p) ==
  [Dirs!Blank EXCEPT !.type = NewType(p), !.nlink = 1,
                     !.up = IF NewType(p) = "dir" THEN at[p] ELSE Dirs!NoInode]

LEMMA NewNodeIs ==
  ASSUME NEW p \in Procs, at[p] \in Inums
  PROVE  /\ NewNode(p) \in Nodes /\ WellFormed(NewNode(p)) /\ NewNode(p).nlink = 1
         /\ NewNode(p).entry = NoEntries /\ NewNode(p).type \in Allocated
         /\ NewNode(p).type = NewType(p)
<1>1. PICK type \in {"file", "dir", "dev"} : type = NewType(p)
  BY DEF NewType
<1>2. PICK parent \in Inums \cup {Dirs!NoInode} :
        parent = IF type = "dir" THEN at[p] ELSE Dirs!NoInode
  OBVIOUS
<1>3. PICK none \in [Names -> Inums \cup {Dirs!NoInode}] : none = NoEntries
  BY DEF NoEntries
<1>4. NewNode(p) = [type |-> type, nlink |-> 1, entry |-> none, up |-> parent]
  <2>1. PICK x : x = Dirs!Blank
    OBVIOUS
  <2>2. NewNode(p) = [x EXCEPT !.type = type, !.nlink = 1, !.up = parent]
    BY <1>1, <1>2, <2>1 DEF NewNode
  <2>3. x = [type |-> "free", nlink |-> 0, entry |-> none, up |-> Dirs!NoInode]
    BY <1>3, <2>1 DEF Dirs!Blank, NoEntries
  <2> QED BY <2>2, <2>3
<1>5. [type |-> type, nlink |-> 1, entry |-> none, up |-> parent] \in Nodes
  BY DEF Nodes
<1> QED BY <1>1, <1>2, <1>3, <1>4, <1>5 DEF WellFormed, Allocated


LEMMA CreateKeeps ==
  ASSUME DirsInv, NEW p \in Procs, Dirs!Create(p)
  PROVE  DirsInv'
<1> DEFINE m == Head(path[p])
           next == Dirs!Lookup(at[p], m)
           new == Lowest(Dirs!FreeInodes)
<1>1. /\ CallTypes /\ inode \in Tables /\ lost \in [Inums -> Nat] /\ HoldsIn(inode, p)
      /\ where[p] = "create" /\ at[p] \in Inums /\ inode[at[p]].type = "dir"
      /\ dip[p] = Dirs!NoInode /\ op[p] \in Dirs!Creates
      /\ path[p] # <<>> /\ path[p] \in Seq(Steps) /\ lock[at[p]] = None
  BY HandsOf DEF HandsIn, Has, Dirs!Create, Dirs!Runs, CallTypes
<1>2. \A a \in Inums : lock[a] # p
  BY <1>1, FilesAssumption DEF HoldsIn
<1>3. CASE Dirs!Panic("create: ialloc")
  BY <1>3, PanicKeeps
<1>4. ASSUME next # Dirs!NoInode,
             Dirs!Settle(inode, Dirs!Iput(Dirs!Iget(iref, next), at[p])),
             at' = Dirs!Set(at, p, next), Dirs!Goto(p, "existing"),
             UNCHANGED <<lock, log, cwd, fd, op, path, dip, calls>>
      PROVE  DirsInv'
  <2> PICK w : w = inode
    OBVIOUS
  <2>1. next \in Inums
    BY <1>1, <1>4, LookupIs, HeadTail
  <2> HIDE DEF next
  <2>2. iref' = Dirs!Iput(Dirs!Iget(iref, next), at[p]) /\ Makes(w)
    BY <1>4, Settles
  <2>3. iref' \in [Inums -> Int] /\ \A a \in Inums : iref'[a] = iref[a] + Is(next, a) - Is(at[p], a)
    <3>1. iref \in [Inums -> Int] /\ at[p] \in Inums /\ next \in Inums
      BY <1>1, <2>1 DEF CallTypes
    <3>2. PICK refs : refs = Dirs!Iput(Dirs!Iget(iref, next), at[p])
      OBVIOUS
    <3>3. refs \in [Inums -> Int] /\ \A a \in Inums : refs[a] = iref[a] + Is(next, a) - Is(at[p], a)
      BY <3>1, <3>2, PutGot
    <3> QED BY <3>2, <3>3, <2>2
  <2>4. /\ lock' = lock /\ cwd' = cwd /\ fd' = fd /\ op' = op /\ dip' = dip /\ path' = path
        /\ at' = [at EXCEPT ![p] = next] /\ where' = [where EXCEPT ![p] = "existing"]
    BY <1>4 DEF Dirs!Goto, Dirs!Set
  <2>5. CallTypes' /\ OthersSame(p) /\ LocksKept(p)
    BY <1>1, <2>1, <2>3, <2>4 DEF CallTypes, OthersSame, DirLabels, LocksKept
  <2>6. LinkingSame(p)
    BY <2>4 DEF LinkingSame
  <2>7. RefsMove(p)
    <3>1. cwd'[p] = cwd[p] /\ fd'[p] = fd[p] /\ dip'[p] = dip[p] /\ at'[p] = next
      BY <1>1, <2>4 DEF CallTypes
    <3> QED BY <1>1, <2>3, <3>1, RefsMoveAt
  <2>8. HandsIn(w, p)'
    BY <1>1, <2>1, <2>4, DirsFinite DEF CallTypes, HandsIn
  <2>9. HoldsIn(w, p)'
    BY <1>1, <1>2, <2>4 DEF HoldsIn, Has
  <2> QED BY <2>2, <2>5, <2>6, <2>7, <2>8, <2>9, SameTable
<1>5. ASSUME next = Dirs!NoInode, Dirs!FreeInodes # {},
             Dirs!Settle(Created(inode, at[p], m, new, NewNode(p), NewType(p)),
                         Dirs!Iput(Dirs!Iget(iref, new), at[p])),
             Dirs!Lock(new, p), at' = Dirs!Set(at, p, new),
             Dirs!Goto(p, IF op[p] = "creat" THEN "commit" ELSE "put"),
             UNCHANGED <<log, cwd, fd, op, path, dip, calls>>
      PROVE  DirsInv'
  <2>1. m \in Names /\ inode[at[p]].entry[m] = Dirs!NoInode
    BY <1>1, <1>5, LookupIs, HeadTail, DirsFinite
  <2>2. new \in Inums /\ inode[new].type = "free"
    <3>1. Dirs!FreeInodes \subseteq Nat
      BY DirsFinite, DirsAssumption DEF Dirs!FreeInodes, Dirs!Inums
    <3>2. new \in Dirs!FreeInodes
      BY <1>5, <3>1, LowestFound
    <3> QED BY <3>2 DEF Dirs!FreeInodes, Inums
  <2> HIDE DEF m, new, next
  <2> PICK w, x : w = Created(inode, at[p], m, new, NewNode(p), NewType(p)) /\ x = NewNode(p)
    OBVIOUS
  <2>3. LinksOK(inode, Linked, lost) /\ Linked \in [Inums -> Nat]
    BY LinkedIs DEF DirsInv
  <2>4. x \in Nodes /\ WellFormed(x) /\ x.nlink = 1 /\ x.entry = NoEntries /\ x.type \in Allocated
    BY <1>1, NewNodeIs
  <2>5. /\ w \in Tables /\ LinksOK(w, Linked, lost)
        /\ w[new] = x
        /\ \A b \in Inums : b # new => w[b].type = inode[b].type
        /\ \A b \in Inums : b # at[p] => w[b].entry = inode[b].entry
    <3>1. PICK type : type = NewType(p)
      OBVIOUS
    <3>2. PICK v \in Tables, d \in Inums : v = inode /\ d = at[p]
      BY <1>1
    <3>3. x.type # "free" /\ x.type = type /\ w = Created(v, d, m, new, x, type)
      BY <1>1, <2>4, <3>1, <3>2, NewNodeIs DEF Allocated
    <3>4. v[d].type = "dir" /\ v[d].entry[m] = Dirs!NoInode /\ v[new].type = "free"
      BY <1>1, <2>1, <2>2, <3>2
    <3>5. LinksOK(v, Linked, lost)
      BY <2>3, <3>2
    <3>6. /\ w \in Tables /\ LinksOK(w, Linked, lost)
          /\ w[new] = x
          /\ \A b \in Inums : b # new => w[b].type = v[b].type
          /\ \A b \in Inums : b # d => w[b].entry = v[b].entry
      BY <1>1, <2>1, <2>2, <2>3, <2>4, <3>3, <3>4, <3>5, CreatedTable
    <3> QED BY <3>2, <3>6
  <2>6. iref' = Dirs!Iput(Dirs!Iget(iref, new), at[p]) /\ Makes(w)
    BY <1>5, Settles
  <2>7. iref' \in [Inums -> Int] /\ \A a \in Inums : iref'[a] = iref[a] + Is(new, a) - Is(at[p], a)
    <3>1. iref \in [Inums -> Int] /\ at[p] \in Inums /\ new \in Inums
      BY <1>1, <2>2 DEF CallTypes
    <3>2. PICK refs : refs = Dirs!Iput(Dirs!Iget(iref, new), at[p])
      OBVIOUS
    <3>3. refs \in [Inums -> Int] /\ \A a \in Inums : refs[a] = iref[a] + Is(new, a) - Is(at[p], a)
      BY <3>1, <3>2, PutGot
    <3> QED BY <3>2, <3>3, <2>6
  <2>8. /\ lock' = [lock EXCEPT ![new] = p] /\ cwd' = cwd /\ fd' = fd /\ op' = op /\ dip' = dip
        /\ path' = path /\ at' = [at EXCEPT ![p] = new]
        /\ where' = [where EXCEPT ![p] = IF op[p] = "creat" THEN "commit" ELSE "put"]
    BY <1>5 DEF Dirs!Goto, Dirs!Set, Dirs!Lock
  <2>9. CallTypes' /\ OthersSame(p)
    BY <1>1, <2>2, <2>7, <2>8 DEF CallTypes, OthersSame, DirLabels
  <2>10. ASSUME NEW q \in Procs, q # p, NEW a \in Inums
         PROVE  (lock'[a] = q <=> lock[a] = q) /\ (lock[a] = q => w[a].entry = inode[a].entry)
    <3>1. HoldsIn(inode, q)
      BY DEF DirsInv
    <3>2. lock[new] # q
      BY <2>2, <3>1 DEF HoldsIn, Allocated
    <3>3. lock'[a] = IF a = new THEN p ELSE lock[a]
      BY <1>1, <2>2, <2>8 DEF CallTypes
    <3>4. lock[a] = q => a # at[p]
      BY <1>1, FilesAssumption
    <3> QED BY <2>5, <2>10, <3>2, <3>3, <3>4
  <2>11. Steady(p, w)
    BY <2>2, <2>5, <2>9, <2>10 DEF Steady
  <2>12. LinksOK(w, Linked', lost)
    <3>1. op[p] # "link" /\ op'[p] = op[p]
      BY <1>1, <2>8 DEF Dirs!Creates
    <3> QED BY <2>5, <2>9, <3>1, LinkingKept
  <2>13. RefsMove(p)
    <3>1. cwd'[p] = cwd[p] /\ fd'[p] = fd[p] /\ dip'[p] = dip[p] /\ at'[p] = new
      BY <1>1, <2>8 DEF CallTypes
    <3> QED BY <1>1, <2>7, <3>1, RefsMoveAt
  <2>14. /\ at'[p] = new /\ where'[p] \in {"commit", "put"} /\ op'[p] = op[p] /\ dip'[p] = dip[p]
         /\ lock'[new] = p /\ w[new].type \in Allocated
    BY <1>1, <2>2, <2>4, <2>5, <2>8 DEF CallTypes
  <2>15. HandsIn(w, p)'
    BY <1>1, <2>2, <2>14, DirsFinite DEF HandsIn, Has
  <2>16. HoldsIn(w, p)'
    <3>1. \A a \in Inums : lock'[a] = p => a = new
      BY <1>1, <1>2, <2>2, <2>8 DEF CallTypes
    <3>2. Has(w, cwd[p], {"dir"}) /\ (fd[p] # Dirs!NoInode => Has(w, fd[p], Allocated))
      BY <1>1, <2>2, <2>5 DEF HoldsIn, Has, Allocated
    <3>3. op'[p] # "link"
      BY <1>1, <2>14 DEF Dirs!Creates
    <3> QED BY <2>8, <2>14, <3>1, <3>2, <3>3 DEF HoldsIn
  <2> QED BY <2>5, <2>6, <2>9, <2>11, <2>12, <2>13, <2>15, <2>16, StepKeeps
<1> QED BY <1>3, <1>4, <1>5 DEF Dirs!Create, Created, NewNode, NewType, Lowest

-----------------------------------------------------------------------------
(* Xv6Dirs: the disk at the start                                          *)

\* The root has the one directory 2, and that the one inode "named", if any.
LEMMA TreeLinks ==
  ASSUME NEW x \in Names, NEW w \in Tables, NEW named \in {3, Dirs!NoInode},
         w[2].type = "dir",
         \A m \in Names : w[1].entry[m] = IF m = x THEN 2 ELSE Dirs!NoInode,
         \A m \in Names : w[2].entry[m] = IF m = x THEN named ELSE Dirs!NoInode,
         \A a \in Inums : a \notin {1, 2} => \A m \in Names : w[a].entry[m] = Dirs!NoInode,
         w[1].nlink = 2,
         w[2].nlink = IF named = 3 /\ w[3].type = "dir" THEN 2 ELSE 1,
         w[3].nlink = IF named = 3 THEN 1 ELSE 0,
         \A a \in Inums : a \notin {1, 2, 3} => w[a].nlink = 0
  PROVE  LinksOK(w, [a \in Inums |-> 0], [a \in Inums |-> 0])
<1>1. /\ 1 \in Inums /\ 2 \in Inums /\ 3 \in Inums /\ Dirs!NoInode = 0 /\ Dirs!Root = 1
      /\ 0 \notin Inums
  BY DirsFinite, DirsAssumption
<1>2. Cardinality({}) = 0 /\ Cardinality({x}) = 1 /\ \A b : Cardinality({<<b, x>>}) = 1
  BY FS_EmptySet, FS_Singleton
<1>3. ASSUME NEW a \in Inums
      PROVE  Cardinality(EntriesIn(w, a)) = IF a = 2 \/ (a = 3 /\ named = 3) THEN 1 ELSE 0
  <2>1. \A e \in Inums \X Names : w[e[1]].entry[e[2]] = a <=>
          (e = <<1, x>> /\ a = 2) \/ (e = <<2, x>> /\ a = named)
    <3> SUFFICES ASSUME NEW b \in Inums, NEW m \in Names
        PROVE w[b].entry[m] = a <=> (b = 1 /\ m = x /\ a = 2) \/ (b = 2 /\ m = x /\ a = named)
      OBVIOUS
    <3>1. CASE b = 1
      BY <1>1, <3>1
    <3>2. CASE b = 2
      BY <1>1, <3>2
    <3>3. CASE b \notin {1, 2}
      BY <1>1, <3>3
    <3> QED BY <3>1, <3>2, <3>3
  <2>2. CASE a = 2
    <3>1. EntriesIn(w, a) = {<<1, x>>}
      BY <1>1, <2>1, <2>2 DEF EntriesIn
    <3> QED BY <1>2, <2>2, <3>1
  <2>3. CASE a = 3 /\ named = 3
    <3>1. EntriesIn(w, a) = {<<2, x>>}
      BY <1>1, <2>1, <2>3 DEF EntriesIn
    <3> QED BY <1>2, <2>3, <3>1
  <2>4. CASE ~(a = 2 \/ (a = 3 /\ named = 3))
    <3>1. EntriesIn(w, a) = {}
      BY <1>1, <2>1, <2>4 DEF EntriesIn
    <3> QED BY <1>2, <2>4, <3>1
  <2> QED BY <2>2, <2>3, <2>4
<1>4. ASSUME NEW a \in Inums
      PROVE  Cardinality(SubsIn(w, a)) = IF a = 1 \/ (a = 2 /\ named = 3 /\ w[3].type = "dir") THEN 1 ELSE 0
  <2>1. CASE a = 1
    <3>1. SubsIn(w, a) = {x}
      BY <1>1, <2>1 DEF SubsIn
    <3> QED BY <1>2, <2>1, <3>1
  <2>2. CASE a = 2 /\ named = 3 /\ w[3].type = "dir"
    <3>1. SubsIn(w, a) = {x}
      BY <1>1, <2>2 DEF SubsIn
    <3> QED BY <1>2, <2>2, <3>1
  <2>3. CASE a = 2 /\ ~(named = 3 /\ w[3].type = "dir")
    <3>1. SubsIn(w, a) = {}
      BY <1>1, <2>3 DEF SubsIn
    <3> QED BY <1>2, <2>3, <3>1
  <2>4. CASE a \notin {1, 2}
    <3>1. SubsIn(w, a) = {}
      BY <1>1, <2>4 DEF SubsIn
    <3> QED BY <1>2, <2>4, <3>1
  <2> QED BY <2>1, <2>2, <2>3, <2>4
<1>5. ASSUME NEW a \in Inums
      PROVE  w[a].nlink = Cardinality(EntriesIn(w, a)) + Cardinality(SubsIn(w, a)) + Bit(a = Dirs!Root)
  <2>1. CASE a = 1
    <3>1. Bit(a = Dirs!Root) = 1
      BY <1>1, <2>1 DEF Bit
    <3> QED BY <1>3, <1>4, <2>1, <3>1
  <2>2. CASE a # 1
    <3>1. Bit(a = Dirs!Root) = 0
      BY <1>1, <2>2 DEF Bit
    <3> QED BY <1>3, <1>4, <2>2, <3>1
  <2> QED BY <2>1, <2>2
<1> QED BY <1>5, TableCounts DEF LinksOK, Bit

\* What the trees are made of.
LEMMA BlankRecord ==
  /\ NoEntries \in [Names -> Inums \cup {Dirs!NoInode}]
  /\ \A m \in Names : NoEntries[m] = Dirs!NoInode
  /\ Dirs!Blank = [type |-> "free", nlink |-> 0, entry |-> NoEntries, up |-> Dirs!NoInode]
BY DEF NoEntries, Dirs!Blank

LEMMA DirMade ==
  ASSUME NEW k \in Int, NEW up \in Inums, NEW d, d = Dirs!Dir(k, up)
  PROVE  /\ d = [type |-> "dir", nlink |-> k, entry |-> NoEntries, up |-> up]
         /\ d \in Nodes /\ WellFormed(d) /\ d.type = "dir" /\ d.nlink = k
         /\ \A m \in Names : d.entry[m] = Dirs!NoInode
<1>1. PICK y : y = Dirs!Blank
  OBVIOUS
<1>2. PICK none : none = NoEntries
  OBVIOUS
<1>3. /\ y = [type |-> "free", nlink |-> 0, entry |-> none, up |-> Dirs!NoInode]
      /\ none \in [Names -> Inums \cup {Dirs!NoInode}]
      /\ \A m \in Names : none[m] = Dirs!NoInode
  BY <1>1, <1>2, BlankRecord
<1>4. d = [y EXCEPT !.type = "dir", !.nlink = k, !.up = up]
  BY <1>1 DEF Dirs!Dir
<1>5. d = [type |-> "dir", nlink |-> k, entry |-> none, up |-> up]
  BY <1>3, <1>4
<1> QED BY <1>2, <1>3, <1>5 DEF Nodes, WellFormed

LEMMA DirEntered ==
  ASSUME NEW x \in Names, NEW k \in Int, NEW up \in Inums, NEW a \in Inums,
         NEW e, e = Dirs!Enter(Dirs!Dir(k, up), x, a)
  PROVE  /\ e \in Nodes /\ WellFormed(e) /\ e.type = "dir" /\ e.nlink = k
         /\ \A m \in Names : e.entry[m] = IF m = x THEN a ELSE Dirs!NoInode
<1>1. PICK d : d = Dirs!Dir(k, up)
  OBVIOUS
<1>2. PICK none : none = NoEntries
  OBVIOUS
<1>3. /\ d = [type |-> "dir", nlink |-> k, entry |-> none, up |-> up]
      /\ none \in [Names -> Inums \cup {Dirs!NoInode}]
      /\ \A m \in Names : none[m] = Dirs!NoInode
  BY <1>1, <1>2, BlankRecord, DirMade
<1>4. e = [d EXCEPT !.entry[x] = a]
  BY <1>1 DEF Dirs!Enter
<1>5. e = [type |-> "dir", nlink |-> k, entry |-> [none EXCEPT ![x] = a], up |-> up]
  BY <1>3, <1>4
<1> QED BY <1>3, <1>5 DEF Nodes, WellFormed

LEMMA FileMade ==
  ASSUME NEW file, file = [Dirs!Blank EXCEPT !.type = "file", !.nlink = 1]
  PROVE  /\ file \in Nodes /\ WellFormed(file) /\ file.type = "file" /\ file.nlink = 1
         /\ \A m \in Names : file.entry[m] = Dirs!NoInode
<1>1. PICK none : none = NoEntries
  OBVIOUS
<1>2. /\ file = [type |-> "file", nlink |-> 1, entry |-> none, up |-> Dirs!NoInode]
      /\ none \in [Names -> Inums \cup {Dirs!NoInode}]
      /\ \A m \in Names : none[m] = Dirs!NoInode
  BY <1>1, BlankRecord
<1>3. PICK y : y = file
  OBVIOUS
<1>4. y = [type |-> "file", nlink |-> 1, entry |-> none, up |-> Dirs!NoInode]
  BY <1>2, <1>3
<1>5. /\ y \in Nodes /\ WellFormed(y) /\ y.type = "file" /\ y.nlink = 1
      /\ \A m \in Names : y.entry[m] = Dirs!NoInode
  BY <1>1, <1>2, <1>4 DEF Nodes, WellFormed
<1> QED BY <1>3, <1>5

LEMMA RootDir ==
  ASSUME NEW x \in Names, NEW k \in Int, NEW a \in Inums,
         NEW e, e = Dirs!Enter(Dirs!Dir(k, Dirs!Root), x, a)
  PROVE  /\ e \in Nodes /\ WellFormed(e) /\ e.type = "dir" /\ e.nlink = k
         /\ \A m \in Names : e.entry[m] = IF m = x THEN a ELSE Dirs!NoInode
<1>1. PICK up \in Inums : up = Dirs!Root
  BY DirsFinite
<1>2. e = Dirs!Enter(Dirs!Dir(k, up), x, a)
  BY <1>1
<1> QED BY <1>2, DirEntered

Tree(x, d, last) ==
  [a \in Inums |-> CASE a = Dirs!Root -> Dirs!Enter(Dirs!Dir(2, Dirs!Root), x, 2)
                     [] a = 2 -> d [] a = 3 -> last [] OTHER -> Dirs!Blank]

LEMMA TreeIs ==
  ASSUME NEW x \in Names, NEW d \in Nodes, WellFormed(d), NEW last \in Nodes, WellFormed(last),
         NEW w, w = Tree(x, d, last)
  PROVE  /\ w \in Tables /\ w[1] = Dirs!Enter(Dirs!Dir(2, Dirs!Root), x, 2) /\ w[2] = d /\ w[3] = last
         /\ \A a \in Inums : a \notin {1, 2, 3} => w[a] = Dirs!Blank
<1>1. /\ 1 \in Inums /\ 2 \in Inums /\ 3 \in Inums /\ Dirs!Root = 1
  BY DirsFinite, DirsAssumption
<1>2. PICK root : root = Dirs!Enter(Dirs!Dir(2, Dirs!Root), x, 2)
  OBVIOUS
<1>3. root \in Nodes /\ WellFormed(root)
  <2>1. PICK k \in Int, a \in Inums : k = 2 /\ a = 2
    BY <1>1
  <2>2. root = Dirs!Enter(Dirs!Dir(k, Dirs!Root), x, a)
    BY <1>2, <2>1
  <2> QED BY <2>2, RootDir
<1>4. PICK blank : blank = Dirs!Blank
  OBVIOUS
<1>5. blank \in Nodes /\ WellFormed(blank)
  BY <1>4, BlankIs
<1>6. w = [a \in Inums |-> IF a = 1 THEN root ELSE IF a = 2 THEN d ELSE IF a = 3 THEN last ELSE blank]
  BY <1>1, <1>2, <1>4 DEF Tree
<1>7. \A a \in Inums : w[a] = IF a = 1 THEN root ELSE IF a = 2 THEN d ELSE IF a = 3 THEN last ELSE blank
  BY <1>6
<1>8. \A a \in Inums : w[a] \in {y \in Nodes : WellFormed(y)}
  BY <1>3, <1>5, <1>7
<1>9. w \in Tables
  BY <1>6, <1>8 DEF Tables
<1> QED BY <1>1, <1>2, <1>4, <1>7, <1>9

ToTree(w, x, d, last, named) ==
  /\ w = Tree(x, d, last) /\ named \in {3, Dirs!NoInode}
  /\ d \in Nodes /\ WellFormed(d) /\ last \in Nodes /\ WellFormed(last)
  /\ d.type = "dir"
  /\ d.nlink = IF named = 3 /\ last.type = "dir" THEN 2 ELSE 1
  /\ \A m \in Names : d.entry[m] = IF m = x THEN named ELSE Dirs!NoInode
  /\ last.nlink = IF named = 3 THEN 1 ELSE 0
  /\ \A m \in Names : last.entry[m] = Dirs!NoInode

LEMMA StartTree ==
  ASSUME inode \in Dirs!Trees
  PROVE  inode \in Tables /\ LinksOK(inode, [a \in Inums |-> 0], [a \in Inums |-> 0])
<1> DEFINE x == CHOOSE m \in Names : TRUE
<1>1. x \in Names
  BY DirsAssumption
<1>2. \/ inode = Tree(x, Dirs!Dir(1, Dirs!Root), Dirs!Blank)
      \/ inode = Tree(x, Dirs!Enter(Dirs!Dir(1, Dirs!Root), x, 3),
                      [Dirs!Blank EXCEPT !.type = "file", !.nlink = 1])
      \/ inode = Tree(x, Dirs!Enter(Dirs!Dir(2, Dirs!Root), x, 3), Dirs!Dir(1, 2))
  BY DEF Dirs!Trees, Tree, Inums
<1> HIDE DEF x
<1>3. /\ 1 \in Inums /\ 2 \in Inums /\ 3 \in Inums /\ Dirs!Root \in Inums /\ Dirs!Root = 1
      /\ Dirs!NoInode # 3
  BY DirsFinite, DirsAssumption
<1>4. PICK w, blank : w = inode /\ blank = Dirs!Blank
  OBVIOUS
<1>5. /\ blank \in Nodes /\ WellFormed(blank) /\ blank.nlink = 0 /\ blank.type = "free"
      /\ \A m \in Names : blank.entry[m] = Dirs!NoInode
  BY <1>4, BlankIs
<1>6. \E d, last, named : ToTree(w, x, d, last, named)
  <2>1. CASE inode = Tree(x, Dirs!Dir(1, Dirs!Root), Dirs!Blank)
    <3>1. PICK d : d = Dirs!Dir(1, Dirs!Root)
      OBVIOUS
    <3>2. /\ d \in Nodes /\ WellFormed(d) /\ d.type = "dir" /\ d.nlink = 1
          /\ \A m \in Names : d.entry[m] = Dirs!NoInode
      BY <1>3, <3>1, DirMade
    <3>3. ToTree(w, x, d, blank, Dirs!NoInode)
      BY <1>3, <1>4, <1>5, <2>1, <3>1, <3>2 DEF ToTree
    <3> QED BY <3>3
  <2>2. CASE inode = Tree(x, Dirs!Enter(Dirs!Dir(1, Dirs!Root), x, 3),
                          [Dirs!Blank EXCEPT !.type = "file", !.nlink = 1])
    <3>1. PICK d : d = Dirs!Enter(Dirs!Dir(1, Dirs!Root), x, 3)
      OBVIOUS
    <3>2. PICK last : last = [Dirs!Blank EXCEPT !.type = "file", !.nlink = 1]
      OBVIOUS
    <3>3. /\ d \in Nodes /\ WellFormed(d) /\ d.type = "dir" /\ d.nlink = 1
          /\ \A m \in Names : d.entry[m] = IF m = x THEN 3 ELSE Dirs!NoInode
      <4>1. PICK k \in Int, a \in Inums : k = 1 /\ a = 3
        BY <1>3
      <4>2. d = Dirs!Enter(Dirs!Dir(k, Dirs!Root), x, a)
        BY <3>1, <4>1
      <4>3. /\ d \in Nodes /\ WellFormed(d) /\ d.type = "dir" /\ d.nlink = k
            /\ \A m \in Names : d.entry[m] = IF m = x THEN a ELSE Dirs!NoInode
        BY <1>1, <4>2, RootDir
      <4> QED BY <4>1, <4>3
    <3>4. /\ last \in Nodes /\ WellFormed(last) /\ last.type = "file" /\ last.nlink = 1
          /\ \A m \in Names : last.entry[m] = Dirs!NoInode
      BY <3>2, FileMade
    <3>5. w = Tree(x, d, last)
      BY <1>4, <2>2, <3>1, <3>2
    <3>6. ToTree(w, x, d, last, 3)
      BY <3>3, <3>4, <3>5 DEF ToTree
    <3> QED BY <3>6
  <2>3. CASE inode = Tree(x, Dirs!Enter(Dirs!Dir(2, Dirs!Root), x, 3), Dirs!Dir(1, 2))
    <3>1. PICK d : d = Dirs!Enter(Dirs!Dir(2, Dirs!Root), x, 3)
      OBVIOUS
    <3>2. PICK last : last = Dirs!Dir(1, 2)
      OBVIOUS
    <3>3. /\ d \in Nodes /\ WellFormed(d) /\ d.type = "dir" /\ d.nlink = 2
          /\ \A m \in Names : d.entry[m] = IF m = x THEN 3 ELSE Dirs!NoInode
      <4>1. PICK k \in Int, a \in Inums : k = 2 /\ a = 3
        BY <1>3
      <4>2. d = Dirs!Enter(Dirs!Dir(k, Dirs!Root), x, a)
        BY <3>1, <4>1
      <4>3. /\ d \in Nodes /\ WellFormed(d) /\ d.type = "dir" /\ d.nlink = k
            /\ \A m \in Names : d.entry[m] = IF m = x THEN a ELSE Dirs!NoInode
        BY <1>1, <4>2, RootDir
      <4> QED BY <4>1, <4>3
    <3>4. /\ last \in Nodes /\ WellFormed(last) /\ last.type = "dir" /\ last.nlink = 1
          /\ \A m \in Names : last.entry[m] = Dirs!NoInode
      BY <1>3, <3>2, DirMade
    <3>5. ToTree(w, x, d, last, 3)
      BY <1>4, <2>3, <3>1, <3>2, <3>3, <3>4 DEF ToTree
    <3> QED BY <3>5
  <2> QED BY <1>2, <2>1, <2>2, <2>3
<1>7. PICK d, last, named : ToTree(w, x, d, last, named)
  BY <1>6
<1>8. /\ w \in Tables /\ w[1] = Dirs!Enter(Dirs!Dir(2, Dirs!Root), x, 2) /\ w[2] = d /\ w[3] = last
      /\ \A a \in Inums : a \notin {1, 2, 3} => w[a] = blank
  BY <1>1, <1>4, <1>7, TreeIs DEF ToTree
<1>9. /\ w[1].nlink = 2
      /\ \A m \in Names : w[1].entry[m] = IF m = x THEN 2 ELSE Dirs!NoInode
  BY <1>1, <1>3, <1>8, RootDir
<1>10. /\ w[2].type = "dir"
       /\ \A m \in Names : w[2].entry[m] = IF m = x THEN named ELSE Dirs!NoInode
       /\ w[2].nlink = IF named = 3 /\ w[3].type = "dir" THEN 2 ELSE 1
       /\ w[3].nlink = IF named = 3 THEN 1 ELSE 0
       /\ named \in {3, Dirs!NoInode}
  BY <1>7, <1>8 DEF ToTree
<1>11. \A a \in Inums : a \notin {1, 2} => \A m \in Names : w[a].entry[m] = Dirs!NoInode
  BY <1>5, <1>7, <1>8 DEF ToTree
<1>12. \A a \in Inums : a \notin {1, 2, 3} => w[a].nlink = 0
  BY <1>5, <1>8
<1>13. LinksOK(w, [a \in Inums |-> 0], [a \in Inums |-> 0])
  BY <1>1, <1>8, <1>9, <1>10, <1>11, <1>12, TreeLinks
<1> QED BY <1>4, <1>8, <1>13

LEMMA InitDirsInv == Dirs!Init => DirsInv
<1> SUFFICES ASSUME Dirs!Init PROVE DirsInv
  OBVIOUS
<1>1. /\ inode \in Tables /\ LinksOK(inode, [a \in Inums |-> 0], [a \in Inums |-> 0])
  BY StartTree DEF Dirs!Init
<1>2. /\ cwd \in [Procs -> {a \in Inums : inode[a].type = "dir"}]
      /\ iref = [a \in Inums |-> Dirs!Cardinality({p \in Procs : cwd[p] = a})]
      /\ lock = [a \in Inums |-> None] /\ fd = [p \in Procs |-> Dirs!NoInode]
      /\ where = [p \in Procs |-> "user"] /\ op = [p \in Procs |-> "none"]
      /\ path = [p \in Procs |-> <<>>] /\ at = [p \in Procs |-> Dirs!NoInode]
      /\ dip = [p \in Procs |-> Dirs!NoInode] /\ lost = [a \in Inums |-> 0]
  BY DEF Dirs!Init, Inums
<1>3. \A a \in Inums : iref[a] = CountOf(cwd, a) /\ CountOf(cwd, a) \in Nat
  <2> SUFFICES ASSUME NEW a \in Inums PROVE iref[a] = CountOf(cwd, a) /\ CountOf(cwd, a) \in Nat
    OBVIOUS
  <2>1. IsFiniteSet({p \in Procs : cwd[p] = a})
    BY DirsFinite, FS_Subset
  <2> QED BY <1>2, <2>1, CardinalitySame, FS_CardinalityType DEF CountOf
<1>4. \A a \in Inums : CountOf(fd, a) = 0 /\ CountOf(at, a) = 0 /\ CountOf(dip, a) = 0
  <2> SUFFICES ASSUME NEW a \in Inums PROVE CountOf(fd, a) = 0 /\ CountOf(at, a) = 0 /\ CountOf(dip, a) = 0
    OBVIOUS
  <2>1. {p \in Procs : fd[p] = a} = {} /\ {p \in Procs : at[p] = a} = {} /\ {p \in Procs : dip[p] = a} = {}
    BY <1>2, DirsFinite
  <2> QED BY <2>1, FS_EmptySet DEF CountOf
<1>5. RefsCountHolders
  BY <1>3, <1>4, RefsCounted
<1>6. Linked = [a \in Inums |-> 0]
  <2>1. ASSUME NEW a \in Inums PROVE Cardinality({q \in Procs : op[q] = "link" /\ dip[q] = a}) = 0
    <3>1. {q \in Procs : op[q] = "link" /\ dip[q] = a} = {}
      BY <1>2
    <3> QED BY <3>1, FS_EmptySet
  <2> QED BY <2>1 DEF Linked
<1>7. DirTypes
  <2>1. iref \in [Inums -> Int]
    BY <1>2, <1>3
  <2>2. path \in [Procs -> Seq(Steps)]
    <3>1. <<>> \in Seq(Steps)
      OBVIOUS
    <3> QED BY <1>2, <3>1
  <2> QED BY <1>1, <1>2, <2>1, <2>2 DEF DirTypes, CallTypes, DirLabels
<1>8. ASSUME NEW p \in Procs PROVE HandsIn(inode, p) /\ HoldsIn(inode, p)
  <2>1. HandsIn(inode, p)
    BY <1>2 DEF HandsIn
  <2>2. HoldsIn(inode, p)
    BY <1>2, FilesAssumption DEF HoldsIn, Has
  <2> QED BY <2>1, <2>2
<1> QED BY <1>1, <1>2, <1>5, <1>6, <1>7, <1>8 DEF DirsInv

LEMMA NextDirsInv == DirsInv /\ [Dirs!Next]_(Dirs!vars) => DirsInv'
<1> SUFFICES ASSUME DirsInv, [Dirs!Next]_(Dirs!vars) PROVE DirsInv'
  OBVIOUS
<1>1. CASE UNCHANGED Dirs!vars \/ Dirs!Idle
  BY <1>1, PanicKeeps DEF Dirs!vars, Dirs!Idle, dirVars
<1>2. ASSUME NEW p \in Procs, Dirs!Step(p) PROVE DirsInv'
  <2>1. CASE Dirs!Call(p)
    BY <2>1, CallKeeps
  <2>2. CASE Dirs!Close(p)
    BY <2>2, CloseKeeps
  <2>3. CASE Dirs!BeginTrans(p)
    BY <2>3, BeginTransKeeps
  <2>4. CASE Dirs!Walk(p)
    BY <2>4, WalkKeeps
  <2>5. CASE Dirs!Return(p)
    BY <2>5, ReturnKeeps
  <2>6. CASE Dirs!Create(p)
    BY <2>6, CreateKeeps
  <2>7. CASE Dirs!Existing(p)
    BY <2>7, ExistingKeeps
  <2>8. CASE Dirs!Commit(p)
    BY <2>8, CommitKeeps
  <2>9. CASE Dirs!Open(p)
    BY <2>9, OpenKeeps
  <2>10. CASE Dirs!Opened(p)
    BY <2>10, OpenedKeeps
  <2>11. CASE Dirs!NotOpened(p) \/ Dirs!Put(p)
    BY <2>11, NotOpenedKeeps
  <2>12. CASE Dirs!Link(p)
    BY <2>12, LinkKeeps
  <2>13. CASE Dirs!Dirlink(p)
    BY <2>13, DirlinkKeeps
  <2>14. CASE Dirs!Bad(p)
    BY <2>14, BadKeeps
  <2>15. CASE Dirs!Unlink(p)
    BY <2>15, UnlinkKeeps
  <2>16. CASE Dirs!UnlinkInode(p)
    BY <2>16, UnlinkInodeKeeps
  <2>17. CASE Dirs!Chdir(p)
    BY <2>17, ChdirKeeps
  <2> QED BY <1>2, <2>1, <2>2, <2>3, <2>4, <2>5, <2>6, <2>7, <2>8, <2>9, <2>10, <2>11, <2>12, <2>13,
             <2>14, <2>15, <2>16, <2>17, Zenon DEF Dirs!Step
<1> QED BY <1>1, <1>2 DEF Dirs!Next

LEMMA DirsInvImplies == DirsInv => LinksCountEntries /\ InUseAllocated /\ RefsCountHolders
<1> SUFFICES ASSUME DirsInv PROVE LinksCountEntries /\ InUseAllocated /\ RefsCountHolders
  OBVIOUS
<1>1. LinksCountEntries
  <2> SUFFICES ASSUME NEW a \in Inums
      PROVE  inode[a].nlink = Cardinality(Dirs!Entries(a)) + Cardinality(Dirs!Subdirectories(a))
               + Cardinality(Dirs!Linking(a)) + lost[a] + (IF a = Dirs!Root THEN 1 ELSE 0)
    BY CardinalitySame DEF LinksCountEntries, Dirs!LinksCountEntries, Dirs!Ones, Inums
  <2>1. /\ EntriesIn(inode, a) = Dirs!Entries(a) /\ SubsIn(inode, a) = Dirs!Subdirectories(a)
        /\ Linked[a] = Cardinality(Dirs!Linking(a))
    BY DEF EntriesIn, SubsIn, Linked, Dirs!Entries, Dirs!Subdirectories, Dirs!Linking, Inums
  <2>2. inode[a].nlink = Cardinality(EntriesIn(inode, a)) + Cardinality(SubsIn(inode, a)) + Linked[a]
                           + lost[a] + Bit(a = Dirs!Root)
    BY DEF DirsInv, LinksOK
  <2> QED BY <2>1, <2>2 DEF Bit
<1>2. InUseAllocated
  BY DirsFinite DEF DirsInv, DirTypes, CallTypes, HoldsIn, Has, Allocated, InUseAllocated, Dirs!InUseAllocated
<1>3. RefsCountHolders
  BY DEF DirsInv
<1> QED BY <1>1, <1>2, <1>3

\* No fairness is needed.
LEMMA DirsAlways ==
  Dirs!Init /\ [][Dirs!Next]_(Dirs!vars) => [](LinksCountEntries /\ InUseAllocated /\ RefsCountHolders)
BY InitDirsInv, NextDirsInv, DirsInvImplies, PTL

\* The links of an inode are counted: its entries, the directories in it, the calls of link
\* that have counted one and not yet entered it, and the entries that vanished with a
\* directory somebody still worked in (sysfile.c link, unlink and create).
THEOREM LinksAreCounted == Dirs!Spec => []LinksCountEntries
BY DirsAlways, PTL DEF Dirs!Spec

\* iput frees no inode that a process works in or has open.
THEOREM InUseIsAllocated == Dirs!Spec => []InUseAllocated
BY DirsAlways, PTL DEF Dirs!Spec

\* iget and iput balance on every path of every call.
THEOREM RefsAreHeld == Dirs!Spec => []RefsCountHolders
BY DirsAlways, PTL DEF Dirs!Spec

-----------------------------------------------------------------------------
(* The layers of MCXv6Files share nothing.                                 *)

LEMMA EachLayerRuns ==
  LayerSpec => Spec /\ (Dirs!Init /\ [][Dirs!Next]_(Dirs!vars)) /\ Offsets!Spec
<1>1. LayerInit => Init /\ Dirs!Init /\ Offsets!Init
  BY DEF LayerInit
<1>2. [LayerNext]_<<layer, vars, dirVars, offsetVars>> =>
        [Next]_vars /\ [Dirs!Next]_(Dirs!vars) /\ [Offsets!Next]_(Offsets!vars)
  <2> SUFFICES ASSUME [LayerNext]_<<layer, vars, dirVars, offsetVars>>
               PROVE  /\ Next \/ UNCHANGED vars
                      /\ Dirs!Next \/ UNCHANGED dirVars
                      /\ Offsets!Next \/ UNCHANGED offsetVars
    BY DEF dirVars, Dirs!vars, offsetVars, Offsets!vars
  <2> QED BY DEF LayerNext
<1>3. QED
  BY <1>1, <1>2, PTL DEF LayerSpec, Spec, Offsets!Spec

\* Whichever of the layers runs, the invariants of all hold.
THEOREM LayersKeepInvariants ==
  LayerSpec => [](/\ RefsCountUses /\ ObjectsHeld /\ DescriptorsOpen
                  /\ LinksCountEntries /\ InUseAllocated /\ RefsCountHolders
                  /\ EachPlaceOnce)
BY EachLayerRuns, ReferencesCounted, ObjectsAreHeld, DescriptorsStayOpen, DirsAlways, OffsetsDivide, PTL
=============================================================================
