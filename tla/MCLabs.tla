------------------------------- MODULE MCLabs -------------------------------
(***************************************************************************)
(* The small programs of Lab1, Lab2, Lab7 and the exam in one run.  They   *)
(* share nothing: the initial state chooses the one that runs.             *)
(***************************************************************************)
EXTENDS CharDevice, Integers, Sequences, FiniteSets

CONSTANTS
  Threads, Nobody,           \* FileConcatenate
  Clients, Main, MaxReads,   \* SignalServer
  Sizes, Values, Unit,       \* ThreadedSort
  K, Vectors, Matrices       \* DotProduct

\* pthread_create makes finitely many threads, and a mutex that nobody owns is
\* not owned by a thread.
ASSUME FilesAssumption == Nobody \notin Threads /\ IsFiniteSet(Threads)

\* main() has some numbers sorted.
ASSUME SortAssumption == Sizes \subseteq (Nat \ {0}) \X Int /\ Values \subseteq Int

\* A product of vectors with no element is not printed: no thread is the last.
ASSUME ProductAssumption == K \in Nat \ {0}

\* The values that the run gives to Sizes, Vectors and Matrices.
MCSizes == {<<3, 1>>, <<5, 1>>, <<5, 3>>, <<7, 9>>, <<8, 9>>}
MCVectors == [0 .. K - 1 -> Values]
MCMatrices == {[e \in 0 .. K * K - 1 |-> 1 + ((e * e) % 5)]}

VARIABLES
  program,
  readers, dirLock, next1, next2, cont, rewinded, null1, null2, process,
  clients, left, mutex, ready, pending, handler, merged, ended,
  size, input, vet, calls, overrun, printed,
  v1, v2, mat, v, cnt, created, j, done, results

filesVars == <<readers, dirLock, next1, next2, cont, rewinded, null1, null2, process>>
signalsVars == <<clients, left, mutex, ready, pending, handler, merged, ended>>
sortVars == <<size, input, vet, calls, overrun, printed>>
productVars == <<v1, v2, mat, v, cnt, created, j, done, results>>

Files == INSTANCE FileConcatenate WITH pc <- readers
Signals == INSTANCE SignalServer WITH pc <- clients
Sort == INSTANCE ThreadedSort
Product == INSTANCE DotProduct

Some(S) == CHOOSE x \in S : TRUE

\* A program that does not run has some input.
LabInit ==
  /\ program \in {"device", "files", "signals", "sort", "product"}
  /\ Init /\ Files!Init
  /\ Signals!Init /\ (program # "signals" => left = [c \in Clients |-> 0])
  /\ Sort!Init /\ (program # "sort" => size = Some(Sizes) /\ input = [k \in 0 .. size[1] - 1 |-> Some(Values)])
  /\ Product!Init /\ (program # "product" => v1 = Some(Vectors) /\ v2 = v1)

LabNext ==
  /\ UNCHANGED program
  /\ \/ /\ program = "device" /\ Next
        /\ UNCHANGED <<filesVars, signalsVars, sortVars, productVars>>
     \/ /\ program = "files" /\ Files!Next
        /\ UNCHANGED <<vars, signalsVars, sortVars, productVars>>
     \/ /\ program = "signals" /\ Signals!Next
        /\ UNCHANGED <<vars, filesVars, sortVars, productVars>>
     \/ /\ program = "sort" /\ Sort!Next
        /\ UNCHANGED <<vars, filesVars, signalsVars, productVars>>
     \/ /\ program = "product" /\ Product!Next
        /\ UNCHANGED <<vars, filesVars, signalsVars, sortVars>>

labVars == <<program, vars, filesVars, signalsVars, sortVars, productVars>>

\* The fairness of FileConcatenate and SignalServer, where they run.
LabSpec ==
  /\ LabInit /\ [][LabNext]_labVars
  /\ program = "files" => Files!Fairness
  /\ program = "signals" => Signals!Fairness

\* FileConcatenate: one thread at a time moves the stream of the directory.
StreamReadAlone == Files!StreamReadAlone

\* FileConcatenate: a thread does not search for ever.
SearchEnds == program = "files" => Files!SearchEnds

\* SignalServer: the program ends, unless a signal is lost.
EndsUnlessSignalLost == program = "signals" => Signals!EndsUnlessSignalLost

\* ThreadedSort: what is printed is the input in order, if no merge overran its array.
PrintsSorted == Sort!PrintsSorted

\* ThreadedSort: what is printed is the input in order.  The code overruns.
SortsEveryInput == Sort!SortsEveryInput

\* DotProduct: one result is printed, the one of Lab2.3_1.
PrintsAsSequential == Product!PrintsAsSequential

\* DotProduct: the result is T(v1) * mat * v2.  The code takes another element of v2.
PrintsMatrixProduct == Product!PrintsMatrixProduct
=============================================================================
