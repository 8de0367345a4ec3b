----------------------------- MODULE MCXv6Files -----------------------------
(***************************************************************************)
(* The layers of file.c and sysfile.c in one run: descriptors and files    *)
(* over inodes that are always there (Xv6Files), the offset of one file    *)
(* (Xv6Offsets), or inodes and names under calls that share no files       *)
(* (Xv6Dirs).  A behaviour is of one layer.                                *)
(***************************************************************************)
EXTENDS Xv6Files

CONSTANTS NInodes, Names, Paths, MaxCalls, MaxFile, MaxLength

\* Xv6Dirs: the disk has room for its trees; an argument is a path of names that
\* is absolute or not.
ASSUME DirsAssumption ==
  /\ NInodes \in Nat /\ NInodes >= 3
  /\ IsFiniteSet(Names) /\ Names # {} /\ {"..", "/"} \cap Names = {}
  /\ \A arg \in Paths :
       arg # <<>> /\ (IF arg[1] = "/" THEN Tail(arg) ELSE arg) \in Seq(Names \cup {".."})

\* Xv6Offsets: lengths are numbers of chunks.
ASSUME OffsetsAssumption == MaxFile \in Nat /\ MaxLength \in Nat

\* Values of the run.
MCPaths == {<<"a">>, <<"/", "b">>, <<"..", "a">>, <<"/">>}
MCMaxCalls == [p \in Procs |-> IF p = FirstProc THEN 2 ELSE 1]

VARIABLES
  layer,
  inode, iref, lock, log, cwd, fd, where, op, path, at, dip, calls, panic, lost,
  off, length, owner, trans, call, n, i, r, uses

dirVars == <<inode, iref, lock, log, cwd, fd, where, op, path, at, dip, calls, panic, lost>>
offsetVars == <<off, length, owner, trans, call, n, i, r, uses>>

Dirs == INSTANCE Xv6Dirs WITH ref <- iref, pc <- where, ip <- dip
Offsets == INSTANCE Xv6Offsets WITH log <- trans, pc <- call

\* A layer that does not run is in one of its initial states.
LayerInit ==
  /\ layer \in {"files", "dirs", "offsets"}
  /\ Init
  /\ Dirs!Init
  /\ layer # "dirs" => inode = (CHOOSE t \in Dirs!Trees : TRUE) /\ cwd = [p \in Procs |-> Dirs!Root]
  /\ Offsets!Init /\ (layer # "offsets" => length = 0)

LayerNext ==
  \/ layer = "files" /\ Next /\ UNCHANGED <<layer, dirVars, offsetVars>>
  \/ layer = "dirs" /\ Dirs!Next /\ UNCHANGED <<layer, vars, offsetVars>>
  \/ layer = "offsets" /\ Offsets!Next /\ UNCHANGED <<layer, vars, dirVars>>

\* The fairness of Xv6Dirs, where it runs.
LayerSpec ==
  /\ LayerInit /\ [][LayerNext]_<<layer, vars, dirVars, offsetVars>>
  /\ layer = "dirs" => Dirs!Fairness

\* Xv6Dirs: a link count is the number of entries and of ".." that name the inode.
LinksCountEntries == Dirs!LinksCountEntries

\* Xv6Dirs: what a process works in or has open is allocated.
InUseAllocated == Dirs!InUseAllocated

\* Xv6Dirs: the references of an inode are those that processes and calls have.
RefsCountHolders == Dirs!RefsCountHolders

\* Xv6Dirs: every call returns, unless the kernel panics.
CallsReturn == layer = "dirs" => Dirs!CallsReturn

\* Xv6Offsets: calls that share a file divide it among them.
EachPlaceOnce == Offsets!EachPlaceOnce
=============================================================================
