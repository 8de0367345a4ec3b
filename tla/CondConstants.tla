--------------------------- MODULE CondConstants ---------------------------
(* The parameters of Xv6Cond. *)
EXTENDS Naturals, FiniteSets

CONSTANTS
  Parent, Children,  \* the processes
  Count,             \* COUNT, rounds of the parent
  CountLimit,        \* COUNT_LIMIT
  NoProc             \* owner of a free spinlock

ASSUME CondAssumption ==
  /\ IsFiniteSet(Children) /\ Parent \notin Children
  /\ NoProc \notin Children \cup {Parent}
  /\ Count \in Nat /\ CountLimit \in Nat \ {0}
=============================================================================
