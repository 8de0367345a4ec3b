-------------------------- MODULE LibraryConstants --------------------------
(* The parameters of ReaderWriter. *)
EXTENDS Naturals

CONSTANTS
  ReaderNum,  \* READER_NUM
  WriterNum,  \* WRITER_NUM
  Nobody      \* owner of a free lock

\* main() stores the handle of writer i in threads_reader[i].
ASSUME LibraryAssumption ==
  /\ ReaderNum \in Nat /\ WriterNum \in Nat
  /\ WriterNum <= ReaderNum

ASSUME NobodyAssumption == Nobody \notin {"reader", "writer"} \X Nat
=============================================================================
