-------------------------- MODULE BufferConstants --------------------------
(* The parameters of BoundedBuffer. *)
EXTENDS Naturals

CONSTANTS
  Senders, Receivers,  \* the threads that call send(), receive()
  Dim,                 \* buf->dim
  MaxSends             \* bound: calls of send() each sender makes

ASSUME BufferAssumption ==
  /\ Senders \cap Receivers = {}
  /\ Dim \in Nat \ {0}
  /\ MaxSends \in Nat
=============================================================================
