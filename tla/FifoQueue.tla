----------------------------- MODULE FifoQueue -----------------------------
(***************************************************************************)
(* What the buffers of Lab3 promise: a queue of at most Dim infos that     *)
(* come out in the order they went in, each exactly once.  The n-th info   *)
(* that sender s sends is <<s, n>>.                                        *)
(***************************************************************************)
EXTENDS Naturals, Sequences

CONSTANTS Senders, Receivers, Dim

VARIABLES
  items,  \* infos sent and not yet received
  sent,   \* number of infos each sender has sent
  info    \* the info each receiver received last

Init == items = <<>> /\ sent = [s \in Senders |-> 0] /\ info = [r \in Receivers |-> <<>>]

Put(s) ==
  /\ Len(items) < Dim
  /\ sent' = [sent EXCEPT ![s] = @ + 1]
  /\ items' = Append(items, <<s, sent[s] + 1>>)
  /\ UNCHANGED info

Get(r) ==
  /\ items # <<>>
  /\ info' = [info EXCEPT ![r] = Head(items)]
  /\ items' = Tail(items)
  /\ UNCHANGED sent

Next == (\E s \in Senders : Put(s)) \/ (\E r \in Receivers : Get(r))

Spec == Init /\ [][Next]_<<items, sent, info>>
=============================================================================
