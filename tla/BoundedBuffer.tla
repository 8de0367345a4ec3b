--------------------------- MODULE BoundedBuffer ---------------------------
(***************************************************************************)
(* One Buffer of Lab3/Lab3.c: the ring that send() fills and receive()     *)
(* empties, with its condition variables notfull and notempty.  Each call  *)
(* works under buf->lock from its first statement to its last, and a       *)
(* pthread_cond_wait gives the lock back and goes to sleep in one step, so *)
(* a call is an attempt that either completes or falls asleep and, once    *)
(* woken, is attempted again (the while loops re-test their condition).    *)
(***************************************************************************)
EXTENDS BufferConstants, Sequences, FiniteSets

VARIABLES
  buffer,   \* buf->buffer
  in, out,  \* buf->in, buf->out
  count,    \* buf->count
  asleep,   \* threads in pthread_cond_wait
  sent,     \* calls of send() each sender has completed
  info      \* the info each receiver received last

vars == <<buffer, in, out, count, asleep, sent, info>>

Slots == 0 .. Dim - 1
Infos == Senders \X (1 .. MaxSends)

\* The wrap-around of the cyclic buffer; i never exceeds it by a full turn.
Wrap(i) == IF i >= Dim THEN i - Dim ELSE i

Init ==
  /\ buffer = [i \in Slots |-> <<>>]
  /\ in = 0 /\ out = 0 /\ count = 0
  /\ asleep = {}
  /\ sent = [s \in Senders |-> 0]
  /\ info = [r \in Receivers |-> <<>>]

\* Mutant of Advance: the index stays.
Stay(i) == i

Advance(i) == Wrap(i + 1)

\* Mutant of Full: off by one.
FullLate == count > Dim

Full == count = Dim

\* Mutants of Broadcast: pthread_cond_signal, or nothing, in its place.
Signal(T) ==
  IF asleep \cap T = {} THEN UNCHANGED asleep
  ELSE \E t \in asleep \cap T : asleep' = asleep \ {t}

Silent(T) == UNCHANGED asleep

Broadcast(T) == asleep' = asleep \ T

WaitNotFull(s) ==
  /\ s \notin asleep /\ sent[s] < MaxSends
  /\ Full
  /\ asleep' = asleep \cup {s}
  /\ UNCHANGED <<buffer, in, out, count, sent, info>>

Send(s) ==
  /\ s \notin asleep /\ sent[s] < MaxSends
  /\ ~Full
  /\ buffer' = [buffer EXCEPT ![in] = <<s, sent[s] + 1>>]
  /\ in' = Advance(in)
  /\ count' = count + 1
  /\ Broadcast(Receivers)
  /\ sent' = [sent EXCEPT ![s] = @ + 1]
  /\ UNCHANGED <<out, info>>

WaitNotEmpty(r) ==
  /\ r \notin asleep
  /\ count = 0
  /\ asleep' = asleep \cup {r}
  /\ UNCHANGED <<buffer, in, out, count, sent, info>>

Receive(r) ==
  /\ r \notin asleep
  /\ count # 0
  /\ info' = [info EXCEPT ![r] = buffer[out]]
  /\ out' = Advance(out)
  /\ count' = count - 1
  /\ Broadcast(Senders)
  /\ UNCHANGED <<buffer, in, sent>>

AllReceived == count = 0 /\ \A s \in Senders : sent[s] = MaxSends

\* Nothing is left to send: the receivers wait for ever.
Finished == AllReceived /\ asleep = Receivers /\ UNCHANGED vars

Next ==
  \/ \E s \in Senders : WaitNotFull(s) \/ Send(s)
  \/ \E r \in Receivers : WaitNotEmpty(r) \/ Receive(r)
  \/ Finished

\* Every thread is scheduled.
Fairness ==
  /\ \A s \in Senders : WF_vars(WaitNotFull(s) \/ Send(s))
  /\ \A r \in Receivers : WF_vars(WaitNotEmpty(r) \/ Receive(r))

Spec == Init /\ [][Next]_vars /\ Fairness

-----------------------------------------------------------------------------
(* Properties                                                              *)

TypeOK ==
  /\ buffer \in [Slots -> Infos \cup {<<>>}]
  /\ in \in Slots /\ out \in Slots
  /\ count \in 0 .. Dim
  /\ asleep \subseteq Senders \cup Receivers
  /\ sent \in [Senders -> 0 .. MaxSends]
  /\ info \in [Receivers -> Infos \cup {<<>>}]

\* The free part of the ring starts where the used part of count slots ends:
\* no send() overwrites an info that nobody has received.
RingAligned == in = Wrap(out + count)

\* The infos in the ring, oldest first.
Items == [i \in 1 .. count |-> buffer[Wrap(out + i - 1)]]

Fifo == INSTANCE FifoQueue WITH items <- Items

\* The ring delivers what was sent, once and in order.
ImplementsFifo == Fifo!Spec

\* Broadcasts reach every thread they could let go on: a sender sleeps only
\* while the buffer is full, a receiver only while it is empty.
NoLostWakeup ==
  /\ asleep \cap Senders # {} => count = Dim
  /\ asleep \cap Receivers # {} => count = 0

\* Every info sent is received in the end.
Delivery == <>[]AllReceived
=============================================================================
