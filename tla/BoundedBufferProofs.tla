------------------------ MODULE BoundedBufferProofs ------------------------
(***************************************************************************)
(* Theorems about the ring buffer of Lab3, for any size and any number of  *)
(* senders, receivers and infos: it is the queue of module FifoQueue.      *)
(***************************************************************************)
EXTENDS MCThreads, Sequences, TLAPS

Typed ==
  /\ DOMAIN buffer = Buffer!Slots
  /\ buffer = [k \in Buffer!Slots |-> buffer[k]]
  /\ in \in Buffer!Slots /\ out \in Buffer!Slots
  /\ used \in 0 .. Dim
  /\ asleep \subseteq Senders \cup Receivers
  /\ sent \in [Senders -> Nat]

IInv == Typed /\ Buffer!RingAligned /\ Buffer!NoLostWakeup

-----------------------------------------------------------------------------
(* Arithmetic of the ring                                                  *)

LEMMA WrapType ==
  ASSUME NEW k \in Nat, k < 2 * Dim
  PROVE  Buffer!Wrap(k) \in Buffer!Slots
BY BufferAssumption DEF Buffer!Wrap, Buffer!Slots

\* Going on by one after n steps is going on by n + 1 steps.
LEMMA WrapNext ==
  ASSUME NEW o \in Buffer!Slots, NEW n \in 0 .. Dim
  PROVE  /\ Buffer!Wrap(Buffer!Wrap(o + n) + 1) = Buffer!Wrap(o + (n + 1)) \/ n = Dim
         /\ n # 0 => Buffer!Wrap(Buffer!Wrap(o + 1) + (n - 1)) = Buffer!Wrap(o + n)
BY BufferAssumption DEF Buffer!Wrap, Buffer!Slots

\* Different positions of a queue that fits are different slots.
LEMMA WrapInjective ==
  ASSUME NEW o \in Buffer!Slots, NEW m \in 0 .. Dim - 1, NEW n \in 0 .. Dim - 1,
         Buffer!Wrap(o + m) = Buffer!Wrap(o + n)
  PROVE  m = n
BY BufferAssumption DEF Buffer!Wrap, Buffer!Slots

-----------------------------------------------------------------------------
LEMMA Initial == Buffer!Init => IInv
BY BufferAssumption DEF Buffer!Init, IInv, Typed, Buffer!RingAligned, Buffer!NoLostWakeup,
    Buffer!Slots, Buffer!Wrap

LEMMA SendStep ==
  ASSUME IInv, NEW s \in Senders, Buffer!Send(s)
  PROVE  IInv'
<1> USE DEF IInv
<1>1. used + 1 \in 1 .. Dim /\ used \in 0 .. Dim - 1 /\ in' = Buffer!Wrap(in + 1)
  BY BufferAssumption DEF Buffer!Send, Typed, Buffer!Full, Buffer!Advance, Buffer!Broadcast
<1>2. in' \in Buffer!Slots
  BY <1>1, BufferAssumption DEF Typed, Buffer!Wrap, Buffer!Slots
<1>3. Typed'
  BY <1>1, <1>2 DEF Buffer!Send, Typed, Buffer!Full, Buffer!Advance, Buffer!Broadcast
<1>4. Buffer!RingAligned'
  BY <1>1, WrapNext DEF Buffer!Send, Typed, Buffer!RingAligned, Buffer!Full, Buffer!Advance,
      Buffer!Broadcast
<1>5. Buffer!NoLostWakeup'
  BY <1>1, BufferAssumption DEF Buffer!Send, Typed, Buffer!NoLostWakeup, Buffer!Full,
      Buffer!Advance, Buffer!Broadcast
<1> QED BY <1>3, <1>4, <1>5

LEMMA ReceiveStep ==
  ASSUME IInv, NEW r \in Receivers, Buffer!Receive(r)
  PROVE  IInv'
<1> USE DEF IInv
<1>1. used \in 1 .. Dim /\ used - 1 \in 0 .. Dim /\ out' = Buffer!Wrap(out + 1)
  BY BufferAssumption DEF Buffer!Receive, Typed, Buffer!Advance, Buffer!Broadcast
<1>2. out' \in Buffer!Slots
  BY <1>1, BufferAssumption DEF Typed, Buffer!Wrap, Buffer!Slots
<1>3. Typed'
  BY <1>1, <1>2 DEF Buffer!Receive, Typed, Buffer!Advance, Buffer!Broadcast
<1>4. Buffer!RingAligned'
  BY <1>1, WrapNext DEF Buffer!Receive, Typed, Buffer!RingAligned, Buffer!Advance, Buffer!Broadcast
<1>5. Buffer!NoLostWakeup'
  BY <1>1, BufferAssumption DEF Buffer!Receive, Typed, Buffer!NoLostWakeup, Buffer!Advance,
      Buffer!Broadcast
<1> QED BY <1>3, <1>4, <1>5

LEMMA Inductive == IInv /\ [Buffer!Next]_(Buffer!vars) => IInv'
<1> SUFFICES ASSUME IInv, [Buffer!Next]_(Buffer!vars) PROVE IInv'
  OBVIOUS
<1>1. ASSUME NEW s \in Senders, Buffer!WaitNotFull(s) PROVE IInv'
  BY <1>1, BufferAssumption DEF Buffer!WaitNotFull, IInv, Typed, Buffer!RingAligned,
      Buffer!NoLostWakeup, Buffer!Full
<1>2. ASSUME NEW r \in Receivers, Buffer!WaitNotEmpty(r) PROVE IInv'
  BY <1>2, BufferAssumption DEF Buffer!WaitNotEmpty, IInv, Typed, Buffer!RingAligned,
      Buffer!NoLostWakeup
<1>3. CASE UNCHANGED Buffer!vars
  BY <1>3 DEF Buffer!vars, IInv, Typed, Buffer!RingAligned, Buffer!NoLostWakeup
<1> QED BY <1>1, <1>2, <1>3, SendStep, ReceiveStep DEF Buffer!Next, Buffer!Finished

-----------------------------------------------------------------------------
(* Refinement                                                              *)

\* A send appends its info.
LEMMA SendRefines ==
  ASSUME IInv, NEW s \in Senders, Buffer!Send(s)
  PROVE  Buffer!Fifo!Put(s)
<1> USE DEF IInv
<1>1. used \in 0 .. Dim - 1 /\ used' = used + 1 /\ out' = out
  BY BufferAssumption DEF Buffer!Send, Typed, Buffer!Full, Buffer!Advance, Buffer!Broadcast
<1>2. Len(Buffer!Items) = used /\ Buffer!Items = [n \in 1 .. used |-> buffer[Buffer!Wrap(out + n - 1)]]
  BY <1>1 DEF Buffer!Items
<1>3. Buffer!Items' = [n \in 1 .. used + 1 |-> buffer'[Buffer!Wrap(out + n - 1)]]
  BY <1>1 DEF Buffer!Items
<1>4. buffer'[Buffer!Wrap(out + (used + 1) - 1)] = <<s, sent[s] + 1>>
  BY <1>1 DEF Buffer!Send, Typed, Buffer!RingAligned, Buffer!Full, Buffer!Advance, Buffer!Broadcast
<1>5. ASSUME NEW n \in 1 .. used
     PROVE buffer'[Buffer!Wrap(out + n - 1)] = buffer[Buffer!Wrap(out + n - 1)]
  <2>1. n - 1 \in 0 .. Dim - 1 /\ n - 1 # used /\ out + n - 1 = out + (n - 1)
    BY <1>1, BufferAssumption DEF Typed, Buffer!Slots
  <2>2. Buffer!Wrap(out + n - 1) # in
    BY <2>1, <1>1, WrapInjective DEF Typed, Buffer!RingAligned
  <2>3. Buffer!Wrap(out + n - 1) \in Buffer!Slots
    BY <2>1, <1>1, BufferAssumption DEF Typed, Buffer!Slots, Buffer!Wrap
  <2> QED BY <2>2, <2>3 DEF Buffer!Send, Typed, Buffer!Full, Buffer!Advance, Buffer!Broadcast
<1>6. Buffer!Items' = Append(Buffer!Items, <<s, sent[s] + 1>>)
  BY <1>1, <1>2, <1>3, <1>4, <1>5
<1> QED BY <1>1, <1>2, <1>6, BufferAssumption DEF Buffer!Send, Buffer!Fifo!Put, Buffer!Full,
    Buffer!Advance, Buffer!Broadcast

\* A receive takes the first.
LEMMA ReceiveRefines ==
  ASSUME IInv, NEW r \in Receivers, Buffer!Receive(r)
  PROVE  Buffer!Fifo!Get(r)
<1> USE DEF IInv
<1>1. used \in 1 .. Dim /\ used' = used - 1 /\ out' = Buffer!Wrap(out + 1) /\ buffer' = buffer
  BY BufferAssumption DEF Buffer!Receive, Typed, Buffer!Advance, Buffer!Broadcast
<1>2. Len(Buffer!Items) = used /\ Buffer!Items = [n \in 1 .. used |-> buffer[Buffer!Wrap(out + n - 1)]]
  BY <1>1 DEF Buffer!Items
<1>3. Buffer!Items' = [n \in 1 .. used - 1 |-> buffer[Buffer!Wrap(out' + n - 1)]]
  BY <1>1 DEF Buffer!Items
<1>4. Buffer!Items[1] = buffer[out]
  BY <1>1, <1>2, BufferAssumption DEF Typed, Buffer!Slots, Buffer!Wrap
<1>5. ASSUME NEW n \in 1 .. used - 1 PROVE Buffer!Wrap(out' + n - 1) = Buffer!Wrap(out + n)
  BY <1>1, BufferAssumption DEF Typed, Buffer!Slots, Buffer!Wrap
<1>6. Buffer!Items' = Tail(Buffer!Items)
  BY <1>1, <1>2, <1>3, <1>5
<1>7. Buffer!Items # <<>> /\ Head(Buffer!Items) = buffer[out]
  BY <1>1, <1>2, <1>4
<1> QED BY <1>6, <1>7 DEF Buffer!Receive, Buffer!Fifo!Get, Buffer!Advance, Buffer!Broadcast

\* The in and out of the ring stay one queue apart: no info is overwritten
\* before it is received.
THEOREM RingStaysAligned == Buffer!Spec => []RingAligned
<1>1. IInv => RingAligned
  BY DEF IInv, RingAligned, Buffer!RingAligned
<1> QED BY <1>1, Initial, Inductive, PTL DEF Buffer!Spec

\* Nobody sleeps on a condition of the buffer that already holds.
THEOREM NobodyOversleeps == Buffer!Spec => []NoLostWakeup
<1>1. IInv => NoLostWakeup
  BY DEF IInv, NoLostWakeup, Buffer!NoLostWakeup
<1> QED BY <1>1, Initial, Inductive, PTL DEF Buffer!Spec

\* The ring buffer of send() and receive() implements the queue: every step is
\* a Put, a Get or changes nothing of it.
THEOREM RingImplementsFifo == Buffer!Spec => ImplementsFifo
<1>1. Buffer!Init => Buffer!Fifo!Init
  <2> SUFFICES ASSUME Buffer!Init PROVE Buffer!Fifo!Init
    OBVIOUS
  <2>1. Buffer!Items = <<>>
    BY DEF Buffer!Init, Buffer!Items
  <2> QED BY <2>1 DEF Buffer!Init, Buffer!Fifo!Init
<1>2. IInv /\ [Buffer!Next]_(Buffer!vars) => [Buffer!Fifo!Next]_<<Buffer!Items, sent, info>>
  <2> SUFFICES ASSUME IInv, [Buffer!Next]_(Buffer!vars)
               PROVE [Buffer!Fifo!Next]_<<Buffer!Items, sent, info>>
    OBVIOUS
  <2>1. ASSUME UNCHANGED <<buffer, out, used, sent, info>> PROVE UNCHANGED <<Buffer!Items, sent, info>>
    BY <2>1 DEF Buffer!Items
  <2>2. ASSUME NEW s \in Senders, Buffer!WaitNotFull(s) PROVE UNCHANGED <<Buffer!Items, sent, info>>
    BY <2>1, <2>2 DEF Buffer!WaitNotFull, Buffer!Full
  <2>3. ASSUME NEW r \in Receivers, Buffer!WaitNotEmpty(r) PROVE UNCHANGED <<Buffer!Items, sent, info>>
    BY <2>1, <2>3 DEF Buffer!WaitNotEmpty
  <2>4. CASE UNCHANGED Buffer!vars
    BY <2>1, <2>4 DEF Buffer!vars
  <2> QED BY <2>2, <2>3, <2>4, SendRefines, ReceiveRefines DEF Buffer!Next, Buffer!Finished,
      Buffer!Fifo!Next
<1> QED BY <1>1, <1>2, Initial, Inductive, PTL DEF Buffer!Spec, ImplementsFifo,
    Buffer!ImplementsFifo, Buffer!Fifo!Spec
=============================================================================
