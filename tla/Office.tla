------------------------------- MODULE Office -------------------------------
(***************************************************************************)
(* Lab3/Lab3.c: students are served by a pool of offices and by one        *)
(* special office, all of them threads of one process.  A student queues   *)
(* in normal_Q, is called by any office, and either leaves or goes to the  *)
(* special office (special_Q) and back to the office that called it first  *)
(* (urgent_Q[office_no]); every answer comes back through answer_Q[id].    *)
(*                                                                         *)
(* The queues are the FIFO buffers that module BoundedBuffer shows the     *)
(* ring buffers of send() and receive() to be.  What is modelled here is   *)
(* how they compose: send() fills the buffer under buf->lock, then, still  *)
(* holding it, counts the request in cond->urgent / cond->normal under     *)
(* cond->lock; a desk first takes one count under cond->lock and only then *)
(* calls receive().                                                        *)
(*                                                                         *)
(* Each section under cond->lock or num_students.lock is one action: it    *)
(* never blocks and touches only what that lock protects.  buf->lock spans *)
(* two steps of send(), so its owner is a variable.                        *)
(***************************************************************************)
EXTENDS Naturals, Sequences, FiniteSets

CONSTANTS
  Students,       \* the k student threads
  Offices,        \* the NUM_OFFICES office threads
  SpecialOffice,  \* the special office, index NUM_OFFICES of cond->urgent
  Nobody          \* owner of a free lock

Desks == Offices \cup {SpecialOffice}
Threads == Students \cup Desks
K == Cardinality(Students)

ASSUME OfficeAssumption ==
  /\ IsFiniteSet(Students) /\ Students # {}
  /\ IsFiniteSet(Offices)
  /\ SpecialOffice \notin Offices
  /\ Students \cap Desks = {}
  /\ Nobody \notin Threads

-----------------------------------------------------------------------------
(* Buffers.  UrgentQ(SpecialOffice) is special_Q.                          *)

NormalQ == <<"normal", Nobody>>
UrgentQ(d) == <<"urgent", d>>
AnswerQ(s) == <<"answer", s>>

RequestQs == {NormalQ} \cup {UrgentQ(d) : d \in Desks}
Buffers == RequestQs \cup {AnswerQ(s) : s \in Students}

\* The size each buffer is created with.
Dim(b) ==
  CASE b = NormalQ -> K
    [] b = UrgentQ(SpecialOffice) -> K
    [] b[1] = "urgent" /\ b[2] # SpecialOffice -> K \div 2
    [] b[1] = "answer" -> 2

Info == [id : Students, office : Desks, urgent : BOOLEAN]

\* The local info of a desk before its first receive().
Unset == [id |-> Nobody, office |-> Nobody, urgent |-> FALSE]

VARIABLES
  pc,       \* where each thread is in its program
  info,     \* the local variable info of each thread
  queue,    \* content of each buffer
  holder,   \* owner of buf->lock between the two halves of send()
  asleep,   \* threads inside a pthread_cond_wait
  urgent,   \* cond->urgent
  normal,   \* cond->normal
  num,      \* num_students.num
  killed    \* SIGTERM has ended the process

vars == <<pc, info, queue, holder, asleep, urgent, normal, num, killed>>

StudentLabels == {"start", "askNormal", "awaitNormal", "askSpecial",
  "awaitSpecial", "askUrgent", "awaitUrgent", "leave", "last", "done"}
DeskLabels == {"start", "idle", "takeNormal", "takeUrgent", "reply"}

Asking == {"askNormal", "askSpecial", "askUrgent"}
Awaiting == {"awaitNormal", "awaitSpecial", "awaitUrgent"}

Sending(t) == pc[t] \in Asking \cup {"reply"}
Receiving(t) == pc[t] \in Awaiting \cup {"takeNormal", "takeUrgent"}

\* The buffer that the send() or receive() a thread is in works on.
Target(t) ==
  CASE pc[t] \in {"askNormal", "takeNormal"} -> NormalQ
    [] pc[t] = "askSpecial" -> UrgentQ(SpecialOffice)
    [] pc[t] = "askUrgent" -> UrgentQ(info[t].office)
    [] pc[t] = "takeUrgent" -> UrgentQ(t)
    [] pc[t] = "reply" -> AnswerQ(info[t].id)
    [] pc[t] \in Awaiting -> AnswerQ(t)

AfterSend == [askNormal |-> "awaitNormal", askSpecial |-> "awaitSpecial",
              askUrgent |-> "awaitUrgent", reply |-> "idle"]

Goto(t, label) == pc' = [pc EXCEPT ![t] = label]

Init ==
  /\ pc = [t \in Threads |-> IF t = SpecialOffice THEN "idle" ELSE "start"]
  /\ info = [t \in Threads |->
       IF t \in Students
       THEN [id |-> t, office |-> SpecialOffice, urgent |-> FALSE]
       ELSE Unset]
  /\ queue = [b \in Buffers |-> <<>>]
  /\ holder = [b \in Buffers |-> Nobody]
  /\ asleep = {}
  /\ urgent = [d \in Desks |-> 0]
  /\ normal = 0
  /\ num = K
  /\ killed = FALSE

-----------------------------------------------------------------------------
(* send() and receive(), the same for every thread                         *)

Runs(t) == ~killed /\ t \notin asleep

\* Mutants of Readers and IdleDesks: no broadcast.
NoReaders(b) == {}
NoDesks == {}

\* Threads that a broadcast on notempty, notfull or cond->cond wakes.
Readers(b) == {t \in asleep : Receiving(t) /\ Target(t) = b}
Writers(b) == {t \in asleep : Sending(t) /\ Target(t) = b}
IdleDesks == {d \in Desks : pc[d] = "idle"}

\* The buffer is full: wait on notfull.
SendWait(t) ==
  /\ Runs(t) /\ Sending(t)
  /\ holder[Target(t)] = Nobody
  /\ Len(queue[Target(t)]) = Dim(Target(t))
  /\ asleep' = asleep \cup {t}
  /\ UNCHANGED <<pc, info, queue, holder, urgent, normal, num, killed>>

\* Store info and broadcast notempty; buf->lock stays held.
SendFill(t) ==
  LET b == Target(t) IN
  /\ Runs(t) /\ Sending(t)
  /\ holder[b] = Nobody
  /\ Len(queue[b]) # Dim(b)
  /\ queue' = [queue EXCEPT ![b] = Append(@, info[t])]
  /\ holder' = [holder EXCEPT ![b] = t]
  /\ asleep' = asleep \ Readers(b)
  /\ UNCHANGED <<pc, info, urgent, normal, num, killed>>

\* Mutant of Announced: requests for the special office are not counted.
AnnouncedOffices(t, b) == info[t].urgent /\ b = UrgentQ(info[t].office)

\* The info goes to a desk as urgent work.
Announced(t, b) ==
  info[t].urgent /\ b \in {UrgentQ(info[t].office), UrgentQ(SpecialOffice)}

\* Count the request under cond->lock, wake every idle desk, unlock both.
SendCount(t) ==
  LET b == Target(t) IN
  /\ Runs(t) /\ Sending(t)
  /\ holder[b] = t
  /\ urgent' = IF Announced(t, b)
               THEN [urgent EXCEPT ![b[2]] = @ + 1] ELSE urgent
  /\ normal' = IF ~info[t].urgent /\ b = NormalQ THEN normal + 1 ELSE normal
  /\ holder' = [holder EXCEPT ![b] = Nobody]
  /\ asleep' = asleep \ IdleDesks
  /\ Goto(t, AfterSend[pc[t]])
  /\ UNCHANGED <<info, queue, num, killed>>

\* The buffer is empty: wait on notempty.
ReceiveWait(t) ==
  /\ Runs(t) /\ Receiving(t)
  /\ holder[Target(t)] = Nobody
  /\ queue[Target(t)] = <<>>
  /\ asleep' = asleep \cup {t}
  /\ UNCHANGED <<pc, info, queue, holder, urgent, normal, num, killed>>

\* Take the oldest entry as the caller's info and broadcast notfull.
Receive(t, label, result) ==
  LET b == Target(t) IN
  /\ Runs(t) /\ Receiving(t)
  /\ holder[b] = Nobody
  /\ queue[b] # <<>>
  /\ info' = [info EXCEPT ![t] = result]
  /\ queue' = [queue EXCEPT ![b] = Tail(@)]
  /\ asleep' = asleep \ Writers(b)
  /\ Goto(t, label)
  /\ UNCHANGED <<holder, urgent, normal, num, killed>>

\* Mutant of Oldest: the other end of the buffer.
Newest(t) == queue[Target(t)][Len(queue[Target(t)])]

Oldest(t) == Head(queue[Target(t)])

-----------------------------------------------------------------------------
(* Desks                                                                   *)

OfficeInit(o) ==
  /\ Runs(o) /\ pc[o] = "start"
  /\ Goto(o, "idle")
  /\ UNCHANGED <<info, queue, holder, asleep, urgent, normal, num, killed>>

\* No work: wait on cond->cond.  The special office has only urgent work.
DeskWait(d) ==
  /\ Runs(d) /\ pc[d] = "idle"
  /\ urgent[d] = 0
  /\ d # SpecialOffice => normal = 0
  /\ asleep' = asleep \cup {d}
  /\ UNCHANGED <<pc, info, queue, holder, urgent, normal, num, killed>>

\* Mutant of Claim: the count is tested but not taken.
NoClaim(n) == n

\* A desk takes one count before it takes the request.
Claim(n) == n - 1

TakeUrgentCount(d) ==
  /\ Runs(d) /\ pc[d] = "idle"
  /\ urgent[d] # 0
  /\ urgent' = [urgent EXCEPT ![d] = Claim(@)]
  /\ Goto(d, "takeUrgent")
  /\ UNCHANGED <<info, queue, holder, asleep, normal, num, killed>>

\* An office prefers its urgent work.
TakeNormalCount(o) ==
  /\ Runs(o) /\ pc[o] = "idle"
  /\ urgent[o] = 0 /\ normal # 0
  /\ normal' = Claim(normal)
  /\ Goto(o, "takeNormal")
  /\ UNCHANGED <<info, queue, holder, asleep, urgent, num, killed>>

OfficeServeUrgent(o) ==
  /\ pc[o] = "takeUrgent"
  /\ Receive(o, "reply", [Oldest(o) EXCEPT !.urgent = FALSE])

\* Mutants of Signed: the office writes no number, or that of another thread.
Unsigned(i, o) == i
SignedForAnother(i, o) == [i EXCEPT !.office = CHOOSE p \in Offices : p # o]

\* The office that called the student first writes its number into the info.
Signed(i, o) == [i EXCEPT !.office = o]

\* rand() decides whether the student needs the special office.
OfficeServeNormal(o) ==
  /\ pc[o] = "takeNormal"
  /\ \E special \in BOOLEAN :
       Receive(o, "reply", [Signed(Oldest(o), o) EXCEPT !.urgent = special])

SpecialServe ==
  /\ pc[SpecialOffice] = "takeUrgent"
  /\ Receive(SpecialOffice, "reply", Oldest(SpecialOffice))

-----------------------------------------------------------------------------
(* Students                                                                *)

StudentInit(s) ==
  /\ Runs(s) /\ pc[s] = "start"
  /\ Goto(s, "askNormal")
  /\ UNCHANGED <<info, queue, holder, asleep, urgent, normal, num, killed>>

StudentReceive(s) ==
  LET next == CASE pc[s] = "awaitNormal" -> IF Oldest(s).urgent THEN "askSpecial" ELSE "leave"
                [] pc[s] = "awaitSpecial" -> "askUrgent"
                [] pc[s] = "awaitUrgent" -> "leave"
  IN Receive(s, next, Oldest(s))

\* Mutant of LastOut: off by one.
LastOutEarly(n) == n <= 1

LastOut(n) == n = 0

Leave(s) ==
  /\ Runs(s) /\ pc[s] = "leave"
  /\ num' = num - 1
  /\ Goto(s, IF LastOut(num') THEN "last" ELSE "done")
  /\ UNCHANGED <<info, queue, holder, asleep, urgent, normal, killed>>

\* kill(getpid(), SIGTERM)
EndProcess(s) ==
  /\ Runs(s) /\ pc[s] = "last"
  /\ killed' = TRUE
  /\ UNCHANGED <<pc, info, queue, holder, asleep, urgent, normal, num>>

-----------------------------------------------------------------------------
SendOrWait(t) == SendWait(t) \/ SendFill(t) \/ SendCount(t) \/ ReceiveWait(t)

DeskStep(d) == SendOrWait(d) \/ DeskWait(d) \/ TakeUrgentCount(d)

OfficeStep(o) ==
  \/ OfficeInit(o) \/ DeskStep(o) \/ TakeNormalCount(o)
  \/ OfficeServeUrgent(o) \/ OfficeServeNormal(o)

SpecialStep == DeskStep(SpecialOffice) \/ SpecialServe

StudentStep(s) ==
  \/ StudentInit(s) \/ SendOrWait(s) \/ StudentReceive(s)
  \/ Leave(s) \/ EndProcess(s)

\* The process is gone.
Ended == killed /\ UNCHANGED vars

Next ==
  \/ \E s \in Students : StudentStep(s)
  \/ \E o \in Offices : OfficeStep(o)
  \/ SpecialStep
  \/ Ended

\* The kernel schedules every thread.  Weak fairness is enough although the
\* locks are not fair: a student makes at most six calls of send() and
\* receive() and a desk two per student, so a lock is taken from a waiting
\* thread only finitely often.
Fairness ==
  /\ \A s \in Students : WF_vars(StudentStep(s))
  /\ \A o \in Offices : WF_vars(OfficeStep(o))
  /\ WF_vars(SpecialStep)

Spec == Init /\ [][Next]_vars /\ Fairness
-----------------------------------------------------------------------------
(* Properties                                                              *)

TypeOK ==
  /\ pc \in [Threads -> StudentLabels \cup DeskLabels]
  /\ \A s \in Students : pc[s] \in StudentLabels
  /\ \A d \in Desks : pc[d] \in DeskLabels
  /\ info \in [Threads -> Info \cup {Unset}]
  /\ queue \in [Buffers -> Seq(Info)]
  /\ holder \in [Buffers -> Threads \cup {Nobody}]
  /\ asleep \subseteq Threads
  /\ urgent \in [Desks -> Nat]
  /\ normal \in Nat
  /\ num \in 0 .. K
  /\ killed \in BOOLEAN

\* The counter of Cond that announces the requests of queue b.
Count(b) == IF b = NormalQ THEN normal ELSE urgent[b[2]]

\* Desks that took a count of b and have not called receive(b) yet.
Claims(b) == {d \in Desks : pc[d] \in {"takeNormal", "takeUrgent"} /\ Target(d) = b}

\* Every request in a queue is announced by exactly one count, claimed by
\* exactly one desk, or being announced by the sender that holds the lock:
\* cond->urgent and cond->normal never drift from the buffers they stand for.
CountsMatchQueues ==
  \A b \in RequestQs :
    Len(queue[b]) = Count(b) + Cardinality(Claims(b)) + (IF holder[b] = Nobody THEN 0 ELSE 1)

\* A desk that took a count finds its request, and its answer finds room: desks
\* sleep only while idle, never inside receive() or send().
DesksBlockOnlyWhenIdle == \A d \in asleep \cap Desks : pc[d] = "idle"

\* A wait is not lost: who sleeps on a buffer or on cond has nothing to do there.
NoLostWakeup ==
  \A t \in asleep :
    /\ Sending(t) => Len(queue[Target(t)]) = Dim(Target(t))
    /\ Receiving(t) => queue[Target(t)] = <<>>
    /\ pc[t] = "idle" => urgent[t] = 0 /\ (t # SpecialOffice => normal = 0)

\* urgent_Q[o] is created by the thread of office o, answer_Q[s] by that of
\* student s: nobody sends to or receives from them before that.
Created(b) == b[1] = "normal" \/ pc[b[2]] # "start"
QueuesUsedAfterCreation ==
  \A t \in Threads : Sending(t) \/ Receiving(t) => Created(Target(t))

\* Desk d has received a student's info and not sent it back.
Serving(d) == pc[d] = "reply" /\ holder[Target(d)] # d

\* Where the info of student s is on its way.
Copies(s) ==
  (UNION {{b} \X {i \in 1 .. Len(queue[b]) : queue[b][i].id = s} : b \in Buffers})
    \cup {d \in Desks : Serving(d) /\ info[d].id = s}

\* A request is neither lost nor served twice: from the moment it is sent until
\* the answer is received there is one copy of it, and at no other time any.
OneRequestPerStudent ==
  \A s \in Students :
    LET out == pc[s] \in Awaiting \/ (pc[s] \in Asking /\ holder[Target(s)] = s)
    IN Cardinality(Copies(s)) = IF out THEN 1 ELSE 0

\* When SIGTERM ends the process every student is gone and no request is left.
EndsClean ==
  killed => /\ \A s \in Students : pc[s] \in {"done", "last"}
            /\ \A b \in Buffers : queue[b] = <<>>
            /\ \A d \in Desks : urgent[d] = 0 /\ ~Serving(d)
            /\ normal = 0

\* Every run ends: the last student to leave kills the process.
Termination == <>killed

-----------------------------------------------------------------------------
(* Office implements OfficeService.                                        *)

\* The answer that student s has not picked up yet.
Answered(s) == queue[AnswerQ(s)] # <<>>

StageOf(s) ==
  CASE pc[s] \in {"start", "askNormal"} -> "outside"
    [] pc[s] = "awaitNormal" /\ ~Answered(s) -> "inNormal"
    [] pc[s] = "awaitNormal" /\ Answered(s) ->
         IF Head(queue[AnswerQ(s)]).urgent THEN "sentOn" ELSE "served"
    [] pc[s] = "askSpecial" -> "sentOn"
    [] pc[s] = "awaitSpecial" -> IF Answered(s) THEN "sentBack" ELSE "inSpecial"
    [] pc[s] = "askUrgent" -> "sentBack"
    [] pc[s] = "awaitUrgent" -> IF Answered(s) THEN "served" ELSE "inUrgent"
    [] pc[s] = "leave" -> "served"
    [] pc[s] \in {"last", "done"} -> "left"

OfficeOf(s) == IF Answered(s) THEN Head(queue[AnswerQ(s)]).office ELSE info[s].office

Service == INSTANCE OfficeService WITH
  stage <- [s \in Students |-> StageOf(s)],
  office <- [s \in Students |-> OfficeOf(s)],
  serving <- [d \in Desks |-> IF Serving(d) THEN info[d].id ELSE Nobody],
  closed <- killed

\* Every behaviour of the threads is one OfficeService allows: a student goes
\* back to the office that called it, no desk has two students, and so on.
ImplementsService == Service!Spec
=============================================================================
