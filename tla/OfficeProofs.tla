---------------------------- MODULE OfficeProofs ----------------------------
(***************************************************************************)
(* Theorems about the offices of Lab3, for any number of students and      *)
(* offices.  In this order: types; where the info of each student is at    *)
(* each stage of its journey, and that the counters agree with it          *)
(* (Journeys, OfficeInv); that queues exist before they are used           *)
(* (NamesOpen); that every step is one of OfficeService or a stutter       *)
(* (AllPlaced, ServiceStep).                                               *)
(***************************************************************************)
EXTENDS Office, FiniteSetTheorems, TLAPS

\* A thread that calls send() has an info to send.
InfoSet ==
  /\ \A s \in Students : info[s] \in Info
  /\ \A d \in Desks : pc[d] = "reply" => info[d] \in Info

\* num_students.num is the number of students that have not left.
Staying == {s \in Students : pc[s] \notin {"last", "done"}}
NumCountsStudents == num = Cardinality(Staying)

TypeInv == TypeOK /\ InfoSet /\ NumCountsStudents

-----------------------------------------------------------------------------
(* Lemmas about the operators of the model.                                *)

\* send() and receive() work on a buffer that exists in the model.
LEMMA TargetType ==
  ASSUME TypeOK, InfoSet, NEW t \in Threads, Sending(t) \/ Receiving(t)
  PROVE  Target(t) \in Buffers
<1>1. CASE pc[t] \in {"askNormal", "takeNormal"}
  BY <1>1 DEF Target, Buffers, RequestQs, Awaiting
<1>2. CASE pc[t] \in {"takeUrgent", "askSpecial", "askUrgent"}
  <2>1. pc[t] = "takeUrgent" => t \in Desks
    BY OfficeAssumption DEF TypeOK, Threads, StudentLabels
  <2>2. pc[t] = "askUrgent" => info[t].office \in Desks
    BY OfficeAssumption DEF TypeOK, InfoSet, Threads, DeskLabels, Info
  <2> QED BY <1>2, <2>1, <2>2 DEF Target, Buffers, RequestQs, Desks, Awaiting
<1>3. CASE pc[t] = "reply"
  <2>1. info[t].id \in Students
    BY <1>3, OfficeAssumption DEF TypeOK, InfoSet, Threads, StudentLabels, Info
  <2> QED BY <1>3, <2>1 DEF Target, Buffers, Awaiting
<1>4. CASE pc[t] \in Awaiting
  <2>1. t \in Students
    BY <1>4 DEF TypeOK, Threads, DeskLabels, Awaiting
  <2> QED BY <1>4, <2>1 DEF Target, Buffers, Awaiting
<1> QED BY <1>1, <1>2, <1>3, <1>4 DEF Sending, Receiving, Asking

\* The info send() stores is one.
LEMMA SentInfo ==
  ASSUME TypeOK, InfoSet, NEW t \in Threads, Sending(t)
  PROVE  info[t] \in Info
BY DEF TypeOK, InfoSet, Sending, Asking, Threads, DeskLabels

\* So is what receive() finds in a buffer that is not empty.
LEMMA OldestType ==
  ASSUME TypeOK, InfoSet, NEW t \in Threads, Receiving(t), queue[Target(t)] # <<>>
  PROVE  Oldest(t) \in Info
<1>1. queue[Target(t)] \in Seq(Info)
  BY TargetType DEF TypeOK
<1> QED BY <1>1 DEF Oldest

\* Where a thread goes after send() is a label of its own.
LEMMA AfterSendType ==
  ASSUME TypeOK, NEW t \in Threads, Sending(t)
  PROVE  /\ t \in Students => AfterSend[pc[t]] \in StudentLabels \ {"last", "done"}
         /\ t \in Desks => AfterSend[pc[t]] \in DeskLabels \ {"reply"}
<1>1. /\ AfterSend["askNormal"] = "awaitNormal"
      /\ AfterSend["askSpecial"] = "awaitSpecial"
      /\ AfterSend["askUrgent"] = "awaitUrgent"
      /\ AfterSend["reply"] = "idle"
  BY DEF AfterSend
<1>2. pc[t] \in {"askNormal", "askSpecial", "askUrgent", "reply"}
  BY DEF Sending, Asking
<1>3. t \in Students => pc[t] # "reply"
  BY DEF TypeOK, StudentLabels
<1>4. t \in Desks => pc[t] = "reply"
  BY <1>2 DEF TypeOK, DeskLabels
<1> QED BY <1>1, <1>2, <1>3, <1>4 DEF StudentLabels, DeskLabels

\* Moving a thread between labels of its own keeps the typing of pc.
LEMMA GotoType ==
  ASSUME TypeOK, NEW t \in Threads, NEW label, Goto(t, label),
         t \in Students => label \in StudentLabels,
         t \in Desks => label \in DeskLabels
  PROVE  /\ pc' \in [Threads -> StudentLabels \cup DeskLabels]
         /\ \A s \in Students : pc'[s] \in StudentLabels
         /\ \A d \in Desks : pc'[d] \in DeskLabels
BY DEF TypeOK, Goto, Threads

\* Nobody leaves in a step that moves a thread between other labels.
LEMMA StayingSame ==
  ASSUME TypeOK, NumCountsStudents, NEW t \in Threads, NEW label, Goto(t, label), num' = num,
         t \in Students => pc[t] \notin {"last", "done"} /\ label \notin {"last", "done"}
  PROVE  NumCountsStudents'
<1>1. Staying' = Staying
  BY DEF Staying, Goto, TypeOK, Threads
<1> QED BY <1>1 DEF NumCountsStudents

-----------------------------------------------------------------------------
(* Typing is inductive.                                                    *)

LEMMA TypeInit == Init => TypeInv
<1> SUFFICES ASSUME Init PROVE TypeInv
  OBVIOUS
<1>1. K \in Nat
  BY OfficeAssumption, FS_CardinalityType DEF K
<1>2. TypeOK
  <2>1. pc \in [Threads -> StudentLabels \cup DeskLabels]
    BY DEF Init, StudentLabels, DeskLabels
  <2>2. \A s \in Students : pc[s] \in StudentLabels
    BY OfficeAssumption DEF Init, StudentLabels, Threads, Desks
  <2>3. \A d \in Desks : pc[d] \in DeskLabels
    BY DEF Init, DeskLabels, Threads
  <2>4. info \in [Threads -> Info \cup {Unset}]
    BY DEF Init, Info, Desks
  <2>5. queue \in [Buffers -> Seq(Info)]
    BY DEF Init
  <2>6. /\ holder \in [Buffers -> Threads \cup {Nobody}]
        /\ asleep \subseteq Threads
        /\ urgent \in [Desks -> Nat]
        /\ normal \in Nat
        /\ killed \in BOOLEAN
    BY DEF Init
  <2>7. num \in 0 .. K
    BY <1>1 DEF Init
  <2> QED BY <2>1, <2>2, <2>3, <2>4, <2>5, <2>6, <2>7 DEF TypeOK
<1>3. InfoSet
  BY OfficeAssumption DEF Init, InfoSet, Info, Threads, Desks
<1>4. NumCountsStudents
  <2>1. Staying = Students
    BY OfficeAssumption DEF Init, Staying, Threads, Desks
  <2> QED BY <2>1 DEF Init, NumCountsStudents, K
<1> QED BY <1>2, <1>3, <1>4 DEF TypeInv

LEMMA TypeStep == TypeInv /\ [Next]_vars => TypeInv'
<1> SUFFICES ASSUME TypeInv, [Next]_vars PROVE TypeInv'
  OBVIOUS
<1> USE DEF TypeInv
<1>1. ASSUME NEW t \in Threads, SendWait(t) PROVE TypeInv'
  BY <1>1 DEF SendWait, TypeOK, InfoSet, NumCountsStudents, Staying
<1>2. ASSUME NEW t \in Threads, SendFill(t) PROVE TypeInv'
  <2>1. Target(t) \in Buffers /\ info[t] \in Info
    BY <1>2, TargetType, SentInfo DEF SendFill
  <2>2. queue' \in [Buffers -> Seq(Info)]
    BY <1>2, <2>1 DEF SendFill, TypeOK
  <2>3. holder' \in [Buffers -> Threads \cup {Nobody}]
    BY <1>2, <2>1 DEF SendFill, TypeOK
  <2> QED BY <1>2, <2>2, <2>3 DEF SendFill, TypeOK, InfoSet, NumCountsStudents, Staying
<1>3. ASSUME NEW t \in Threads, SendCount(t) PROVE TypeInv'
  <2> DEFINE b == Target(t)
  <2>1. Sending(t) /\ b \in Buffers
    BY <1>3, TargetType DEF SendCount, Announced
  <2>2. Goto(t, AfterSend[pc[t]]) /\ num' = num /\ info' = info
    BY <1>3 DEF SendCount, Announced
  <2>3. urgent' \in [Desks -> Nat]
    <3>1. urgent' = urgent \/ urgent' = [urgent EXCEPT ![b[2]] = @ + 1]
      BY <1>3 DEF SendCount, Announced
    <3> HIDE DEF b
    <3> QED BY <3>1 DEF TypeOK
  <2>4. normal' \in Nat
    BY <1>3 DEF SendCount, TypeOK, Announced
  <2>5. holder' \in [Buffers -> Threads \cup {Nobody}]
    BY <1>3 DEF SendCount, TypeOK, Announced
  <2>6. /\ t \in Students => AfterSend[pc[t]] \in StudentLabels \ {"last", "done"}
        /\ t \in Desks => AfterSend[pc[t]] \in DeskLabels \ {"reply"}
    BY <2>1, AfterSendType
  <2>7. TypeOK'
    BY <1>3, <2>2, <2>3, <2>4, <2>5, <2>6, GotoType DEF SendCount, TypeOK, Announced
  <2>8. InfoSet'
    BY <2>2, <2>6 DEF InfoSet, Goto, TypeOK, Threads
  <2>9. t \in Students => pc[t] \notin {"last", "done"}
    BY <2>1 DEF Sending, Asking
  <2> QED BY <2>2, <2>6, <2>7, <2>8, <2>9, StayingSame
<1>4. ASSUME NEW t \in Threads, ReceiveWait(t) PROVE TypeInv'
  BY <1>4 DEF ReceiveWait, TypeOK, InfoSet, NumCountsStudents, Staying
<1>5. ASSUME NEW t \in Threads, NEW label, NEW result \in Info, Receive(t, label, result),
             t \in Students => label \in StudentLabels \ {"last", "done"},
             t \in Desks => label \in DeskLabels
      PROVE  TypeInv'
  <2>1. Receiving(t) /\ Target(t) \in Buffers
    BY <1>5, TargetType DEF Receive
  <2>2. queue[Target(t)] \in Seq(Info) /\ queue[Target(t)] # <<>>
    BY <1>5, <2>1 DEF Receive, TypeOK
  <2>3. queue' \in [Buffers -> Seq(Info)]
    <3>1. Tail(queue[Target(t)]) \in Seq(Info)
      BY <2>2
    <3> QED BY <1>5, <2>1, <3>1 DEF Receive, TypeOK
  <2>4. info' \in [Threads -> Info \cup {Unset}]
    BY <1>5 DEF Receive, TypeOK
  <2>5. Goto(t, label) /\ num' = num
    BY <1>5 DEF Receive
  <2>6. TypeOK'
    BY <1>5, <2>3, <2>4, <2>5, GotoType DEF Receive, TypeOK
  <2>7. InfoSet'
    BY <1>5 DEF Receive, InfoSet, Goto, TypeOK, Threads
  <2>8. t \in Students => pc[t] \notin {"last", "done"}
    BY <2>1 DEF Receiving, Awaiting
  <2> QED BY <1>5, <2>5, <2>6, <2>7, <2>8, StayingSame
<1>6. ASSUME NEW o \in Offices, OfficeInit(o) PROVE TypeInv'
  <2>1. o \in Desks /\ o \notin Students /\ o \in Threads
    BY OfficeAssumption DEF Desks, Threads
  <2>2. Goto(o, "idle") /\ "idle" \in DeskLabels /\ num' = num
    BY <1>6 DEF OfficeInit, DeskLabels
  <2>3. TypeOK'
    BY <1>6, <2>1, <2>2, GotoType DEF OfficeInit, TypeOK
  <2>4. InfoSet'
    BY <1>6, <2>1 DEF OfficeInit, InfoSet, Goto, TypeOK, Threads
  <2> QED BY <2>1, <2>2, <2>3, <2>4, StayingSame
<1>7. ASSUME NEW d \in Desks, DeskWait(d) PROVE TypeInv'
  BY <1>7 DEF DeskWait, TypeOK, InfoSet, NumCountsStudents, Staying, Threads
<1>8. ASSUME NEW d \in Desks, TakeUrgentCount(d) PROVE TypeInv'
  <2>1. d \notin Students /\ d \in Threads
    BY OfficeAssumption DEF Threads
  <2>2. Goto(d, "takeUrgent") /\ "takeUrgent" \in DeskLabels /\ num' = num
    BY <1>8 DEF TakeUrgentCount, DeskLabels, Claim
  <2>3. urgent' \in [Desks -> Nat]
    BY <1>8 DEF TakeUrgentCount, TypeOK, Claim
  <2>4. TypeOK'
    BY <1>8, <2>1, <2>2, <2>3, GotoType DEF TakeUrgentCount, TypeOK, Claim
  <2>5. InfoSet'
    BY <1>8, <2>1 DEF TakeUrgentCount, InfoSet, Goto, TypeOK, Threads, Claim
  <2> QED BY <2>1, <2>2, <2>4, <2>5, StayingSame
<1>9. ASSUME NEW o \in Offices, TakeNormalCount(o) PROVE TypeInv'
  <2>1. o \in Desks /\ o \notin Students /\ o \in Threads
    BY OfficeAssumption DEF Threads, Desks
  <2>2. Goto(o, "takeNormal") /\ "takeNormal" \in DeskLabels /\ num' = num
    BY <1>9 DEF TakeNormalCount, DeskLabels, Claim
  <2>3. TypeOK'
    BY <1>9, <2>1, <2>2, GotoType DEF TakeNormalCount, TypeOK, Claim
  <2>4. InfoSet'
    BY <1>9, <2>1 DEF TakeNormalCount, InfoSet, Goto, TypeOK, Threads, Claim
  <2> QED BY <2>1, <2>2, <2>3, <2>4, StayingSame
<1>10. ASSUME NEW o \in Offices, OfficeServeUrgent(o) \/ OfficeServeNormal(o) PROVE TypeInv'
  <2>1. o \in Desks /\ o \notin Students /\ o \in Threads
    BY OfficeAssumption DEF Threads, Desks
  <2>2. Receiving(o) /\ queue[Target(o)] # <<>>
    BY <1>10 DEF OfficeServeUrgent, OfficeServeNormal, Receive, Signed
  <2>3. Oldest(o) \in Info
    BY <2>1, <2>2, OldestType
  <2>4. PICK result \in Info : Receive(o, "reply", result)
    BY <1>10, <2>1, <2>3 DEF OfficeServeUrgent, OfficeServeNormal, Info, Signed
  <2> QED BY <1>5, <2>1, <2>4 DEF DeskLabels
<1>11. ASSUME SpecialServe PROVE TypeInv'
  <2>1. SpecialOffice \notin Students /\ SpecialOffice \in Threads
    BY OfficeAssumption DEF Threads, Desks
  <2>2. Oldest(SpecialOffice) \in Info
    BY <1>11, <2>1, OldestType DEF SpecialServe, Receive
  <2> QED BY <1>5, <1>11, <2>1, <2>2 DEF SpecialServe, DeskLabels
<1>12. ASSUME NEW s \in Students, StudentInit(s) PROVE TypeInv'
  <2>1. s \notin Desks /\ s \in Threads
    BY OfficeAssumption DEF Threads
  <2>2. /\ Goto(s, "askNormal") /\ num' = num /\ pc[s] = "start"
        /\ "askNormal" \in StudentLabels
    BY <1>12 DEF StudentInit, StudentLabels
  <2>3. TypeOK'
    BY <1>12, <2>1, <2>2, GotoType DEF StudentInit, TypeOK
  <2>4. InfoSet'
    BY <1>12, <2>1 DEF StudentInit, InfoSet, Goto, TypeOK, Threads
  <2> QED BY <2>1, <2>2, <2>3, <2>4, StayingSame
<1>13. ASSUME NEW s \in Students, StudentReceive(s) PROVE TypeInv'
  <2>1. s \notin Desks /\ s \in Threads
    BY OfficeAssumption DEF Threads
  <2>2. PICK label : Receive(s, label, Oldest(s)) /\ label \in {"askSpecial", "askUrgent", "leave"}
    <3>1. pc[s] \in Awaiting
      BY <1>13, <2>1 DEF StudentReceive, Receive, Receiving, TypeOK, StudentLabels
    <3> QED BY <1>13, <3>1 DEF StudentReceive, Awaiting
  <2>3. Oldest(s) \in Info
    BY <2>1, <2>2, OldestType DEF Receive
  <2> QED BY <1>5, <2>1, <2>2, <2>3 DEF StudentLabels
<1>14. ASSUME NEW s \in Students, Leave(s) PROVE TypeInv'
  <2>1. s \notin Desks /\ s \in Threads
    BY OfficeAssumption DEF Threads
  <2>2. PICK label \in {"last", "done"} : Goto(s, label)
    BY <1>14 DEF Leave, LastOut
  <2>3. s \in Staying /\ Staying' = Staying \ {s}
    BY <1>14, <2>1, <2>2 DEF Leave, Staying, Goto, TypeOK, LastOut
  <2>4. IsFiniteSet(Staying)
    BY OfficeAssumption, FS_Subset DEF Staying
  <2>5. num' = Cardinality(Staying') /\ num' \in Nat
    <3>1. Cardinality(Staying \ {s}) = Cardinality(Staying) - 1
      BY <2>3, <2>4, FS_RemoveElement
    <3>2. Cardinality(Staying \ {s}) \in Nat
      BY <2>4, FS_RemoveElement, FS_CardinalityType
    <3> QED BY <1>14, <2>3, <3>1, <3>2 DEF Leave, NumCountsStudents, LastOut
  <2>6. num' \in 0 .. K
    BY <1>14, <2>5, OfficeAssumption, FS_CardinalityType DEF Leave, TypeOK, K, LastOut
  <2>7. TypeOK'
    BY <1>14, <2>1, <2>2, <2>6, GotoType DEF Leave, TypeOK, StudentLabels, LastOut
  <2>8. InfoSet'
    BY <1>14, <2>1, <2>2 DEF Leave, InfoSet, Goto, TypeOK, Threads, LastOut
  <2> QED BY <2>5, <2>7, <2>8 DEF NumCountsStudents
<1>15. ASSUME NEW s \in Students, EndProcess(s) PROVE TypeInv'
  BY <1>15 DEF EndProcess, TypeOK, InfoSet, NumCountsStudents, Staying
<1>16. ASSUME UNCHANGED vars PROVE TypeInv'
  BY <1>16 DEF vars, TypeOK, InfoSet, NumCountsStudents, Staying
<1>17. ASSUME NEW t \in Threads, SendOrWait(t) PROVE TypeInv'
  BY <1>1, <1>2, <1>3, <1>4, <1>17 DEF SendOrWait
<1>18. ASSUME NEW d \in Desks, DeskStep(d) PROVE TypeInv'
  BY <1>7, <1>8, <1>17, <1>18 DEF DeskStep, Threads
<1>19. ASSUME NEW o \in Offices, OfficeStep(o) PROVE TypeInv'
  BY <1>6, <1>9, <1>10, <1>18, <1>19 DEF OfficeStep, Desks
<1>20. ASSUME SpecialStep PROVE TypeInv'
  BY <1>11, <1>18, <1>20 DEF SpecialStep, Desks
<1>21. ASSUME NEW s \in Students, StudentStep(s) PROVE TypeInv'
  BY <1>12, <1>13, <1>14, <1>15, <1>17, <1>21 DEF StudentStep, Threads
<1> QED BY <1>16, <1>19, <1>20, <1>21 DEF Next, Ended

\* The state of every thread, queue and counter stays in its type: no counter of
\* Cond goes below zero and num_students.num counts the students that are left.
THEOREM OfficeTyping == Spec => []TypeOK
<1>1. TypeInv => TypeOK
  BY DEF TypeInv
<1> QED BY <1>1, TypeInit, TypeStep, PTL DEF Spec

-----------------------------------------------------------------------------
(* Where the info of a student is                                          *)

\* Buffer b has an entry in place i, and which.
Entry(b, i) == b \in Buffers /\ i \in 1 .. Len(queue[b])
Msg(b, i) == queue[b][i]

\* The desk has the info of student s and has not sent it back.
Has(d, s) == Serving(d) /\ info[d].id = s

\* The info of student s is in place i of buffer b.
Lies(b, i, s) == Entry(b, i) /\ Msg(b, i).id = s

\* Student s has sent its info and not got it back.
Out(s) == pc[s] \in Awaiting \/ (pc[s] \in Asking /\ holder[Target(s)] = s)

\* There is one info of a student at most, and one while it is out.
Single(s) ==
  /\ \A b, c \in Buffers : \A i, j \in Nat : Lies(b, i, s) /\ Lies(c, j, s) => b = c /\ i = j
  /\ \A d, e \in Desks : Has(d, s) /\ Has(e, s) => d = e
  /\ \A b \in Buffers, i \in Nat, d \in Desks : ~(Lies(b, i, s) /\ Has(d, s))

Somewhere(s) ==
  \/ \E b \in Buffers, i \in Nat : Lies(b, i, s)
  \/ \E d \in Desks : Has(d, s)

\* On its way to the special office and back it is marked urgent.
Marked(s) ==
  pc[s] \in {"askSpecial", "awaitSpecial"} =>
    /\ \A b \in Buffers, i \in Nat : Lies(b, i, s) =>
         b \in {UrgentQ(SpecialOffice), AnswerQ(s)} /\ Msg(b, i).urgent
    /\ \A d \in Desks : Has(d, s) => d = SpecialOffice /\ info[d].urgent

Asked(s) ==
  /\ info[s].id = s
  /\ pc[s] \in {"start", "askNormal"} => ~info[s].urgent
  /\ pc[s] \in {"askSpecial", "askUrgent"} => info[s].urgent

\* buf->lock stays with a thread in send() only, and only that buffer's.
LocksHeld ==
  \A b \in Buffers : holder[b] # Nobody => Sending(holder[b]) /\ Target(holder[b]) = b

AnswersOwn == \A s \in Students, i \in Nat : Entry(AnswerQ(s), i) => Msg(AnswerQ(s), i).id = s

Journeys ==
  /\ LocksHeld /\ AnswersOwn
  /\ \A s \in Students : Single(s) /\ (Out(s) <=> Somewhere(s)) /\ Marked(s) /\ Asked(s)

AllGone == killed \/ (\E s \in Students : pc[s] = "last") => num = 0

\* A thread that did not move has the target it had.
LEMMA SameTarget ==
  ASSUME NEW t, pc'[t] = pc[t], info'[t] = info[t]
  PROVE  Target(t)' = Target(t) /\ Sending(t)' = Sending(t)
BY DEF Target, Sending

LEMMA SameHas ==
  ASSUME NEW d, pc'[d] = pc[d], info'[d] = info[d],
         pc[d] = "reply" => (holder'[Target(d)] = d <=> holder[Target(d)] = d)
  PROVE  \A s : Has(d, s)' <=> Has(d, s)
BY SameTarget DEF Has, Serving

LEMMA SameOut ==
  ASSUME NEW s, pc'[s] = pc[s], info'[s] = info[s],
         pc[s] \in Asking => (holder'[Target(s)] = s <=> holder[Target(s)] = s)
  PROVE  Out(s)' <=> Out(s)
BY SameTarget DEF Out

LEMMA SameLies ==
  ASSUME queue' = queue
  PROVE  \A b, i, s :
           /\ Lies(b, i, s)' <=> Lies(b, i, s)
           /\ Entry(b, i)' <=> Entry(b, i)
           /\ Msg(b, i)' = Msg(b, i)
BY DEF Lies, Entry, Msg

\* A student whose info is where it was keeps what is said of it.
LEMMA SameJourney ==
  ASSUME NEW s \in Students, Single(s), Out(s) <=> Somewhere(s), Marked(s), Asked(s),
         \A b \in Buffers, i \in Nat :
           /\ Lies(b, i, s)' <=> Lies(b, i, s)
           /\ Lies(b, i, s) => Msg(b, i)' = Msg(b, i),
         \A d \in Desks :
           /\ Has(d, s)' <=> Has(d, s)
           /\ Has(d, s) => info'[d] = info[d],
         Out(s)' <=> Out(s), info'[s] = info[s],
         pc'[s] \in {"askSpecial", "awaitSpecial"} => pc[s] \in {"askSpecial", "awaitSpecial"},
         pc'[s] \in {"start", "askNormal"} => pc[s] \in {"start", "askNormal"},
         pc'[s] \in {"askSpecial", "askUrgent"} => pc[s] \in {"askSpecial", "askUrgent"}
  PROVE  Single(s)' /\ (Out(s)' <=> Somewhere(s)') /\ Marked(s)' /\ Asked(s)'
<1>1. Single(s)'
  BY DEF Single
<1>2. Out(s)' <=> Somewhere(s)'
  BY DEF Somewhere
<1>3. Marked(s)'
  BY DEF Marked
<1>4. Asked(s)'
  BY DEF Asked
<1>5. QED
  BY <1>1, <1>2, <1>3, <1>4

\* The buffers have different names.
LEMMA BufferNames ==
  /\ \A s : AnswerQ(s) \notin RequestQs /\ AnswerQ(s) # NormalQ
  /\ \A s, d : AnswerQ(s) # UrgentQ(d)
  /\ \A d : UrgentQ(d) # NormalQ
  /\ \A s, u : AnswerQ(s) = AnswerQ(u) => s = u
  /\ \A d, e : UrgentQ(d) = UrgentQ(e) => d = e
  /\ \A d : UrgentQ(d)[2] = d
BY DEF AnswerQ, UrgentQ, NormalQ, RequestQs

LEMMA InitJourneys == Init => Journeys /\ AllGone /\ CountsMatchQueues
<1> SUFFICES ASSUME Init PROVE Journeys /\ AllGone /\ CountsMatchQueues
  OBVIOUS
<1>1. \A b, i : ~Entry(b, i)
  BY DEF Init, Entry
<1>2. \A s \in Students : pc[s] = "start" /\ info[s].id = s /\ ~info[s].urgent
  BY OfficeAssumption DEF Init, Threads, Desks
<1>3. \A d \in Desks : pc[d] \in {"start", "idle"}
  BY DEF Init, Threads
<1>4. \A b \in Buffers : holder[b] = Nobody /\ queue[b] = <<>>
  BY DEF Init
<1>5. \A s \in Students : Single(s) /\ (Out(s) <=> Somewhere(s)) /\ Marked(s) /\ Asked(s)
  BY <1>1, <1>2, <1>3 DEF Single, Out, Somewhere, Marked, Asked, Lies, Has, Serving, Asking, Awaiting
<1>6. Journeys
  BY <1>1, <1>4, <1>5 DEF Journeys, LocksHeld, AnswersOwn
<1>7. AllGone
  BY <1>2 DEF AllGone, Init
<1>8. CountsMatchQueues
  <2> SUFFICES ASSUME NEW b \in RequestQs
               PROVE  Len(queue[b]) = Count(b) + Cardinality(Claims(b))
                                      + (IF holder[b] = Nobody THEN 0 ELSE 1)
    BY DEF CountsMatchQueues
  <2>1. Cardinality(Claims(b)) = 0
    BY <1>3, FS_EmptySet DEF Claims
  <2>2. Count(b) = 0
    BY BufferNames DEF Count, Init, RequestQs
  <2>3. queue[b] = <<>> /\ holder[b] = Nobody
    BY <1>4 DEF Buffers
  <2>4. QED
    BY <2>1, <2>2, <2>3
<1>9. QED
  BY <1>6, <1>7, <1>8

\* A thread moves outside of send() and receive(), or to them.
LEMMA QuietStep ==
  ASSUME TypeInv, Journeys, queue' = queue, info' = info, holder' = holder,
         NEW t \in Threads, NEW label, Goto(t, label),
         pc[t] \notin Asking \cup Awaiting \cup {"reply"},
         label \in {"idle", "takeNormal", "takeUrgent", "last", "done"}
           \/ (label = "askNormal" /\ pc[t] = "start")
  PROVE  Journeys'
<1> USE DEF TypeInv
<1>1. \A u \in Threads : u # t => pc'[u] = pc[u]
  BY DEF Goto, TypeOK
<1>2. pc'[t] = label
  BY DEF Goto, TypeOK
<1>3. \A b \in Buffers : holder[b] # t
  BY OfficeAssumption DEF Journeys, LocksHeld, Sending
<1>4. LocksHeld'
  <2> SUFFICES ASSUME NEW b \in Buffers, holder[b] # Nobody
               PROVE  Sending(holder[b])' /\ Target(holder[b])' = b
    BY DEF LocksHeld
  <2>1. holder[b] \in Threads /\ holder[b] # t
    BY <1>3 DEF TypeOK
  <2>2. Sending(holder[b]) /\ Target(holder[b]) = b
    BY DEF Journeys, LocksHeld
  <2>3. QED
    BY <1>1, <2>1, <2>2, SameTarget
<1>5. AnswersOwn'
  BY SameLies DEF Journeys, AnswersOwn
<1>6. ASSUME NEW s \in Students PROVE Single(s)' /\ (Out(s)' <=> Somewhere(s)') /\ Marked(s)' /\ Asked(s)'
  <2>1. \A d \in Desks : Has(d, s)' <=> Has(d, s)
    <3> SUFFICES ASSUME NEW d \in Desks PROVE Has(d, s)' <=> Has(d, s)
      OBVIOUS
    <3>1. CASE d = t
      BY <1>2, <3>1 DEF Has, Serving
    <3>2. CASE d # t
      BY <1>1, <3>2, SameHas DEF Threads
    <3>3. QED
      BY <3>1, <3>2
  <2>2. Out(s)' <=> Out(s)
    <3>1. CASE s = t
      <4>1. ~Out(s)
        BY <3>1 DEF Out
      <4>2. label \notin Awaiting
        BY DEF Awaiting
      <4>3. label \in Asking => Target(t)' = NormalQ
        BY <1>2 DEF Asking, Awaiting, Target
      <4>4. ~Out(s)'
        BY <1>2, <1>3, <3>1, <4>2, <4>3 DEF Out, Buffers, RequestQs
      <4>5. QED
        BY <4>1, <4>4
    <3>2. CASE s # t
      BY <1>1, <3>2, SameOut DEF Threads
    <3>3. QED
      BY <3>1, <3>2
  <2>3. Single(s) /\ (Out(s) <=> Somewhere(s)) /\ Marked(s) /\ Asked(s)
    BY DEF Journeys
  <2>4. /\ pc'[s] \in {"askSpecial", "awaitSpecial"} => pc[s] \in {"askSpecial", "awaitSpecial"}
        /\ pc'[s] \in {"start", "askNormal"} => pc[s] \in {"start", "askNormal"}
        /\ pc'[s] \in {"askSpecial", "askUrgent"} => pc[s] \in {"askSpecial", "askUrgent"}
    BY <1>1, <1>2 DEF Threads
  <2>5. QED
    BY <2>1, <2>2, <2>3, <2>4, SameLies, SameJourney
<1>7. QED
  BY <1>4, <1>5, <1>6 DEF Journeys

\* Whose target a buffer is.
LEMMA TargetsOf ==
  ASSUME TypeInv, NEW t \in Threads
  PROVE  /\ pc[t] \in Asking => t \in Students /\ Target(t) \in RequestQs
         /\ pc[t] = "reply" => t \in Desks /\ info[t].id \in Students /\ Target(t) = AnswerQ(info[t].id)
         /\ pc[t] \in Awaiting => t \in Students /\ Target(t) = AnswerQ(t)
         /\ pc[t] \in {"takeNormal", "takeUrgent"} => t \in Desks /\ Target(t) \in RequestQs
         /\ pc[t] = "askNormal" => Target(t) = NormalQ
         /\ pc[t] = "askSpecial" => Target(t) = UrgentQ(SpecialOffice)
         /\ pc[t] = "askUrgent" => Target(t) = UrgentQ(info[t].office)
         /\ pc[t] = "takeNormal" => Target(t) = NormalQ
         /\ pc[t] = "takeUrgent" => Target(t) = UrgentQ(t)
<1>1. /\ pc[t] \in Asking \cup Awaiting => t \in Students
      /\ pc[t] \in {"reply", "takeNormal", "takeUrgent"} => t \in Desks
  BY OfficeAssumption DEF TypeInv, TypeOK, Threads, StudentLabels, DeskLabels, Asking, Awaiting
<1>2. /\ pc[t] = "reply" => info[t].id \in Students
      /\ pc[t] = "askUrgent" => info[t].office \in Desks
  BY <1>1 DEF TypeInv, InfoSet, Info, Asking
<1>3. SpecialOffice \in Desks
  BY DEF Desks
<1>4. QED
  BY <1>1, <1>2, <1>3 DEF Target, Asking, Awaiting, RequestQs

LEMMA FillStep ==
  ASSUME TypeInv, Journeys, NEW t \in Threads, SendFill(t)
  PROVE  Journeys'
<1>a. Sending(t) /\ Target(t) \in Buffers
  BY TargetType DEF SendFill, TypeInv
<1>b. PICK b \in Buffers : b = Target(t)
  BY <1>a
<1>1. /\ Sending(t) /\ holder[b] = Nobody
      /\ queue' = [queue EXCEPT ![b] = Append(@, info[t])]
      /\ holder' = [holder EXCEPT ![b] = t]
      /\ pc' = pc /\ info' = info
  BY <1>b DEF SendFill
<1>2. /\ queue \in [Buffers -> Seq(Info)] /\ queue[b] \in Seq(Info)
      /\ holder \in [Buffers -> Threads \cup {Nobody}]
  BY DEF TypeInv, TypeOK
<1>s. PICK s0 \in Students : s0 = info[t].id
  <2>1. info[t] \in Info
    BY <1>a, SentInfo DEF TypeInv
  <2>2. QED
    BY <2>1 DEF Info
<1>n. PICK n \in Nat : n = Len(queue[b]) + 1
  BY <1>2
<1>3. \A u : Target(u)' = Target(u) /\ Sending(u)' = Sending(u)
  BY <1>1, SameTarget
<1>4. \A c \in Buffers, i \in Nat :
        /\ Entry(c, i)' <=> Entry(c, i) \/ (c = b /\ i = n)
        /\ Entry(c, i) => Msg(c, i)' = Msg(c, i)
  BY <1>1, <1>2, <1>n DEF Entry, Msg
<1>5. Msg(b, n)' = info[t] /\ ~Entry(b, n)
  BY <1>1, <1>2, <1>n DEF Entry, Msg
<1>6. \A c \in Buffers, i \in Nat : \A s :
        /\ Lies(c, i, s)' <=> Lies(c, i, s) \/ (c = b /\ i = n /\ s = s0)
        /\ Lies(c, i, s) => Msg(c, i)' = Msg(c, i)
  <2> SUFFICES ASSUME NEW c \in Buffers, NEW i \in Nat, NEW s
               PROVE  /\ Lies(c, i, s)' <=> Lies(c, i, s) \/ (c = b /\ i = n /\ s = s0)
                      /\ Lies(c, i, s) => Msg(c, i)' = Msg(c, i)
    OBVIOUS
  <2>1. CASE Entry(c, i)
    BY <1>4, <1>5, <2>1 DEF Lies
  <2>2. CASE ~Entry(c, i)
    BY <1>4, <1>5, <1>s, <2>2 DEF Lies
  <2>3. QED
    BY <2>1, <2>2
<1>7. \A u \in Threads : u # t => (holder'[Target(u)] = u <=> holder[Target(u)] = u)
  BY <1>1, <1>2, OfficeAssumption
<1>8. LocksHeld'
  BY <1>1, <1>2, <1>3, <1>b DEF Journeys, LocksHeld
<1>9. AnswersOwn'
  <2> SUFFICES ASSUME NEW s \in Students, NEW i \in Nat, Entry(AnswerQ(s), i)'
               PROVE  Msg(AnswerQ(s), i)'.id = s
    BY DEF AnswersOwn
  <2>1. AnswerQ(s) \in Buffers
    BY DEF Buffers
  <2>2. CASE Entry(AnswerQ(s), i)
    BY <1>4, <2>1, <2>2 DEF Journeys, AnswersOwn
  <2>3. CASE AnswerQ(s) = b /\ i = n
    <3>1. pc[t] = "reply"
      BY <1>1, <2>3, TargetsOf, BufferNames, <1>b DEF Sending
    <3>2. s = s0
      BY <2>3, <3>1, TargetsOf, BufferNames, <1>b, <1>s
    <3>3. QED
      BY <1>5, <2>3, <3>2, <1>s
  <2>4. QED
    BY <1>4, <2>1, <2>2, <2>3
<1>10. ASSUME NEW s \in Students PROVE Single(s)' /\ (Out(s)' <=> Somewhere(s)') /\ Marked(s)' /\ Asked(s)'
  <2>1. Single(s) /\ (Out(s) <=> Somewhere(s)) /\ Marked(s) /\ Asked(s)
    BY DEF Journeys
  <2>2. \A d \in Desks : d # t => (Has(d, s)' <=> Has(d, s))
    BY <1>1, <1>7, SameHas DEF Threads
  <2>3. s # t => (Out(s)' <=> Out(s))
    BY <1>1, <1>7, SameOut DEF Threads
  <2>4. CASE s # s0
    <3>1. t \in Desks => ~Has(t, s) /\ ~Has(t, s)'
      BY <1>1, <2>4, <1>s DEF Has
    <3>2. s # t
      BY <2>1, <2>4, <1>s DEF Asked
    <3>3. QED
      BY <1>1, <1>6, <2>1, <2>2, <2>3, <2>4, <3>1, <3>2, SameJourney
  <2>5. CASE s = s0
    <3>1. \A c \in Buffers, i \in Nat : ~Lies(c, i, s)
      <4>1. CASE pc[t] = "reply"
        <5>1. t \in Desks /\ Has(t, s)
          BY <1>1, <2>5, <4>1, TargetsOf, OfficeAssumption, <1>b, <1>s DEF Has, Serving
        <5>2. QED
          BY <2>1, <5>1 DEF Single
      <4>2. CASE pc[t] \in Asking
        <5>1. s = t /\ ~Out(s)
          BY <1>1, <2>5, <4>2, TargetsOf, OfficeAssumption, <1>b, <1>s
             DEF Journeys, Asked, Out, Asking, Awaiting
        <5>2. QED
          BY <2>1, <5>1 DEF Somewhere
      <4>3. QED
        BY <1>1, <4>1, <4>2 DEF Sending
    <3>2. \A d \in Desks : ~Has(d, s)'
      <4>1. t \in Desks => ~Has(t, s)'
        BY <1>1, <1>2, <1>3, <1>b DEF Has, Serving
      <4>2. \A d \in Desks : d # t => ~Has(d, s)
        <5>1. CASE pc[t] = "reply"
          <6>1. t \in Desks /\ Has(t, s)
            BY <1>1, <2>5, <5>1, TargetsOf, OfficeAssumption, <1>b, <1>s DEF Has, Serving
          <6>2. QED
            BY <2>1, <6>1 DEF Single
        <5>2. CASE pc[t] \in Asking
          <6>1. s = t /\ ~Out(s)
            BY <1>1, <2>5, <5>2, TargetsOf, OfficeAssumption, <1>b, <1>s
               DEF Journeys, Asked, Out, Asking, Awaiting
          <6>2. QED
            BY <2>1, <6>1 DEF Somewhere
        <5>3. QED
          BY <1>1, <5>1, <5>2 DEF Sending
      <4>3. QED
        BY <2>2, <4>1, <4>2
    <3>3. Out(s)'
      <4>1. CASE pc[t] = "reply"
        <5>1. t \in Desks /\ Has(t, s) /\ s # t
          BY <1>1, <2>5, <4>1, TargetsOf, OfficeAssumption, <1>b, <1>s DEF Has, Serving
        <5>2. QED
          BY <2>1, <2>3, <5>1 DEF Somewhere
      <4>2. CASE pc[t] \in Asking
        <5>1. s = t
          BY <1>1, <2>5, <4>2, TargetsOf, <1>s DEF Journeys, Asked
        <5>2. QED
          BY <1>1, <1>2, <1>3, <4>2, <5>1, <1>b DEF Out
      <4>3. QED
        BY <1>1, <4>1, <4>2 DEF Sending
    <3>4. Lies(b, n, s)'
      BY <1>1, <1>2, <1>6, <2>5
    <3>5. Single(s)' /\ Somewhere(s)'
      BY <1>1, <1>2, <1>6, <3>1, <3>2, <3>4 DEF Single, Somewhere
    <3>6. Marked(s)'
      <4> SUFFICES ASSUME pc[s] \in {"askSpecial", "awaitSpecial"}
                   PROVE  b \in {UrgentQ(SpecialOffice), AnswerQ(s)} /\ info[t].urgent
        BY <1>1, <1>5, <1>6, <3>1, <3>2 DEF Marked
      <4>1. CASE pc[t] = "reply"
        <5>1. t \in Desks /\ Has(t, s) /\ b = AnswerQ(s)
          BY <1>1, <2>5, <4>1, TargetsOf, OfficeAssumption, <1>b, <1>s DEF Has, Serving
        <5>2. QED
          BY <2>1, <5>1 DEF Marked
      <4>2. CASE pc[t] \in Asking
        <5>1. s = t
          BY <1>1, <2>5, <4>2, TargetsOf, <1>s DEF Journeys, Asked
        <5>2. QED
          BY <2>1, <4>2, <5>1, TargetsOf, <1>b DEF Asked, Asking
      <4>3. QED
        BY <1>1, <4>1, <4>2 DEF Sending
    <3>7. Asked(s)'
      BY <1>1, <2>1 DEF Asked
    <3>8. QED
      BY <3>3, <3>5, <3>6, <3>7
  <2>6. QED
    BY <2>4, <2>5
<1>11. QED
  BY <1>8, <1>9, <1>10 DEF Journeys

LEMMA CountStep ==
  ASSUME TypeInv, Journeys, NEW t \in Threads, SendCount(t)
  PROVE  Journeys'
<1>a. Sending(t) /\ Target(t) \in Buffers
  BY TargetType DEF SendCount, TypeInv
<1>b. PICK b \in Buffers : b = Target(t)
  BY <1>a
<1>1. /\ Sending(t) /\ holder[b] = t
      /\ holder' = [holder EXCEPT ![b] = Nobody]
      /\ pc' = [pc EXCEPT ![t] = AfterSend[pc[t]]]
      /\ queue' = queue /\ info' = info
  BY <1>b DEF SendCount, Goto
<1>2. holder \in [Buffers -> Threads \cup {Nobody}] /\ pc'[t] = AfterSend[pc[t]]
  BY <1>1 DEF TypeInv, TypeOK
<1>3. \A u \in Threads : u # t => pc'[u] = pc[u]
  BY <1>1 DEF TypeInv, TypeOK
<1>4. \/ pc[t] = "askNormal" /\ pc'[t] = "awaitNormal"
      \/ pc[t] = "askSpecial" /\ pc'[t] = "awaitSpecial"
      \/ pc[t] = "askUrgent" /\ pc'[t] = "awaitUrgent"
      \/ pc[t] = "reply" /\ pc'[t] = "idle"
  BY <1>1, <1>2 DEF Sending, Asking, AfterSend
<1>5. \A u \in Threads : u # t => (holder'[Target(u)] = u <=> holder[Target(u)] = u)
  BY <1>1, <1>2, OfficeAssumption
<1>6. LocksHeld'
  <2> SUFFICES ASSUME NEW c \in Buffers, NEW u, holder'[c] = u, u # Nobody
               PROVE  Sending(u)' /\ Target(u)' = c
    BY DEF LocksHeld
  <2>1. c # b /\ holder[c] = u /\ u \in Threads
    BY <1>1, <1>2
  <2>2. Sending(u) /\ Target(u) = c
    BY <2>1 DEF Journeys, LocksHeld
  <2>3. u # t
    BY <1>b, <2>1, <2>2
  <2>4. QED
    BY <1>1, <1>3, <2>1, <2>2, <2>3, SameTarget
<1>7. AnswersOwn'
  BY <1>1, SameLies DEF Journeys, AnswersOwn
<1>8. ASSUME NEW s \in Students PROVE Single(s)' /\ (Out(s)' <=> Somewhere(s)') /\ Marked(s)' /\ Asked(s)'
  <2>1. Single(s) /\ (Out(s) <=> Somewhere(s)) /\ Marked(s) /\ Asked(s)
    BY DEF Journeys
  <2>2. \A d \in Desks : Has(d, s)' <=> Has(d, s)
    <3> SUFFICES ASSUME NEW d \in Desks PROVE Has(d, s)' <=> Has(d, s)
      OBVIOUS
    <3>1. CASE d = t
      BY <1>1, <1>4, <3>1, <1>b DEF Has, Serving
    <3>2. CASE d # t
      BY <1>1, <1>3, <1>5, <3>2, SameHas DEF Threads
    <3>3. QED
      BY <3>1, <3>2
  <2>3. Out(s)' <=> Out(s)
    <3>1. CASE s = t
      <4>1. pc[t] # "reply"
        BY <3>1, TargetsOf, OfficeAssumption
      <4>2. QED
        BY <1>1, <1>4, <3>1, <4>1, <1>b DEF Out, Asking, Awaiting
    <3>2. CASE s # t
      BY <1>1, <1>3, <1>5, <3>2, SameOut DEF Threads
    <3>3. QED
      BY <3>1, <3>2
  <2>4. /\ pc'[s] \in {"askSpecial", "awaitSpecial"} => pc[s] \in {"askSpecial", "awaitSpecial"}
        /\ pc'[s] \in {"start", "askNormal"} => pc[s] \in {"start", "askNormal"}
        /\ pc'[s] \in {"askSpecial", "askUrgent"} => pc[s] \in {"askSpecial", "askUrgent"}
    BY <1>3, <1>4 DEF Threads
  <2>5. QED
    BY <1>1, <2>1, <2>2, <2>3, <2>4, SameLies, SameJourney
<1>9. QED
  BY <1>6, <1>7, <1>8 DEF Journeys

\* receive() moves every entry of the buffer one place ahead.
LEMMA TakenFromBuffer ==
  ASSUME TypeInv, NEW t \in Threads, NEW label, NEW result, Receive(t, label, result),
         NEW b \in Buffers, b = Target(t)
  PROVE  /\ Entry(b, 1) /\ Msg(b, 1) = Oldest(t)
         /\ \A c \in Buffers, i \in Nat :
              Entry(c, i)' => /\ Entry(c, IF c = b THEN i + 1 ELSE i)
                              /\ Msg(c, i)' = Msg(c, IF c = b THEN i + 1 ELSE i)
         /\ \A c \in Buffers, i \in Nat :
              Entry(c, i) /\ (c = b => i # 1) =>
                /\ (IF c = b THEN i - 1 ELSE i) \in Nat
                /\ Entry(c, IF c = b THEN i - 1 ELSE i)'
                /\ Msg(c, IF c = b THEN i - 1 ELSE i)' = Msg(c, i)
<1>1. /\ queue \in [Buffers -> Seq(Info)] /\ queue[b] \in Seq(Info) /\ queue[b] # <<>>
      /\ queue' = [queue EXCEPT ![b] = Tail(@)]
  BY DEF TypeInv, TypeOK, Receive
<1>2. /\ Len(Tail(queue[b])) = Len(queue[b]) - 1
      /\ \A i \in 1 .. Len(queue[b]) - 1 : Tail(queue[b])[i] = queue[b][i + 1]
      /\ Len(queue[b]) \in Nat \ {0} /\ Head(queue[b]) = queue[b][1]
  BY <1>1
<1>3. queue'[b] = Tail(queue[b]) /\ \A c \in Buffers : c # b => queue'[c] = queue[c]
  BY <1>1
<1>4. Entry(b, 1) /\ Msg(b, 1) = Oldest(t)
  BY <1>2 DEF Entry, Msg, Oldest
<1>5. ASSUME NEW c \in Buffers, c # b, NEW i \in Nat
      PROVE  /\ Entry(c, i)' <=> Entry(c, i)
             /\ Msg(c, i)' = Msg(c, i)
  BY <1>3, <1>5 DEF Entry, Msg
<1>6. ASSUME NEW i \in Nat, Entry(b, i)'
      PROVE  Entry(b, i + 1) /\ Msg(b, i)' = Msg(b, i + 1)
  BY <1>2, <1>3, <1>6 DEF Entry, Msg
<1>7. ASSUME NEW i \in Nat, Entry(b, i), i # 1
      PROVE  i - 1 \in Nat /\ Entry(b, i - 1)' /\ Msg(b, i - 1)' = Msg(b, i)
  BY <1>2, <1>3, <1>7 DEF Entry, Msg
<1>8. QED
  BY <1>4, <1>5, <1>6, <1>7

\* The students whose info is not taken keep theirs.
LEMMA OthersStay ==
  ASSUME TypeInv, Journeys, NEW t \in Threads, NEW label, NEW result, Receive(t, label, result),
         Receiving(t), NEW s \in Students, s # Oldest(t).id, s # t,
         t \in Desks => ~Has(t, s) /\ ~Has(t, s)'
  PROVE  Single(s)' /\ (Out(s)' <=> Somewhere(s)') /\ Marked(s)' /\ Asked(s)'
<1>a. PICK b \in Buffers : b = Target(t)
  BY TargetType DEF TypeInv
<1>1. Single(s) /\ (Out(s) <=> Somewhere(s)) /\ Marked(s) /\ Asked(s)
  BY DEF Journeys
<1>2. /\ holder' = holder
      /\ \A u \in Threads : u # t => pc'[u] = pc[u] /\ info'[u] = info[u]
  BY DEF Receive, Goto, TypeInv, TypeOK
<1>3. \A d \in Desks : Has(d, s)' <=> Has(d, s)
  BY <1>2, SameHas DEF Threads
<1>4. Out(s)' <=> Out(s)
  BY <1>2, SameOut DEF Threads
<1>5. \A c \in Buffers, i \in Nat :
        Lies(c, i, s)' => /\ Lies(c, IF c = b THEN i + 1 ELSE i, s)
                          /\ Msg(c, i)' = Msg(c, IF c = b THEN i + 1 ELSE i)
  BY <1>a, TakenFromBuffer DEF Lies
<1>6. \A c \in Buffers, i \in Nat :
        Lies(c, i, s) => /\ (IF c = b THEN i - 1 ELSE i) \in Nat
                         /\ Lies(c, IF c = b THEN i - 1 ELSE i, s)'
  <2> SUFFICES ASSUME NEW c \in Buffers, NEW i \in Nat, Lies(c, i, s)
               PROVE  /\ (IF c = b THEN i - 1 ELSE i) \in Nat
                      /\ Lies(c, IF c = b THEN i - 1 ELSE i, s)'
    OBVIOUS
  <2>1. c = b => i # 1
    BY <1>a, TakenFromBuffer DEF Lies
  <2>2. QED
    BY <1>a, <2>1, TakenFromBuffer DEF Lies
<1>7. Single(s)'
  <2>1. ASSUME NEW c \in Buffers, NEW d \in Buffers, NEW i \in Nat, NEW j \in Nat,
               Lies(c, i, s)', Lies(d, j, s)'
        PROVE  c = d /\ i = j
    <3>1. /\ Lies(c, IF c = b THEN i + 1 ELSE i, s)
          /\ Lies(d, IF d = b THEN j + 1 ELSE j, s)
      BY <1>5, <2>1
    <3>2. c = d /\ (IF c = b THEN i + 1 ELSE i) = (IF d = b THEN j + 1 ELSE j)
      BY <1>1, <3>1 DEF Single
    <3>3. QED
      BY <3>2
  <2>2. \A c \in Buffers, i \in Nat, d \in Desks : ~(Lies(c, i, s)' /\ Has(d, s)')
    <3> SUFFICES ASSUME NEW c \in Buffers, NEW i \in Nat, NEW d \in Desks,
                        Lies(c, i, s)', Has(d, s)'
                 PROVE  FALSE
      OBVIOUS
    <3>1. Lies(c, IF c = b THEN i + 1 ELSE i, s) /\ Has(d, s)
      BY <1>3, <1>5
    <3>2. QED
      BY <1>1, <3>1 DEF Single
  <2>3. \A d, e \in Desks : Has(d, s)' /\ Has(e, s)' => d = e
    BY <1>1, <1>3 DEF Single
  <2>4. QED
    BY <2>1, <2>2, <2>3 DEF Single
<1>8. Somewhere(s)' <=> Somewhere(s)
  <2>1. ASSUME NEW c \in Buffers, NEW i \in Nat, Lies(c, i, s)' PROVE Somewhere(s)
    <3>1. (IF c = b THEN i + 1 ELSE i) \in Nat
      OBVIOUS
    <3>2. QED
      BY <1>5, <2>1, <3>1 DEF Somewhere
  <2>2. ASSUME NEW c \in Buffers, NEW i \in Nat, Lies(c, i, s) PROVE Somewhere(s)'
    BY <1>6, <2>2 DEF Somewhere
  <2>3. QED
    BY <1>3, <2>1, <2>2 DEF Somewhere
<1>9. Marked(s)'
  <2> SUFFICES ASSUME pc[s] \in {"askSpecial", "awaitSpecial"}
               PROVE  /\ \A c \in Buffers, i \in Nat : Lies(c, i, s)' =>
                           c \in {UrgentQ(SpecialOffice), AnswerQ(s)} /\ Msg(c, i)'.urgent
                      /\ \A d \in Desks : Has(d, s)' => d = SpecialOffice /\ info'[d].urgent
    BY <1>2 DEF Marked, Threads
  <2>1. ASSUME NEW c \in Buffers, NEW i \in Nat, Lies(c, i, s)'
        PROVE  c \in {UrgentQ(SpecialOffice), AnswerQ(s)} /\ Msg(c, i)'.urgent
    <3>1. (IF c = b THEN i + 1 ELSE i) \in Nat
      OBVIOUS
    <3>2. QED
      BY <1>1, <1>5, <2>1, <3>1 DEF Marked
  <2>2. ASSUME NEW d \in Desks, Has(d, s)' PROVE d = SpecialOffice /\ info'[d].urgent
    <3>1. Has(d, s) /\ d # t
      BY <1>3, <2>2
    <3>2. QED
      BY <1>1, <1>2, <3>1 DEF Marked, Threads
  <2>3. QED
    BY <2>1, <2>2
<1>10. Asked(s)'
  BY <1>1, <1>2 DEF Asked, Threads
<1>11. QED
  BY <1>1, <1>4, <1>7, <1>8, <1>9, <1>10

\* Buffers that nobody received from still hold what they held.
LEMMA ReceiveLocksAnswers ==
  ASSUME TypeInv, Journeys, NEW t \in Threads, NEW label, NEW result, Receive(t, label, result)
  PROVE  LocksHeld' /\ AnswersOwn'
<1>a. PICK b \in Buffers : b = Target(t)
  BY TargetType DEF TypeInv, Receive
<1>1. /\ holder' = holder /\ Receiving(t)
      /\ \A u \in Threads : u # t => pc'[u] = pc[u] /\ info'[u] = info[u]
  BY DEF Receive, Goto, TypeInv, TypeOK
<1>2. LocksHeld'
  <2> SUFFICES ASSUME NEW c \in Buffers, NEW u, holder[c] = u, u # Nobody
               PROVE  Sending(u)' /\ Target(u)' = c
    BY <1>1 DEF LocksHeld
  <2>1. u \in Threads /\ Sending(u) /\ Target(u) = c
    BY DEF TypeInv, TypeOK, Journeys, LocksHeld
  <2>2. u # t
    BY <1>1, <2>1 DEF Sending, Receiving, Asking, Awaiting
  <2>3. QED
    BY <1>1, <2>1, <2>2, SameTarget
<1>3. AnswersOwn'
  <2> SUFFICES ASSUME NEW s \in Students, NEW i \in Nat, Entry(AnswerQ(s), i)'
               PROVE  Msg(AnswerQ(s), i)'.id = s
    BY DEF AnswersOwn
  <2> DEFINE k == IF AnswerQ(s) = b THEN i + 1 ELSE i
  <2>1. AnswerQ(s) \in Buffers /\ k \in Nat
    BY DEF Buffers
  <2>2. Entry(AnswerQ(s), k) /\ Msg(AnswerQ(s), i)' = Msg(AnswerQ(s), k)
    BY <1>a, <2>1, TakenFromBuffer
  <2> HIDE DEF k
  <2>3. QED
    BY <2>1, <2>2 DEF Journeys, AnswersOwn
<1>4. QED
  BY <1>2, <1>3

\* A desk takes a request.
LEMMA DeskReceives ==
  ASSUME TypeInv, Journeys, NEW t \in Desks, NEW result \in Info, Receive(t, "reply", result),
         pc[t] \in {"takeNormal", "takeUrgent"}, result.id = Oldest(t).id,
         t = SpecialOffice => result.urgent = Oldest(t).urgent
  PROVE  Journeys'
<1>a. t \in Threads /\ t \notin Students /\ Target(t) \in RequestQs
  BY TargetsOf, OfficeAssumption DEF Threads
<1>b. PICK b \in Buffers : b = Target(t)
  BY <1>a DEF Buffers
<1>s. PICK s0 \in Students : s0 = result.id
  BY DEF Info
<1>1. /\ Receiving(t) /\ holder' = holder /\ pc'[t] = "reply" /\ info'[t] = result
      /\ \A u \in Threads : u # t => pc'[u] = pc[u] /\ info'[u] = info[u]
  BY <1>a DEF Receive, Goto, TypeInv, TypeOK
<1>2. \A s : ~Has(t, s)
  BY DEF Has, Serving
<1>3. \A c \in Buffers : holder[c] # t
  BY <1>a, <1>1, OfficeAssumption DEF Journeys, LocksHeld, Sending, Asking
<1>4. \A s : Has(t, s)' <=> s = s0
  <2>1. Target(t)' = AnswerQ(s0)
    BY <1>1, <1>s DEF Target, Awaiting
  <2>2. AnswerQ(s0) \in Buffers
    BY DEF Buffers
  <2>3. QED
    BY <1>1, <1>3, <1>s, <2>1, <2>2 DEF Has, Serving
<1>5. Lies(b, 1, s0)
  BY <1>a, <1>b, <1>s, TakenFromBuffer DEF Lies
<1>6. ASSUME NEW s \in Students, s # s0
      PROVE  Single(s)' /\ (Out(s)' <=> Somewhere(s)') /\ Marked(s)' /\ Asked(s)'
  BY <1>a, <1>1, <1>2, <1>4, <1>6, <1>s, OthersStay
<1>7. Single(s0)' /\ (Out(s0)' <=> Somewhere(s0)') /\ Marked(s0)' /\ Asked(s0)'
  <2>1. Single(s0) /\ (Out(s0) <=> Somewhere(s0)) /\ Marked(s0) /\ Asked(s0)
    BY DEF Journeys
  <2>2. \A c \in Buffers, i \in Nat : ~Lies(c, i, s0)'
    <3> SUFFICES ASSUME NEW c \in Buffers, NEW i \in Nat, Lies(c, i, s0)' PROVE FALSE
      OBVIOUS
    <3> DEFINE k == IF c = b THEN i + 1 ELSE i
    <3>1. Lies(c, k, s0) /\ k \in Nat
      BY <1>a, <1>b, TakenFromBuffer DEF Lies
    <3>2. i # 0
      BY DEF Lies, Entry
    <3>3. c = b => k # 1
      BY <3>2
    <3> HIDE DEF k
    <3>4. QED
      BY <1>5, <2>1, <3>1, <3>3 DEF Single
  <2>3. \A d \in Desks : Has(d, s0)' <=> d = t
    <3> SUFFICES ASSUME NEW d \in Desks, d # t PROVE ~Has(d, s0)'
      BY <1>4
    <3>1. ~Has(d, s0)
      BY <1>5, <2>1 DEF Single
    <3>2. QED
      BY <1>1, <3>1, SameHas DEF Threads
  <2>4. Out(s0)'
    <3>1. Out(s0)
      BY <1>5, <2>1 DEF Somewhere
    <3>2. QED
      BY <1>a, <1>1, <3>1, SameOut DEF Threads
  <2>5. Single(s0)' /\ Somewhere(s0)'
    BY <2>2, <2>3 DEF Single, Somewhere
  <2>6. Marked(s0)'
    <3> SUFFICES ASSUME pc[s0] \in {"askSpecial", "awaitSpecial"}
                 PROVE  t = SpecialOffice /\ result.urgent
      BY <1>a, <1>1, <2>2, <2>3 DEF Marked, Threads
    <3>1. b = UrgentQ(SpecialOffice) /\ Msg(b, 1).urgent
      <4>1. b \in {UrgentQ(SpecialOffice), AnswerQ(s0)} /\ Msg(b, 1).urgent
        BY <1>5, <2>1 DEF Marked
      <4>2. b # AnswerQ(s0)
        BY <1>a, <1>b, BufferNames
      <4>3. QED
        BY <4>1, <4>2
    <3>2. t = SpecialOffice
      <4>1. pc[t] = "takeNormal" => b = NormalQ
        BY <1>a, <1>b, TargetsOf
      <4>2. pc[t] = "takeUrgent" => b = UrgentQ(t)
        BY <1>a, <1>b, TargetsOf
      <4>3. QED
        BY <3>1, <4>1, <4>2, BufferNames
    <3>3. Msg(b, 1) = Oldest(t)
      BY <1>a, <1>b, TakenFromBuffer
    <3>4. QED
      BY <3>1, <3>2, <3>3
  <2>7. Asked(s0)'
    BY <1>a, <1>1, <2>1 DEF Asked, Threads
  <2>8. QED
    BY <2>4, <2>5, <2>6, <2>7
<1>8. QED
  BY <1>a, <1>6, <1>7, ReceiveLocksAnswers DEF Journeys

\* A student takes its answer.
LEMMA StudentReceives ==
  ASSUME TypeInv, Journeys, NEW t \in Students, NEW label, Receive(t, label, Oldest(t)),
         pc[t] \in Awaiting, label \in {"askSpecial", "askUrgent", "leave"},
         label = "askSpecial" => Oldest(t).urgent,
         label = "askUrgent" => pc[t] = "awaitSpecial"
  PROVE  Journeys'
<1>a. t \in Threads /\ t \notin Desks /\ Target(t) = AnswerQ(t)
  BY TargetsOf, OfficeAssumption DEF Threads
<1>b. PICK b \in Buffers : b = Target(t)
  BY <1>a DEF Buffers
<1>1. /\ Receiving(t) /\ holder' = holder /\ pc'[t] = label /\ info'[t] = Oldest(t)
      /\ \A u \in Threads : u # t => pc'[u] = pc[u] /\ info'[u] = info[u]
  BY <1>a DEF Receive, Goto, TypeInv, TypeOK
<1>2. Entry(b, 1) /\ Msg(b, 1) = Oldest(t)
  BY <1>a, <1>b, TakenFromBuffer
<1>3. Lies(b, 1, t) /\ Oldest(t).id = t
  BY <1>a, <1>b, <1>2 DEF Journeys, AnswersOwn, Lies
<1>4. ASSUME NEW s \in Students, s # t
      PROVE  Single(s)' /\ (Out(s)' <=> Somewhere(s)') /\ Marked(s)' /\ Asked(s)'
  BY <1>a, <1>1, <1>3, <1>4, OthersStay
<1>5. Single(t)' /\ (Out(t)' <=> Somewhere(t)') /\ Marked(t)' /\ Asked(t)'
  <2>1. Single(t) /\ Marked(t) /\ Asked(t)
    BY DEF Journeys
  <2>2. \A c \in Buffers, i \in Nat : ~Lies(c, i, t)'
    <3> SUFFICES ASSUME NEW c \in Buffers, NEW i \in Nat, Lies(c, i, t)' PROVE FALSE
      OBVIOUS
    <3> DEFINE k == IF c = b THEN i + 1 ELSE i
    <3>1. Lies(c, k, t) /\ k \in Nat
      BY <1>a, <1>b, TakenFromBuffer DEF Lies
    <3>2. i # 0
      BY DEF Lies, Entry
    <3>3. c = b => k # 1
      BY <3>2
    <3> HIDE DEF k
    <3>4. QED
      BY <1>3, <2>1, <3>1, <3>3 DEF Single
  <2>3. \A d \in Desks : ~Has(d, t)'
    <3> SUFFICES ASSUME NEW d \in Desks PROVE ~Has(d, t)'
      OBVIOUS
    <3>1. ~Has(d, t) /\ d # t
      BY <1>a, <1>3, <2>1 DEF Single
    <3>2. QED
      BY <1>1, <3>1, SameHas DEF Threads
  <2>4. ~Out(t)'
    <3>1. \A c \in Buffers : holder[c] # t
      BY <1>a, <1>1, OfficeAssumption DEF Journeys, LocksHeld, Sending, Asking, Awaiting
    <3>2. pc'[t] \notin Awaiting
      BY <1>1 DEF Awaiting
    <3>3. pc'[t] \in Asking => Target(t)' \in Buffers
      <4>1. Oldest(t).office \in Desks
        <5>1. Oldest(t) \in Info
          BY <1>a, <1>1, OldestType DEF TypeInv, Receive
        <5>2. QED
          BY <5>1 DEF Info
      <4>2. pc'[t] = "askSpecial" => Target(t)' = UrgentQ(SpecialOffice)
        BY DEF Target, Awaiting
      <4>3. pc'[t] = "askUrgent" => Target(t)' = UrgentQ(Oldest(t).office)
        BY <1>1 DEF Target, Awaiting
      <4>4. SpecialOffice \in Desks
        BY DEF Desks
      <4>5. QED
        BY <1>1, <4>1, <4>2, <4>3, <4>4 DEF Asking, Buffers, RequestQs
    <3>4. QED
      BY <1>1, <3>1, <3>2, <3>3 DEF Out
  <2>5. Single(t)' /\ ~Somewhere(t)' /\ Marked(t)'
    BY <2>2, <2>3 DEF Single, Somewhere, Marked
  <2>6. Asked(t)'
    <3>1. label = "askUrgent" => Oldest(t).urgent
      BY <1>2, <1>3, <2>1 DEF Marked
    <3>2. QED
      BY <1>1, <1>3, <3>1 DEF Asked
  <2>7. QED
    BY <2>4, <2>5, <2>6
<1>6. QED
  BY <1>a, <1>4, <1>5, ReceiveLocksAnswers DEF Journeys

LEMMA JourneysStep == TypeInv /\ TypeInv' /\ Journeys /\ [Next]_vars => Journeys'
<1> SUFFICES ASSUME TypeInv, TypeInv', Journeys, [Next]_vars PROVE Journeys'
  OBVIOUS
<1>1. ASSUME UNCHANGED <<pc, info, queue, holder>> PROVE Journeys'
  <2>1. \A s \in Students : Single(s)' /\ (Out(s)' <=> Somewhere(s)') /\ Marked(s)' /\ Asked(s)'
    <3> SUFFICES ASSUME NEW s \in Students
                 PROVE  Single(s)' /\ (Out(s)' <=> Somewhere(s)') /\ Marked(s)' /\ Asked(s)'
      OBVIOUS
    <3>1. Single(s) /\ (Out(s) <=> Somewhere(s)) /\ Marked(s) /\ Asked(s)
      BY DEF Journeys
    <3>2. (\A d \in Desks : Has(d, s)' <=> Has(d, s)) /\ (Out(s)' <=> Out(s))
      BY <1>1, SameHas, SameOut
    <3>3. QED
      BY <1>1, <3>1, <3>2, SameLies, SameJourney
  <2>2. LocksHeld' /\ AnswersOwn'
    BY <1>1, SameTarget, SameLies DEF Journeys, LocksHeld, AnswersOwn
  <2>3. QED
    BY <2>1, <2>2 DEF Journeys
<1>2. ASSUME NEW t \in Threads, SendOrWait(t) PROVE Journeys'
  <2>1. CASE SendWait(t) \/ ReceiveWait(t)
    BY <1>1, <2>1 DEF SendWait, ReceiveWait
  <2>2. QED
    BY <1>2, <2>1, FillStep, CountStep DEF SendOrWait
<1>3. ASSUME NEW d \in Desks, DeskStep(d) PROVE Journeys'
  <2>1. CASE DeskWait(d)
    BY <1>1, <2>1 DEF DeskWait
  <2>2. CASE TakeUrgentCount(d)
    BY <2>2, QuietStep DEF TakeUrgentCount, Threads, Asking, Awaiting
  <2>3. QED
    BY <1>2, <1>3, <2>1, <2>2 DEF DeskStep, Threads
<1>4. ASSUME NEW o \in Offices, OfficeStep(o) PROVE Journeys'
  <2>1. o \in Desks /\ o \in Threads /\ o # SpecialOffice
    BY OfficeAssumption DEF Desks, Threads
  <2>2. CASE OfficeInit(o)
    BY <2>1, <2>2, QuietStep DEF OfficeInit, Asking, Awaiting
  <2>3. CASE TakeNormalCount(o)
    BY <2>1, <2>3, QuietStep DEF TakeNormalCount, Asking, Awaiting
  <2>4. CASE OfficeServeUrgent(o) \/ OfficeServeNormal(o)
    <3>1. pc[o] \in {"takeNormal", "takeUrgent"} /\ Oldest(o) \in Info
      BY <2>1, <2>4, OldestType DEF OfficeServeUrgent, OfficeServeNormal, Receive, TypeInv
    <3>2. PICK result \in Info : Receive(o, "reply", result) /\ result.id = Oldest(o).id
      <4>1. CASE OfficeServeUrgent(o)
        <5>1. /\ [Oldest(o) EXCEPT !.urgent = FALSE] \in Info
              /\ [Oldest(o) EXCEPT !.urgent = FALSE].id = Oldest(o).id
          BY <3>1 DEF Info
        <5>2. QED
          BY <4>1, <5>1 DEF OfficeServeUrgent
      <4>2. CASE OfficeServeNormal(o)
        <5>1. PICK special \in BOOLEAN : Receive(o, "reply", [Signed(Oldest(o), o) EXCEPT !.urgent = special])
          BY <4>2 DEF OfficeServeNormal
        <5>2. /\ [Signed(Oldest(o), o) EXCEPT !.urgent = special] \in Info
              /\ [Signed(Oldest(o), o) EXCEPT !.urgent = special].id = Oldest(o).id
          BY <2>1, <3>1 DEF Signed, Info
        <5>3. QED
          BY <5>1, <5>2
      <4>3. QED
        BY <2>4, <4>1, <4>2
    <3>3. QED
      BY <2>1, <3>1, <3>2, DeskReceives
  <2>5. QED
    BY <1>3, <1>4, <2>1, <2>2, <2>3, <2>4 DEF OfficeStep
<1>5. ASSUME SpecialStep PROVE Journeys'
  <2>1. SpecialOffice \in Desks /\ SpecialOffice \in Threads
    BY DEF Desks, Threads
  <2>2. CASE SpecialServe
    <3>1. Oldest(SpecialOffice) \in Info
      BY <2>1, <2>2, OldestType DEF SpecialServe, Receive, TypeInv
    <3>2. QED
      BY <2>1, <2>2, <3>1, DeskReceives DEF SpecialServe
  <2>3. QED
    BY <1>3, <1>5, <2>1, <2>2 DEF SpecialStep
<1>6. ASSUME NEW s \in Students, StudentStep(s) PROVE Journeys'
  <2>1. s \in Threads
    BY DEF Threads
  <2>2. CASE StudentInit(s)
    BY <2>1, <2>2, QuietStep DEF StudentInit, Asking, Awaiting
  <2>3. CASE Leave(s)
    <3>1. PICK label \in {"last", "done"} : Goto(s, label)
      BY <2>3 DEF Leave
    <3>2. QED
      BY <2>1, <2>3, <3>1, QuietStep DEF Leave, Asking, Awaiting
  <2>4. CASE EndProcess(s)
    BY <1>1, <2>4 DEF EndProcess
  <2>5. CASE StudentReceive(s)
    <3>1. pc[s] \in Awaiting
      BY <2>1, <2>5, TargetsOf, OfficeAssumption DEF StudentReceive, Receive, Receiving
    <3>2. PICK label \in {"askSpecial", "askUrgent", "leave"} :
            /\ Receive(s, label, Oldest(s))
            /\ label = "askSpecial" => Oldest(s).urgent
            /\ label = "askUrgent" => pc[s] = "awaitSpecial"
      BY <2>5, <3>1 DEF StudentReceive, Awaiting
    <3>3. QED
      BY <3>1, <3>2, StudentReceives
  <2>6. QED
    BY <1>2, <1>6, <2>1, <2>2, <2>3, <2>4, <2>5 DEF StudentStep
<1>7. CASE UNCHANGED vars
  BY <1>1, <1>7 DEF vars
<1>8. QED
  BY <1>4, <1>5, <1>6, <1>7 DEF Next, Ended

LEMMA AllGoneStep == TypeInv /\ TypeInv' /\ AllGone /\ [Next]_vars => AllGone'
<1> SUFFICES ASSUME TypeInv, TypeInv', AllGone, [Next]_vars PROVE AllGone'
  OBVIOUS
<1>1. num' \in Nat /\ num \in Nat
  BY OfficeAssumption, FS_CardinalityType DEF TypeInv, TypeOK, K
<1>2. ASSUME NEW s \in Students, Leave(s) PROVE AllGone'
  <2>1. pc' = [pc EXCEPT ![s] = IF num' = 0 THEN "last" ELSE "done"] /\ num' = num - 1 /\ killed' = killed
    BY <1>2 DEF Leave, Goto, LastOut
  <2>2. num # 0
    BY <1>1, <2>1
  <2>3. ~killed /\ \A u \in Students : pc[u] # "last"
    BY <2>2 DEF AllGone
  <2>4. \A u \in Students : pc'[u] = "last" => u = s /\ num' = 0
    BY <2>1, <2>3 DEF TypeInv, TypeOK, Threads
  <2>5. QED
    BY <2>1, <2>3, <2>4 DEF AllGone
<1>3. ASSUME NEW s \in Students, EndProcess(s) PROVE AllGone'
  BY <1>3 DEF EndProcess, AllGone
<1>4. ASSUME NEW t \in Threads, NEW label, label # "last", Goto(t, label), num' = num, killed' = killed
      PROVE  AllGone'
  BY <1>4 DEF AllGone, Goto, TypeInv, TypeOK, Threads
<1>5. ASSUME UNCHANGED <<pc, num, killed>> PROVE AllGone'
  BY <1>5 DEF AllGone
<1>6. ASSUME NEW t \in Threads, SendOrWait(t) PROVE AllGone'
  <2>1. CASE SendCount(t)
    <3>1. AfterSend[pc[t]] # "last"
      BY <2>1 DEF SendCount, Sending, Asking, AfterSend
    <3>2. QED
      BY <1>4, <2>1, <3>1 DEF SendCount
  <2>2. QED
    BY <1>5, <1>6, <2>1 DEF SendOrWait, SendWait, SendFill, ReceiveWait
<1>7. ASSUME NEW d \in Desks, DeskStep(d) PROVE AllGone'
  BY <1>4, <1>5, <1>6, <1>7 DEF DeskStep, DeskWait, TakeUrgentCount, Threads
<1>8. ASSUME NEW o \in Offices, OfficeStep(o) PROVE AllGone'
  BY <1>4, <1>7, <1>8
     DEF OfficeStep, OfficeInit, TakeNormalCount, OfficeServeUrgent, OfficeServeNormal,
         Receive, Threads, Desks
<1>9. ASSUME SpecialStep PROVE AllGone'
  BY <1>4, <1>7, <1>9 DEF SpecialStep, SpecialServe, Receive, Threads, Desks
<1>10. ASSUME NEW s \in Students, StudentStep(s) PROVE AllGone'
  <2>1. CASE StudentReceive(s)
    <3>1. pc[s] \in Awaiting
      BY <2>1, TargetsOf, OfficeAssumption DEF StudentReceive, Receive, Receiving, Threads
    <3>2. PICK label \in {"askSpecial", "askUrgent", "leave"} : Receive(s, label, Oldest(s))
      BY <2>1, <3>1 DEF StudentReceive, Awaiting
    <3>3. QED
      BY <1>4, <3>2 DEF Receive, Threads
  <2>2. QED
    BY <1>2, <1>3, <1>4, <1>6, <1>10, <2>1 DEF StudentStep, StudentInit, Threads
<1>11. QED
  BY <1>5, <1>8, <1>9, <1>10 DEF Next, Ended, vars

-----------------------------------------------------------------------------
(* The counters of Cond                                                    *)

LEMMA CountOf ==
  /\ Count(NormalQ) = normal
  /\ \A d : Count(UrgentQ(d)) = urgent[d]
BY BufferNames DEF Count

LEMMA CountOfPrimed ==
  /\ Count(NormalQ)' = normal'
  /\ \A d : Count(UrgentQ(d))' = urgent'[d]
BY BufferNames DEF Count

LEMMA ClaimsFinite == \A b : IsFiniteSet(Claims(b)) /\ Cardinality(Claims(b)) \in Nat
<1>1. IsFiniteSet(Desks)
  BY OfficeAssumption, FS_AddElement DEF Desks
<1>2. QED
  BY <1>1, FS_Subset, FS_CardinalityType DEF Claims

\* A desk claims what it has taken a count of.
LEMMA ClaimsSame ==
  ASSUME TypeInv, NEW t \in Threads, pc[t] \notin {"takeNormal", "takeUrgent"},
         pc'[t] \notin {"takeNormal", "takeUrgent"},
         \A u \in Threads : u # t => pc'[u] = pc[u] /\ info'[u] = info[u]
  PROVE  \A b : Claims(b)' = Claims(b)
<1>1. ASSUME NEW b, NEW d \in Desks PROVE d \in Claims(b)' <=> d \in Claims(b)
  <2>1. CASE d = t
    BY <2>1 DEF Claims
  <2>2. CASE d # t
    BY <2>2, SameTarget DEF Claims, Threads
  <2>3. QED
    BY <2>1, <2>2
<1>2. QED
  BY <1>1 DEF Claims

LEMMA ClaimTaken ==
  ASSUME TypeInv, NEW d \in Desks, pc[d] = "idle", NEW label \in {"takeNormal", "takeUrgent"},
         Goto(d, label), info' = info, NEW q, q = IF label = "takeNormal" THEN NormalQ ELSE UrgentQ(d)
  PROVE  \A b : Cardinality(Claims(b))' = Cardinality(Claims(b)) + (IF b = q THEN 1 ELSE 0)
<1> TAKE b
<1>1. /\ pc'[d] = label
      /\ \A u \in Desks : u # d => pc'[u] = pc[u]
  BY DEF Goto, TypeInv, TypeOK, Threads
<1>2. Target(d)' = q
  BY <1>1 DEF Target, Awaiting
<1>3. d \notin Claims(b)
  BY DEF Claims
<1>4. Claims(b)' = IF b = q THEN Claims(b) \cup {d} ELSE Claims(b)
  <2>1. ASSUME NEW u \in Desks, u # d PROVE u \in Claims(b)' <=> u \in Claims(b)
    BY <1>1, <2>1, SameTarget DEF Claims
  <2>2. d \in Claims(b)' <=> b = q
    BY <1>1, <1>2 DEF Claims
  <2>3. Claims(b) \subseteq Desks /\ Claims(b)' \subseteq Desks
    BY DEF Claims
  <2>4. QED
    BY <1>3, <2>1, <2>2, <2>3
<1>5. Cardinality(Claims(b) \cup {d}) = Cardinality(Claims(b)) + 1
  BY <1>3, ClaimsFinite, FS_AddElement
<1>6. QED
  BY <1>4, <1>5, ClaimsFinite

LEMMA ClaimServed ==
  ASSUME TypeInv, NEW d \in Desks, pc[d] \in {"takeNormal", "takeUrgent"}, pc'[d] = "reply",
         \A u \in Desks : u # d => pc'[u] = pc[u] /\ info'[u] = info[u],
         NEW q, q = Target(d)
  PROVE  \A b : Cardinality(Claims(b))' = Cardinality(Claims(b)) - (IF b = q THEN 1 ELSE 0)
<1> TAKE b
<1>1. Claims(b)' = Claims(b) \ {d}
  <2>1. ASSUME NEW u \in Desks, u # d PROVE u \in Claims(b)' <=> u \in Claims(b)
    BY <2>1, SameTarget DEF Claims
  <2>2. d \notin Claims(b)'
    BY DEF Claims
  <2>3. Claims(b) \subseteq Desks /\ Claims(b)' \subseteq Desks
    BY DEF Claims
  <2>4. QED
    BY <2>1, <2>2, <2>3
<1>2. d \in Claims(b) <=> b = q
  BY DEF Claims
<1>3. Cardinality(Claims(b) \ {d}) = IF b = q THEN Cardinality(Claims(b)) - 1 ELSE Cardinality(Claims(b))
  BY <1>2, ClaimsFinite, FS_RemoveElement
<1>4. QED
  BY <1>1, <1>3, ClaimsFinite

\* send() counts what it has put into the buffer, and nothing else.
LEMMA CountRaised ==
  ASSUME TypeInv, Journeys, NEW t \in Threads, SendCount(t), NEW q, q = Target(t)
  PROVE  \A b \in RequestQs : Count(b)' = Count(b) + (IF b = q THEN 1 ELSE 0)
<1>1. urgent \in [Desks -> Nat] /\ normal \in Nat
  BY DEF TypeInv, TypeOK
<1>2. /\ Sending(t) /\ normal' = IF ~info[t].urgent /\ q = NormalQ THEN normal + 1 ELSE normal
      /\ urgent' = IF info[t].urgent /\ q \in {UrgentQ(info[t].office), UrgentQ(SpecialOffice)}
                   THEN [urgent EXCEPT ![q[2]] = @ + 1] ELSE urgent
  BY DEF SendCount, Announced
<1>3. CASE pc[t] = "askNormal"
  <2>1. q = NormalQ /\ ~info[t].urgent
    BY <1>3, TargetsOf DEF Journeys, Asked, Asking
  <2>2. normal' = normal + 1 /\ urgent' = urgent
    BY <1>2, <2>1
  <2>3. QED
    BY <1>1, <2>1, <2>2, BufferNames, CountOf, CountOfPrimed DEF RequestQs
<1>4. CASE pc[t] \in {"askSpecial", "askUrgent"}
  <2>1. info[t].urgent /\ q \in {UrgentQ(info[t].office), UrgentQ(SpecialOffice)} /\ q \in RequestQs
    BY <1>4, TargetsOf DEF Journeys, Asked, Asking
  <2>2. q # NormalQ
    BY <2>1, BufferNames
  <2>3. PICK d \in Desks : q = UrgentQ(d)
    BY <2>1, <2>2 DEF RequestQs
  <2>4. normal' = normal /\ urgent' = [urgent EXCEPT ![d] = @ + 1]
    BY <1>2, <2>1, <2>2, <2>3, BufferNames
  <2>5. QED
    BY <1>1, <2>3, <2>4, BufferNames, CountOf, CountOfPrimed DEF RequestQs
<1>5. CASE pc[t] = "reply"
  <2>1. q \notin RequestQs /\ q # NormalQ /\ \A d : q # UrgentQ(d)
    BY <1>5, TargetsOf, BufferNames
  <2>2. normal' = normal /\ urgent' = urgent
    BY <1>2, <2>1
  <2>3. QED
    BY <1>1, <2>1, <2>2, CountOf, CountOfPrimed DEF RequestQs
<1>6. QED
  BY <1>2, <1>3, <1>4, <1>5 DEF Sending, Asking

\* The account of one queue.
Balanced(b) ==
  Len(queue[b]) = Count(b) + Cardinality(Claims(b)) + (IF holder[b] = Nobody THEN 0 ELSE 1)

LEMMA CountsType ==
  ASSUME TypeInv, NEW b \in RequestQs
  PROVE  Count(b) \in Nat /\ Len(queue[b]) \in Nat /\ b \in Buffers
<1>1. urgent \in [Desks -> Nat] /\ normal \in Nat /\ queue[b] \in Seq(Info)
  BY DEF TypeInv, TypeOK, Buffers
<1>2. CASE b = NormalQ
  BY <1>1, <1>2, CountOf DEF Buffers
<1>3. CASE b # NormalQ
  <2>1. PICK d \in Desks : b = UrgentQ(d)
    BY <1>3 DEF RequestQs
  <2>2. QED
    BY <1>1, <2>1, CountOf DEF Buffers
<1>4. QED
  BY <1>2, <1>3

LEMMA CountsSame ==
  ASSUME urgent' = urgent, normal' = normal
  PROVE  \A b : Count(b)' = Count(b)
BY DEF Count

LEMMA CountsStep ==
  TypeInv /\ Journeys /\ CountsMatchQueues /\ [Next]_vars => CountsMatchQueues'
<1> SUFFICES ASSUME TypeInv, Journeys, [Next]_vars, \A b \in RequestQs : Balanced(b),
                    NEW b \in RequestQs
             PROVE  Balanced(b)'
  BY DEF CountsMatchQueues, Balanced
<1>0. Balanced(b) /\ Count(b) \in Nat /\ Len(queue[b]) \in Nat /\ b \in Buffers
  BY CountsType
<1>c. Cardinality(Claims(b)) \in Nat
  BY ClaimsFinite
<1>1. ASSUME UNCHANGED <<pc, info, queue, holder, urgent, normal>> PROVE Balanced(b)'
  <2>1. Claims(b)' = Claims(b)
    BY <1>1, SameTarget DEF Claims
  <2>2. QED
    BY <1>0, <1>1, <2>1, CountsSame DEF Balanced
<1>2. ASSUME NEW t \in Threads, NEW label, Goto(t, label),
             UNCHANGED <<info, queue, holder, urgent, normal>>,
             pc[t] \notin {"takeNormal", "takeUrgent"},
             label \notin {"takeNormal", "takeUrgent"}
      PROVE  Balanced(b)'
  <2>1. pc'[t] = label /\ \A u \in Threads : u # t => pc'[u] = pc[u] /\ info'[u] = info[u]
    BY <1>2 DEF Goto, TypeInv, TypeOK
  <2>2. Claims(b)' = Claims(b)
    BY <1>2, <2>1, ClaimsSame
  <2>3. QED
    BY <1>0, <1>2, <2>2, CountsSame DEF Balanced
<1>3. ASSUME NEW t \in Threads, SendFill(t) PROVE Balanced(b)'
  <2>1. PICK q \in Buffers : q = Target(t)
    BY <1>3, TargetType DEF SendFill, TypeInv
  <2>2. /\ queue' = [queue EXCEPT ![q] = Append(@, info[t])]
        /\ holder' = [holder EXCEPT ![q] = t] /\ holder[q] = Nobody
        /\ pc' = pc /\ info' = info /\ urgent' = urgent /\ normal' = normal
    BY <1>3, <2>1 DEF SendFill
  <2>3. /\ queue \in [Buffers -> Seq(Info)] /\ holder \in [Buffers -> Threads \cup {Nobody}]
        /\ queue[b] \in Seq(Info) /\ t # Nobody
    BY <1>0, OfficeAssumption DEF TypeInv, TypeOK
  <2>4. Claims(b)' = Claims(b)
    BY <2>2, SameTarget DEF Claims
  <2>5. Len(queue'[b]) = Len(queue[b]) + IF b = q THEN 1 ELSE 0
    BY <1>0, <2>2, <2>3
  <2>6. /\ b = q => holder[b] = Nobody /\ holder'[b] # Nobody
        /\ b # q => holder'[b] = holder[b]
    BY <1>0, <2>2, <2>3
  <2>7. QED
    BY <1>0, <1>c, <2>2, <2>4, <2>5, <2>6, CountsSame DEF Balanced
<1>4. ASSUME NEW t \in Threads, SendCount(t) PROVE Balanced(b)'
  <2>1. PICK q \in Buffers : q = Target(t)
    BY <1>4, TargetType DEF SendCount, TypeInv
  <2>2. /\ queue' = queue /\ info' = info /\ Goto(t, AfterSend[pc[t]])
        /\ holder' = [holder EXCEPT ![q] = Nobody] /\ holder[q] = t
    BY <1>4, <2>1 DEF SendCount
  <2>3. /\ pc[t] \notin {"takeNormal", "takeUrgent"}
        /\ AfterSend[pc[t]] \notin {"takeNormal", "takeUrgent"}
    BY <1>4 DEF SendCount, Sending, Asking, AfterSend
  <2>4. Claims(b)' = Claims(b)
    <3>1. pc'[t] = AfterSend[pc[t]] /\ \A u \in Threads : u # t => pc'[u] = pc[u] /\ info'[u] = info[u]
      BY <2>2 DEF Goto, TypeInv, TypeOK
    <3>2. QED
      BY <2>3, <3>1, ClaimsSame
  <2>5. Count(b)' = Count(b) + (IF b = q THEN 1 ELSE 0)
    BY <1>4, <2>1, CountRaised
  <2>6. /\ b = q => holder[b] # Nobody /\ holder'[b] = Nobody
        /\ b # q => holder'[b] = holder[b]
    BY <1>0, <2>2, OfficeAssumption DEF TypeInv, TypeOK
  <2>7. QED
    BY <1>0, <1>c, <2>2, <2>4, <2>5, <2>6 DEF Balanced
<1>5. ASSUME NEW d \in Desks, NEW label \in {"takeNormal", "takeUrgent"}, pc[d] = "idle",
             Goto(d, label), UNCHANGED <<info, queue, holder>>,
             NEW q \in RequestQs, q = IF label = "takeNormal" THEN NormalQ ELSE UrgentQ(d),
             Count(b)' = Count(b) - (IF b = q THEN 1 ELSE 0)
      PROVE  Balanced(b)'
  <2>1. Cardinality(Claims(b))' = Cardinality(Claims(b)) + (IF b = q THEN 1 ELSE 0)
    BY <1>5, ClaimTaken
  <2>2. QED
    BY <1>0, <1>5, <1>c, <2>1 DEF Balanced
<1>6. ASSUME NEW d \in Desks, TakeUrgentCount(d) PROVE Balanced(b)'
  <2>1. UrgentQ(d) \in RequestQs /\ UrgentQ(d) # NormalQ
    BY BufferNames DEF RequestQs
  <2>2. urgent \in [Desks -> Nat] /\ urgent' = [urgent EXCEPT ![d] = @ - 1] /\ normal' = normal
    BY <1>6 DEF TakeUrgentCount, Claim, TypeInv, TypeOK
  <2>3. Count(b)' = Count(b) - (IF b = UrgentQ(d) THEN 1 ELSE 0)
    <3>1. CASE b = NormalQ
      BY <1>0, <2>1, <2>2, <3>1, CountOf, CountOfPrimed
    <3>2. CASE b # NormalQ
      <4>1. PICK e \in Desks : b = UrgentQ(e)
        BY <3>2 DEF RequestQs
      <4>2. QED
        BY <2>2, <4>1, BufferNames, CountOf, CountOfPrimed
    <3>3. QED
      BY <3>1, <3>2
  <2>4. QED
    BY <1>5, <1>6, <2>1, <2>3 DEF TakeUrgentCount
<1>7. ASSUME NEW o \in Offices, TakeNormalCount(o) PROVE Balanced(b)'
  <2>1. NormalQ \in RequestQs /\ o \in Desks
    BY DEF RequestQs, Desks
  <2>2. normal \in Nat /\ normal' = normal - 1 /\ urgent' = urgent
    BY <1>7 DEF TakeNormalCount, Claim, TypeInv, TypeOK
  <2>3. Count(b)' = Count(b) - (IF b = NormalQ THEN 1 ELSE 0)
    <3>1. CASE b = NormalQ
      BY <2>2, <3>1, CountOf, CountOfPrimed
    <3>2. CASE b # NormalQ
      <4>1. PICK e \in Desks : b = UrgentQ(e)
        BY <3>2 DEF RequestQs
      <4>2. QED
        BY <1>0, <2>2, <3>2, <4>1, CountOf, CountOfPrimed
    <3>3. QED
      BY <3>1, <3>2
  <2>4. QED
    BY <1>5, <1>7, <2>1, <2>3 DEF TakeNormalCount
<1>8. ASSUME NEW d \in Desks, NEW result, Receive(d, "reply", result),
             pc[d] \in {"takeNormal", "takeUrgent"}
      PROVE  Balanced(b)'
  <2>1. d \in Threads /\ d \notin Students
    BY OfficeAssumption DEF Threads
  <2>2. PICK q \in Buffers : q = Target(d)
    BY <1>8, <2>1, TargetType DEF Receive, TypeInv
  <2>3. /\ queue' = [queue EXCEPT ![q] = Tail(@)] /\ queue[q] # <<>>
        /\ UNCHANGED <<holder, urgent, normal>>
        /\ pc'[d] = "reply"
        /\ \A u \in Desks : u # d => pc'[u] = pc[u] /\ info'[u] = info[u]
    BY <1>8, <2>1, <2>2 DEF Receive, Goto, TypeInv, TypeOK, Threads
  <2>4. Cardinality(Claims(b))' = Cardinality(Claims(b)) - (IF b = q THEN 1 ELSE 0)
    BY <1>8, <2>2, <2>3, ClaimServed
  <2>5. Len(queue'[b]) = Len(queue[b]) - IF b = q THEN 1 ELSE 0
    BY <1>0, <2>2, <2>3 DEF TypeInv, TypeOK
  <2>6. QED
    BY <1>0, <1>c, <2>3, <2>4, <2>5, CountsSame DEF Balanced
<1>9. ASSUME NEW s \in Students, StudentReceive(s) PROVE Balanced(b)'
  <2>1. s \in Threads /\ s \notin Desks
    BY OfficeAssumption DEF Threads
  <2>2. pc[s] \in Awaiting
    BY <1>9, <2>1, TargetsOf DEF StudentReceive, Receive, Receiving
  <2>3. PICK label \in {"askSpecial", "askUrgent", "leave"} : Receive(s, label, Oldest(s))
    BY <1>9, <2>2 DEF StudentReceive, Awaiting
  <2>4. Target(s) # b /\ Target(s) = AnswerQ(s)
    BY <2>1, <2>2, TargetsOf, BufferNames
  <2>5. queue'[b] = queue[b] /\ UNCHANGED <<holder, urgent, normal>>
    BY <1>0, <2>3, <2>4 DEF Receive, TypeInv, TypeOK
  <2>6. Claims(b)' = Claims(b)
    <3>1. pc'[s] = label /\ \A u \in Threads : u # s => pc'[u] = pc[u] /\ info'[u] = info[u]
      BY <2>1, <2>3 DEF Receive, Goto, TypeInv, TypeOK
    <3>2. QED
      BY <2>1, <2>2, <3>1, ClaimsSame DEF Awaiting
  <2>7. QED
    BY <1>0, <2>5, <2>6, CountsSame DEF Balanced
<1>10. ASSUME NEW t \in Threads, SendOrWait(t) PROVE Balanced(b)'
  BY <1>1, <1>3, <1>4, <1>10 DEF SendOrWait, SendWait, ReceiveWait
<1>11. ASSUME NEW d \in Desks, DeskStep(d) PROVE Balanced(b)'
  BY <1>1, <1>6, <1>10, <1>11 DEF DeskStep, DeskWait, Threads
<1>12. ASSUME NEW o \in Offices, OfficeStep(o) PROVE Balanced(b)'
  <2>1. o \in Desks /\ o \in Threads
    BY DEF Desks, Threads
  <2>2. CASE OfficeInit(o)
    BY <1>2, <2>1, <2>2 DEF OfficeInit
  <2>3. CASE OfficeServeUrgent(o) \/ OfficeServeNormal(o)
    BY <1>8, <2>1, <2>3 DEF OfficeServeUrgent, OfficeServeNormal
  <2>4. QED
    BY <1>7, <1>11, <1>12, <2>1, <2>2, <2>3 DEF OfficeStep
<1>13. ASSUME SpecialStep PROVE Balanced(b)'
  BY <1>8, <1>11, <1>13 DEF SpecialStep, SpecialServe, Desks
<1>14. ASSUME NEW s \in Students, StudentStep(s) PROVE Balanced(b)'
  <2>1. s \in Threads
    BY DEF Threads
  <2>2. CASE StudentInit(s)
    BY <1>2, <2>1, <2>2 DEF StudentInit
  <2>3. CASE Leave(s)
    <3>1. PICK label \in {"last", "done"} : Goto(s, label)
      BY <2>3 DEF Leave
    <3>2. QED
      BY <1>2, <2>1, <2>3, <3>1 DEF Leave
  <2>4. CASE EndProcess(s)
    BY <1>1, <2>4 DEF EndProcess
  <2>5. QED
    BY <1>9, <1>10, <1>14, <2>1, <2>2, <2>3, <2>4 DEF StudentStep
<1>15. QED
  BY <1>1, <1>12, <1>13, <1>14 DEF Next, Ended, vars

-----------------------------------------------------------------------------
(* Sleepers                                                                *)

\* A desk that claims a request finds it.
LEMMA ClaimedIsThere ==
  ASSUME TypeInv, CountsMatchQueues, NEW d \in Desks, pc[d] \in {"takeNormal", "takeUrgent"}
  PROVE  queue[Target(d)] # <<>>
<1>1. PICK b \in RequestQs : b = Target(d)
  BY TargetsOf DEF Threads
<1>2. d \in Claims(b) /\ Claims(b) # {}
  BY <1>1 DEF Claims
<1>3. Cardinality(Claims(b)) # 0
  BY <1>2, ClaimsFinite, FS_EmptySet
<1>4. Len(queue[b]) # 0
  BY <1>3, ClaimsFinite, CountsType DEF CountsMatchQueues
<1>5. QED
  BY <1>1, <1>4

\* A reply finds room: its buffer holds another answer at most.
LEMMA AnswerFits ==
  ASSUME TypeInv, Journeys, NEW d \in Desks, pc[d] = "reply"
  PROVE  Len(queue[Target(d)]) # Dim(Target(d))
<1>1. PICK s \in Students : Target(d) = AnswerQ(s)
  BY TargetsOf DEF Threads
<1>2. Dim(AnswerQ(s)) = 2
  BY BufferNames DEF Dim, AnswerQ, NormalQ, UrgentQ
<1>3. AnswerQ(s) \in Buffers
  BY DEF Buffers
<1>4. ASSUME Len(queue[AnswerQ(s)]) = 2 PROVE FALSE
  <2>1. Entry(AnswerQ(s), 1) /\ Entry(AnswerQ(s), 2)
    BY <1>3, <1>4 DEF Entry
  <2>2. Lies(AnswerQ(s), 1, s) /\ Lies(AnswerQ(s), 2, s)
    BY <2>1 DEF Lies, Journeys, AnswersOwn
  <2>3. Single(s)
    BY DEF Journeys
  <2>4. 1 = 2
    BY <1>3, <2>2, <2>3 DEF Single
  <2>5. QED
    BY <2>4
<1>5. QED
  BY <1>1, <1>2, <1>4

LEMMA DesksStayAwake ==
  TypeInv /\ Journeys /\ CountsMatchQueues /\ DesksBlockOnlyWhenIdle /\ [Next]_vars
    => DesksBlockOnlyWhenIdle'
<1> SUFFICES ASSUME TypeInv, Journeys, CountsMatchQueues, DesksBlockOnlyWhenIdle, [Next]_vars
             PROVE  DesksBlockOnlyWhenIdle'
  OBVIOUS
<1>1. ASSUME NEW t \in Threads, t \notin asleep, asleep' \subseteq asleep,
             \A u \in Threads : u # t => pc'[u] = pc[u]
      PROVE  DesksBlockOnlyWhenIdle'
  BY <1>1 DEF DesksBlockOnlyWhenIdle, Threads
<1>2. ASSUME asleep' \subseteq asleep, pc' = pc PROVE DesksBlockOnlyWhenIdle'
  BY <1>2 DEF DesksBlockOnlyWhenIdle
<1>3. ASSUME NEW t \in Threads, SendOrWait(t) PROVE DesksBlockOnlyWhenIdle'
  <2>1. CASE SendWait(t)
    <3>1. t \notin Desks
      <4>1. t \in Desks => pc[t] = "reply"
        BY <2>1, <1>3, TargetsOf, OfficeAssumption DEF SendWait, Sending
      <4>2. QED
        BY <2>1, <4>1, AnswerFits DEF SendWait
    <3>2. QED
      BY <2>1, <3>1 DEF SendWait, DesksBlockOnlyWhenIdle
  <2>2. CASE ReceiveWait(t)
    <3>1. t \notin Desks
      <4>1. t \in Desks => pc[t] \in {"takeNormal", "takeUrgent"}
        BY <2>2, <1>3, TargetsOf, OfficeAssumption DEF ReceiveWait, Receiving
      <4>2. QED
        BY <2>2, <4>1, ClaimedIsThere DEF ReceiveWait
    <3>2. QED
      BY <2>2, <3>1 DEF ReceiveWait, DesksBlockOnlyWhenIdle
  <2>3. CASE SendFill(t)
    BY <1>2, <2>3 DEF SendFill
  <2>4. CASE SendCount(t)
    BY <1>1, <2>4 DEF SendCount, Runs, Goto, TypeInv, TypeOK
  <2>5. QED
    BY <1>3, <2>1, <2>2, <2>3, <2>4 DEF SendOrWait
<1>4. ASSUME NEW t \in Threads, NEW label, Goto(t, label), Runs(t), asleep' \subseteq asleep
      PROVE  DesksBlockOnlyWhenIdle'
  BY <1>1, <1>4 DEF Runs, Goto, TypeInv, TypeOK
<1>5. ASSUME NEW t \in Threads, NEW label, NEW result, Receive(t, label, result)
      PROVE  DesksBlockOnlyWhenIdle'
  BY <1>4, <1>5 DEF Receive
<1>6. ASSUME NEW d \in Desks, DeskStep(d) PROVE DesksBlockOnlyWhenIdle'
  <2>1. CASE DeskWait(d)
    BY <2>1 DEF DeskWait, DesksBlockOnlyWhenIdle
  <2>2. CASE TakeUrgentCount(d)
    BY <1>4, <2>2 DEF TakeUrgentCount, Threads
  <2>3. QED
    BY <1>3, <1>6, <2>1, <2>2 DEF DeskStep, Threads
<1>7. ASSUME NEW o \in Offices, OfficeStep(o) PROVE DesksBlockOnlyWhenIdle'
  <2>1. o \in Desks /\ o \in Threads
    BY DEF Desks, Threads
  <2>2. CASE OfficeServeUrgent(o) \/ OfficeServeNormal(o)
    BY <1>5, <2>1, <2>2 DEF OfficeServeUrgent, OfficeServeNormal
  <2>3. CASE OfficeInit(o) \/ TakeNormalCount(o)
    BY <1>4, <2>1, <2>3 DEF OfficeInit, TakeNormalCount
  <2>4. QED
    BY <1>6, <1>7, <2>1, <2>2, <2>3 DEF OfficeStep
<1>8. ASSUME SpecialStep PROVE DesksBlockOnlyWhenIdle'
  BY <1>5, <1>6, <1>8 DEF SpecialStep, SpecialServe, Desks, Threads
<1>9. ASSUME NEW s \in Students, StudentStep(s) PROVE DesksBlockOnlyWhenIdle'
  <2>1. s \in Threads
    BY DEF Threads
  <2>2. CASE StudentReceive(s)
    BY <1>5, <2>1, <2>2 DEF StudentReceive
  <2>3. CASE StudentInit(s) \/ Leave(s)
    BY <1>4, <2>1, <2>3 DEF StudentInit, Leave
  <2>4. CASE EndProcess(s)
    BY <1>2, <2>4 DEF EndProcess
  <2>5. QED
    BY <1>3, <1>9, <2>1, <2>2, <2>3, <2>4 DEF StudentStep
<1>10. CASE UNCHANGED vars
  BY <1>2, <1>10 DEF vars
<1>11. QED
  BY <1>7, <1>8, <1>9, <1>10 DEF Next, Ended

\* What the condition that a thread sleeps on waits for.
NothingFor(t) ==
  /\ Sending(t) => Len(queue[Target(t)]) = Dim(Target(t))
  /\ Receiving(t) => queue[Target(t)] = <<>>
  /\ pc[t] = "idle" => urgent[t] = 0 /\ (t # SpecialOffice => normal = 0)

LEMMA NothingForSame ==
  ASSUME NEW u \in Threads, NothingFor(u), pc'[u] = pc[u], info'[u] = info[u],
         Sending(u) \/ Receiving(u) => queue'[Target(u)] = queue[Target(u)],
         pc[u] = "idle" => urgent'[u] = urgent[u] /\ (u # SpecialOffice => normal' = normal)
  PROVE  NothingFor(u)'
<1>1. /\ Target(u)' = Target(u)
      /\ Sending(u)' <=> Sending(u)
      /\ Receiving(u)' <=> Receiving(u)
  BY SameTarget DEF Receiving, Sending
<1>2. \A b : Dim(b)' = Dim(b)
  BY DEF Dim
<1>3. QED
  BY <1>1, <1>2 DEF NothingFor

LEMMA WakeupStep == TypeInv /\ NoLostWakeup /\ [Next]_vars => NoLostWakeup'
<1> SUFFICES ASSUME TypeInv, \A u \in asleep : NothingFor(u), [Next]_vars,
                    NEW u \in asleep'
             PROVE  NothingFor(u)'
  BY DEF NoLostWakeup, NothingFor
<1>0. asleep \subseteq Threads
  BY DEF TypeInv, TypeOK
<1>1. ASSUME u \in asleep, UNCHANGED <<queue, urgent, normal>>,
             pc'[u] = pc[u], info'[u] = info[u]
      PROVE  NothingFor(u)'
  BY <1>0, <1>1, NothingForSame
<1>2. ASSUME NEW t \in Threads, NEW label, Goto(t, label), Runs(t), asleep' = asleep,
             UNCHANGED <<queue, urgent, normal, info>>
      PROVE  NothingFor(u)'
  <2>1. u # t
    BY <1>2 DEF Runs
  <2>2. QED
    BY <1>0, <1>1, <1>2, <2>1 DEF Goto, TypeInv, TypeOK
<1>3. ASSUME NEW t \in Threads, SendWait(t) \/ ReceiveWait(t) PROVE NothingFor(u)'
  <2>1. UNCHANGED <<queue, urgent, normal, pc, info>> /\ u \in asleep \cup {t}
    BY <1>3 DEF SendWait, ReceiveWait
  <2>2. NothingFor(u)
    <3>1. CASE u \in asleep
      BY <3>1
    <3>2. CASE u = t
      BY <1>3, <3>2 DEF SendWait, ReceiveWait, NothingFor, Sending, Receiving, Asking, Awaiting
    <3>3. QED
      BY <2>1, <3>1, <3>2
  <2>3. QED
    BY <1>0, <1>3, <2>1, <2>2, NothingForSame
<1>4. ASSUME NEW t \in Threads, SendFill(t) PROVE NothingFor(u)'
  <2>1. PICK b \in Buffers : b = Target(t)
    BY <1>4, TargetType DEF SendFill, TypeInv
  <2>2. /\ u \in asleep /\ u \notin Readers(b) /\ Len(queue[b]) # Dim(b)
        /\ UNCHANGED <<urgent, normal, pc, info>>
        /\ queue' = [queue EXCEPT ![b] = Append(@, info[t])]
    BY <1>4, <2>1 DEF SendFill
  <2>3. NothingFor(u)
    BY <2>2
  <2>4. Sending(u) \/ Receiving(u) => Target(u) # b
    BY <2>2, <2>3 DEF NothingFor, Readers
  <2>5. Sending(u) \/ Receiving(u) => queue'[Target(u)] = queue[Target(u)]
    BY <2>2, <2>4 DEF TypeInv, TypeOK
  <2>6. QED
    BY <1>0, <2>2, <2>3, <2>5, NothingForSame
<1>5. ASSUME NEW t \in Threads, SendCount(t) PROVE NothingFor(u)'
  <2>1. u \in asleep /\ u \notin IdleDesks /\ u # t /\ queue' = queue /\ info' = info
    BY <1>5 DEF SendCount, Runs
  <2>2. pc[u] # "idle"
    BY <1>0, <2>1 DEF IdleDesks, TypeInv, TypeOK, Threads, StudentLabels
  <2>3. pc'[u] = pc[u]
    BY <1>0, <1>5, <2>1 DEF SendCount, Goto, TypeInv, TypeOK
  <2>4. QED
    BY <1>0, <2>1, <2>2, <2>3, NothingForSame
<1>6. ASSUME NEW t \in Threads, NEW label, NEW result, Receive(t, label, result)
      PROVE  NothingFor(u)'
  <2>1. PICK b \in Buffers : b = Target(t)
    BY <1>6, TargetType DEF Receive, TypeInv
  <2>2. /\ u \in asleep /\ u \notin Writers(b) /\ u # t /\ queue[b] # <<>>
        /\ UNCHANGED <<urgent, normal>>
        /\ queue' = [queue EXCEPT ![b] = Tail(@)]
    BY <1>6, <2>1 DEF Receive, Runs
  <2>3. pc'[u] = pc[u] /\ info'[u] = info[u]
    BY <1>0, <1>6, <2>2 DEF Receive, Goto, TypeInv, TypeOK
  <2>4. Sending(u) \/ Receiving(u) => Target(u) # b
    BY <2>2 DEF NothingFor, Writers
  <2>5. Sending(u) \/ Receiving(u) => queue'[Target(u)] = queue[Target(u)]
    BY <2>2, <2>4 DEF TypeInv, TypeOK
  <2>6. QED
    BY <1>0, <2>2, <2>3, <2>5, NothingForSame
<1>7. ASSUME NEW d \in Desks, DeskWait(d) PROVE NothingFor(u)'
  <2>1. UNCHANGED <<queue, urgent, normal, pc, info>> /\ u \in asleep \cup {d} /\ d \in Threads
    BY <1>7 DEF DeskWait, Threads
  <2>2. NothingFor(u)
    <3>1. CASE u \in asleep
      BY <3>1
    <3>2. CASE u = d
      BY <1>7, <3>2 DEF DeskWait, NothingFor, Sending, Receiving, Asking, Awaiting
    <3>3. QED
      BY <2>1, <3>1, <3>2
  <2>3. QED
    BY <1>0, <2>1, <2>2, NothingForSame
<1>8. ASSUME NEW d \in Desks, TakeUrgentCount(d) \/ (d # SpecialOffice /\ TakeNormalCount(d))
      PROVE  NothingFor(u)'
  <2>1. /\ u \in asleep /\ u # d /\ queue' = queue /\ info' = info /\ d \in Threads
        /\ \E label : Goto(d, label)
    BY <1>8 DEF TakeUrgentCount, TakeNormalCount, Runs, Threads
  <2>2. pc'[u] = pc[u]
    BY <1>0, <2>1 DEF Goto, TypeInv, TypeOK
  <2>3. NothingFor(u)
    BY <2>1
  <2>4. pc[u] = "idle" => urgent'[u] = urgent[u] /\ (u # SpecialOffice => normal' = normal)
    <3> SUFFICES ASSUME pc[u] = "idle"
                 PROVE  urgent'[u] = urgent[u] /\ (u # SpecialOffice => normal' = normal)
      OBVIOUS
    <3>1. u \in Desks
      BY <1>0, <2>1 DEF TypeInv, TypeOK, Threads, StudentLabels
    <3>2. QED
      BY <1>8, <2>1, <2>3, <3>1 DEF TakeUrgentCount, TakeNormalCount, NothingFor, TypeInv, TypeOK
  <2>5. QED
    BY <1>0, <2>1, <2>2, <2>3, <2>4, NothingForSame
<1>9. ASSUME NEW t \in Threads, SendOrWait(t) PROVE NothingFor(u)'
  BY <1>3, <1>4, <1>5, <1>9 DEF SendOrWait
<1>10. ASSUME NEW d \in Desks, DeskStep(d) PROVE NothingFor(u)'
  BY <1>7, <1>8, <1>9, <1>10 DEF DeskStep, Threads
<1>11. ASSUME NEW o \in Offices, OfficeStep(o) PROVE NothingFor(u)'
  <2>1. o \in Desks /\ o \in Threads /\ o # SpecialOffice
    BY OfficeAssumption DEF Desks, Threads
  <2>2. CASE OfficeInit(o)
    BY <1>2, <2>1, <2>2 DEF OfficeInit
  <2>3. CASE OfficeServeUrgent(o) \/ OfficeServeNormal(o)
    BY <1>6, <2>1, <2>3 DEF OfficeServeUrgent, OfficeServeNormal
  <2>4. QED
    BY <1>8, <1>10, <1>11, <2>1, <2>2, <2>3 DEF OfficeStep
<1>12. ASSUME SpecialStep PROVE NothingFor(u)'
  BY <1>6, <1>10, <1>12 DEF SpecialStep, SpecialServe, Desks, Threads
<1>13. ASSUME NEW s \in Students, StudentStep(s) PROVE NothingFor(u)'
  <2>1. s \in Threads
    BY DEF Threads
  <2>2. CASE StudentInit(s) \/ Leave(s)
    BY <1>2, <2>1, <2>2 DEF StudentInit, Leave
  <2>3. CASE StudentReceive(s)
    BY <1>6, <2>1, <2>3 DEF StudentReceive
  <2>4. CASE EndProcess(s)
    BY <1>1, <2>4 DEF EndProcess
  <2>5. QED
    BY <1>9, <1>13, <2>1, <2>2, <2>3, <2>4 DEF StudentStep
<1>14. CASE UNCHANGED vars
  BY <1>1, <1>14 DEF vars
<1>15. QED
  BY <1>11, <1>12, <1>13, <1>14 DEF Next, Ended
-----------------------------------------------------------------------------
(* Theorems                                                                *)

OfficeInv ==
  /\ TypeInv /\ Journeys /\ AllGone /\ CountsMatchQueues
  /\ DesksBlockOnlyWhenIdle /\ NoLostWakeup

LEMMA InitOffice == Init => OfficeInv
<1>1. Init => DesksBlockOnlyWhenIdle /\ NoLostWakeup
  BY DEF Init, DesksBlockOnlyWhenIdle, NoLostWakeup
<1>2. QED
  BY <1>1, TypeInit, InitJourneys DEF OfficeInv

LEMMA OfficeInvStep == OfficeInv /\ [Next]_vars => OfficeInv'
BY TypeStep, JourneysStep, AllGoneStep, CountsStep, DesksStayAwake, WakeupStep DEF OfficeInv

LEMMA OfficeAlways == Spec => []OfficeInv
BY InitOffice, OfficeInvStep, PTL DEF Spec

\* cond->normal and cond->urgent never drift from the buffers: every request is
\* counted, claimed by one desk that counted it down (Lab3.c, office_r and
\* special_office_r), or being counted by the thread in send().
THEOREM CountersMatch == Spec => []CountsMatchQueues
<1>1. OfficeInv => CountsMatchQueues
  BY DEF OfficeInv
<1>2. QED
  BY <1>1, OfficeAlways, PTL

\* A desk sleeps only in its own wait for work: it never blocks in receive(),
\* where its claimed request waits, nor in send(), where its answer fits.
THEOREM DesksNeverStuck == Spec => []DesksBlockOnlyWhenIdle
<1>1. OfficeInv => DesksBlockOnlyWhenIdle
  BY DEF OfficeInv
<1>2. QED
  BY <1>1, OfficeAlways, PTL

\* The broadcasts of send() and receive() wake whoever has something to do.
THEOREM WakeupsArrive == Spec => []NoLostWakeup
<1>1. OfficeInv => NoLostWakeup
  BY DEF OfficeInv
<1>2. QED
  BY <1>1, OfficeAlways, PTL

\* What a place of a request is, in the terms of the invariant.
LEMMA CopiesOf ==
  ASSUME NEW s
  PROVE  \A x : x \in Copies(s) <=>
           \/ \E b \in Buffers, i \in Nat : x = <<b, i>> /\ Lies(b, i, s)
           \/ x \in Desks /\ Has(x, s)
<1> SUFFICES ASSUME NEW x
             PROVE  x \in Copies(s) <=>
                      \/ \E b \in Buffers, i \in Nat : x = <<b, i>> /\ Lies(b, i, s)
                      \/ x \in Desks /\ Has(x, s)
  OBVIOUS
<1>1. ASSUME NEW b \in Buffers
      PROVE  x \in {b} \X {i \in 1 .. Len(queue[b]) : queue[b][i].id = s}
               <=> \E i \in Nat : x = <<b, i>> /\ Lies(b, i, s)
  BY DEF Lies, Entry, Msg
<1>2. x \in {d \in Desks : Serving(d) /\ info[d].id = s} <=> x \in Desks /\ Has(x, s)
  BY DEF Has
<1>3. QED
  BY <1>1, <1>2 DEF Copies

\* Every student has one request on its way while it waits for the answer, and
\* none at any other time: none is lost, doubled or served twice.
THEOREM OneRequest == Spec => []OneRequestPerStudent
<1>1. OfficeInv => OneRequestPerStudent
  <2> SUFFICES ASSUME Journeys, NEW s \in Students
               PROVE  Cardinality(Copies(s)) = IF Out(s) THEN 1 ELSE 0
    BY DEF OfficeInv, OneRequestPerStudent, Out
  <2>1. Single(s) /\ (Out(s) <=> Somewhere(s))
    BY DEF Journeys
  <2>2. Out(s) <=> Copies(s) # {}
    BY <2>1, CopiesOf DEF Somewhere
  <2>3. \A x, y \in Copies(s) : x = y
    BY <2>1, CopiesOf DEF Single
  <2>4. CASE Copies(s) = {}
    BY <2>2, <2>4, FS_EmptySet
  <2>5. CASE Copies(s) # {}
    <3>1. PICK x : x \in Copies(s)
      BY <2>5
    <3>2. Copies(s) = {x}
      BY <2>3, <3>1
    <3>3. Cardinality(Copies(s)) = 1
      BY <3>2, FS_Singleton
    <3>4. QED
      BY <2>2, <2>5, <3>3
  <2>6. QED
    BY <2>4, <2>5
<1>2. QED
  BY <1>1, OfficeAlways, PTL

\* When the last student kills the process, nobody waits for an answer and no
\* request, count or answer is left behind.
THEOREM CleanEnd == Spec => []EndsClean
<1>1. OfficeInv => EndsClean
  <2> SUFFICES ASSUME TypeInv, Journeys, CountsMatchQueues, AllGone, killed
               PROVE  /\ \A s \in Students : pc[s] \in {"done", "last"}
                      /\ \A b \in Buffers : queue[b] = <<>>
                      /\ \A d \in Desks : urgent[d] = 0 /\ ~Serving(d)
                      /\ normal = 0
    BY DEF OfficeInv, EndsClean
  <2>1. \A s \in Students : pc[s] \in {"done", "last"}
    <3>1. IsFiniteSet(Staying) /\ Cardinality(Staying) = 0
      BY OfficeAssumption, FS_Subset DEF AllGone, TypeInv, NumCountsStudents, Staying
    <3>2. Staying = {}
      BY <3>1, FS_EmptySet
    <3>3. QED
      BY <3>2 DEF Staying
  <2>2. \A s \in Students : ~Somewhere(s)
    BY <2>1 DEF Journeys, Out, Asking, Awaiting
  <2>3. \A b \in Buffers : queue[b] \in Seq(Info)
    BY DEF TypeInv, TypeOK
  <2>4. \A b \in Buffers : queue[b] = <<>>
    <3> SUFFICES ASSUME NEW b \in Buffers, queue[b] # <<>> PROVE FALSE
      OBVIOUS
    <3>1. 1 \in 1 .. Len(queue[b]) /\ queue[b][1] \in Info
      BY <2>3
    <3>2. Lies(b, 1, queue[b][1].id) /\ queue[b][1].id \in Students
      BY <3>1 DEF Lies, Entry, Msg, Info
    <3>3. QED
      BY <2>2, <3>2 DEF Somewhere
  <2>5. \A d \in Desks : ~Serving(d)
    <3> SUFFICES ASSUME NEW d \in Desks, Serving(d) PROVE FALSE
      OBVIOUS
    <3>1. info[d].id \in Students
      BY DEF TypeInv, InfoSet, Serving, Info
    <3>2. QED
      BY <2>2, <3>1 DEF Somewhere, Has
  <2>6. \A b \in RequestQs : Count(b) = 0
    <3> SUFFICES ASSUME NEW b \in RequestQs PROVE Count(b) = 0
      OBVIOUS
    <3>1. Len(queue[b]) = 0
      BY <2>4 DEF Buffers
    <3>2. QED
      BY <3>1, ClaimsFinite, CountsType DEF CountsMatchQueues
  <2>7. normal = 0 /\ \A d \in Desks : urgent[d] = 0
    BY <2>6, BufferNames DEF Count, RequestQs
  <2>8. QED
    BY <2>1, <2>4, <2>5, <2>7
<1>2. QED
  BY <1>1, OfficeAlways, PTL
-----------------------------------------------------------------------------
(* Buffers are used after their creation.                                  *)

\* The threads an info names have created their buffers.
Named(i) == pc[i.office] # "start" /\ pc[i.id] # "start"

\* The same after a step.
NamedThen(i) == pc'[i.office] # "start" /\ pc'[i.id] # "start"

NamesOpen ==
  /\ pc[SpecialOffice] # "start"
  /\ \A s \in Students : pc[info[s].office] # "start"
  /\ \A d \in Desks : info[d] \in Info => Named(info[d])
  /\ \A b \in Buffers : \A i \in 1 .. Len(queue[b]) : Named(queue[b][i])

LEMMA InitNames == Init => NamesOpen
<1> SUFFICES ASSUME Init PROVE NamesOpen
  OBVIOUS
<1>1. SpecialOffice \in Threads /\ pc[SpecialOffice] = "idle"
  BY DEF Init, Threads, Desks
<1>2. \A s \in Students : info[s].office = SpecialOffice
  BY DEF Init, Threads
<1>3. \A d \in Desks : info[d] \notin Info
  <2>1. \A d \in Desks : info[d] = Unset
    BY OfficeAssumption DEF Init, Threads
  <2>2. Unset \notin Info
    BY OfficeAssumption DEF Unset, Info, Threads
  <2>3. QED
    BY <2>1, <2>2
<1>4. QED
  BY <1>1, <1>2, <1>3 DEF NamesOpen, Init

LEMMA NamesKept ==
  ASSUME NamesOpen, TypeInv, info' = info, queue' = queue,
         \A u \in Threads : pc[u] # "start" => pc'[u] # "start"
  PROVE  NamesOpen'
<1>1. \A i \in Info : Named(i) => Named(i)'
  BY DEF Named, Info, Threads
<1>2. \A s \in Students : pc'[info[s].office] # "start"
  BY DEF NamesOpen, TypeInv, InfoSet, Info, Threads
<1>3. pc'[SpecialOffice] # "start"
  BY DEF NamesOpen, Threads, Desks
<1>4. \A b \in Buffers : \A i \in 1 .. Len(queue[b]) : queue[b][i] \in Info
  BY DEF TypeInv, TypeOK
<1>5. QED
  BY <1>1, <1>2, <1>3, <1>4 DEF NamesOpen

\* What is sent names threads that have started.
LEMMA SentNamed ==
  ASSUME NamesOpen, TypeInv, Journeys, NEW t \in Threads, Sending(t)
  PROVE  Named(info[t])
<1>1. CASE t \in Students
  BY <1>1 DEF NamesOpen, Named, Journeys, Asked, Sending, Asking
<1>2. CASE t \in Desks
  BY <1>2, SentInfo DEF NamesOpen, TypeInv
<1>3. QED
  BY <1>1, <1>2 DEF Threads

LEMMA NamesFilled ==
  ASSUME NamesOpen, TypeInv, Journeys, NEW t \in Threads, SendFill(t)
  PROVE  NamesOpen'
<1>1. Named(info[t])
  BY SentNamed DEF SendFill
<1>2. PICK b \in Buffers : queue' = [queue EXCEPT ![b] = Append(@, info[t])]
  BY TargetType DEF SendFill, TypeInv
<1>3. queue \in [Buffers -> Seq(Info)] /\ info[t] \in Info
  BY SentInfo DEF TypeInv, TypeOK, SendFill
<1>4. \A c \in Buffers : \A i \in 1 .. Len(queue'[c]) : Named(queue'[c][i])
  <2> SUFFICES ASSUME NEW c \in Buffers, NEW i \in 1 .. Len(queue'[c])
               PROVE  Named(queue'[c][i])
    OBVIOUS
  <2>1. CASE c # b
    BY <1>2, <1>3, <2>1 DEF NamesOpen
  <2>2. CASE c = b
    <3>1. queue'[b] = Append(queue[b], info[t]) /\ queue[b] \in Seq(Info)
      BY <1>2, <1>3
    <3>2. CASE i \in 1 .. Len(queue[b])
      BY <2>2, <3>1, <3>2 DEF NamesOpen
    <3>3. CASE i = Len(queue[b]) + 1
      BY <1>1, <2>2, <3>1, <3>3, <1>3
    <3>4. QED
      BY <2>2, <3>1, <3>2, <3>3
  <2>3. QED
    BY <2>1, <2>2
<1>5. QED
  BY <1>4 DEF NamesOpen, SendFill, Named

LEMMA NamesReceived ==
  ASSUME NamesOpen, TypeInv, NEW t \in Threads, NEW label, label # "start",
         NEW result, Receive(t, label, result), Named(result), result \in Info
  PROVE  NamesOpen'
<1>1. \A u \in Threads : pc[u] # "start" => pc'[u] # "start"
  BY DEF Receive, Goto, TypeInv, TypeOK
<1>2. \A i \in Info : Named(i) => NamedThen(i)
  BY <1>1 DEF Named, NamedThen, Info, Threads
<1>3. PICK b \in Buffers : queue[b] # <<>> /\ queue' = [queue EXCEPT ![b] = Tail(@)]
  BY TargetType DEF Receive, TypeInv
<1>4. queue \in [Buffers -> Seq(Info)]
  BY DEF TypeInv, TypeOK
<1>5. info' = [info EXCEPT ![t] = result] /\ t \in DOMAIN info
  BY DEF Receive, TypeInv, TypeOK
<1>6. \A c \in Buffers : \A i \in 1 .. Len(queue'[c]) : NamedThen(queue'[c][i])
  <2> SUFFICES ASSUME NEW c \in Buffers, NEW i \in 1 .. Len(queue'[c])
               PROVE  \E j \in 1 .. Len(queue[c]) : queue'[c][i] = queue[c][j]
    <3>1. \A c \in Buffers : \A j \in 1 .. Len(queue[c]) :
            queue[c][j] \in Info /\ Named(queue[c][j])
      BY <1>4 DEF NamesOpen
    <3>2. QED
      BY <1>2, <3>1
  <2>1. CASE c # b
    BY <1>3, <1>4, <2>1
  <2>2. CASE c = b
    <3>1. queue'[b] = Tail(queue[b]) /\ queue[b] \in Seq(Info) /\ queue[b] # <<>>
      BY <1>3, <1>4
    <3>2. queue'[b][i] = queue[b][i + 1] /\ i + 1 \in 1 .. Len(queue[b])
      BY <2>2, <3>1
    <3>3. QED
      BY <2>2, <3>2
  <2>3. QED
    BY <2>1, <2>2
<1>7. pc'[SpecialOffice] # "start"
  BY <1>1 DEF NamesOpen, Threads, Desks
<1>8. \A s \in Students : pc'[info'[s].office] # "start"
  <2>1. \A s \in Students : s # t => info'[s] = info[s]
    BY <1>5
  <2>2. \A s \in Students : info[s].office \in Threads
    BY DEF TypeInv, InfoSet, Info, Threads
  <2>3. pc'[result.office] # "start"
    BY <1>2 DEF NamedThen
  <2>4. QED
    BY <1>1, <1>5, <2>1, <2>2, <2>3 DEF NamesOpen
<1>9. \A d \in Desks : info'[d] \in Info => NamedThen(info'[d])
  <2>1. \A d \in Desks : d # t => info'[d] = info[d]
    BY <1>5
  <2>2. QED
    BY <1>2, <1>5, <2>1 DEF NamesOpen
<1>10. QED
  BY <1>6, <1>7, <1>8, <1>9 DEF NamesOpen, Named, NamedThen

\* What is received named started threads before.
LEMMA OldestNamed ==
  ASSUME NamesOpen, TypeInv, NEW t \in Threads, Receiving(t), queue[Target(t)] # <<>>
  PROVE  Named(Oldest(t)) /\ Oldest(t) \in Info
<1>1. PICK b \in Buffers : b = Target(t)
  BY TargetType DEF TypeInv
<1>2. queue[b] \in Seq(Info) /\ queue[b] # <<>>
  BY <1>1 DEF TypeInv, TypeOK
<1>3. Head(queue[b]) = queue[b][1] /\ 1 \in 1 .. Len(queue[b])
  BY <1>2
<1>4. QED
  BY <1>1, <1>2, <1>3 DEF NamesOpen, Oldest

LEMMA NamesStep == TypeInv /\ Journeys /\ NamesOpen /\ [Next]_vars => NamesOpen'
<1> SUFFICES ASSUME TypeInv, Journeys, NamesOpen, [Next]_vars PROVE NamesOpen'
  OBVIOUS
<1>1. ASSUME info' = info, queue' = queue, pc' = pc PROVE NamesOpen'
  BY <1>1, NamesKept
<1>2. ASSUME info' = info, queue' = queue, NEW t \in Threads, NEW label, label # "start",
             Goto(t, label)
      PROVE  NamesOpen'
  BY <1>2, NamesKept DEF Goto, TypeInv, TypeOK
<1>3. ASSUME NEW t \in Threads, SendOrWait(t) PROVE NamesOpen'
  <2>1. CASE SendCount(t)
    <3>1. AfterSend[pc[t]] # "start"
      BY <2>1, AfterSendType DEF SendCount, TypeInv, Sending, Asking, AfterSend
    <3>2. QED
      BY <1>2, <2>1, <3>1 DEF SendCount
  <2>2. QED
    BY <1>1, <1>3, <2>1, NamesFilled DEF SendOrWait, SendWait, ReceiveWait
<1>4. ASSUME NEW d \in Desks, DeskStep(d) PROVE NamesOpen'
  <2>1. CASE DeskWait(d)
    BY <1>1, <2>1 DEF DeskWait
  <2>2. CASE TakeUrgentCount(d)
    BY <1>2, <2>2 DEF TakeUrgentCount, Threads
  <2>3. QED
    BY <1>3, <1>4, <2>1, <2>2 DEF DeskStep, Threads
<1>5. ASSUME NEW o \in Offices, OfficeStep(o) PROVE NamesOpen'
  <2>1. o \in Desks /\ o \in Threads
    BY DEF Desks, Threads
  <2>2. ASSUME Receiving(o), queue[Target(o)] # <<>>
        PROVE  Oldest(o) \in Info /\ Named(Oldest(o))
    BY <2>1, <2>2, OldestNamed
  <2>3. CASE OfficeServeUrgent(o)
    <3>1. Oldest(o) \in Info /\ Named(Oldest(o))
      BY <2>2, <2>3 DEF OfficeServeUrgent, Receive
    <3>2. PICK result \in Info : /\ Receive(o, "reply", result)
                                 /\ result.office = Oldest(o).office /\ result.id = Oldest(o).id
      <4>1. [Oldest(o) EXCEPT !.urgent = FALSE] \in Info
        BY <3>1 DEF Info
      <4>2. /\ [Oldest(o) EXCEPT !.urgent = FALSE].office = Oldest(o).office
            /\ [Oldest(o) EXCEPT !.urgent = FALSE].id = Oldest(o).id
        BY <3>1 DEF Info
      <4>3. QED
        BY <2>3, <4>1, <4>2 DEF OfficeServeUrgent
    <3>3. QED
      BY <2>1, <3>1, <3>2, NamesReceived DEF Named
  <2>4. CASE OfficeServeNormal(o)
    <3>1. Oldest(o) \in Info /\ Named(Oldest(o)) /\ pc[o] = "takeNormal"
      BY <2>2, <2>4 DEF OfficeServeNormal, Receive
    <3>2. PICK result \in Info : /\ Receive(o, "reply", result)
                                 /\ result.office = o /\ result.id = Oldest(o).id
      <4>1. PICK special \in BOOLEAN :
              Receive(o, "reply", [Signed(Oldest(o), o) EXCEPT !.urgent = special])
        BY <2>4 DEF OfficeServeNormal
      <4>2. Signed(Oldest(o), o) \in Info /\ Signed(Oldest(o), o).office = o
              /\ Signed(Oldest(o), o).id = Oldest(o).id
        BY <2>1, <3>1 DEF Signed, Info
      <4>3. PICK i \in Info : i = Signed(Oldest(o), o)
        BY <4>2
      <4>4. [i EXCEPT !.urgent = special] \in Info
              /\ [i EXCEPT !.urgent = special].office = i.office
              /\ [i EXCEPT !.urgent = special].id = i.id
        BY DEF Info
      <4>5. QED
        BY <4>1, <4>2, <4>3, <4>4
    <3>3. Named(result)
      BY <3>1, <3>2 DEF Named
    <3>4. QED
      BY <2>1, <3>2, <3>3, NamesReceived
  <2>5. CASE OfficeInit(o) \/ TakeNormalCount(o)
    BY <1>2, <2>1, <2>5 DEF OfficeInit, TakeNormalCount
  <2>6. QED
    BY <1>4, <1>5, <2>1, <2>3, <2>4, <2>5 DEF OfficeStep
<1>6. ASSUME SpecialStep PROVE NamesOpen'
  <2>1. SpecialOffice \in Desks /\ SpecialOffice \in Threads
    BY DEF Desks, Threads
  <2>2. CASE SpecialServe
    BY <2>1, <2>2, OldestNamed, NamesReceived DEF SpecialServe, Receive
  <2>3. QED
    BY <1>4, <1>6, <2>1, <2>2 DEF SpecialStep
<1>7. ASSUME NEW s \in Students, StudentStep(s) PROVE NamesOpen'
  <2>1. s \in Threads
    BY DEF Threads
  <2>2. CASE StudentReceive(s)
    <3>1. pc[s] \in Awaiting
      BY <2>2, OfficeAssumption
         DEF StudentReceive, Receive, Receiving, TypeInv, TypeOK, StudentLabels
    <3>2. PICK label : Receive(s, label, Oldest(s)) /\ label \in {"askSpecial", "askUrgent", "leave"}
      BY <2>2, <3>1 DEF StudentReceive, Awaiting
    <3>3. Oldest(s) \in Info /\ Named(Oldest(s))
      BY <2>1, <3>2, OldestNamed DEF Receive
    <3>4. QED
      BY <2>1, <3>2, <3>3, NamesReceived
  <2>3. CASE StudentInit(s)
    BY <1>2, <2>1, <2>3 DEF StudentInit
  <2>4. CASE Leave(s)
    BY <1>2, <2>1, <2>4 DEF Leave
  <2>5. CASE EndProcess(s)
    BY <1>1, <2>5 DEF EndProcess
  <2>6. QED
    BY <1>3, <1>7, <2>1, <2>2, <2>3, <2>4, <2>5 DEF StudentStep
<1>8. QED
  BY <1>1, <1>5, <1>6, <1>7 DEF Next, Ended, vars

\* Nobody calls send() or receive() on a buffer before the thread that creates
\* it has done so: urgent_Q[o] and answer_Q[s] are only reached through infos
\* that office o and student s have signed.
THEOREM CreatedBeforeUse == Spec => []QueuesUsedAfterCreation
<1>1. TypeInv /\ Journeys /\ NamesOpen => QueuesUsedAfterCreation
  <2> SUFFICES ASSUME TypeInv, Journeys, NamesOpen, NEW t \in Threads, Sending(t) \/ Receiving(t)
               PROVE  Created(Target(t))
    BY DEF QueuesUsedAfterCreation
  <2>1. /\ NormalQ[1] = "normal"
        /\ \A u : AnswerQ(u)[2] = u /\ UrgentQ(u)[2] = u
    BY DEF NormalQ, AnswerQ, UrgentQ
  <2>2. CASE pc[t] \in {"askNormal", "takeNormal"}
    BY <2>1, <2>2, TargetsOf DEF Created
  <2>3. CASE pc[t] \in {"takeUrgent"} \cup Awaiting
    BY <2>1, <2>3, TargetsOf DEF Created, Awaiting
  <2>4. CASE pc[t] = "askSpecial"
    BY <2>1, <2>4, TargetsOf DEF Created, NamesOpen
  <2>5. CASE pc[t] = "askUrgent"
    <3>1. t \in Students
      BY <2>5, TargetsOf DEF Asking
    <3>2. QED
      BY <2>1, <2>5, <3>1, TargetsOf DEF Created, NamesOpen
  <2>6. CASE pc[t] = "reply"
    <3>1. Named(info[t]) /\ Target(t) = AnswerQ(info[t].id)
      BY <2>6, TargetsOf, SentNamed DEF Sending
    <3>2. QED
      BY <2>1, <3>1 DEF Created, Named
  <2>7. QED
    BY <2>2, <2>3, <2>4, <2>5, <2>6 DEF Sending, Receiving, Asking
<1>2. OfficeInv => TypeInv /\ Journeys
  BY DEF OfficeInv
<1>3. QED
  BY <1>1, <1>2, OfficeAlways, InitNames, NamesStep, PTL DEF Spec
-----------------------------------------------------------------------------
(* Office implements OfficeService                                         *)

\* The queue a student waits in.
AskedQ(s) ==
  IF pc[s] = "awaitNormal" THEN NormalQ
  ELSE IF pc[s] = "awaitSpecial" THEN UrgentQ(SpecialOffice)
  ELSE UrgentQ(info[s].office)

\* Desk d is one that student s waits for, and the info it has says so.
CalledBy(d, s) ==
  /\ pc[s] = "awaitNormal" => d \in Offices /\ info[d].office = d
  /\ pc[s] = "awaitSpecial" => d = SpecialOffice /\ info[d].office = info[s].office
  /\ pc[s] = "awaitUrgent" => d = info[s].office /\ info[d].office = info[s].office

\* The info of a student is where the student expects it.
Placed(s) ==
  /\ pc[s] \in Asking =>
       /\ \A d \in Desks : ~Has(d, s)
       /\ \A b \in Buffers, i \in Nat :
            Lies(b, i, s) => b = Target(s) /\ Msg(b, i).office = info[s].office
  /\ pc[s] \in Awaiting =>
       /\ \A d \in Desks : Has(d, s) => CalledBy(d, s)
       /\ \A b \in Buffers, i \in Nat :
            Lies(b, i, s) =>
              /\ b \in {AskedQ(s), AnswerQ(s)}
              /\ pc[s] # "awaitNormal" => Msg(b, i).office = info[s].office

AllPlaced == \A s \in Students : Placed(s)

LEMMA NowherePlaced ==
  ASSUME NEW s \in Students, ~Somewhere(s)
  PROVE  Placed(s)
BY DEF Somewhere, Placed

LEMMA NowherePlacedThen ==
  ASSUME NEW s \in Students, ~Somewhere(s)'
  PROVE  Placed(s)'
BY DEF Somewhere, Placed

\* A student that did not move and whose info was not touched.
LEMMA SamePlaced ==
  ASSUME NEW s \in Students, Placed(s), pc'[s] = pc[s], info'[s] = info[s],
         \A b \in Buffers, i \in Nat : Lies(b, i, s)' =>
           \E j \in Nat : Lies(b, j, s) /\ Msg(b, i)' = Msg(b, j),
         \A d \in Desks : Has(d, s)' => Has(d, s) /\ info'[d] = info[d]
  PROVE  Placed(s)'
<1>1. Target(s)' = Target(s) /\ AskedQ(s)' = AskedQ(s)
  BY SameTarget DEF AskedQ
<1>2. ASSUME pc[s] \in Asking
      PROVE  /\ \A d \in Desks : ~Has(d, s)'
             /\ \A b \in Buffers, i \in Nat :
                  Lies(b, i, s)' => b = Target(s) /\ Msg(b, i)'.office = info[s].office
  BY <1>2 DEF Placed
<1>3. ASSUME pc[s] \in Awaiting
      PROVE  /\ \A d \in Desks : Has(d, s)' => CalledBy(d, s)'
             /\ \A b \in Buffers, i \in Nat :
                  Lies(b, i, s)' =>
                    /\ b \in {AskedQ(s), AnswerQ(s)}
                    /\ pc[s] # "awaitNormal" => Msg(b, i)'.office = info[s].office
  <2>1. \A d \in Desks : Has(d, s)' => CalledBy(d, s)'
    BY <1>3 DEF Placed, CalledBy
  <2>2. QED
    BY <1>3, <2>1 DEF Placed
<1>4. QED
  BY <1>1, <1>2, <1>3 DEF Placed
LEMMA FillPlaced ==
  ASSUME TypeInv, Journeys, AllPlaced, NEW t \in Threads, SendFill(t)
  PROVE  AllPlaced'
<1>a. Sending(t) /\ Target(t) \in Buffers /\ info[t] \in Info
  BY TargetType, SentInfo DEF SendFill, TypeInv
<1>b. PICK b \in Buffers : b = Target(t)
  BY <1>a
<1>1. /\ holder[b] = Nobody
      /\ queue' = [queue EXCEPT ![b] = Append(@, info[t])]
      /\ holder' = [holder EXCEPT ![b] = t]
      /\ pc' = pc /\ info' = info
  BY <1>b DEF SendFill
<1>2. /\ queue \in [Buffers -> Seq(Info)] /\ queue[b] \in Seq(Info)
      /\ holder \in [Buffers -> Threads \cup {Nobody}]
  BY DEF TypeInv, TypeOK
<1>n. PICK n \in Nat : n = Len(queue[b]) + 1
  BY <1>2
<1>3. \A c \in Buffers, i \in Nat : \A s :
        Lies(c, i, s)' => \/ Lies(c, i, s) /\ Msg(c, i)' = Msg(c, i)
                          \/ c = b /\ s = info[t].id /\ Msg(c, i)' = info[t]
  BY <1>1, <1>2, <1>n DEF Lies, Entry, Msg
<1>4. \A u \in Threads : u # t => (holder'[Target(u)] = u <=> holder[Target(u)] = u)
  BY <1>1, <1>2, OfficeAssumption
<1>5. \A d \in Desks : \A s : Has(d, s)' => Has(d, s) /\ d # t
  <2> SUFFICES ASSUME NEW d \in Desks, NEW s, Has(d, s)' PROVE Has(d, s) /\ d # t
    OBVIOUS
  <2>1. Target(t)' = Target(t) /\ holder'[b] = t
    BY <1>1, <1>2, SameTarget
  <2>2. d # t
    BY <1>b, <2>1 DEF Has, Serving
  <2>3. QED
    BY <1>1, <1>4, <2>2, SameHas DEF Threads
<1>6. ASSUME NEW s \in Students, s # info[t].id PROVE Placed(s)'
  BY <1>1, <1>3, <1>5, <1>6, SamePlaced DEF AllPlaced
<1>7. ASSUME NEW s \in Students, s = info[t].id PROVE Placed(s)'
  <2>1. Single(s) /\ (Out(s) <=> Somewhere(s)) /\ Asked(s) /\ Placed(s)
    BY DEF Journeys, AllPlaced
  <2>2. CASE pc[t] = "reply"
    <3>1. t \in Desks /\ Has(t, s) /\ b = AnswerQ(s)
      BY <1>1, <1>7, <1>b, <2>2, TargetsOf, OfficeAssumption DEF Has, Serving
    <3>2. pc[s] \in Awaiting
      BY <2>1, <3>1 DEF Somewhere, Out, Placed
    <3>3. CalledBy(t, s)
      BY <2>1, <3>1, <3>2 DEF Placed
    <3>4. \A c \in Buffers, i \in Nat : ~Lies(c, i, s)
      BY <2>1, <3>1 DEF Single
    <3>5. \A d \in Desks : ~Has(d, s)'
      BY <1>5, <2>1, <3>1 DEF Single
    <3>6. \A c \in Buffers, i \in Nat : Lies(c, i, s)' => c = AnswerQ(s) /\ Msg(c, i)' = info[t]
      BY <1>3, <3>1, <3>4
    <3>7. pc[s] # "awaitNormal" => info[t].office = info[s].office
      BY <3>2, <3>3 DEF CalledBy, Awaiting
    <3>8. QED
      BY <1>1, <3>2, <3>5, <3>6, <3>7 DEF Placed, Asking, Awaiting
  <2>3. CASE pc[t] \in Asking
    <3>1. s = t /\ ~Out(s)
      BY <1>1, <1>7, <1>b, <2>3, TargetsOf, OfficeAssumption
         DEF Journeys, Asked, Out, Asking, Awaiting
    <3>2. ~Somewhere(s)
      BY <2>1, <3>1
    <3>3. \A d \in Desks : ~Has(d, s)'
      BY <1>5, <3>2 DEF Somewhere
    <3>4. \A c \in Buffers, i \in Nat : Lies(c, i, s)' => c = b /\ Msg(c, i)' = info[s]
      BY <1>3, <3>1, <3>2 DEF Somewhere
    <3>5. Target(s)' = b
      BY <1>1, <1>b, <3>1, SameTarget
    <3>6. pc'[s] \in Asking /\ pc'[s] \notin Awaiting
      BY <1>1, <2>3, <3>1 DEF Asking, Awaiting
    <3>7. QED
      BY <1>1, <3>3, <3>4, <3>5, <3>6 DEF Placed
  <2>4. QED
    BY <1>a, <2>2, <2>3 DEF Sending
<1>8. QED
  BY <1>6, <1>7 DEF AllPlaced

LEMMA CountPlaced ==
  ASSUME TypeInv, Journeys, AllPlaced, NEW t \in Threads, SendCount(t)
  PROVE  AllPlaced'
<1>a. Sending(t) /\ Target(t) \in Buffers
  BY TargetType DEF SendCount, TypeInv
<1>b. PICK b \in Buffers : b = Target(t)
  BY <1>a
<1>1. /\ holder[b] = t /\ holder' = [holder EXCEPT ![b] = Nobody]
      /\ pc' = [pc EXCEPT ![t] = AfterSend[pc[t]]]
      /\ queue' = queue /\ info' = info
  BY <1>b DEF SendCount, Goto
<1>2. holder \in [Buffers -> Threads \cup {Nobody}] /\ pc'[t] = AfterSend[pc[t]]
  BY <1>1 DEF TypeInv, TypeOK
<1>3. \A u \in Threads : u # t => pc'[u] = pc[u]
  BY <1>1 DEF TypeInv, TypeOK
<1>4. \/ pc[t] = "askNormal" /\ pc'[t] = "awaitNormal"
      \/ pc[t] = "askSpecial" /\ pc'[t] = "awaitSpecial"
      \/ pc[t] = "askUrgent" /\ pc'[t] = "awaitUrgent"
      \/ pc[t] = "reply" /\ pc'[t] = "idle"
  BY <1>2, <1>a DEF Sending, Asking, AfterSend
<1>5. \A u \in Threads : u # t => (holder'[Target(u)] = u <=> holder[Target(u)] = u)
  BY <1>1, <1>2, OfficeAssumption
<1>6. \A d \in Desks : \A s : Has(d, s)' <=> Has(d, s)
  <2> SUFFICES ASSUME NEW d \in Desks, NEW s PROVE Has(d, s)' <=> Has(d, s)
    OBVIOUS
  <2>1. CASE d = t
    BY <1>1, <1>4, <1>b, <2>1 DEF Has, Serving
  <2>2. CASE d # t
    BY <1>1, <1>3, <1>5, <2>2, SameHas DEF Threads
  <2>3. QED
    BY <2>1, <2>2
<1>7. ASSUME NEW s \in Students, s # t PROVE Placed(s)'
  BY <1>1, <1>3, <1>6, <1>7, SameLies, SamePlaced DEF AllPlaced, Threads
<1>8. ASSUME t \in Students PROVE Placed(t)'
  <2>1. pc[t] \in Asking /\ Placed(t)
    BY <1>4, <1>8, TargetsOf, OfficeAssumption DEF Asking, AllPlaced
  <2>2. AskedQ(t)' = b
    BY <1>1, <1>4, <1>8, <1>b, TargetsOf, OfficeAssumption DEF AskedQ
  <2>3. \A d \in Desks : ~Has(d, t)'
    BY <1>6, <2>1 DEF Placed
  <2>4. \A c \in Buffers, i \in Nat : Lies(c, i, t)' => c = b /\ Msg(c, i)'.office = info[t].office
    BY <1>1, <1>b, <2>1, SameLies DEF Placed
  <2>5. pc'[t] \in Awaiting /\ pc'[t] \notin Asking
    BY <1>4, <1>8, TargetsOf, OfficeAssumption DEF Asking, Awaiting
  <2>6. QED
    BY <1>1, <2>2, <2>3, <2>4, <2>5 DEF Placed
<1>9. QED
  BY <1>7, <1>8 DEF AllPlaced

\* A thread moves outside of send() and receive(), or to them.
LEMMA QuietPlaced ==
  ASSUME TypeInv, Journeys, AllPlaced, queue' = queue, info' = info, holder' = holder,
         NEW t \in Threads, NEW label, Goto(t, label),
         pc[t] \notin Asking \cup Awaiting \cup {"reply"}, label # "reply"
  PROVE  AllPlaced'
<1>1. pc'[t] = label /\ \A u \in Threads : u # t => pc'[u] = pc[u]
  BY DEF Goto, TypeInv, TypeOK
<1>2. \A d \in Desks : \A s : Has(d, s)' <=> Has(d, s)
  <2> SUFFICES ASSUME NEW d \in Desks, NEW s PROVE Has(d, s)' <=> Has(d, s)
    OBVIOUS
  <2>1. CASE d = t
    BY <1>1, <2>1 DEF Has, Serving
  <2>2. CASE d # t
    BY <1>1, <2>2, SameHas DEF Threads
  <2>3. QED
    BY <2>1, <2>2
<1>3. ASSUME NEW s \in Students, s # t PROVE Placed(s)'
  BY <1>1, <1>2, <1>3, SameLies, SamePlaced DEF AllPlaced, Threads
<1>4. ASSUME t \in Students PROVE Placed(t)'
  <2>1. ~Somewhere(t)
    BY <1>4 DEF Journeys, Out
  <2>2. ~Somewhere(t)'
    BY <1>2, <2>1, SameLies DEF Somewhere
  <2>3. QED
    BY <1>4, <2>2, NowherePlacedThen
<1>5. QED
  BY <1>3, <1>4 DEF AllPlaced

\* Taking an info leaves those of the other students in place.
LEMMA OthersPlaced ==
  ASSUME TypeInv, Journeys, AllPlaced, NEW t \in Threads, NEW label, NEW result,
         Receive(t, label, result), NEW s \in Students, s # t,
         t \in Desks => ~Has(t, s)'
  PROVE  Placed(s)'
<1>a. PICK b \in Buffers : b = Target(t)
  BY TargetType DEF TypeInv, Receive
<1>1. /\ holder' = holder
      /\ \A u \in Threads : u # t => pc'[u] = pc[u] /\ info'[u] = info[u]
  BY DEF Receive, Goto, TypeInv, TypeOK
<1>2. \A d \in Desks : Has(d, s)' => Has(d, s) /\ info'[d] = info[d]
  BY <1>1, SameHas DEF Threads
<1>3. \A c \in Buffers, i \in Nat : Lies(c, i, s)' =>
        \E j \in Nat : Lies(c, j, s) /\ Msg(c, i)' = Msg(c, j)
  <2> SUFFICES ASSUME NEW c \in Buffers, NEW i \in Nat, Lies(c, i, s)'
               PROVE  \E j \in Nat : Lies(c, j, s) /\ Msg(c, i)' = Msg(c, j)
    OBVIOUS
  <2>1. (IF c = b THEN i + 1 ELSE i) \in Nat
    OBVIOUS
  <2>2. /\ Lies(c, IF c = b THEN i + 1 ELSE i, s)
        /\ Msg(c, i)' = Msg(c, IF c = b THEN i + 1 ELSE i)
    BY <1>a, TakenFromBuffer DEF Lies
  <2>3. QED
    BY <2>1, <2>2
<1>4. QED
  BY <1>1, <1>2, <1>3, SamePlaced DEF AllPlaced, Threads

\* The student whose request a desk takes waits in that queue.
LEMMA TakenStudent ==
  ASSUME TypeInv, Journeys, AllPlaced, NEW t \in Desks, NEW result, Receive(t, "reply", result),
         pc[t] \in {"takeNormal", "takeUrgent"}, NEW s \in Students, s = Oldest(t).id
  PROVE  /\ Lies(Target(t), 1, s) /\ Msg(Target(t), 1) = Oldest(t)
         /\ Target(t) \in RequestQs
         /\ pc[s] \in Awaiting /\ Target(t) = AskedQ(s)
         /\ \A d \in Desks : ~Has(d, s)
<1>a. t \in Threads /\ t \notin Students /\ Target(t) \in RequestQs
  BY TargetsOf, OfficeAssumption DEF Threads
<1>b. PICK b \in Buffers : b = Target(t)
  BY <1>a DEF Buffers
<1>1. Single(s) /\ (Out(s) <=> Somewhere(s)) /\ Placed(s)
  BY DEF Journeys, AllPlaced
<1>2. Lies(b, 1, s) /\ Msg(b, 1) = Oldest(t)
  BY <1>a, <1>b, TakenFromBuffer DEF Lies
<1>3. holder[b] = Nobody
  BY <1>b DEF Receive
<1>4. pc[s] \in Awaiting
  <2>1. Out(s)
    BY <1>1, <1>2 DEF Somewhere
  <2>2. pc[s] \in Asking => Target(s) = b
    BY <1>1, <1>2 DEF Placed
  <2>3. s # Nobody
    BY OfficeAssumption DEF Threads
  <2>4. QED
    BY <1>3, <2>1, <2>2, <2>3 DEF Out
<1>5. b = AskedQ(s)
  <2>1. b \in {AskedQ(s), AnswerQ(s)}
    BY <1>1, <1>2, <1>4 DEF Placed
  <2>2. QED
    BY <1>a, <1>b, <2>1, BufferNames
<1>6. \A d \in Desks : ~Has(d, s)
  BY <1>1, <1>2 DEF Single
<1>7. QED
  BY <1>a, <1>b, <1>2, <1>4, <1>5, <1>6
LEMMA DeskPlaced ==
  ASSUME TypeInv, Journeys, Journeys', AllPlaced,
         NEW t \in Desks, NEW result \in Info, Receive(t, "reply", result),
         pc[t] \in {"takeNormal", "takeUrgent"}, result.id = Oldest(t).id,
         pc[t] = "takeNormal" => t \in Offices /\ result.office = t,
         pc[t] = "takeUrgent" => result.office = Oldest(t).office
  PROVE  AllPlaced'
<1>a. t \in Threads /\ t \notin Students
  BY OfficeAssumption DEF Threads
<1>s. PICK s0 \in Students : s0 = result.id
  BY DEF Info
<1>1. /\ holder' = holder /\ pc'[t] = "reply" /\ info'[t] = result
      /\ \A u \in Threads : u # t => pc'[u] = pc[u] /\ info'[u] = info[u]
  BY <1>a DEF Receive, Goto, TypeInv, TypeOK
<1>2. \A s : Has(t, s)' => s = s0
  BY <1>1, <1>s DEF Has
<1>3. ASSUME NEW s \in Students, s # s0 PROVE Placed(s)'
  BY <1>a, <1>2, <1>3, OthersPlaced
<1>4. /\ Lies(Target(t), 1, s0) /\ Msg(Target(t), 1) = Oldest(t)
      /\ pc[s0] \in Awaiting /\ Target(t) = AskedQ(s0) /\ Target(t) \in Buffers
      /\ \A d \in Desks : ~Has(d, s0)
  BY <1>s, TakenStudent DEF Buffers
<1>5. Placed(s0)'
  <2>1. \A d \in Desks : d # t => ~Has(d, s0)'
    BY <1>1, <1>4, SameHas DEF Threads
  <2>2. \A c \in Buffers, i \in Nat : ~Lies(c, i, s0)'
    <3>1. Out(s0)' /\ Single(s0)' /\ (Out(s0)' <=> Somewhere(s0)')
      BY <1>a, <1>1, <1>4 DEF Journeys, Out, Threads
    <3>2. PICK b \in Buffers : b = Target(t)
      BY <1>4
    <3>3. Single(s0) /\ Lies(b, 1, s0)
      BY <1>4, <3>2 DEF Journeys
    <3> SUFFICES ASSUME NEW c \in Buffers, NEW i \in Nat, Lies(c, i, s0)' PROVE FALSE
      OBVIOUS
    <3>4. Lies(c, IF c = b THEN i + 1 ELSE i, s0) /\ (IF c = b THEN i + 1 ELSE i) \in Nat
      BY <1>a, <3>2, TakenFromBuffer DEF Lies
    <3>5. c = b /\ i + 1 = 1
      BY <3>3, <3>4 DEF Single
    <3>6. i # 0
      BY DEF Lies, Entry
    <3>7. QED
      BY <3>5, <3>6
  <2>3. /\ pc[t] = "takeNormal" => Target(t) = NormalQ
        /\ pc[t] = "takeUrgent" => Target(t) = UrgentQ(t)
    BY <1>a, TargetsOf
  <2>4. pc[s0] # "awaitNormal" => Oldest(t).office = info[s0].office
    BY <1>4 DEF AllPlaced, Placed
  <2>5. CalledBy(t, s0)'
    <3>1. pc[s0] = "awaitNormal" => pc[t] = "takeNormal"
      BY <1>4, <2>3, BufferNames DEF AskedQ
    <3>2. pc[s0] = "awaitSpecial" => pc[t] = "takeUrgent" /\ t = SpecialOffice
      BY <1>4, <2>3, BufferNames DEF AskedQ
    <3>3. pc[s0] = "awaitUrgent" => pc[t] = "takeUrgent" /\ t = info[s0].office
      BY <1>4, <2>3, BufferNames DEF AskedQ
    <3>4. pc'[s0] = pc[s0] /\ info'[s0] = info[s0]
      BY <1>a, <1>1 DEF Threads
    <3>5. QED
      BY <1>1, <2>4, <3>1, <3>2, <3>3, <3>4 DEF CalledBy
  <2>6. pc'[s0] \notin Asking
    BY <1>a, <1>1, <1>4 DEF Threads, Asking, Awaiting
  <2>7. QED
    BY <2>1, <2>2, <2>5, <2>6 DEF Placed
<1>6. QED
  BY <1>3, <1>5 DEF AllPlaced

LEMMA StudentPlaced ==
  ASSUME TypeInv, Journeys, Journeys', AllPlaced,
         NEW t \in Students, NEW label, Receive(t, label, Oldest(t)),
         label \in {"askSpecial", "askUrgent", "leave"}
  PROVE  AllPlaced' /\ ~Somewhere(t)'
<1>a. t \in Threads /\ t \notin Desks
  BY OfficeAssumption DEF Threads
<1>1. ASSUME NEW s \in Students, s # t PROVE Placed(s)'
  BY <1>a, <1>1, OthersPlaced
<1>2. ~Out(t)'
  <2>1. holder' = holder /\ pc'[t] = label /\ Receiving(t) /\ pc'[t] \notin Awaiting
    BY <1>a DEF Receive, Goto, TypeInv, TypeOK, Awaiting
  <2>2. \A c \in Buffers : holder[c] # t
    BY <1>a, <2>1, OfficeAssumption
       DEF Journeys, LocksHeld, Sending, Receiving, Asking, Awaiting
  <2>3. pc'[t] \in Asking => Target(t)' \in Buffers
    <3>1. Oldest(t) \in Info /\ info'[t] = Oldest(t)
      BY <1>a, OldestType DEF TypeInv, TypeOK, Receive
    <3>2. Oldest(t).office \in Desks /\ SpecialOffice \in Desks
      BY <3>1 DEF Info, Desks
    <3>3. /\ pc'[t] = "askSpecial" => Target(t)' = UrgentQ(SpecialOffice)
          /\ pc'[t] = "askUrgent" => Target(t)' = UrgentQ(Oldest(t).office)
      BY <3>1 DEF Target, Awaiting
    <3>4. QED
      BY <2>1, <3>2, <3>3 DEF Asking, Buffers, RequestQs
  <2>4. QED
    BY <2>1, <2>2, <2>3 DEF Out
<1>3. ~Somewhere(t)'
  BY <1>2 DEF Journeys
<1>4. Placed(t)'
  BY <1>3, NowherePlacedThen
<1>5. QED
  BY <1>1, <1>3, <1>4 DEF AllPlaced

\* What an office does with the request it has taken.
LEMMA OfficeResult ==
  ASSUME TypeInv, NEW o \in Offices, OfficeServeUrgent(o) \/ OfficeServeNormal(o)
  PROVE  \E result \in Info :
           /\ Receive(o, "reply", result) /\ result.id = Oldest(o).id
           /\ pc[o] \in {"takeNormal", "takeUrgent"}
           /\ pc[o] = "takeNormal" => result.office = o
           /\ pc[o] = "takeUrgent" => result.office = Oldest(o).office
<1>1. o \in Desks /\ o \in Threads
  BY DEF Desks, Threads
<1>2. pc[o] \in {"takeNormal", "takeUrgent"} /\ Oldest(o) \in Info
  BY <1>1, OldestType DEF OfficeServeUrgent, OfficeServeNormal, Receive, TypeInv
<1>3. CASE OfficeServeUrgent(o)
  <2>1. /\ [Oldest(o) EXCEPT !.urgent = FALSE] \in Info
        /\ [Oldest(o) EXCEPT !.urgent = FALSE].id = Oldest(o).id
        /\ [Oldest(o) EXCEPT !.urgent = FALSE].office = Oldest(o).office
    BY <1>2 DEF Info
  <2>2. Receive(o, "reply", [Oldest(o) EXCEPT !.urgent = FALSE]) /\ pc[o] = "takeUrgent"
    BY <1>3 DEF OfficeServeUrgent
  <2>3. QED
    BY <2>1, <2>2
<1>4. CASE OfficeServeNormal(o)
  <2>1. PICK special \in BOOLEAN : Receive(o, "reply", [Signed(Oldest(o), o) EXCEPT !.urgent = special])
    BY <1>4 DEF OfficeServeNormal
  <2>2. PICK i \in Info : i = Signed(Oldest(o), o) /\ i.office = o /\ i.id = Oldest(o).id
    <3>1. /\ Signed(Oldest(o), o) \in Info
          /\ Signed(Oldest(o), o).office = o /\ Signed(Oldest(o), o).id = Oldest(o).id
      BY <1>1, <1>2 DEF Signed, Info
    <3>2. QED
      BY <3>1
  <2>3. /\ [i EXCEPT !.urgent = special] \in Info
        /\ [i EXCEPT !.urgent = special].id = i.id
        /\ [i EXCEPT !.urgent = special].office = i.office
    BY DEF Info
  <2>4. pc[o] = "takeNormal"
    BY <1>4 DEF OfficeServeNormal
  <2>5. QED
    BY <2>1, <2>2, <2>3, <2>4
<1>5. QED
  BY <1>3, <1>4

\* What a student does with its answer.
LEMMA StudentResult ==
  ASSUME TypeInv, NEW s \in Students, StudentReceive(s)
  PROVE  \E label \in {"askSpecial", "askUrgent", "leave"} :
           /\ Receive(s, label, Oldest(s)) /\ pc[s] \in Awaiting
           /\ label = CASE pc[s] = "awaitNormal" -> IF Oldest(s).urgent THEN "askSpecial" ELSE "leave"
                        [] pc[s] = "awaitSpecial" -> "askUrgent"
                        [] pc[s] = "awaitUrgent" -> "leave"
<1>1. pc[s] \in Awaiting
  BY TargetsOf, OfficeAssumption DEF StudentReceive, Receive, Receiving, Threads
<1>2. QED
  BY <1>1 DEF StudentReceive, Awaiting

LEMMA PlacedStep == TypeInv /\ Journeys /\ Journeys' /\ AllPlaced /\ [Next]_vars => AllPlaced'
<1> SUFFICES ASSUME TypeInv, Journeys, Journeys', AllPlaced, [Next]_vars PROVE AllPlaced'
  OBVIOUS
<1>1. ASSUME UNCHANGED <<pc, info, queue, holder>> PROVE AllPlaced'
  <2>1. \A d \in Desks : \A s : Has(d, s)' <=> Has(d, s)
    BY <1>1, SameHas
  <2>2. QED
    BY <1>1, <2>1, SameLies, SamePlaced DEF AllPlaced
<1>2. ASSUME NEW t \in Threads, SendOrWait(t) PROVE AllPlaced'
  <2>1. CASE SendWait(t) \/ ReceiveWait(t)
    BY <1>1, <2>1 DEF SendWait, ReceiveWait
  <2>2. QED
    BY <1>2, <2>1, FillPlaced, CountPlaced DEF SendOrWait
<1>3. ASSUME NEW d \in Desks, DeskStep(d) PROVE AllPlaced'
  <2>1. CASE DeskWait(d)
    BY <1>1, <2>1 DEF DeskWait
  <2>2. CASE TakeUrgentCount(d)
    BY <2>2, QuietPlaced DEF TakeUrgentCount, Threads, Asking, Awaiting
  <2>3. QED
    BY <1>2, <1>3, <2>1, <2>2 DEF DeskStep, Threads
<1>4. ASSUME NEW o \in Offices, OfficeStep(o) PROVE AllPlaced'
  <2>1. o \in Desks /\ o \in Threads
    BY DEF Desks, Threads
  <2>2. CASE OfficeInit(o) \/ TakeNormalCount(o)
    BY <2>1, <2>2, QuietPlaced DEF OfficeInit, TakeNormalCount, Asking, Awaiting
  <2>3. CASE OfficeServeUrgent(o) \/ OfficeServeNormal(o)
    BY <2>1, <2>3, OfficeResult, DeskPlaced
  <2>4. QED
    BY <1>3, <1>4, <2>1, <2>2, <2>3 DEF OfficeStep
<1>5. ASSUME SpecialStep PROVE AllPlaced'
  <2>1. SpecialOffice \in Desks /\ SpecialOffice \in Threads
    BY DEF Desks, Threads
  <2>2. CASE SpecialServe
    <3>1. Oldest(SpecialOffice) \in Info
      BY <2>1, <2>2, OldestType DEF SpecialServe, Receive, TypeInv
    <3>2. QED
      BY <2>1, <2>2, <3>1, DeskPlaced DEF SpecialServe
  <2>3. QED
    BY <1>3, <1>5, <2>1, <2>2 DEF SpecialStep
<1>6. ASSUME NEW s \in Students, StudentStep(s) PROVE AllPlaced'
  <2>1. s \in Threads
    BY DEF Threads
  <2>2. CASE StudentInit(s)
    BY <2>1, <2>2, QuietPlaced DEF StudentInit, Asking, Awaiting
  <2>3. CASE Leave(s)
    <3>1. PICK label \in {"last", "done"} : Goto(s, label)
      BY <2>3 DEF Leave
    <3>2. QED
      BY <2>1, <2>3, <3>1, QuietPlaced DEF Leave, Asking, Awaiting
  <2>4. CASE EndProcess(s)
    BY <1>1, <2>4 DEF EndProcess
  <2>5. CASE StudentReceive(s)
    BY <2>5, StudentResult, StudentPlaced
  <2>6. QED
    BY <1>2, <1>6, <2>1, <2>2, <2>3, <2>4, <2>5 DEF StudentStep
<1>7. CASE UNCHANGED vars
  BY <1>1, <1>7 DEF vars
<1>8. QED
  BY <1>4, <1>5, <1>6, <1>7 DEF Next, Ended
\* The student at desk d.
Seat(d) == IF Serving(d) THEN info[d].id ELSE Nobody

\* What a student or a desk sees of the service stays.
SameView(s) == StageOf(s)' = StageOf(s) /\ OfficeOf(s)' = OfficeOf(s)
SameSeat(d) == Seat(d)' = Seat(d)

LEMMA ViewKept ==
  ASSUME NEW s, pc'[s] = pc[s], info'[s] = info[s],
         queue'[AnswerQ(s)] = queue[AnswerQ(s)]
  PROVE  SameView(s)
<1>1. Answered(s)' = Answered(s)
  BY DEF Answered
<1>2. QED
  BY <1>1 DEF SameView, StageOf, OfficeOf

LEMMA SeatKept ==
  ASSUME NEW d, pc'[d] = pc[d], info'[d] = info[d],
         pc[d] = "reply" => (holder'[Target(d)] = d <=> holder[Target(d)] = d)
  PROVE  SameSeat(d)
BY SameTarget DEF SameSeat, Seat, Serving

LEMMA EmptySeatKept ==
  ASSUME NEW d, ~Serving(d), ~Serving(d)'
  PROVE  SameSeat(d)
BY DEF SameSeat, Seat

\* Nobody has an answer in its buffer that is not its own.
LEMMA AnsweredIff ==
  ASSUME TypeInv, Journeys, NEW s \in Students
  PROVE  /\ Answered(s) <=> Lies(AnswerQ(s), 1, s)
         /\ Answered(s) <=> \E i \in Nat : Lies(AnswerQ(s), i, s)
         /\ Answered(s) => Head(queue[AnswerQ(s)]) = Msg(AnswerQ(s), 1)
<1>1. AnswerQ(s) \in Buffers
  BY DEF Buffers
<1>2. PICK b \in Buffers : b = AnswerQ(s)
  BY <1>1
<1>3. queue[b] \in Seq(Info)
  BY DEF TypeInv, TypeOK
<1>4. Answered(s) => Entry(b, 1)
  BY <1>2, <1>3 DEF Answered, Entry
<1>5. \A i \in Nat : Entry(b, i) => Answered(s)
  BY <1>2, <1>3 DEF Answered, Entry
<1>6. \A i \in Nat : Entry(b, i) <=> Lies(b, i, s)
  BY <1>2 DEF Journeys, AnswersOwn, Lies
<1>7. Answered(s) => Head(queue[b]) = Msg(b, 1)
  BY <1>2, <1>3 DEF Answered, Msg
<1>8. QED
  BY <1>2, <1>4, <1>5, <1>6, <1>7

LEMMA StutterMaps ==
  ASSUME \A s \in Students : SameView(s), \A d \in Desks : SameSeat(d), killed' = killed
  PROVE  UNCHANGED Service!vars
BY DEF SameView, SameSeat, Seat, Service!vars

LEMMA MoveMaps ==
  ASSUME NEW s \in Students,
         \/ StageOf(s) = "outside" /\ StageOf(s)' = "inNormal"
         \/ StageOf(s) = "sentOn" /\ StageOf(s)' = "inSpecial"
         \/ StageOf(s) = "sentBack" /\ StageOf(s)' = "inUrgent"
         \/ StageOf(s) = "served" /\ StageOf(s)' = "left",
         OfficeOf(s)' = OfficeOf(s),
         \A u \in Students : u # s => SameView(u),
         \A d \in Desks : SameSeat(d), killed' = killed
  PROVE  Service!Move(s)
<1>1. PICK way \in {<<"outside", "inNormal">>, <<"sentOn", "inSpecial">>,
                    <<"sentBack", "inUrgent">>, <<"served", "left">>} :
        StageOf(s) = way[1] /\ StageOf(s)' = way[2]
  OBVIOUS
<1>2. [u \in Students |-> StageOf(u)]' = [[u \in Students |-> StageOf(u)] EXCEPT ![s] = way[2]]
  BY <1>1 DEF SameView
<1>3. [u \in Students |-> OfficeOf(u)]' = [u \in Students |-> OfficeOf(u)]
  BY DEF SameView
<1>4. [d \in Desks |-> IF Serving(d) THEN info[d].id ELSE Nobody]'
        = [d \in Desks |-> IF Serving(d) THEN info[d].id ELSE Nobody]
  BY DEF SameSeat, Seat
<1>5. QED
  BY <1>1, <1>2, <1>3, <1>4 DEF Service!Move

LEMMA CallMaps ==
  ASSUME NEW s \in Students, NEW d \in Desks,
         Seat(d) = Nobody, \A e \in Desks : Seat(e) # s, Seat(d)' = s,
         \/ StageOf(s) = "inNormal" /\ d \in Offices
         \/ StageOf(s) = "inSpecial" /\ d = SpecialOffice
         \/ StageOf(s) = "inUrgent" /\ d = OfficeOf(s),
         \A u \in Students : SameView(u),
         \A e \in Desks : e # d => SameSeat(e), killed' = killed
  PROVE  Service!Call(d, s)
<1>1. [u \in Students |-> StageOf(u)]' = [u \in Students |-> StageOf(u)]
  BY DEF SameView
<1>2. [u \in Students |-> OfficeOf(u)]' = [u \in Students |-> OfficeOf(u)]
  BY DEF SameView
<1>3. [e \in Desks |-> IF Serving(e) THEN info[e].id ELSE Nobody]'
        = [[e \in Desks |-> IF Serving(e) THEN info[e].id ELSE Nobody] EXCEPT ![d] = s]
  BY DEF SameSeat, Seat
<1>4. QED
  BY <1>1, <1>2, <1>3 DEF Service!Call, Service!Desks, Desks, Seat

LEMMA DismissMaps ==
  ASSUME NEW s \in Students, NEW d \in Desks, Seat(d) = s, Seat(d)' = Nobody,
         \/ /\ StageOf(s) = "inNormal" /\ StageOf(s)' \in {"served", "sentOn"}
            /\ OfficeOf(s)' = d
         \/ /\ StageOf(s) = "inSpecial" /\ StageOf(s)' = "sentBack"
            /\ OfficeOf(s)' = OfficeOf(s)
         \/ /\ StageOf(s) = "inUrgent" /\ StageOf(s)' = "served"
            /\ OfficeOf(s)' = OfficeOf(s),
         \A u \in Students : u # s => SameView(u),
         \A e \in Desks : e # d => SameSeat(e), killed' = killed
  PROVE  Service!Dismiss(d, s)
<1>1. [u \in Students |-> StageOf(u)]'
        = [[u \in Students |-> StageOf(u)] EXCEPT ![s] = StageOf(s)']
  BY DEF SameView
<1>2. [u \in Students |-> OfficeOf(u)]'
        = [[u \in Students |-> OfficeOf(u)] EXCEPT ![s] = OfficeOf(s)']
  BY DEF SameView
<1>3. OfficeOf(s)' = OfficeOf(s) =>
        [u \in Students |-> OfficeOf(u)]' = [u \in Students |-> OfficeOf(u)]
  BY DEF SameView
<1>4. [e \in Desks |-> IF Serving(e) THEN info[e].id ELSE Nobody]'
        = [[e \in Desks |-> IF Serving(e) THEN info[e].id ELSE Nobody] EXCEPT ![d] = Nobody]
  BY DEF SameSeat, Seat
<1>5. QED
  BY <1>1, <1>2, <1>3, <1>4 DEF Service!Dismiss, Seat
\* A desk that has sent its answer off is rid of the student; a student's own
\* send() does not show before it is counted.
LEMMA FillMaps ==
  ASSUME TypeInv, Journeys, AllPlaced, NEW t \in Threads, SendFill(t)
  PROVE  [Service!Next]_Service!vars
<1>a. Sending(t) /\ Target(t) \in Buffers /\ info[t] \in Info
  BY TargetType, SentInfo DEF SendFill, TypeInv
<1>b. PICK b \in Buffers : b = Target(t)
  BY <1>a
<1>1. /\ holder[b] = Nobody
      /\ queue' = [queue EXCEPT ![b] = Append(@, info[t])]
      /\ holder' = [holder EXCEPT ![b] = t]
      /\ pc' = pc /\ info' = info /\ killed' = killed
  BY <1>b DEF SendFill
<1>2. /\ queue \in [Buffers -> Seq(Info)] /\ queue[b] \in Seq(Info)
      /\ holder \in [Buffers -> Threads \cup {Nobody}]
  BY DEF TypeInv, TypeOK
<1>3. \A u \in Threads : u # t => (holder'[Target(u)] = u <=> holder[Target(u)] = u)
  BY <1>1, <1>2, OfficeAssumption
<1>4. \A d \in Desks : d # t => SameSeat(d)
  BY <1>1, <1>3, SeatKept DEF Threads
<1>5. \A s \in Students : AnswerQ(s) # b => SameView(s)
  BY <1>1, <1>2, ViewKept
<1>6. CASE pc[t] \in Asking
  <2>1. t \notin Desks /\ b \in RequestQs
    BY <1>6, <1>b, TargetsOf, OfficeAssumption
  <2>2. \A s \in Students : SameView(s)
    BY <1>5, <2>1, BufferNames
  <2>3. QED
    BY <1>1, <1>4, <2>1, <2>2, StutterMaps
<1>7. CASE pc[t] = "reply"
  <2>1. PICK s \in Students : s = info[t].id
    BY <1>a DEF Info
  <2>2. t \in Desks /\ b = AnswerQ(s) /\ t # Nobody
    BY <1>7, <1>b, <2>1, TargetsOf, OfficeAssumption
  <2>3. Serving(t) /\ Has(t, s)
    BY <1>1, <1>7, <1>b, <2>1, <2>2 DEF Has, Serving
  <2>4. Target(t)' = Target(t)
    BY <1>1, SameTarget
  <2>5. ~Serving(t)'
    BY <1>1, <1>2, <1>b, <2>4 DEF Serving
  <2>6. Seat(t) = s /\ Seat(t)' = Nobody
    BY <2>1, <2>3, <2>5 DEF Seat
  <2>7. pc[s] \in Awaiting /\ CalledBy(t, s)
    <3>1. Out(s) /\ Placed(s)
      BY <2>2, <2>3 DEF Journeys, Somewhere, AllPlaced
    <3>2. QED
      BY <2>2, <2>3, <3>1 DEF Placed, Out
  <2>8. ~Answered(s)
    BY <2>2, <2>3, AnsweredIff DEF Journeys, Single
  <2>9. queue'[b] = <<info[t]>>
    <3>1. queue[b] = <<>>
      BY <2>2, <2>8 DEF Answered
    <3>2. queue'[b] = Append(queue[b], info[t])
      BY <1>1, <1>2
    <3>3. QED
      BY <3>1, <3>2
  <2>10. Answered(s)' /\ Head(queue'[b]) = info[t]
    BY <2>2, <2>9 DEF Answered
  <2>11. OfficeOf(s) = info[s].office /\ OfficeOf(s)' = info[t].office
    BY <1>1, <2>2, <2>8, <2>10 DEF OfficeOf
  <2>12. \A u \in Students : u # s => SameView(u)
    BY <1>5, <2>2, BufferNames
  <2>13. CASE pc[s] = "awaitNormal"
    <3>1. StageOf(s) = "inNormal"
      BY <2>8, <2>13 DEF StageOf
    <3>2. StageOf(s)' \in {"served", "sentOn"}
      BY <1>1, <2>2, <2>10, <2>13 DEF StageOf
    <3>3. OfficeOf(s)' = t
      BY <2>7, <2>11, <2>13 DEF CalledBy
    <3>4. Service!Dismiss(t, s)
      BY <1>1, <1>4, <2>2, <2>6, <2>12, <3>1, <3>2, <3>3, DismissMaps
    <3>5. QED
      BY <2>2, <3>4 DEF Service!Next, Service!Desks, Desks
  <2>14. CASE pc[s] = "awaitSpecial"
    <3>1. StageOf(s) = "inSpecial"
      BY <2>8, <2>14 DEF StageOf
    <3>2. StageOf(s)' = "sentBack"
      BY <1>1, <2>10, <2>14 DEF StageOf
    <3>3. OfficeOf(s)' = OfficeOf(s)
      BY <2>7, <2>11, <2>14 DEF CalledBy
    <3>4. Service!Dismiss(t, s)
      BY <1>1, <1>4, <2>2, <2>6, <2>12, <3>1, <3>2, <3>3, DismissMaps
    <3>5. QED
      BY <2>2, <3>4 DEF Service!Next, Service!Desks, Desks
  <2>15. CASE pc[s] = "awaitUrgent"
    <3>1. StageOf(s) = "inUrgent"
      BY <2>8, <2>15 DEF StageOf
    <3>2. StageOf(s)' = "served"
      BY <1>1, <2>10, <2>15 DEF StageOf
    <3>3. OfficeOf(s)' = OfficeOf(s)
      BY <2>7, <2>11, <2>15 DEF CalledBy
    <3>4. Service!Dismiss(t, s)
      BY <1>1, <1>4, <2>2, <2>6, <2>12, <3>1, <3>2, <3>3, DismissMaps
    <3>5. QED
      BY <2>2, <3>4 DEF Service!Next, Service!Desks, Desks
  <2>16. QED
    BY <2>7, <2>13, <2>14, <2>15 DEF Awaiting
<1>8. QED
  BY <1>a, <1>6, <1>7 DEF Sending

\* Counting a student's request puts it into the queue.
LEMMA CountMaps ==
  ASSUME TypeInv, Journeys, AllPlaced, NEW t \in Threads, SendCount(t)
  PROVE  [Service!Next]_Service!vars
<1>a. Sending(t) /\ Target(t) \in Buffers
  BY TargetType DEF SendCount, TypeInv
<1>b. PICK b \in Buffers : b = Target(t)
  BY <1>a
<1>1. /\ holder[b] = t /\ holder' = [holder EXCEPT ![b] = Nobody]
      /\ pc' = [pc EXCEPT ![t] = AfterSend[pc[t]]]
      /\ queue' = queue /\ info' = info /\ killed' = killed
  BY <1>b DEF SendCount, Goto
<1>2. holder \in [Buffers -> Threads \cup {Nobody}] /\ pc'[t] = AfterSend[pc[t]]
  BY <1>1 DEF TypeInv, TypeOK
<1>3. \A u \in Threads : u # t => pc'[u] = pc[u]
  BY <1>1 DEF TypeInv, TypeOK
<1>4. \/ pc[t] = "askNormal" /\ pc'[t] = "awaitNormal"
      \/ pc[t] = "askSpecial" /\ pc'[t] = "awaitSpecial"
      \/ pc[t] = "askUrgent" /\ pc'[t] = "awaitUrgent"
      \/ pc[t] = "reply" /\ pc'[t] = "idle"
  BY <1>2, <1>a DEF Sending, Asking, AfterSend
<1>5. \A u \in Threads : u # t => (holder'[Target(u)] = u <=> holder[Target(u)] = u)
  BY <1>1, <1>2, OfficeAssumption
<1>6. \A d \in Desks : SameSeat(d)
  <2>1. ~Serving(t) /\ ~Serving(t)'
    BY <1>1, <1>4, <1>b DEF Serving
  <2>2. QED
    BY <1>1, <1>3, <1>5, <2>1, SeatKept, EmptySeatKept DEF Threads
<1>7. \A s \in Students : s # t => SameView(s)
  BY <1>1, <1>3, ViewKept DEF Threads
<1>8. CASE t \in Students
  <2>1. pc[t] \in Asking /\ Placed(t)
    BY <1>4, <1>8, TargetsOf, OfficeAssumption DEF Asking, AllPlaced
  <2>2. ~Answered(t)
    <3>1. AnswerQ(t) \in Buffers /\ Target(t) # AnswerQ(t)
      BY <1>8, <2>1, TargetsOf, BufferNames DEF Buffers
    <3>2. \A i \in Nat : ~Lies(AnswerQ(t), i, t)
      BY <2>1, <3>1 DEF Placed
    <3>3. QED
      BY <1>8, <3>2, AnsweredIff
  <2>3. ~Answered(t)'
    BY <1>1, <2>2 DEF Answered
  <2>4. OfficeOf(t)' = OfficeOf(t)
    BY <1>1, <2>2, <2>3 DEF OfficeOf
  <2>5. \/ StageOf(t) = "outside" /\ StageOf(t)' = "inNormal"
        \/ StageOf(t) = "sentOn" /\ StageOf(t)' = "inSpecial"
        \/ StageOf(t) = "sentBack" /\ StageOf(t)' = "inUrgent"
    BY <1>4, <2>1, <2>3 DEF StageOf, Asking
  <2>6. Service!Move(t)
    BY <1>1, <1>6, <1>7, <1>8, <2>4, <2>5, MoveMaps
  <2>7. QED
    BY <1>8, <2>6 DEF Service!Next
<1>9. CASE t \notin Students
  BY <1>1, <1>6, <1>7, <1>9, StutterMaps
<1>10. QED
  BY <1>8, <1>9

\* Receiving a request calls its student.
LEMMA DeskReceiveMaps ==
  ASSUME TypeInv, Journeys, AllPlaced, Journeys',
         NEW t \in Desks, NEW result \in Info, Receive(t, "reply", result),
         pc[t] \in {"takeNormal", "takeUrgent"}, result.id = Oldest(t).id,
         pc[t] = "takeNormal" => t \in Offices
  PROVE  [Service!Next]_Service!vars
<1>a. t \in Threads /\ t \notin Students
  BY OfficeAssumption DEF Threads
<1>s. PICK s \in Students : s = result.id
  BY DEF Info
<1>1. /\ holder' = holder /\ pc'[t] = "reply" /\ info'[t] = result /\ killed' = killed
      /\ \A u \in Threads : u # t => pc'[u] = pc[u] /\ info'[u] = info[u]
      /\ queue' = [queue EXCEPT ![Target(t)] = Tail(@)]
  BY <1>a DEF Receive, Goto, TypeInv, TypeOK
<1>2. /\ Lies(Target(t), 1, s) /\ Msg(Target(t), 1) = Oldest(t)
      /\ pc[s] \in Awaiting /\ Target(t) = AskedQ(s) /\ Target(t) \in RequestQs
      /\ \A d \in Desks : ~Has(d, s)
  BY <1>s, TakenStudent
<1>3. \A d \in Desks : d # t => SameSeat(d)
  BY <1>1, SeatKept DEF Threads
<1>4. \A u \in Students : SameView(u)
  <2> SUFFICES ASSUME NEW u \in Students PROVE SameView(u)
    OBVIOUS
  <2>1. AnswerQ(u) # Target(t) /\ queue \in [Buffers -> Seq(Info)] /\ AnswerQ(u) \in Buffers
    BY <1>2, BufferNames DEF TypeInv, TypeOK, Buffers
  <2>2. queue'[AnswerQ(u)] = queue[AnswerQ(u)]
    BY <1>1, <2>1
  <2>3. QED
    BY <1>a, <1>1, <2>2, ViewKept DEF Threads
<1>5. Seat(t) = Nobody
  BY DEF Seat, Serving
<1>6. Seat(t)' = s
  <2>1. holder'[Target(t)'] # t
    <3>1. \A c \in Buffers : holder[c] # t
      BY <1>a, OfficeAssumption DEF Journeys, LocksHeld, Sending, Asking
    <3>2. Target(t)' = AnswerQ(s)
      BY <1>1, <1>s DEF Target, Awaiting
    <3>3. QED
      BY <1>1, <3>1, <3>2 DEF Buffers
  <2>2. Serving(t)'
    BY <1>1, <2>1 DEF Serving
  <2>3. QED
    BY <1>1, <1>s, <2>2 DEF Seat
<1>7. \A e \in Desks : Seat(e) # s
  <2>1. s # Nobody
    BY OfficeAssumption DEF Threads
  <2>2. QED
    BY <1>2, <2>1 DEF Seat, Has
<1>8. ~Answered(s)
  <2>1. PICK b \in Buffers : b = Target(t)
    BY <1>2 DEF Buffers
  <2>2. AnswerQ(s) \in Buffers /\ AnswerQ(s) # b
    BY <1>2, <2>1, BufferNames DEF Buffers
  <2>3. QED
    BY <1>2, <2>1, <2>2, AnsweredIff DEF Journeys, Single
<1>9. OfficeOf(s) = info[s].office
  BY <1>8 DEF OfficeOf
<1>10. /\ pc[t] = "takeNormal" => Target(t) = NormalQ
       /\ pc[t] = "takeUrgent" => Target(t) = UrgentQ(t)
  BY <1>a, TargetsOf
<1>11. \/ StageOf(s) = "inNormal" /\ t \in Offices
       \/ StageOf(s) = "inSpecial" /\ t = SpecialOffice
       \/ StageOf(s) = "inUrgent" /\ t = OfficeOf(s)
  <2>1. CASE pc[s] = "awaitNormal"
    BY <1>2, <1>8, <1>10, <2>1, BufferNames DEF AskedQ, StageOf
  <2>2. CASE pc[s] = "awaitSpecial"
    BY <1>2, <1>8, <1>10, <2>2, BufferNames DEF AskedQ, StageOf
  <2>3. CASE pc[s] = "awaitUrgent"
    BY <1>2, <1>8, <1>9, <1>10, <2>3, BufferNames DEF AskedQ, StageOf
  <2>4. QED
    BY <1>2, <2>1, <2>2, <2>3 DEF Awaiting
<1>12. Service!Call(t, s)
  BY <1>1, <1>3, <1>4, <1>5, <1>6, <1>7, <1>11, CallMaps
<1>13. QED
  BY <1>12 DEF Service!Next, Service!Desks, Desks
\* A student that picks up its answer goes on as the answer says.
LEMMA StudentReceiveMaps ==
  ASSUME TypeInv, Journeys, NEW s \in Students, StudentReceive(s)
  PROVE  UNCHANGED Service!vars
<1>a. s \in Threads /\ s \notin Desks
  BY OfficeAssumption DEF Threads
<1>b. PICK b \in Buffers : b = AnswerQ(s)
  BY DEF Buffers
<1>1. PICK label \in {"askSpecial", "askUrgent", "leave"} :
        /\ Receive(s, label, Oldest(s)) /\ pc[s] \in Awaiting
        /\ label = CASE pc[s] = "awaitNormal" -> IF Oldest(s).urgent THEN "askSpecial" ELSE "leave"
                     [] pc[s] = "awaitSpecial" -> "askUrgent"
                     [] pc[s] = "awaitUrgent" -> "leave"
  BY StudentResult
<1>2. Target(s) = b
  BY <1>a, <1>b, <1>1, TargetsOf
<1>3. /\ holder' = holder /\ pc'[s] = label /\ info'[s] = Oldest(s) /\ killed' = killed
      /\ \A u \in Threads : u # s => pc'[u] = pc[u] /\ info'[u] = info[u]
      /\ queue' = [queue EXCEPT ![b] = Tail(@)] /\ queue[b] # <<>>
  BY <1>a, <1>1, <1>2 DEF Receive, Goto, TypeInv, TypeOK
<1>4. queue \in [Buffers -> Seq(Info)] /\ queue[b] \in Seq(Info) /\ Oldest(s) = Head(queue[b])
  BY <1>2 DEF TypeInv, TypeOK, Oldest
<1>5. \A d \in Desks : SameSeat(d)
  BY <1>a, <1>3, SeatKept DEF Threads
<1>6. ASSUME NEW u \in Students, u # s PROVE SameView(u)
  <2>1. AnswerQ(u) # b /\ AnswerQ(u) \in Buffers
    BY <1>b, <1>6, BufferNames DEF Buffers
  <2>2. queue'[AnswerQ(u)] = queue[AnswerQ(u)]
    BY <1>3, <1>4, <2>1
  <2>3. QED
    BY <1>3, <1>6, <2>2, ViewKept DEF Threads
<1>7. SameView(s)
  <2>1. Answered(s)
    BY <1>b, <1>3 DEF Answered
  <2>2. Len(queue[b]) = 1
    <3>1. Single(s) /\ \A i \in Nat : Entry(b, i) => Lies(b, i, s)
      BY <1>b DEF Journeys, AnswersOwn, Lies
    <3>2. Len(queue[b]) >= 2 => Entry(b, 1) /\ Entry(b, 2)
      BY <1>4 DEF Entry
    <3>3. PICK n \in Nat : n = Len(queue[b]) /\ n # 0
      BY <1>3, <1>4
    <3>4. ~(n >= 2)
      BY <3>1, <3>2, <3>3 DEF Single
    <3>5. n = 1
      <4>1. n # 0
        BY <3>3
      <4>2. QED
        BY <3>4, <4>1
    <3>6. QED
      BY <3>3, <3>5
  <2>3. queue'[b] = <<>>
    <3>1. queue'[b] = Tail(queue[b])
      BY <1>3, <1>4
    <3>2. QED
      BY <1>4, <2>2, <3>1
  <2>4. ~Answered(s)'
    BY <1>b, <2>3 DEF Answered
  <2>5. OfficeOf(s)' = OfficeOf(s)
    BY <1>b, <1>3, <1>4, <2>1, <2>4 DEF OfficeOf
  <2>6. StageOf(s)' = StageOf(s)
    <3>1. CASE pc[s] = "awaitNormal"
      <4>1. StageOf(s) = IF Oldest(s).urgent THEN "sentOn" ELSE "served"
        BY <1>b, <1>4, <2>1, <3>1 DEF StageOf
      <4>2. label = IF Oldest(s).urgent THEN "askSpecial" ELSE "leave"
        BY <1>1, <3>1
      <4>3. StageOf(s)' = IF Oldest(s).urgent THEN "sentOn" ELSE "served"
        BY <1>3, <2>4, <4>2 DEF StageOf
      <4>4. QED
        BY <4>1, <4>3
    <3>2. CASE pc[s] = "awaitSpecial"
      <4>1. label = "askUrgent" /\ StageOf(s) = "sentBack"
        BY <1>1, <2>1, <3>2 DEF StageOf
      <4>2. QED
        BY <1>3, <2>4, <4>1 DEF StageOf
    <3>3. CASE pc[s] = "awaitUrgent"
      <4>1. label = "leave" /\ StageOf(s) = "served"
        BY <1>1, <2>1, <3>3 DEF StageOf
      <4>2. QED
        BY <1>3, <2>4, <4>1 DEF StageOf
    <3>4. QED
      BY <1>1, <3>1, <3>2, <3>3 DEF Awaiting
  <2>7. QED
    BY <2>5, <2>6 DEF SameView
<1>8. QED
  BY <1>3, <1>5, <1>6, <1>7, StutterMaps

\* A step of a thread outside of send() and receive() that the service sees as
\* nothing, but for a student that leaves.
LEMMA QuietMaps ==
  ASSUME TypeInv, queue' = queue, info' = info, holder' = holder, killed' = killed,
         NEW t \in Threads, NEW label, Goto(t, label), pc[t] # "reply", label # "reply",
         t \in Students => StageOf(t)' = StageOf(t)
  PROVE  UNCHANGED Service!vars
<1>1. pc'[t] = label /\ \A u \in Threads : u # t => pc'[u] = pc[u]
  BY DEF Goto, TypeInv, TypeOK
<1>2. \A d \in Desks : SameSeat(d)
  <2>1. ~Serving(t) /\ ~Serving(t)'
    BY <1>1 DEF Serving
  <2>2. QED
    BY <1>1, <2>1, SeatKept, EmptySeatKept DEF Threads
<1>3. \A s \in Students : s # t => SameView(s)
  BY <1>1, ViewKept DEF Threads
<1>4. t \in Students => SameView(t)
  BY DEF SameView, OfficeOf, Answered
<1>5. QED
  BY <1>2, <1>3, <1>4, StutterMaps

LEMMA LeaveMaps ==
  ASSUME TypeInv, NEW s \in Students, Leave(s)
  PROVE  Service!Next
<1>a. s \in Threads /\ s \notin Desks
  BY OfficeAssumption DEF Threads
<1>1. PICK label \in {"last", "done"} : Goto(s, label)
  BY DEF Leave
<1>2. /\ queue' = queue /\ info' = info /\ holder' = holder /\ killed' = killed
      /\ pc[s] = "leave" /\ pc'[s] = label
      /\ \A u \in Threads : u # s => pc'[u] = pc[u]
  BY <1>a, <1>1 DEF Leave, Goto, TypeInv, TypeOK
<1>3. \A d \in Desks : SameSeat(d)
  BY <1>a, <1>2, SeatKept DEF Threads
<1>4. \A u \in Students : u # s => SameView(u)
  BY <1>2, ViewKept DEF Threads
<1>5. StageOf(s) = "served" /\ StageOf(s)' = "left"
  BY <1>2 DEF StageOf
<1>6. OfficeOf(s)' = OfficeOf(s)
  BY <1>2 DEF OfficeOf, Answered
<1>7. Service!Move(s)
  BY <1>2, <1>3, <1>4, <1>5, <1>6, MoveMaps
<1>8. QED
  BY <1>7 DEF Service!Next

\* The process is killed when every student has left.
LEMMA EndMaps ==
  ASSUME TypeInv, AllGone, NEW s \in Students, EndProcess(s)
  PROVE  Service!Next
<1>1. pc' = pc /\ queue' = queue /\ info' = info /\ holder' = holder /\ killed' = TRUE
  BY DEF EndProcess
<1>2. \A u \in Students : pc[u] \in {"last", "done"}
  <2>1. num = 0
    BY DEF EndProcess, AllGone
  <2>2. IsFiniteSet(Staying) /\ Cardinality(Staying) = 0
    BY <2>1, OfficeAssumption, FS_Subset DEF TypeInv, NumCountsStudents, Staying
  <2>3. Staying = {}
    BY <2>2, FS_EmptySet
  <2>4. QED
    BY <2>3 DEF Staying
<1>3. \A u \in Students : StageOf(u) = "left" /\ SameView(u)
  BY <1>1, <1>2, ViewKept DEF StageOf
<1>4. \A d \in Desks : SameSeat(d)
  BY <1>1, SeatKept
<1>5. Service!Close
  BY <1>1, <1>3, <1>4 DEF Service!Close, SameView, SameSeat, Seat
<1>6. QED
  BY <1>5 DEF Service!Next

LEMMA ServiceStep ==
  TypeInv /\ Journeys /\ Journeys' /\ AllGone /\ AllPlaced /\ [Next]_vars
    => [Service!Next]_Service!vars
<1> SUFFICES ASSUME TypeInv, Journeys, Journeys', AllGone, AllPlaced, [Next]_vars
             PROVE  [Service!Next]_Service!vars
  OBVIOUS
<1>1. ASSUME UNCHANGED <<pc, info, queue, holder, killed>> PROVE UNCHANGED Service!vars
  <2>1. \A s \in Students : SameView(s)
    BY <1>1, ViewKept
  <2>2. \A d \in Desks : SameSeat(d)
    BY <1>1, SeatKept
  <2>3. QED
    BY <1>1, <2>1, <2>2, StutterMaps
<1>2. ASSUME NEW t \in Threads, SendOrWait(t) PROVE [Service!Next]_Service!vars
  <2>1. CASE SendWait(t) \/ ReceiveWait(t)
    BY <1>1, <2>1 DEF SendWait, ReceiveWait
  <2>2. QED
    BY <1>2, <2>1, FillMaps, CountMaps DEF SendOrWait
<1>3. ASSUME NEW d \in Desks, DeskStep(d) PROVE [Service!Next]_Service!vars
  <2>1. CASE DeskWait(d)
    BY <1>1, <2>1 DEF DeskWait
  <2>2. CASE TakeUrgentCount(d)
    <3>1. d \in Threads /\ d \notin Students
      BY OfficeAssumption DEF Threads
    <3>2. QED
      BY <2>2, <3>1, QuietMaps DEF TakeUrgentCount
  <2>3. QED
    BY <1>2, <1>3, <2>1, <2>2 DEF DeskStep, Threads
<1>4. ASSUME NEW o \in Offices, OfficeStep(o) PROVE [Service!Next]_Service!vars
  <2>1. o \in Desks /\ o \in Threads /\ o \notin Students
    BY OfficeAssumption DEF Desks, Threads
  <2>2. CASE OfficeInit(o) \/ TakeNormalCount(o)
    BY <2>1, <2>2, QuietMaps DEF OfficeInit, TakeNormalCount
  <2>3. CASE OfficeServeUrgent(o) \/ OfficeServeNormal(o)
    BY <2>1, <2>3, OfficeResult, DeskReceiveMaps
  <2>4. QED
    BY <1>3, <1>4, <2>1, <2>2, <2>3 DEF OfficeStep
<1>5. ASSUME SpecialStep PROVE [Service!Next]_Service!vars
  <2>1. SpecialOffice \in Desks /\ SpecialOffice \in Threads
    BY DEF Desks, Threads
  <2>2. CASE SpecialServe
    <3>1. Oldest(SpecialOffice) \in Info
      BY <2>1, <2>2, OldestType DEF SpecialServe, Receive, TypeInv
    <3>2. QED
      BY <2>1, <2>2, <3>1, DeskReceiveMaps DEF SpecialServe
  <2>3. QED
    BY <1>3, <1>5, <2>1, <2>2 DEF SpecialStep
<1>6. ASSUME NEW s \in Students, StudentStep(s) PROVE [Service!Next]_Service!vars
  <2>1. s \in Threads
    BY DEF Threads
  <2>2. CASE StudentInit(s)
    <3>1. pc[s] = "start" /\ pc'[s] = "askNormal"
      BY <2>1, <2>2 DEF StudentInit, Goto, TypeInv, TypeOK
    <3>2. StageOf(s)' = StageOf(s)
      BY <3>1 DEF StageOf
    <3>3. QED
      BY <2>1, <2>2, <3>1, <3>2, QuietMaps DEF StudentInit
  <2>3. QED
    BY <1>2, <1>6, <2>1, <2>2, StudentReceiveMaps, LeaveMaps, EndMaps DEF StudentStep
<1>7. CASE UNCHANGED vars
  BY <1>1, <1>7 DEF vars
<1>8. QED
  BY <1>4, <1>5, <1>6, <1>7 DEF Next, Ended

LEMMA InitService == Init => Service!Init /\ AllPlaced
<1> SUFFICES ASSUME Init PROVE Service!Init /\ AllPlaced
  OBVIOUS
<1>1. \A s \in Students : pc[s] = "start" /\ info[s].office = SpecialOffice
  BY OfficeAssumption DEF Init, Threads, Desks
<1>2. \A d \in Desks : ~Serving(d)
  BY DEF Init, Threads, Serving
<1>3. \A s \in Students : ~Answered(s)
  BY DEF Init, Answered, Buffers
<1>4. \A s \in Students : StageOf(s) = "outside" /\ OfficeOf(s) = SpecialOffice
  BY <1>1, <1>3 DEF StageOf, OfficeOf
<1>5. Service!Init
  BY <1>2, <1>4 DEF Service!Init, Service!Desks, Desks, Init
<1>6. AllPlaced
  BY <1>1 DEF AllPlaced, Placed, Asking, Awaiting
<1>7. QED
  BY <1>5, <1>6

\* The threads, queues, locks and counters of Lab3.c do what OfficeService
\* promises: every student is called by one free desk at a time, in the order
\* of its stages, and goes back to the office that called it first.
THEOREM OfficesServe == Spec => ImplementsService
<1>1. Init => Service!Init /\ AllPlaced
  BY InitService
<1>2. OfficeInv /\ OfficeInv' /\ AllPlaced /\ [Next]_vars
        => AllPlaced' /\ [Service!Next]_Service!vars
  BY PlacedStep, ServiceStep DEF OfficeInv
<1>3. QED
  BY <1>1, <1>2, OfficeAlways, PTL DEF Spec, ImplementsService, Service!Spec

=============================================================================
