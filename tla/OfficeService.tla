---------------------------- MODULE OfficeService ----------------------------
(***************************************************************************)
(* What the offices of Lab3 promise their students, without queues, locks  *)
(* or counters: a student is called by one free office; if that office     *)
(* sends it to the special office it is served there once and then once    *)
(* more by the same office; nobody is at two desks, a desk has one         *)
(* student, and the place closes only when everyone has left.              *)
(***************************************************************************)
CONSTANTS Students, Offices, SpecialOffice, Nobody

VARIABLES
  stage,    \* how far each student has got
  office,   \* the office that called the student (SpecialOffice: none yet)
  serving,  \* the student at each desk
  closed    \* the process has ended

vars == <<stage, office, serving, closed>>

Desks == Offices \cup {SpecialOffice}
Stages == {"outside", "inNormal", "sentOn", "inSpecial", "sentBack",
           "inUrgent", "served", "left"}

Init ==
  /\ stage = [s \in Students |-> "outside"]
  /\ office = [s \in Students |-> SpecialOffice]
  /\ serving = [d \in Desks |-> Nobody]
  /\ closed = FALSE

\* A student moves on by itself: it enters a queue, or it leaves.
Move(s) ==
  /\ \E way \in {<<"outside", "inNormal">>, <<"sentOn", "inSpecial">>,
                <<"sentBack", "inUrgent">>, <<"served", "left">>} :
       stage[s] = way[1] /\ stage' = [stage EXCEPT ![s] = way[2]]
  /\ UNCHANGED <<office, serving, closed>>

\* Desk d calls a student that waits for it.
Call(d, s) ==
  /\ serving[d] = Nobody
  /\ s \notin {serving[e] : e \in Desks}
  /\ \/ stage[s] = "inNormal" /\ d \in Offices
     \/ stage[s] = "inSpecial" /\ d = SpecialOffice
     \/ stage[s] = "inUrgent" /\ d = office[s]
  /\ serving' = [serving EXCEPT ![d] = s]
  /\ UNCHANGED <<stage, office, closed>>

\* Desk d has finished with its student.
Dismiss(d, s) ==
  /\ serving[d] = s
  /\ serving' = [serving EXCEPT ![d] = Nobody]
  /\ \/ /\ stage[s] = "inNormal"
        /\ \E next \in {"served", "sentOn"} : stage' = [stage EXCEPT ![s] = next]
        /\ office' = [office EXCEPT ![s] = d]
     \/ /\ stage[s] = "inSpecial"
        /\ stage' = [stage EXCEPT ![s] = "sentBack"]
        /\ UNCHANGED office
     \/ /\ stage[s] = "inUrgent"
        /\ stage' = [stage EXCEPT ![s] = "served"]
        /\ UNCHANGED office
  /\ UNCHANGED closed

Close ==
  /\ \A s \in Students : stage[s] = "left"
  /\ closed' = TRUE
  /\ UNCHANGED <<stage, office, serving>>

Next ==
  \/ \E s \in Students : Move(s) \/ \E d \in Desks : Call(d, s) \/ Dismiss(d, s)
  \/ Close

Spec == Init /\ [][Next]_vars
=============================================================================
