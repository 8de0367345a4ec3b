---------------------------- MODULE SignalServer ----------------------------
(***************************************************************************)
(* Lab1/Lab1.3.c: two client threads read numbers from their files and ask *)
(* for each to be doubled by sending SIGUSR1 to their own process; the     *)
(* handler is the server.  It runs in any thread of the process, main()'s  *)
(* too, on top of what the thread is doing; while it runs the signal is    *)
(* blocked in that thread, and a signal sent while one is pending is lost. *)
(* The shared number itself is left out.                                   *)
(***************************************************************************)
EXTENDS Naturals

CONSTANTS
  Clients,  \* the client threads
  Main,     \* the thread of main()
  MaxReads  \* bound: numbers in a file

AllThreads == Clients \cup {Main}

VARIABLES
  pc,           \* where each client is in thread_func
  left,         \* numbers still to read from its file
  mutex, ready, \* the semaphores
  pending,      \* SIGUSR1 is pending
  handler,      \* where each thread is in server_func
  merged,       \* history: a signal was sent while one was pending
  ended         \* main() has returned

vars == <<pc, left, mutex, ready, pending, handler, merged, ended>>

Init ==
  /\ pc = [c \in Clients |-> "fopen"]
  /\ left \in [Clients -> 0 .. MaxReads]
  /\ mutex = 1 /\ ready = 0
  /\ pending = FALSE /\ merged = FALSE /\ ended = FALSE
  /\ handler = [t \in AllThreads |-> "none"]

At(c, label) == ~ended /\ pc[c] = label /\ handler[c] = "none"
Goto(c, label) == pc' = [pc EXCEPT ![c] = label]

Fopen(c) ==
  /\ At(c, "fopen")
  /\ \E label \in {"top", "done"} : Goto(c, label)
  /\ UNCHANGED <<left, mutex, ready, pending, handler, merged, ended>>

\* sem_wait(mutex) before the number is read and before it is printed.
WaitMutex(c, from, to) ==
  /\ At(c, from) /\ mutex > 0
  /\ mutex' = mutex - 1
  /\ Goto(c, to)
  /\ UNCHANGED <<left, ready, pending, handler, merged, ended>>

Fread(c) ==
  /\ At(c, "reading")
  /\ IF left[c] = 0 THEN Goto(c, "done") /\ UNCHANGED left
     ELSE Goto(c, "kill") /\ left' = [left EXCEPT ![c] = @ - 1]
  /\ mutex' = mutex + 1
  /\ UNCHANGED <<ready, pending, handler, merged, ended>>

Kill(c) ==
  /\ At(c, "kill")
  /\ merged' = (merged \/ pending)
  /\ pending' = TRUE
  /\ Goto(c, "waitReady")
  /\ UNCHANGED <<left, mutex, ready, handler, ended>>

WaitReady(c) ==
  /\ At(c, "waitReady") /\ ready > 0
  /\ ready' = ready - 1
  /\ Goto(c, "result")
  /\ UNCHANGED <<left, mutex, pending, handler, merged, ended>>

Printed(c) ==
  /\ At(c, "printing")
  /\ mutex' = mutex + 1
  /\ Goto(c, "top")
  /\ UNCHANGED <<left, ready, pending, handler, merged, ended>>

Client(c) ==
  \/ Fopen(c) \/ WaitMutex(c, "top", "reading") \/ Fread(c) \/ Kill(c)
  \/ WaitReady(c) \/ WaitMutex(c, "result", "printing") \/ Printed(c)

-----------------------------------------------------------------------------
(* server_func() in thread t                                               *)

Runs(t, label) == ~ended /\ handler[t] = label
Handle(t, label) == handler' = [handler EXCEPT ![t] = label]
Alive == {Main} \cup {c \in Clients : pc[c] # "done"}

Deliver(t) ==
  /\ Runs(t, "none") /\ pending /\ t \in Alive
  /\ pending' = FALSE
  /\ Handle(t, "wait")
  /\ UNCHANGED <<pc, left, mutex, ready, merged, ended>>

HandlerWait(t) ==
  /\ Runs(t, "wait") /\ mutex > 0
  /\ mutex' = mutex - 1
  /\ Handle(t, "double")
  /\ UNCHANGED <<pc, left, ready, pending, merged, ended>>

HandlerLeave(t) ==
  /\ Runs(t, "double")
  /\ mutex' = mutex + 1
  /\ Handle(t, "post")
  /\ UNCHANGED <<pc, left, ready, pending, merged, ended>>

\* Mutant of Answered: sem_post(ready) is left out.
AnsweredNever == ready

Answered == ready + 1

HandlerPost(t) ==
  /\ Runs(t, "post")
  /\ ready' = Answered
  /\ Handle(t, "none")
  /\ UNCHANGED <<pc, left, mutex, pending, merged, ended>>

Handler(t) == Deliver(t) \/ HandlerWait(t) \/ HandlerLeave(t) \/ HandlerPost(t)

\* main() has joined both clients.
MainReturns ==
  /\ Runs(Main, "none") /\ \A c \in Clients : pc[c] = "done"
  /\ ended' = TRUE
  /\ UNCHANGED <<pc, left, mutex, ready, pending, handler, merged>>

Next ==
  \/ \E c \in Clients : Client(c)
  \/ \E t \in AllThreads : Handler(t)
  \/ MainReturns

\* The kernel runs every thread and delivers what is pending.
Fairness ==
  /\ \A c \in Clients : WF_vars(Client(c))
  /\ \A t \in AllThreads : WF_vars(Handler(t))
  /\ WF_vars(MainReturns)

Spec == Init /\ [][Next]_vars /\ Fairness
-----------------------------------------------------------------------------
(* Properties                                                              *)

\* The handler waits for the mutex that the thread it has interrupted holds.
HandlerBlocksItself ==
  \E c \in Clients : handler[c] = "wait" /\ pc[c] \in {"reading", "printing"}

\* Every request is answered and the program ends, unless two signals became one
\* or a handler ran on top of a thread that held the mutex.
EndsUnlessSignalLost == <>(ended \/ merged \/ HandlerBlocksItself)
=============================================================================
