--------------------------- MODULE SerialExecuter ---------------------------
(***************************************************************************)
(* What DoDispatch promises to those who call it: tasks run one at a time, *)
(* each once, those of one thread in the order in which it posted them.    *)
(***************************************************************************)
EXTENDS Naturals

CONSTANTS Threads, NoTask

VARIABLES
  posted,     \* how many tasks each thread has posted
  done,       \* how many of these have run
  running     \* the task that runs, of whom and which, or NoTask

vars == <<posted, done, running>>

Init ==
  /\ posted = [t \in Threads |-> 0]
  /\ done = [t \in Threads |-> 0]
  /\ running = NoTask

Post(t) ==
  /\ posted' = [posted EXCEPT ![t] = @ + 1]
  /\ UNCHANGED <<done, running>>

Start(t) ==
  /\ running = NoTask
  /\ done[t] < posted[t]
  /\ running' = <<t, done[t] + 1>>
  /\ UNCHANGED <<posted, done>>

Finish(t) ==
  /\ running = <<t, done[t] + 1>>
  /\ running' = NoTask
  /\ done' = [done EXCEPT ![t] = @ + 1]
  /\ UNCHANGED posted

Next == \E t \in Threads : Post(t) \/ Start(t) \/ Finish(t)

Spec == Init /\ [][Next]_vars

\* Nobody's task waits forever.
FairSpec == Spec /\ \A t \in Threads : SF_vars(Start(t)) /\ WF_vars(Finish(t))
=============================================================================
