------------------------ MODULE GrandCentralExecuter ------------------------
(***************************************************************************)
(* GrandCentralExecuter::DoDispatch.  The thread that finds no task        *)
(* remaining runs its own and then everybody's, until none remains; the    *)
(* others leave theirs in the queue and return.                            *)
(*                                                                         *)
(* A task is <<t, k>>, the k-th that thread t has posted.  It may post     *)
(* tasks itself, on the thread that runs it.                               *)
(***************************************************************************)
EXTENDS Integers, Sequences, FiniteSets

CONSTANTS
  Threads,
  MaxTasks    \* bound on the tasks of one thread

ASSUME MaxTasksNatural == MaxTasks \in Nat

Tasks  == Threads \X (Nat \ {0})
NoTask == <<>>

VARIABLES
  mRemainTaskCount,
  mCentralTaskQueue,
  pc,         \* "idle" | "push" | "pushFirst" | "pop" | "run"
  current,    \* the task each thread is running
  posted,     \* how many tasks each thread has posted
  done        \* auxiliary: how many of these have run

vars == <<mRemainTaskCount, mCentralTaskQueue, pc, current, posted, done>>

Init ==
  /\ mRemainTaskCount = 0
  /\ mCentralTaskQueue = <<>>
  /\ pc = [t \in Threads |-> "idle"]
  /\ current = [t \in Threads |-> NoTask]
  /\ posted = [t \in Threads |-> 0]
  /\ done = [t \in Threads |-> 0]

\* Mutant of Incremented: the task is not counted.
NotIncremented == mRemainTaskCount

Incremented == mRemainTaskCount + 1

\* Mutant of SomebodyRuns: off by one.
SomebodyElseRuns(count) == count > 2

\* The result of InterlockedIncrement64 says that another thread is at work.
SomebodyRuns(count) == count > 1

\* A thread, or the task it runs, calls DoDispatch.
DoDispatch(t) ==
  /\ pc[t] \in {"idle", "run"}
  /\ posted[t] < MaxTasks
  /\ mRemainTaskCount' = Incremented
  /\ pc' = [pc EXCEPT ![t] = IF SomebodyRuns(Incremented) THEN "push" ELSE "pushFirst"]
  /\ posted' = [posted EXCEPT ![t] = @ + 1]
  /\ UNCHANGED <<mCentralTaskQueue, current, done>>

\* Mutant of Pushed: a stack in place of the queue.
PushedInFront(t) == <<<<t, posted[t]>>>> \o mCentralTaskQueue

Pushed(t) == Append(mCentralTaskQueue, <<t, posted[t]>>)

\* Another thread is at work, or this one is further up its stack: leave the task there.
Push(t) ==
  /\ pc[t] = "push"
  /\ mCentralTaskQueue' = Pushed(t)
  /\ pc' = [pc EXCEPT ![t] = IF current[t] = NoTask THEN "idle" ELSE "run"]
  /\ UNCHANGED <<mRemainTaskCount, current, posted, done>>

PushFirst(t) ==
  /\ pc[t] = "pushFirst"
  /\ mCentralTaskQueue' = Pushed(t)
  /\ pc' = [pc EXCEPT ![t] = "pop"]
  /\ UNCHANGED <<mRemainTaskCount, current, posted, done>>

\* try_pop; while it finds nothing the thread spins.
TryPop(t) ==
  /\ pc[t] = "pop"
  /\ mCentralTaskQueue # <<>>
  /\ current' = [current EXCEPT ![t] = Head(mCentralTaskQueue)]
  /\ mCentralTaskQueue' = Tail(mCentralTaskQueue)
  /\ pc' = [pc EXCEPT ![t] = "run"]
  /\ UNCHANGED <<mRemainTaskCount, posted, done>>

\* Mutant of NoneRemains: leave when the queue is empty.
QueueIsEmpty(count) == mCentralTaskQueue = <<>>

\* The result of InterlockedDecrement64 says that this was the last task.
NoneRemains(count) == count = 0

\* The task returns, and the thread goes on unless none remains.
EndTask(t) ==
  /\ pc[t] = "run"
  /\ mRemainTaskCount' = mRemainTaskCount - 1
  /\ pc' = [pc EXCEPT ![t] = IF NoneRemains(mRemainTaskCount - 1) THEN "idle" ELSE "pop"]
  /\ done' = [done EXCEPT ![current[t][1]] = @ + 1]
  /\ current' = [current EXCEPT ![t] = NoTask]
  /\ UNCHANGED <<mCentralTaskQueue, posted>>

Step(t) == Push(t) \/ PushFirst(t) \/ TryPop(t) \/ EndTask(t)

Next == \E t \in Threads : DoDispatch(t) \/ Step(t)

Spec == Init /\ [][Next]_vars

\* Threads go on, and tasks return; nobody has to post any.
FairSpec == Spec /\ \A t \in Threads : WF_vars(Step(t))

-----------------------------------------------------------------------------
(* Correctness *)

TypeOK ==
  /\ mRemainTaskCount \in Nat
  /\ mCentralTaskQueue \in Seq(Tasks)
  /\ pc \in [Threads -> {"idle", "push", "pushFirst", "pop", "run"}]
  /\ current \in [Threads -> Tasks \cup {NoTask}]
  /\ posted \in [Threads -> 0..MaxTasks]
  /\ done \in [Threads -> Nat]

\* t is in the else branch of DoDispatch, or in a task called from there.
Executes(t) == pc[t] \in {"pushFirst", "pop", "run"} \/ current[t] # NoTask

\* Two threads never run tasks at the same time, nor does a task start inside another
\* ("somebody is already working": the test of the incremented count).
OneAtATime ==
  /\ \A t, u \in Threads : Executes(t) /\ Executes(u) => t = u
  /\ \A t \in Threads : pc[t] \in {"pushFirst", "pop"} => current[t] = NoTask

\* Tasks that were posted and have not returned.
Remaining == UNION {{t} \X (done[t] + 1..posted[t]) : t \in Threads}

\* The count is the number of these tasks.
CountExact == IsFiniteSet(Remaining) /\ mRemainTaskCount = Cardinality(Remaining)

\* While a task remains there is a thread that will run it ("whoever comes first takes care of
\* all of them"): it never leaves one that was counted and pushed late.
NoneForgotten == Remaining # {} => \E t \in Threads : Executes(t)

\* The task that runs, as a user sees it.
Running ==
  IF \E t \in Threads : current[t] # NoTask
  THEN current[CHOOSE t \in Threads : current[t] # NoTask]
  ELSE NoTask

Serial == INSTANCE SerialExecuter WITH running <- Running

\* DoDispatch runs every task, one at a time, once, and those of a thread in order.
ImplementsSerialExecuter == Serial!FairSpec
=============================================================================
