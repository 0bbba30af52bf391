--------------------- MODULE GrandCentralExecuter_proofs ---------------------
(***************************************************************************)
(* Proofs about GrandCentralExecuter, for any threads and any number of    *)
(* tasks.  The inductive invariant has three parts: who executes (Roles),  *)
(* which tasks are in the queue and in which order (Order), and how many   *)
(* remain (CountExact).                                                    *)
(***************************************************************************)
EXTENDS GrandCentralExecuter, FiniteSetTheorems, TLAPS

\* Somebody executes just when the count is positive: whoever raises it from zero, and until
\* it is zero again.
Roles ==
  /\ \A t \in Threads : pc[t] \in {"idle", "pushFirst", "pop"} => current[t] = NoTask
  /\ \A t \in Threads : pc[t] = "run" => current[t] # NoTask
  /\ \A t, u \in Threads : Executes(t) /\ Executes(u) => t = u
  /\ mRemainTaskCount > 0 <=> \E t \in Threads : Executes(t)

\* How many tasks of t are or were in the queue, and how many of these have been taken.
Queued(t) == IF pc[t] \in {"push", "pushFirst"} THEN posted[t] - 1 ELSE posted[t]
Begun(t)  == IF \E u \in Threads : current[u] = <<t, done[t] + 1>> THEN done[t] + 1 ELSE done[t]

Order ==
  /\ \A u \in Threads : current[u] # NoTask =>
        \E t \in Threads : current[u] = <<t, done[t] + 1>>
  /\ \A t \in Threads : Begun(t) <= Queued(t)
  /\ \A t \in Threads : \A i \in 1..Len(mCentralTaskQueue) :
        mCentralTaskQueue[i][1] = t => mCentralTaskQueue[i][2] \in Begun(t) + 1..Queued(t)
  /\ \A i, j \in 1..Len(mCentralTaskQueue) :
        i < j /\ mCentralTaskQueue[i][1] = mCentralTaskQueue[j][1] =>
          mCentralTaskQueue[i][2] < mCentralTaskQueue[j][2]
  /\ \A t \in Threads : \A k \in Begun(t) + 1..Queued(t) :
        \E i \in 1..Len(mCentralTaskQueue) : mCentralTaskQueue[i] = <<t, k>>

Inv == TypeOK /\ Roles /\ Order /\ CountExact

USE MaxTasksNatural

\* A task is never the mark for none.
LEMMA TaskIsPair ==
  ASSUME NEW a, NEW b
  PROVE  <<a, b>> # NoTask
BY DEF NoTask

LEMMA InvInit ==
  ASSUME Init
  PROVE  Inv
<1>1. TypeOK
  BY DEF Init, TypeOK
<1>2. Roles
  BY DEF Init, Roles, Executes
<1>3. Order
  <2>1. \A t \in Threads : Begun(t) = 0 /\ Queued(t) = 0
    BY TaskIsPair DEF Init, Begun, Queued
  <2>2. Len(mCentralTaskQueue) = 0
    BY DEF Init
  <2>3. QED
    BY <2>1, <2>2 DEF Init, Order
<1>4. CountExact
  <2>1. Remaining = {}
    <3>1. \A t \in Threads : {t} \X (done[t] + 1..posted[t]) = {}
      BY DEF Init
    <3>2. QED
      BY <3>1 DEF Remaining
  <2>2. QED
    BY <2>1, FS_EmptySet DEF Init, CountExact
<1>5. QED
  BY <1>1, <1>2, <1>3, <1>4 DEF Inv


\* Types of the two counts, and what Order says of them.
LEMMA CountsOfTasks ==
  ASSUME TypeOK, NEW t \in Threads
  PROVE  /\ Begun(t) \in Nat /\ done[t] \in Nat /\ done[t] <= Begun(t) /\ Begun(t) <= done[t] + 1
         /\ posted[t] \in 0..MaxTasks /\ posted[t] \in Nat
         /\ Queued(t) \in Int /\ Queued(t) <= posted[t]
BY DEF TypeOK, Begun, Queued

\* A thread that is about to push has posted that task.
LEMMA PushedIsPosted ==
  ASSUME Inv, NEW t \in Threads, pc[t] \in {"push", "pushFirst"}
  PROVE  posted[t] \in Nat \ {0} /\ Queued(t) = posted[t] - 1 /\ <<t, posted[t]>> \in Tasks
<1>1. Begun(t) \in Nat /\ Begun(t) <= Queued(t) /\ posted[t] \in Nat
  BY CountsOfTasks DEF Inv, Order
<1>2. Queued(t) = posted[t] - 1
  BY DEF Queued
<1>3. QED
  BY <1>1, <1>2 DEF Tasks

\* Only the thread that executes has a task, and then the count is positive.
LEMMA Executer ==
  ASSUME Inv, NEW t \in Threads, Executes(t)
  PROVE  /\ mRemainTaskCount \in Nat \ {0}
         /\ \A u \in Threads : u # t => ~Executes(u) /\ current[u] = NoTask
BY DEF Inv, TypeOK, Roles, Executes

\* The task that a thread runs is the next of the thread that posted it.
LEMMA CurrentIsNext ==
  ASSUME Inv, NEW u \in Threads, pc[u] = "run"
  PROVE  \E t \in Threads : current[u] = <<t, done[t] + 1>> /\ current[u][1] = t
<1>1. current[u] # NoTask
  BY DEF Inv, Roles
<1>2. QED
  BY <1>1 DEF Inv, Order

LEMMA TypeStep ==
  ASSUME Inv, Next
  PROVE  TypeOK'
<1>1. ASSUME NEW t \in Threads, DoDispatch(t)
      PROVE  TypeOK'
  BY <1>1 DEF DoDispatch, Incremented, Inv, TypeOK
<1>2. ASSUME NEW t \in Threads, Push(t)
      PROVE  TypeOK'
  <2>1. <<t, posted[t]>> \in Tasks
    BY <1>2, PushedIsPosted DEF Push
  <2>2. mCentralTaskQueue' \in Seq(Tasks)
    BY <1>2, <2>1 DEF Push, Pushed, Inv, TypeOK
  <2>3. QED
    BY <1>2, <2>2 DEF Push, Inv, TypeOK
<1>3. ASSUME NEW t \in Threads, PushFirst(t)
      PROVE  TypeOK'
  <2>1. <<t, posted[t]>> \in Tasks
    BY <1>3, PushedIsPosted DEF PushFirst
  <2>2. mCentralTaskQueue' \in Seq(Tasks)
    BY <1>3, <2>1 DEF PushFirst, Pushed, Inv, TypeOK
  <2>3. QED
    BY <1>3, <2>2 DEF PushFirst, Inv, TypeOK
<1>4. ASSUME NEW t \in Threads, TryPop(t)
      PROVE  TypeOK'
  <2>1. mCentralTaskQueue' \in Seq(Tasks) /\ Head(mCentralTaskQueue) \in Tasks
    BY <1>4 DEF TryPop, Inv, TypeOK
  <2>2. QED
    BY <1>4, <2>1 DEF TryPop, Inv, TypeOK
<1>5. ASSUME NEW t \in Threads, EndTask(t)
      PROVE  TypeOK'
  <2>1. mRemainTaskCount - 1 \in Nat
    BY <1>5, Executer DEF EndTask, Executes
  <2>2. PICK u \in Threads : current[t][1] = u
    BY <1>5, CurrentIsNext DEF EndTask
  <2>3. done' \in [Threads -> Nat]
    BY <1>5, <2>2 DEF EndTask, Inv, TypeOK
  <2>4. /\ current' \in [Threads -> Tasks \cup {NoTask}]
        /\ pc' \in [Threads -> {"idle", "push", "pushFirst", "pop", "run"}]
    BY <1>5 DEF EndTask, Inv, TypeOK
  <2>5. QED
    BY <1>5, <2>1, <2>3, <2>4 DEF EndTask, Inv, TypeOK
<1>6. QED
  BY <1>1, <1>2, <1>3, <1>4, <1>5 DEF Next, Step

LEMMA RolesStep ==
  ASSUME Inv, Next
  PROVE  Roles'
<1> USE DEF Inv, TypeOK, Roles, Executes
<1>1. ASSUME NEW t \in Threads, DoDispatch(t)
      PROVE  Roles'
  <2>1. CASE mRemainTaskCount > 0
    BY <1>1, <2>1 DEF DoDispatch, Incremented, SomebodyRuns
  <2>2. CASE mRemainTaskCount = 0
    <3>1. \A u \in Threads : ~Executes(u)
      BY <2>2
    <3>2. pc[t] = "idle" /\ pc' = [pc EXCEPT ![t] = "pushFirst"] /\ mRemainTaskCount' = 1
          /\ current' = current
      BY <1>1, <2>2, <3>1 DEF DoDispatch, Incremented, SomebodyRuns
    <3>3. QED
      BY <3>1, <3>2
  <2>3. QED
    BY <2>1, <2>2
<1>2. ASSUME NEW t \in Threads, Push(t)
      PROVE  Roles'
  BY <1>2 DEF Push
<1>3. ASSUME NEW t \in Threads, PushFirst(t)
      PROVE  Roles'
  BY <1>3 DEF PushFirst
<1>4. ASSUME NEW t \in Threads, TryPop(t)
      PROVE  Roles'
  <2>1. Head(mCentralTaskQueue) \in Tasks
    BY <1>4 DEF TryPop
  <2>2. Head(mCentralTaskQueue) # NoTask
    <3>1. PICK a \in Threads, b \in Nat : Head(mCentralTaskQueue) = <<a, b>>
      BY <2>1 DEF Tasks
    <3>2. QED
      BY <3>1, TaskIsPair
  <2>3. QED
    BY <1>4, <2>2 DEF TryPop
<1>5. ASSUME NEW t \in Threads, EndTask(t)
      PROVE  Roles'
  <2>1. mRemainTaskCount \in Nat \ {0} /\ \A u \in Threads : u # t => ~Executes(u)
    BY <1>5, Executer DEF EndTask
  <2>2. \A u \in Threads : u # t => pc'[u] = pc[u] /\ current'[u] = current[u]
    BY <1>5 DEF EndTask
  <2>3. current'[t] = NoTask /\ pc'[t] = IF mRemainTaskCount - 1 = 0 THEN "idle" ELSE "pop"
    BY <1>5 DEF EndTask, NoneRemains
  <2>4. mRemainTaskCount' = mRemainTaskCount - 1
    BY <1>5 DEF EndTask
  <2> HIDE DEF Inv, TypeOK, Roles, Executes
  <2>5. \A u \in Threads : u # t => ~Executes(u)'
    BY <2>1, <2>2 DEF Executes
  <2>6. Executes(t)' <=> mRemainTaskCount - 1 # 0
    BY <2>3 DEF Executes
  <2>7. mRemainTaskCount' > 0 <=> \E u \in Threads : Executes(u)'
    BY <2>1, <2>4, <2>5, <2>6
  <2>8. \A u \in Threads : pc'[u] \in {"idle", "pushFirst", "pop"} => current'[u] = NoTask
    BY <2>2, <2>3 DEF Inv, Roles
  <2>9. \A u \in Threads : pc'[u] = "run" => current'[u] # NoTask
    BY <2>2, <2>3 DEF Inv, Roles
  <2>10. QED
    BY <2>5, <2>7, <2>8, <2>9 DEF Roles
<1>6. QED
  BY <1>1, <1>2, <1>3, <1>4, <1>5 DEF Next, Step

-----------------------------------------------------------------------------
(* The order of the queue *)

\* Order names the tasks of the queue: each is a pair.
LEMMA QueueOfTasks ==
  ASSUME TypeOK, NEW i \in 1..Len(mCentralTaskQueue)
  PROVE  /\ mCentralTaskQueue[i][1] \in Threads /\ mCentralTaskQueue[i][2] \in Nat
         /\ mCentralTaskQueue[i] = <<mCentralTaskQueue[i][1], mCentralTaskQueue[i][2]>>
<1>1. mCentralTaskQueue[i] \in Threads \X (Nat \ {0})
  BY DEF TypeOK, Tasks
<1>2. QED
  BY <1>1

LEMMA DispatchKeepsOrder ==
  ASSUME Inv, NEW t \in Threads, DoDispatch(t)
  PROVE  Order'
<1>1. \A u \in Threads : Queued(u)' = Queued(u)
  BY DEF DoDispatch, Queued, Inv, TypeOK, SomebodyRuns
<1>2. \A u \in Threads : Begun(u)' = Begun(u)
  BY DEF DoDispatch, Begun
<1>3. UNCHANGED <<mCentralTaskQueue, current, done>>
  BY DEF DoDispatch
<1>4. QED
  BY <1>1, <1>2, <1>3 DEF Inv, Order

\* Both branches of DoDispatch put the task behind the others.
LEMMA PushKeepsOrder ==
  ASSUME Inv, NEW t \in Threads, Push(t) \/ PushFirst(t)
  PROVE  Order'
<1> DEFINE q == mCentralTaskQueue
           n == Len(q)
<1>1. /\ pc[t] \in {"push", "pushFirst"} /\ q' = Append(q, <<t, posted[t]>>)
      /\ UNCHANGED <<current, posted, done>>
      /\ pc'[t] \notin {"push", "pushFirst"}
      /\ \A u \in Threads : u # t => pc'[u] = pc[u]
  BY DEF Push, PushFirst, Pushed, Inv, TypeOK
<1>2. posted[t] \in Nat \ {0} /\ Queued(t) = posted[t] - 1
  BY <1>1, PushedIsPosted
<1>3. Queued(t)' = posted[t] /\ \A u \in Threads : u # t => Queued(u)' = Queued(u)
  BY <1>1 DEF Queued
<1>4. \A u \in Threads : Begun(u)' = Begun(u)
  BY <1>1 DEF Begun
<1>5. \A u \in Threads : Begun(u) \in Nat /\ Queued(u) \in Int /\ Begun(u) <= Queued(u)
  BY CountsOfTasks DEF Inv, Order
<1>6. q \in Seq(Tasks) /\ n \in Nat /\ Len(q') = n + 1
      /\ (\A i \in 1..n : q'[i] = q[i]) /\ q'[n + 1] = <<t, posted[t]>>
  BY <1>1 DEF Inv, TypeOK
<1>7. \A u \in Threads : \A i \in 1..n : q[i][1] = u => q[i][2] \in Begun(u) + 1..Queued(u)
  BY DEF Inv, Order
<1>8. \A i, j \in 1..n : i < j /\ q[i][1] = q[j][1] => q[i][2] < q[j][2]
  BY DEF Inv, Order
<1>9. \A u \in Threads : \A k \in Begun(u) + 1..Queued(u) : \E i \in 1..n : q[i] = <<u, k>>
  BY DEF Inv, Order
<1>10. (\A u \in Threads : current[u] # NoTask => \E v \in Threads : current[u] = <<v, done[v] + 1>>)'
  BY <1>1 DEF Inv, Order
<1>11. \A u \in Threads : Begun(u)' <= Queued(u)'
  BY <1>2, <1>3, <1>4, <1>5
<1> HIDE DEF q, n
<1>12. \A u \in Threads : \A i \in 1..n + 1 :
          q'[i][1] = u => q'[i][2] \in Begun(u)' + 1..Queued(u)'
  <2> SUFFICES ASSUME NEW u \in Threads, NEW i \in 1..n + 1, q'[i][1] = u
               PROVE  q'[i][2] \in Begun(u)' + 1..Queued(u)'
    OBVIOUS
  <2>1. CASE i \in 1..n
    <3>1. q'[i][2] \in Begun(u) + 1..Queued(u)
      BY <1>6, <1>7, <2>1
    <3>2. Begun(u)' = Begun(u) /\ Queued(u)' >= Queued(u) /\ Queued(u)' \in Int
      BY <1>2, <1>3, <1>4, <1>5
    <3>3. QED
      BY <1>5, <3>1, <3>2
  <2>2. CASE i = n + 1
    <3>1. u = t /\ q'[i][2] = posted[t]
      BY <1>6, <2>2
    <3>2. QED
      BY <1>2, <1>3, <1>4, <1>5, <3>1
  <2>3. QED
    BY <1>6, <2>1, <2>2
<1>13. \A i, j \in 1..n + 1 : i < j /\ q'[i][1] = q'[j][1] => q'[i][2] < q'[j][2]
  <2> SUFFICES ASSUME NEW i \in 1..n + 1, NEW j \in 1..n + 1, i < j, q'[i][1] = q'[j][1]
               PROVE  q'[i][2] < q'[j][2]
    OBVIOUS
  <2>1. i \in 1..n /\ q'[i] = q[i]
    BY <1>6
  <2>2. CASE j \in 1..n
    BY <1>6, <1>8, <2>1, <2>2
  <2>3. CASE j = n + 1
    <3>1. q'[j][1] = t /\ q'[j][2] = posted[t]
      BY <1>6, <2>3
    <3>2. q[i][2] \in Begun(t) + 1..Queued(t)
      BY <1>7, <2>1, <3>1
    <3>3. QED
      BY <1>2, <1>5, <2>1, <3>1, <3>2
  <2>4. QED
    BY <1>6, <2>2, <2>3
<1>14. \A u \in Threads : \A k \in Begun(u)' + 1..Queued(u)' : \E i \in 1..n + 1 : q'[i] = <<u, k>>
  <2> TAKE u \in Threads
  <2> TAKE k \in Begun(u)' + 1..Queued(u)'
  <2>1. CASE u = t /\ k = posted[t]
    BY <1>6, <2>1
  <2>2. CASE ~(u = t /\ k = posted[t])
    <3>1. k \in Begun(u) + 1..Queued(u)
      BY <1>2, <1>3, <1>4, <1>5, <2>2
    <3>2. PICK i \in 1..n : q[i] = <<u, k>>
      BY <1>9, <3>1
    <3>3. QED
      BY <1>6, <3>2
  <2>3. QED
    BY <2>1, <2>2
<1>15. QED
  BY <1>6, <1>10, <1>11, <1>12, <1>13, <1>14 DEF Order, q, n

\* What is popped is the next task of its thread, and until then nothing was running.
LEMMA HeadIsNext ==
  ASSUME Inv, NEW u \in Threads, TryPop(u)
  PROVE  /\ \A v \in Threads : current[v] = NoTask
         /\ \A v \in Threads : Begun(v) = done[v]
         /\ \E t \in Threads : /\ Head(mCentralTaskQueue) = <<t, done[t] + 1>>
                               /\ done[t] + 1 <= Queued(t)
<1> DEFINE q == mCentralTaskQueue
           n == Len(q)
<1>1. \A v \in Threads : current[v] = NoTask
  BY Executer DEF TryPop, Inv, Roles, Executes
<1>2. \A v \in Threads : Begun(v) = done[v]
  BY <1>1, TaskIsPair DEF Begun
<1>3. q \in Seq(Tasks) /\ q # <<>> /\ n \in Nat \ {0} /\ Head(q) = q[1] /\ 1 \in 1..n
  BY DEF TryPop, Inv, TypeOK
<1>4. PICK t \in Threads : q[1][1] = t /\ q[1] = <<t, q[1][2]>>
  BY <1>3, QueueOfTasks DEF Inv
<1>5. q[1][2] \in done[t] + 1..Queued(t)
  BY <1>2, <1>3, <1>4 DEF Inv, Order
<1>6. done[t] \in Nat /\ Queued(t) \in Int
  BY CountsOfTasks DEF Inv
<1>7. q[1][2] = done[t] + 1
  <2>1. done[t] + 1 \in Begun(t) + 1..Queued(t)
    BY <1>2, <1>5, <1>6
  <2>2. PICK i \in 1..n : q[i] = <<t, done[t] + 1>>
    BY <2>1 DEF Inv, Order
  <2>3. i > 1 => q[1][2] < q[i][2]
    BY <1>3, <1>4, <2>2 DEF Inv, Order
  <2>4. q[i][2] = done[t] + 1
    BY <2>2
  <2>5. CASE i = 1
    BY <2>4, <2>5
  <2>6. CASE i # 1
    BY <1>3, <1>5, <1>6, <2>3, <2>4, <2>6
  <2>7. QED
    BY <2>5, <2>6
<1>8. QED
  BY <1>1, <1>2, <1>3, <1>4, <1>5, <1>6, <1>7

LEMMA PopKeepsOrder ==
  ASSUME Inv, NEW u \in Threads, TryPop(u)
  PROVE  Order'
<1> DEFINE q == mCentralTaskQueue
           n == Len(q)
<1>1. /\ pc[u] = "pop" /\ pc' = [pc EXCEPT ![u] = "run"] /\ q # <<>> /\ q' = Tail(q)
      /\ current' = [current EXCEPT ![u] = Head(q)]
      /\ UNCHANGED <<posted, done>>
  BY DEF TryPop
<1>2. PICK t \in Threads : Head(q) = <<t, done[t] + 1>> /\ done[t] + 1 <= Queued(t)
  BY HeadIsNext
<1>3. (\A v \in Threads : current[v] = NoTask) /\ (\A v \in Threads : Begun(v) = done[v])
  BY HeadIsNext
<1>4. \A v \in Threads : Queued(v)' = Queued(v) /\ Queued(v) \in Int /\ done[v] \in Nat
                         /\ done[v] <= Queued(v)
  BY <1>1, <1>3, CountsOfTasks DEF Queued, Inv, TypeOK, Order
<1>5. current'[u] = <<t, done[t] + 1>> /\ \A v \in Threads : v # u => current'[v] = NoTask
  BY <1>1, <1>2, <1>3 DEF Inv, TypeOK
<1>6. Begun(t)' = done[t] + 1 /\ \A v \in Threads : v # t => Begun(v)' = done[v]
  <2>1. done' = done
    BY <1>1
  <2>2. Begun(t)' = done[t] + 1
    BY <1>5, <2>1 DEF Begun
  <2>3. ASSUME NEW v \in Threads, v # t
        PROVE  Begun(v)' = done[v]
    <3>1. <<t, done[t] + 1>> # <<v, done[v] + 1>>
      BY <2>3
    <3>2. \A w \in Threads : current'[w] # <<v, done[v] + 1>>
      BY <1>5, <3>1, TaskIsPair
    <3>3. QED
      BY <2>1, <3>2 DEF Begun
  <2>4. QED
    BY <2>2, <2>3
<1>7. q \in Seq(Tasks) /\ n \in Nat \ {0} /\ Len(q') = n - 1 /\ q[1] = <<t, done[t] + 1>>
      /\ \A i \in 1..n - 1 : q'[i] = q[i + 1]
  BY <1>1, <1>2 DEF Inv, TypeOK
<1>8. \A v \in Threads : \A i \in 1..n : q[i][1] = v => q[i][2] \in done[v] + 1..Queued(v)
  BY <1>3 DEF Inv, Order
<1>9. \A i, j \in 1..n : i < j /\ q[i][1] = q[j][1] => q[i][2] < q[j][2]
  BY DEF Inv, Order
<1>10. \A v \in Threads : \A k \in done[v] + 1..Queued(v) : \E i \in 1..n : q[i] = <<v, k>>
  BY <1>3 DEF Inv, Order
<1>11. \A v \in Threads : current'[v] # NoTask => \E w \in Threads : current'[v] = <<w, done'[w] + 1>>
  BY <1>1, <1>5
<1>12. \A v \in Threads : Begun(v)' <= Queued(v)'
  BY <1>2, <1>4, <1>6
<1> HIDE DEF q, n
<1>13. \A v \in Threads : \A i \in 1..n - 1 :
          q'[i][1] = v => q'[i][2] \in Begun(v)' + 1..Queued(v)'
  <2> SUFFICES ASSUME NEW v \in Threads, NEW i \in 1..n - 1, q'[i][1] = v
               PROVE  q'[i][2] \in Begun(v)' + 1..Queued(v)'
    OBVIOUS
  <2>1. i + 1 \in 1..n /\ 1 \in 1..n /\ q'[i] = q[i + 1] /\ q[i + 1][1] = v
    BY <1>7
  <2>2. q[i + 1][2] \in done[v] + 1..Queued(v)
    BY <1>8, <2>1
  <2>3. CASE v = t
    <3>1. q[1][2] < q[i + 1][2]
      BY <1>7, <1>9, <2>1, <2>3
    <3>2. q[1][2] = done[t] + 1
      BY <1>7
    <3>3. QED
      BY <1>4, <1>6, <2>1, <2>2, <2>3, <3>1, <3>2
  <2>4. CASE v # t
    BY <1>4, <1>6, <2>1, <2>2, <2>4
  <2>5. QED
    BY <2>3, <2>4
<1>14. \A i, j \in 1..n - 1 : i < j /\ q'[i][1] = q'[j][1] => q'[i][2] < q'[j][2]
  <2> TAKE i, j \in 1..n - 1
  <2>1. i + 1 \in 1..n /\ j + 1 \in 1..n /\ q'[i] = q[i + 1] /\ q'[j] = q[j + 1]
        /\ (i < j => i + 1 < j + 1)
    BY <1>7
  <2>2. QED
    BY <1>9, <2>1
<1>15. \A v \in Threads : \A k \in Begun(v)' + 1..Queued(v)' : \E i \in 1..n - 1 : q'[i] = <<v, k>>
  <2> TAKE v \in Threads
  <2> TAKE k \in Begun(v)' + 1..Queued(v)'
  <2>1. k \in done[v] + 1..Queued(v) /\ ~(v = t /\ k = done[t] + 1)
    BY <1>4, <1>6
  <2>2. PICK i \in 1..n : q[i] = <<v, k>>
    BY <1>10, <2>1
  <2>3. i # 1
    BY <1>7, <2>1, <2>2
  <2>4. i - 1 \in 1..n - 1 /\ q'[i - 1] = q[i]
    BY <1>7, <2>2, <2>3
  <2>5. QED
    BY <2>2, <2>4
<1>16. QED
  BY <1>7, <1>11, <1>12, <1>13, <1>14, <1>15 DEF Order, q, n

\* What the end of a task changes.
LEMMA EndedTask ==
  ASSUME Inv, NEW u \in Threads, EndTask(u)
  PROVE  /\ \A v \in Threads : current'[v] = NoTask
         /\ \E t \in Threads :
              /\ current[u] = <<t, done[t] + 1>> /\ done' = [done EXCEPT ![t] = @ + 1]
              /\ Begun(t) = done[t] + 1 /\ Begun(t)' = Begun(t)
              /\ \A v \in Threads : v # t => Begun(v) = done[v] /\ Begun(v)' = done[v]
<1>1. PICK t \in Threads : current[u] = <<t, done[t] + 1>> /\ current[u][1] = t
  BY CurrentIsNext DEF EndTask
<1>2. \A v \in Threads : v # u => current[v] = NoTask
  BY Executer DEF EndTask, Executes
<1>3. \A v \in Threads : current'[v] = NoTask
  BY <1>2 DEF EndTask, Inv, TypeOK
<1>4. done' = [done EXCEPT ![t] = @ + 1] /\ done'[t] = done[t] + 1
      /\ \A v \in Threads : v # t => done'[v] = done[v]
  BY <1>1 DEF EndTask, Inv, TypeOK
<1>5. \A v \in Threads : Begun(v)' = done'[v]
  BY <1>3, TaskIsPair DEF Begun
<1>6. Begun(t) = done[t] + 1
  BY <1>1 DEF Begun
<1>7. ASSUME NEW v \in Threads, v # t
      PROVE  Begun(v) = done[v]
  <2>1. <<t, done[t] + 1>> # <<v, done[v] + 1>>
    BY <1>7
  <2>2. \A w \in Threads : current[w] # <<v, done[v] + 1>>
    BY <1>1, <1>2, <2>1, TaskIsPair
  <2>3. QED
    BY <2>2 DEF Begun
<1>8. /\ Begun(t)' = Begun(t)
      /\ \A v \in Threads : v # t => Begun(v) = done[v] /\ Begun(v)' = done[v]
  BY <1>4, <1>5, <1>6, <1>7
<1>9. QED
  BY <1>1, <1>3, <1>4, <1>6, <1>8, Zenon

LEMMA EndKeepsOrder ==
  ASSUME Inv, NEW u \in Threads, EndTask(u)
  PROVE  Order'
<1>1. (\A v \in Threads : current'[v] = NoTask) /\ (\A v \in Threads : Begun(v)' = Begun(v))
  BY EndedTask
<1>2. \A v \in Threads : Queued(v)' = Queued(v)
  BY DEF EndTask, Queued, Inv, TypeOK
<1>3. mCentralTaskQueue' = mCentralTaskQueue
  BY DEF EndTask
<1>4. QED
  BY <1>1, <1>2, <1>3 DEF Inv, Order

LEMMA OrderStep ==
  ASSUME Inv, Next
  PROVE  Order'
BY DispatchKeepsOrder, PushKeepsOrder, PopKeepsOrder, EndKeepsOrder DEF Next, Step

-----------------------------------------------------------------------------
(* The count *)

\* A task remains if it was posted and has not returned.
LEMMA RemainingIs ==
  ASSUME NEW x
  PROVE  x \in Remaining <=> \E t \in Threads : \E k \in done[t] + 1..posted[t] : x = <<t, k>>
BY DEF Remaining

LEMMA CountStep ==
  ASSUME Inv, Next
  PROVE  CountExact'
<1>1. IsFiniteSet(Remaining) /\ mRemainTaskCount = Cardinality(Remaining)
  BY DEF Inv, CountExact
<1>2. \A t \in Threads : done[t] \in Nat /\ posted[t] \in Nat /\ done[t] <= posted[t]
  BY CountsOfTasks DEF Inv, Order
<1>3. ASSUME NEW t \in Threads, DoDispatch(t)
      PROVE  CountExact'
  <2> DEFINE x == <<t, posted[t] + 1>>
  <2>1. posted' = [posted EXCEPT ![t] = @ + 1] /\ done' = done
        /\ mRemainTaskCount' = mRemainTaskCount + 1
    BY <1>3 DEF DoDispatch, Incremented
  <2>2. posted'[t] = posted[t] + 1 /\ \A u \in Threads : u # t => posted'[u] = posted[u]
    BY <2>1 DEF Inv, TypeOK
  <2>3. {t} \X (done[t] + 1..posted[t] + 1) = ({t} \X (done[t] + 1..posted[t])) \cup {x}
    <3>1. done[t] + 1..posted[t] + 1 = (done[t] + 1..posted[t]) \cup {posted[t] + 1}
      BY <1>2
    <3>2. QED
      BY <3>1
  <2>4. Remaining' = Remaining \cup {x}
    BY <2>1, <2>2, <2>3 DEF Remaining
  <2>5. x \notin Remaining
    BY <1>2, RemainingIs
  <2>6. QED
    BY <1>1, <2>1, <2>4, <2>5, FS_AddElement DEF CountExact
<1>4. ASSUME NEW t \in Threads, EndTask(t)
      PROVE  CountExact'
  <2>1. PICK v \in Threads : current[t] = <<v, done[v] + 1>> /\ done' = [done EXCEPT ![v] = @ + 1]
                             /\ Begun(v) = done[v] + 1
    BY <1>4, EndedTask
  <2> DEFINE x == <<v, done[v] + 1>>
  <2>2. posted' = posted /\ mRemainTaskCount' = mRemainTaskCount - 1
    BY <1>4 DEF EndTask
  <2>3. done'[v] = done[v] + 1 /\ \A u \in Threads : u # v => done'[u] = done[u]
    BY <2>1 DEF Inv, TypeOK
  <2>4. done[v] + 1 <= posted[v]
    BY <2>1, CountsOfTasks DEF Inv, Order
  <2>5. x \in Remaining
    BY <1>2, <2>4, RemainingIs
  <2>6. Remaining' = Remaining \ {x}
    <3>1. done[v] + 1..posted[v] = (done'[v] + 1..posted[v]) \cup {done[v] + 1}
          /\ done[v] + 1 \notin done'[v] + 1..posted[v]
      BY <1>2, <2>3, <2>4
    <3>2. ({v} \X (done'[v] + 1..posted[v])) = ({v} \X (done[v] + 1..posted[v])) \ {x}
      BY <3>1
    <3>3. \A u \in Threads : u # v => x \notin {u} \X (done[u] + 1..posted[u])
      OBVIOUS
    <3>4. QED
      BY <2>2, <2>3, <3>2, <3>3 DEF Remaining
  <2>7. QED
    BY <1>1, <2>2, <2>5, <2>6, FS_RemoveElement DEF CountExact
<1>5. CASE UNCHANGED <<mRemainTaskCount, posted, done>>
  <2>1. Remaining' = Remaining
    BY <1>5 DEF Remaining
  <2>2. QED
    BY <1>1, <1>5, <2>1 DEF CountExact
<1>6. QED
  BY <1>3, <1>4, <1>5 DEF Next, Step, Push, PushFirst, TryPop

-----------------------------------------------------------------------------

LEMMA InvStep ==
  ASSUME Inv, [Next]_vars
  PROVE  Inv'
<1>1. CASE Next
  BY <1>1, TypeStep, RolesStep, OrderStep, CountStep DEF Inv
<1>2. CASE UNCHANGED vars
  <2>1. TypeOK' /\ Roles'
    BY <1>2 DEF vars, Inv, TypeOK, Roles, Executes
  <2>2. Order'
    <3>1. \A t \in Threads : Begun(t)' = Begun(t) /\ Queued(t)' = Queued(t)
      BY <1>2 DEF vars, Begun, Queued
    <3>2. QED
      BY <1>2, <3>1 DEF vars, Inv, Order
  <2>3. CountExact'
    BY <1>2 DEF vars, Inv, CountExact, Remaining
  <2>4. QED
    BY <2>1, <2>2, <2>3 DEF Inv
<1>3. QED
  BY <1>1, <1>2

LEMMA InvAlways == Spec => []Inv
  BY InvInit, InvStep, PTL DEF Spec

\* The variables keep their types: the count never falls below zero and only tasks are queued.
THEOREM TypeCorrect == Spec => []TypeOK
  BY InvAlways, PTL DEF Inv

\* At most one thread is in the loop of DoDispatch, and a task does not start inside another.
THEOREM TasksExclude == Spec => []OneAtATime
<1>1. Inv => OneAtATime
  BY DEF Inv, Roles, OneAtATime
<1>2. QED
  BY <1>1, InvAlways, PTL

\* mRemainTaskCount is the number of tasks posted that have not returned.
THEOREM CountIsExact == Spec => []CountExact
  BY InvAlways, PTL DEF Inv

\* While a task remains, some thread executes: none is left behind in the queue.
THEOREM NoTaskForgotten == Spec => []NoneForgotten
<1>1. Inv => NoneForgotten
  <2>1. SUFFICES ASSUME Inv, Remaining # {}
                 PROVE  \E t \in Threads : Executes(t)
    BY DEF NoneForgotten
  <2>2. Cardinality(Remaining) # 0
    BY <2>1, FS_EmptySet DEF Inv, CountExact
  <2>3. mRemainTaskCount > 0
    BY <2>1, <2>2 DEF Inv, CountExact, TypeOK
  <2>4. QED
    BY <2>1, <2>3 DEF Inv, Roles
<1>2. QED
  BY <1>1, InvAlways, PTL

-----------------------------------------------------------------------------
(* The refinement *)

\* What a user sees to be running is the task of any thread that has one.
LEMMA RunningIs ==
  ASSUME Inv, NEW u \in Threads, current[u] # NoTask
  PROVE  Running = current[u]
<1>1. \A v \in Threads : current[v] # NoTask => v = u
  BY DEF Inv, Roles, Executes
<1>2. (CHOOSE t \in Threads : current[t] # NoTask) = u
  BY <1>1
<1>3. QED
  BY <1>2 DEF Running

LEMMA SerialStep ==
  ASSUME Inv, Inv', [Next]_vars
  PROVE  [Serial!Next]_(Serial!vars)
<1> USE DEF Serial!vars
<1>1. CASE UNCHANGED current
  <2>1. Running' = Running
    BY <1>1 DEF Running
  <2>2. ASSUME NEW t \in Threads, DoDispatch(t)
        PROVE  Serial!Next
    BY <2>1, <2>2 DEF DoDispatch, Serial!Next, Serial!Post
  <2>3. CASE UNCHANGED <<posted, done>>
    BY <2>1, <2>3
  <2>4. ASSUME NEW t \in Threads, TryPop(t) \/ EndTask(t)
        PROVE  UNCHANGED <<posted, done>>
    <3>1. CASE TryPop(t)
      BY <3>1 DEF TryPop
    <3>2. CASE EndTask(t)
      BY <1>1, <3>2 DEF EndTask, Inv, TypeOK, Roles
    <3>3. QED
      BY <2>4, <3>1, <3>2
  <2>5. QED
    BY <2>2, <2>3, <2>4 DEF Next, Step, Push, PushFirst, vars
<1>2. ASSUME NEW u \in Threads, TryPop(u)
      PROVE  Serial!Next
  <2>1. PICK t \in Threads : Head(mCentralTaskQueue) = <<t, done[t] + 1>> /\ done[t] + 1 <= Queued(t)
    BY <1>2, HeadIsNext
  <2>2. Running = NoTask
    BY <1>2, HeadIsNext DEF Running
  <2>3. current'[u] = <<t, done[t] + 1>>
    BY <1>2, <2>1 DEF TryPop, Inv, TypeOK
  <2>4. Running' = <<t, done[t] + 1>>
    <3>1. current'[u] # NoTask
      BY <2>3, TaskIsPair
    <3>2. \A v \in Threads : current'[v] # NoTask => v = u
      BY <3>1 DEF Inv, Roles, Executes
    <3>3. (CHOOSE v \in Threads : current'[v] # NoTask) = u
      BY <3>1, <3>2
    <3>4. QED
      BY <2>3, <3>1, <3>3 DEF Running
  <2>5. done[t] < posted[t]
    BY <2>1, CountsOfTasks DEF Inv
  <2>6. UNCHANGED <<posted, done>>
    BY <1>2 DEF TryPop
  <2>7. Serial!Start(t)
    BY <2>2, <2>4, <2>5, <2>6 DEF Serial!Start
  <2>8. QED
    BY <2>7 DEF Serial!Next
<1>3. ASSUME NEW u \in Threads, EndTask(u)
      PROVE  Serial!Next
  <2>1. PICK t \in Threads : current[u] = <<t, done[t] + 1>> /\ done' = [done EXCEPT ![t] = @ + 1]
    BY <1>3, EndedTask
  <2>2. Running = <<t, done[t] + 1>>
    BY <2>1, RunningIs, TaskIsPair
  <2>3. Running' = NoTask
    BY <1>3, EndedTask DEF Running
  <2>4. UNCHANGED posted
    BY <1>3 DEF EndTask
  <2>5. Serial!Finish(t)
    BY <2>1, <2>2, <2>3, <2>4 DEF Serial!Finish
  <2>6. QED
    BY <2>5 DEF Serial!Next
<1>4. QED
  BY <1>1, <1>2, <1>3 DEF Next, Step, DoDispatch, Push, PushFirst, vars

\* Every step of DoDispatch is one of the serial executer or invisible: tasks run one at a time,
\* each once, those of a thread in the order in which it posted them.
THEOREM RefinesSerialExecuter == Spec => Serial!Spec
<1>1. Init => Serial!Init
  BY DEF Init, Serial!Init, Running
<1>2. QED
  BY <1>1, InvAlways, SerialStep, PTL DEF Spec, Serial!Spec
=============================================================================
