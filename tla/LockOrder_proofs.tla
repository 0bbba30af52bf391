--------------------------- MODULE LockOrder_proofs ---------------------------
(***************************************************************************)
(* Proofs about LockOrder: for any threads and locks, the checks of        *)
(* LockOrderChecker leave no room for a deadlock.                          *)
(*                                                                         *)
(* Along a chain of threads that wait for each other the order of the      *)
(* awaited lock rises, and there are only so many orders.  That needs the  *)
(* checker's stack to be exact (StackExact), which holds until an assert   *)
(* fails; in the state where it fails nobody waits for more than before.   *)
(* From the same exact stack, each lock alone is used as RWLock describes. *)
(***************************************************************************)
EXTENDS LockOrder, SequenceTheorems, TLAPS

\* A thread that spins holds only checked locks (the object pools' lock is a leaf).
UncheckedIsLeaf ==
  ~halted => \A t \in Threads : waiting[t] # None =>
               \A k \in Locks : Holds(t, k) => Checked(k)

Inv == TypeOK /\ StackExact /\ UncheckedIsLeaf /\ NoDeadlock

\* The order of a lock, with the unchecked ones last.
Rank(l) == IF Checked(l) THEN mLockOrder[l] ELSE LO_LUGGAGE_CLASS + 1

LEMMA RankBounds == \A l \in Locks : Rank(l) \in 1..5
  BY OrdersKnown DEF Rank, Checked, LO_DONT_CARE, LO_LUGGAGE_CLASS

\* Who is waited for waits, if at all, for a lock of a higher rank.
LEMMA RankRises ==
  ASSUME TypeOK, StackExact, UncheckedIsLeaf, ~halted,
         NEW t \in Threads, NEW u \in Threads, WaitsFor(t, u), waiting[u] # None
  PROVE  Rank(waiting[t]) < Rank(waiting[u])
<1> DEFINE l == waiting[t]
           m == waiting[u]
           q == mLockStack[u]
<1>1. l \in Locks /\ m \in Locks /\ Holds(u, l) /\ q \in Seq(Locks)
  BY DEF WaitsFor, TypeOK, Holds
<1>2. Checked(l)
  BY <1>1 DEF UncheckedIsLeaf
<1>3. PICK i \in DOMAIN q : q[i] = l
  BY <1>1, <1>2 DEF StackExact
<1>4. m # l
  BY <1>1 DEF StackExact
<1>5. CASE ~Checked(m)
  BY <1>1, <1>2, <1>5, OrdersKnown DEF Rank, LO_DONT_CARE, LO_LUGGAGE_CLASS
<1>6. CASE Checked(m)
  <2>1. q[Len(q)] = m
    BY <1>6 DEF StackExact, Top
  <2>2. i < Len(q) /\ Len(q) \in DOMAIN q
    BY <1>1, <1>3, <1>4, <2>1
  <2>3. mLockOrder[q[i]] < mLockOrder[q[Len(q)]]
    BY <1>3, <2>2 DEF StackExact
  <2>4. QED
    BY <1>2, <1>3, <1>6, <2>1, <2>3 DEF Rank
<1>7. QED
  BY <1>5, <1>6

\* As long as the program runs, no set of threads waits for each other.
LEMMA RunningNoDeadlock ==
  ASSUME TypeOK, StackExact, UncheckedIsLeaf, ~halted
  PROVE  NoDeadlock
<1>1. SUFFICES ASSUME NEW D \in SUBSET Threads, D # {},
                      \A t \in D : \E u \in D : WaitsFor(t, u)
               PROVE  FALSE
  BY DEF NoDeadlock
<1> DEFINE R(t) == Rank(waiting[t])
<1>2. \A t \in D : waiting[t] # None /\ R(t) \in 1..5
  BY <1>1, RankBounds DEF WaitsFor, TypeOK
<1>3. \A t \in D : \E u \in D : R(t) < R(u)
  BY <1>1, <1>2, RankRises
<1> HIDE DEF R
<1>4. PICK a \in D : R(a) >= 1
  BY <1>1, <1>2
<1>5. PICK b \in D : R(b) >= 2
  BY <1>2, <1>3, <1>4
<1>6. PICK c \in D : R(c) >= 3
  BY <1>2, <1>3, <1>5
<1>7. PICK d \in D : R(d) >= 4
  BY <1>2, <1>3, <1>6
<1>8. PICK e \in D : R(e) >= 5
  BY <1>2, <1>3, <1>7
<1>9. QED
  BY <1>2, <1>3, <1>8

LEMMA InvInit ==
  ASSUME Init
  PROVE  Inv
<1>1. TypeOK
  <2>1. <<>> \in Seq(Locks)
    OBVIOUS
  <2>2. QED
    BY <2>1 DEF Init, TypeOK
<1>2. \A t \in Threads : waiting[t] = None /\ DOMAIN mLockStack[t] = {}
  <2>1. DOMAIN <<>> = {}
    OBVIOUS
  <2>2. QED
    BY <2>1 DEF Init
<1>3. \A t \in Threads, l \in Locks : ~Holds(t, l)
  BY DEF Init, Holds
<1>4. StackExact
  BY <1>2, <1>3, NoneIsNoLock DEF StackExact
<1>5. UncheckedIsLeaf
  BY <1>2 DEF UncheckedIsLeaf
<1>6. ~halted
  BY DEF Init
<1>7. QED
  BY <1>1, <1>4, <1>5, <1>6, RunningNoDeadlock DEF Inv

\* What StackExact and UncheckedIsLeaf say of one thread.
ThreadExact(t) ==
  LET q == mLockStack[t] IN
  /\ \A i, j \in DOMAIN q : i < j => mLockOrder[q[i]] < mLockOrder[q[j]]
  /\ \A l \in Locks : Checked(l) =>
       ((Holds(t, l) \/ waiting[t] = l) <=> \E i \in DOMAIN q : q[i] = l)
  /\ waiting[t] # None => /\ ~Holds(t, waiting[t])
                          /\ Checked(waiting[t]) => Top(t) = waiting[t]
                          /\ \A k \in Locks : Holds(t, k) => Checked(k)

LEMMA PerThread ==
  StackExact /\ UncheckedIsLeaf <=> (~halted => \A t \in Threads : ThreadExact(t))
  BY DEF StackExact, UncheckedIsLeaf, ThreadExact

\* A thread's step says nothing about the others' stacks and locks.
Untouched(u) ==
  /\ mLockStack'[u] = mLockStack[u] /\ waiting'[u] = waiting[u]
  /\ \A l \in Locks : Holds(u, l)' <=> Holds(u, l)

LEMMA UntouchedExact ==
  ASSUME NEW u \in Threads, Untouched(u), ThreadExact(u), TypeOK
  PROVE  ThreadExact(u)'
  BY DEF Untouched, ThreadExact, Top, TypeOK, Checked

LEMMA TypeStep ==
  ASSUME TypeOK, NEW t \in Threads, Step(t)
  PROVE  TypeOK'
<1>1. ASSUME NEW l \in Locks, NEW x \in BOOLEAN, Enter(t, l, x)
      PROVE  TypeOK'
  <2>1. Append(mLockStack[t], l) \in Seq(Locks)
    BY DEF TypeOK
  <2>2. QED
    BY <1>1, <2>1 DEF Enter, TypeOK
<1>2. CASE Acquire(t)
  <2>1. waiting[t] \in Locks
    BY <1>2 DEF Acquire, TypeOK
  <2>2. QED
    BY <1>2, <2>1 DEF Acquire, TypeOK
<1>3. ASSUME NEW l \in Locks, Leave(t, l)
      PROVE  TypeOK'
  <2>1. mLockStack' \in [Threads -> Seq(Locks)]
    <3>1. CASE Pop(t) /\ mLockStack[t] # <<>>
      <4>1. SubSeq(mLockStack[t], 1, Len(mLockStack[t]) - 1) \in Seq(Locks)
        BY <3>1 DEF TypeOK
      <4>2. QED
        BY <3>1, <4>1 DEF Pop, TypeOK
    <3>2. CASE UNCHANGED mLockStack
      BY <3>2 DEF TypeOK
    <3>3. QED
      BY <1>3, <3>1, <3>2 DEF Leave
  <2>2. writers' \in [Locks -> SUBSET Threads] /\ readers' \in [Locks -> SUBSET Threads]
    BY <1>3 DEF Leave, TypeOK
  <2>3. QED
    BY <1>3, <2>1, <2>2 DEF Leave, TypeOK
<1>4. QED
  BY <1>1, <1>2, <1>3 DEF Step

\* As long as no assert fails the stepping thread's stack stays exact.
LEMMA OwnStep ==
  ASSUME TypeOK, NEW t \in Threads, ThreadExact(t), Step(t), ~halted'
  PROVE  ThreadExact(t)'
<1> DEFINE q == mLockStack[t]
<1>t. q \in Seq(Locks) /\ waiting[t] \in Locks \cup {None}
  BY DEF TypeOK
<1>1. ASSUME NEW l \in Locks, NEW x \in BOOLEAN, Enter(t, l, x)
      PROVE  ThreadExact(t)'
  <2>1. /\ waiting[t] = None /\ waiting'[t] = l
        /\ \A k \in Locks : Holds(t, k)' <=> Holds(t, k)
        /\ \A k \in Locks : Holds(t, k) => Checked(k)
        /\ Checked(l) => InOrder(t, l) /\ mLockStack'[t] = Append(q, l)
        /\ ~Checked(l) => mLockStack'[t] = q
    BY <1>1, NoneIsNoLock DEF Enter, Holds, TypeOK
  <2>2. CASE ~Checked(l)
    BY <1>t, <2>1, <2>2, NoneIsNoLock DEF ThreadExact, Checked
  <2>3. CASE Checked(l)
    <3> DEFINE p == Append(q, l)
               n == Len(q)
    <3>1. /\ DOMAIN q = 1..n /\ DOMAIN p = 1..n + 1 /\ n \in Nat
          /\ p[n + 1] = l /\ Len(p) = n + 1
          /\ \A i \in 1..n : p[i] = q[i] /\ q[i] \in Locks
      BY <1>t
    <3>2. \A i \in 1..n : mLockOrder[q[i]] < mLockOrder[l]
      <4>1. SUFFICES ASSUME NEW i \in 1..n PROVE mLockOrder[q[i]] < mLockOrder[l]
        OBVIOUS
      <4>2. mLockOrder[q[n]] < mLockOrder[l] /\ n \in 1..n
        BY <1>t, <2>1, <2>3, <3>1 DEF InOrder, Top
      <4>3. i = n \/ mLockOrder[q[i]] < mLockOrder[q[n]]
        BY <3>1, <4>2 DEF ThreadExact
      <4>4. /\ mLockOrder[q[i]] \in Int /\ mLockOrder[q[n]] \in Int /\ mLockOrder[l] \in Int
        BY <3>1, <4>2, OrdersKnown DEF LO_DONT_CARE, LO_LUGGAGE_CLASS
      <4>5. QED
        BY <4>2, <4>3, <4>4
    <3>3. \A i, j \in DOMAIN p : i < j => mLockOrder[p[i]] < mLockOrder[p[j]]
      <4>1. SUFFICES ASSUME NEW i \in DOMAIN p, NEW j \in DOMAIN p, i < j
                     PROVE  mLockOrder[p[i]] < mLockOrder[p[j]]
        OBVIOUS
      <4>2. i \in 1..n /\ (j \in 1..n \/ j = n + 1)
        BY <3>1, <4>1
      <4>3. QED
        BY <3>1, <3>2, <4>1, <4>2 DEF ThreadExact
    <3>4. ~Holds(t, l)
      <4>1. SUFFICES ASSUME Holds(t, l) PROVE FALSE
        OBVIOUS
      <4>2. PICK i \in 1..n : q[i] = l
        BY <2>3, <3>1, <4>1 DEF ThreadExact
      <4>3. mLockOrder[l] < mLockOrder[l] /\ mLockOrder[l] \in Int
        BY <3>2, <4>2, OrdersKnown DEF LO_DONT_CARE, LO_LUGGAGE_CLASS
      <4>4. QED
        BY <4>3
    <3>5. \A k \in Locks : Checked(k) =>
            ((Holds(t, k) \/ k = l) <=> \E i \in DOMAIN p : p[i] = k)
      <4>1. SUFFICES ASSUME NEW k \in Locks, Checked(k)
                     PROVE  (Holds(t, k) \/ k = l) <=> \E i \in 1..n + 1 : p[i] = k
        BY <3>1
      <4>2. Holds(t, k) <=> \E i \in 1..n : q[i] = k
        BY <2>1, <3>1, <4>1, NoneIsNoLock DEF ThreadExact
      <4>3. (\E i \in 1..n + 1 : p[i] = k) <=> (\E i \in 1..n : p[i] = k) \/ p[n + 1] = k
        BY <3>1
      <4>4. QED
        BY <3>1, <4>2, <4>3
    <3>6. mLockStack'[t] = p /\ Top(t)' = l
      BY <2>1, <2>3, <3>1 DEF Top
    <3> HIDE DEF p
    <3>7. QED
      BY <2>1, <2>3, <3>3, <3>4, <3>5, <3>6 DEF ThreadExact, Checked
  <2>4. QED
    BY <2>2, <2>3
<1>2. CASE Acquire(t)
  <2>1. /\ waiting[t] \in Locks /\ waiting'[t] = None /\ mLockStack'[t] = q
        /\ \A k \in Locks : Holds(t, k)' <=> Holds(t, k) \/ k = waiting[t]
    BY <1>2, <1>t DEF Acquire, TypeOK, Holds
  <2>2. QED
    BY <2>1, NoneIsNoLock DEF ThreadExact, Checked
<1>3. ASSUME NEW l \in Locks, Leave(t, l)
      PROVE  ThreadExact(t)'
  <2>1. /\ waiting[t] = None /\ waiting'[t] = None /\ Holds(t, l)
        /\ \A k \in Locks : Holds(t, k)' <=> Holds(t, k) /\ k # l
        /\ Checked(l) => q # <<>> /\ Top(t) = l /\ mLockStack'[t] = SubSeq(q, 1, Len(q) - 1)
        /\ ~Checked(l) => mLockStack'[t] = q
    BY <1>3 DEF Leave, Pop, Holds, TypeOK
  <2>2. CASE ~Checked(l)
    BY <2>1, <2>2, NoneIsNoLock DEF ThreadExact, Checked
  <2>3. CASE Checked(l)
    <3> DEFINE p == SubSeq(q, 1, Len(q) - 1)
               n == Len(q) - 1
    <3>1. /\ n \in Nat /\ DOMAIN q = 1..n + 1 /\ DOMAIN p = 1..n /\ q[n + 1] = l
          /\ \A i \in 1..n : p[i] = q[i]
      BY <1>t, <2>1, <2>3 DEF Top
    <3>2. \A i, j \in DOMAIN p : i < j => mLockOrder[p[i]] < mLockOrder[p[j]]
      BY <3>1 DEF ThreadExact
    <3>3. \A i \in 1..n : q[i] # l
      <4>1. SUFFICES ASSUME NEW i \in 1..n, q[i] = l PROVE FALSE
        OBVIOUS
      <4>2. i \in DOMAIN q /\ n + 1 \in DOMAIN q /\ i < n + 1
        BY <3>1
      <4> HIDE DEF n
      <4>3. mLockOrder[q[i]] < mLockOrder[q[n + 1]]
        BY <4>2 DEF ThreadExact
      <4>4. mLockOrder[l] < mLockOrder[l]
        BY <3>1, <4>1, <4>3
      <4>5. mLockOrder[l] \in Int
        BY OrdersKnown DEF LO_DONT_CARE, LO_LUGGAGE_CLASS
      <4>6. QED
        BY <4>4, <4>5
    <3>4. \A k \in Locks : Checked(k) =>
            ((Holds(t, k) /\ k # l) <=> \E i \in DOMAIN p : p[i] = k)
      <4>1. SUFFICES ASSUME NEW k \in Locks, Checked(k)
                     PROVE  (Holds(t, k) /\ k # l) <=> \E i \in 1..n : q[i] = k
        BY <3>1
      <4>2. Holds(t, k) <=> \E i \in 1..n + 1 : q[i] = k
        BY <2>1, <3>1, <4>1, NoneIsNoLock DEF ThreadExact
      <4>3. QED
        BY <3>1, <3>3, <4>2
    <3>5. mLockStack'[t] = p
      BY <2>1, <2>3
    <3> HIDE DEF p
    <3>6. QED
      BY <2>1, <3>2, <3>4, <3>5, NoneIsNoLock DEF ThreadExact, Checked
  <2>4. QED
    BY <2>2, <2>3
<1>4. QED
  BY <1>1, <1>2, <1>3 DEF Step

LEMMA OthersStep ==
  ASSUME TypeOK, NEW t \in Threads, Step(t), NEW u \in Threads, u # t
  PROVE  Untouched(u)
<1>1. ASSUME NEW l \in Locks, NEW x \in BOOLEAN, Enter(t, l, x)
      PROVE  Untouched(u)
  BY <1>1 DEF Enter, Untouched, Holds, TypeOK
<1>2. CASE Acquire(t)
  <2>1. waiting[t] \in Locks /\ mLockStack' = mLockStack /\ waiting'[u] = waiting[u]
    BY <1>2 DEF Acquire, TypeOK
  <2>2. CASE exclusive[t]
    <3>1. /\ writers[waiting[t]] = {} /\ readers' = readers
          /\ writers' = [writers EXCEPT ![waiting[t]] = {t}]
      BY <1>2, <2>2 DEF Acquire
    <3>2. QED
      BY <2>1, <3>1 DEF Untouched, Holds, TypeOK
  <2>3. CASE ~exclusive[t]
    <3>1. writers' = writers /\ readers' = [readers EXCEPT ![waiting[t]] = @ \cup {t}]
      BY <1>2, <2>3 DEF Acquire
    <3>2. QED
      BY <2>1, <3>1 DEF Untouched, Holds, TypeOK
  <2>4. QED
    BY <2>2, <2>3
<1>3. ASSUME NEW l \in Locks, Leave(t, l)
      PROVE  Untouched(u)
  BY <1>3 DEF Leave, Pop, Untouched, Holds, TypeOK
<1>4. QED
  BY <1>1, <1>2, <1>3 DEF Step

\* A failing assert leaves nobody waiting for more than before.
LEMMA HaltStep ==
  ASSUME TypeOK, NEW t \in Threads, Step(t), halted', NEW u \in Threads, NEW v \in Threads,
         WaitsFor(u, v)'
  PROVE  WaitsFor(u, v)
<1>1. waiting' = waiting /\ exclusive' = exclusive
  BY DEF Step, Enter, Acquire, Leave
<1>2. \A l \in Locks : writers'[l] \subseteq writers[l] /\ readers'[l] \subseteq readers[l]
  BY DEF Step, Enter, Acquire, Leave, TypeOK
<1>3. QED
  BY <1>1, <1>2 DEF WaitsFor, TypeOK

LEMMA InvStep ==
  ASSUME Inv, [Next]_vars
  PROVE  Inv'
<1>1. ASSUME NEW t \in Threads, Step(t)
      PROVE  Inv'
  <2>1. TypeOK /\ TypeOK' /\ ~halted /\ (\A u \in Threads : ThreadExact(u)) /\ NoDeadlock
    BY <1>1, TypeStep, PerThread DEF Inv, Step
  <2>2. ASSUME ~halted'
        PROVE  \A u \in Threads : ThreadExact(u)'
    BY <1>1, <2>1, <2>2, OwnStep, OthersStep, UntouchedExact
  <2>3. StackExact' /\ UncheckedIsLeaf'
    BY <2>2 DEF StackExact, UncheckedIsLeaf, ThreadExact
  <2>4. CASE ~halted'
    <3>1. NoDeadlock'
      BY <2>1, <2>3, <2>4, RunningNoDeadlock, PTL
    <3>2. QED
      BY <2>1, <2>3, <3>1 DEF Inv
  <2>5. CASE halted'
    <3>1. NoDeadlock'
      BY <1>1, <2>1, <2>5, HaltStep DEF NoDeadlock
    <3>2. QED
      BY <2>1, <2>3, <3>1 DEF Inv
  <2>6. QED
    BY <2>4, <2>5
<1>2. CASE UNCHANGED vars
  BY <1>2 DEF vars, Inv, TypeOK, StackExact, UncheckedIsLeaf, NoDeadlock, WaitsFor, Holds, Top,
              Checked
<1>3. QED
  BY <1>1, <1>2 DEF Next

\* The locks and the checker's stacks are what the code declares, in every run.
THEOREM TypeCorrect == Spec => []TypeOK
<1>1. Inv => TypeOK
  BY DEF Inv
<1>2. QED
  BY <1>1, InvInit, InvStep, PTL DEF Spec

\* The checker's stack is exact until an assert fails.
THEOREM StackIsExact == Spec => []StackExact
<1>1. Inv => StackExact
  BY DEF Inv
<1>2. QED
  BY <1>1, InvInit, InvStep, PTL DEF Spec

\* Any number of threads nesting any number of locks never deadlock: a nesting that could
\* lead there is stopped by the assert of Push.
THEOREM DeadlockFree == Spec => []NoDeadlock
<1>1. Inv => NoDeadlock
  BY DEF Inv
<1>2. QED
  BY <1>1, InvInit, InvStep, PTL DEF Spec

-----------------------------------------------------------------------------
(* Each lock alone is RWLock's. *)

\* A lock that is written has one writer and no reader.
WriterAlone ==
  \A l \in Locks : writers[l] # {} => readers[l] = {} /\ \E w \in Threads : writers[l] = {w}

LEMMA WriterAloneStep ==
  ASSUME TypeOK, WriterAlone, NEW t \in Threads, Step(t)
  PROVE  WriterAlone'
<1>1. ASSUME NEW l \in Locks, NEW x \in BOOLEAN, Enter(t, l, x)
      PROVE  WriterAlone'
  BY <1>1 DEF Enter, WriterAlone
<1>2. CASE Acquire(t)
  <2> DEFINE a == waiting[t]
  <2>1. a \in Locks /\ writers[a] = {}
    BY <1>2 DEF Acquire, TypeOK
  <2>2. CASE exclusive[t]
    <3>1. readers[a] = {} /\ readers' = readers /\ writers' = [writers EXCEPT ![a] = {t}]
      BY <1>2, <2>2 DEF Acquire
    <3>2. QED
      BY <2>1, <3>1 DEF WriterAlone, TypeOK
  <2>3. CASE ~exclusive[t]
    <3>1. writers' = writers /\ readers' = [readers EXCEPT ![a] = @ \cup {t}]
      BY <1>2, <2>3 DEF Acquire
    <3>2. QED
      BY <2>1, <3>1 DEF WriterAlone, TypeOK
  <2>4. QED
    BY <2>2, <2>3
<1>3. ASSUME NEW l \in Locks, Leave(t, l)
      PROVE  WriterAlone'
  <2>1. \A k \in Locks : writers'[k] = (IF k = l THEN writers[k] \ {t} ELSE writers[k])
    BY <1>3 DEF Leave, TypeOK
  <2>2. \A k \in Locks : readers'[k] = (IF k = l THEN readers[k] \ {t} ELSE readers[k])
    BY <1>3 DEF Leave, TypeOK
  <2>3. SUFFICES ASSUME NEW k \in Locks, writers'[k] # {}
                 PROVE  readers'[k] = {} /\ \E w \in Threads : writers'[k] = {w}
    BY DEF WriterAlone
  <2>4. writers[k] # {} /\ writers'[k] \subseteq writers[k]
    BY <2>1, <2>3
  <2>5. PICK w \in Threads : writers[k] = {w} /\ readers[k] = {}
    BY <2>4 DEF WriterAlone
  <2>6. writers'[k] = {w} /\ readers'[k] = {}
    BY <2>2, <2>3, <2>4, <2>5
  <2>7. QED
    BY <2>6
<1>4. QED
  BY <1>1, <1>2, <1>3 DEF Step

\* RWLock's operators, spelled out for one lock.
LEMMA LockNext ==
  ASSUME NEW l \in Locks, NEW t \in Threads, NEW m,
         Mode(l)' = [Mode(l) EXCEPT ![t] = m],
         \/ Mode(l)[t] = "away" /\ m \in {"wantsWrite", "wantsRead"}
         \/ /\ Mode(l)[t] = "wantsWrite" /\ m = "writes"
            /\ \A u \in Threads : Mode(l)[u] \notin {"writes", "reads"}
         \/ /\ Mode(l)[t] = "wantsRead" /\ m = "reads"
            /\ \A u \in Threads : Mode(l)[u] # "writes"
         \/ Mode(l)[t] \in {"writes", "reads"} /\ m = "away"
  PROVE  Lock(l)!Next
BY DEF Lock!Next, Lock!Acquire, Lock!Want, Lock!AcquireWrite, Lock!AcquireRead, Lock!Release,
       Lock!Become

\* What a thread does with a lock is a matter of the lock and of what the thread waits for.
LEMMA ModeOf ==
  ASSUME NEW l \in Locks, NEW u \in Threads
  PROVE  /\ Mode(l)[u] = IF waiting[u] = l
                         THEN IF exclusive[u] THEN "wantsWrite" ELSE "wantsRead"
                         ELSE IF u \in writers[l] THEN "writes"
                         ELSE IF u \in readers[l] THEN "reads"
                         ELSE "away"
         /\ Mode(l)'[u] = IF waiting'[u] = l
                          THEN IF exclusive'[u] THEN "wantsWrite" ELSE "wantsRead"
                          ELSE IF u \in writers'[l] THEN "writes"
                          ELSE IF u \in readers'[l] THEN "reads"
                          ELSE "away"
BY DEF Mode

\* A mode changes for one thread only, so it is the old one with an exception.
LEMMA ModeExcept ==
  ASSUME NEW l \in Locks, NEW t \in Threads,
         \A u \in Threads : u # t => Mode(l)'[u] = Mode(l)[u]
  PROVE  Mode(l)' = [Mode(l) EXCEPT ![t] = Mode(l)'[t]]
BY DEF Mode

LEMMA EnterLock ==
  ASSUME TypeOK, NEW t \in Threads, NEW k \in Locks, NEW x \in BOOLEAN,
         Enter(t, k, x), ~halted, ~halted' => ThreadExact(t)', NEW l \in Locks
  PROVE  UNCHANGED Mode(l) \/ Lock(l)!Next
<1>1. UNCHANGED <<writers, readers>> /\ waiting[t] = None
  BY DEF Enter
<1>2. CASE UNCHANGED <<waiting, exclusive>>
  BY <1>1, <1>2 DEF Mode
<1>3. CASE ~UNCHANGED <<waiting, exclusive>>
  <2>1. /\ waiting' = [waiting EXCEPT ![t] = k] /\ exclusive' = [exclusive EXCEPT ![t] = x]
        /\ ~halted'
    BY <1>3 DEF Enter
  <2>2. waiting'[t] = k /\ exclusive'[t] = x
    BY <2>1 DEF TypeOK
  <2>3. ~Holds(t, k)
    <3>1. ~Holds(t, k)'
      BY <2>1, <2>2, NoneIsNoLock DEF ThreadExact
    <3>2. QED
      BY <1>1, <3>1 DEF Holds
  <2>4. \A u \in Threads : u # t => waiting'[u] = waiting[u] /\ exclusive'[u] = exclusive[u]
    BY <2>1 DEF TypeOK
  <2>5. \A u \in Threads : u # t => Mode(l)'[u] = Mode(l)[u]
    BY <1>1, <2>4, ModeOf
  <2>6. CASE l # k
    <3>1. Mode(l)'[t] = Mode(l)[t]
      BY <1>1, <2>2, <2>6, ModeOf, NoneIsNoLock
    <3>2. Mode(l)' = Mode(l)
      BY <2>5, <3>1 DEF Mode
    <3>3. QED
      BY <3>2
  <2>7. CASE l = k
    <3>1. Mode(l)[t] = "away" /\ Mode(l)'[t] \in {"wantsWrite", "wantsRead"}
      BY <1>1, <2>2, <2>3, <2>7, ModeOf, NoneIsNoLock DEF Holds
    <3>2. Mode(l)' = [Mode(l) EXCEPT ![t] = Mode(l)'[t]]
      BY <2>5, ModeExcept
    <3>3. QED
      BY <3>1, <3>2, LockNext
  <2>8. QED
    BY <2>6, <2>7
<1>4. QED
  BY <1>2, <1>3

LEMMA AcquireLock ==
  ASSUME TypeOK, WriterAlone, NEW t \in Threads, ThreadExact(t), Acquire(t), NEW l \in Locks
  PROVE  UNCHANGED Mode(l) \/ Lock(l)!Next
<1> DEFINE a == waiting[t]
<1>1. a \in Locks /\ writers[a] = {} /\ ~Holds(t, a) /\ waiting' = [waiting EXCEPT ![t] = None]
      /\ exclusive' = exclusive /\ exclusive[t] \in BOOLEAN
  BY DEF Acquire, TypeOK, ThreadExact
<1>2. \A u \in Threads : u # t => Mode(l)'[u] = Mode(l)[u]
  <2>1. \A u \in Threads : u # t => /\ (u \in writers'[l]) <=> (u \in writers[l])
                                    /\ (u \in readers'[l]) <=> (u \in readers[l])
    <3>1. CASE exclusive[t]
      <4>1. readers' = readers /\ writers' = [writers EXCEPT ![a] = {t}]
        BY <3>1 DEF Acquire
      <4>2. QED
        BY <1>1, <4>1 DEF TypeOK
    <3>2. CASE ~exclusive[t]
      <4>1. writers' = writers /\ readers' = [readers EXCEPT ![a] = @ \cup {t}]
        BY <3>2 DEF Acquire
      <4>2. QED
        BY <1>1, <4>1 DEF TypeOK
    <3>3. QED
      BY <3>1, <3>2
  <2>2. \A u \in Threads : u # t => waiting'[u] = waiting[u]
    BY <1>1 DEF TypeOK
  <2>3. exclusive' = exclusive
    BY <1>1
  <2>4. SUFFICES ASSUME NEW u \in Threads, u # t
                 PROVE  Mode(l)'[u] = Mode(l)[u]
    OBVIOUS
  <2>5. (u \in writers'[l] <=> u \in writers[l]) /\ (u \in readers'[l] <=> u \in readers[l])
    BY <2>1, <2>4
  <2>6. waiting'[u] = waiting[u] /\ exclusive'[u] = exclusive[u]
    BY <2>2, <2>3, <2>4
  <2>7. QED
    BY <2>5, <2>6, ModeOf
<1>3. Mode(l)' = [Mode(l) EXCEPT ![t] = Mode(l)'[t]]
  BY <1>2, ModeExcept
<1>4. waiting'[t] = None
  BY <1>1 DEF TypeOK
<1>5. CASE l # a
  <2>1. writers'[l] = writers[l] /\ readers'[l] = readers[l]
    BY <1>1, <1>5 DEF Acquire, TypeOK
  <2>2. Mode(l)'[t] = Mode(l)[t]
    BY <1>4, <1>5, <2>1, ModeOf, NoneIsNoLock
  <2>3. Mode(l)' = Mode(l)
    BY <1>2, <2>2 DEF Mode
  <2>4. QED
    BY <2>3
<1>6. CASE l = a /\ exclusive[t]
  <2>1. readers[l] = {} /\ writers' = [writers EXCEPT ![l] = {t}]
    BY <1>6 DEF Acquire
  <2>2. Mode(l)[t] = "wantsWrite" /\ Mode(l)'[t] = "writes"
    <3>1. t \in writers'[l]
      BY <2>1 DEF TypeOK
    <3>2. QED
      BY <1>1, <1>4, <1>6, <3>1, ModeOf, NoneIsNoLock
  <2>3. \A u \in Threads : Mode(l)[u] \notin {"writes", "reads"}
    BY <1>1, <1>6, <2>1, ModeOf
  <2>4. QED
    BY <1>3, <2>2, <2>3, LockNext
<1>7. CASE l = a /\ ~exclusive[t]
  <2>1. writers' = writers /\ readers' = [readers EXCEPT ![l] = @ \cup {t}]
    BY <1>7 DEF Acquire
  <2>2. Mode(l)[t] = "wantsRead" /\ Mode(l)'[t] = "reads"
    <3>1. t \in readers'[l] /\ t \notin writers'[l]
      BY <1>1, <1>7, <2>1 DEF TypeOK
    <3>2. QED
      BY <1>1, <1>4, <1>7, <3>1, ModeOf, NoneIsNoLock
  <2>3. \A u \in Threads : Mode(l)[u] # "writes"
    BY <1>1, <1>7, ModeOf
  <2>4. QED
    BY <1>3, <2>2, <2>3, LockNext
<1>8. QED
  BY <1>5, <1>6, <1>7

LEMMA LeaveLock ==
  ASSUME TypeOK, WriterAlone, NEW t \in Threads, NEW k \in Locks, Leave(t, k), NEW l \in Locks
  PROVE  UNCHANGED Mode(l) \/ Lock(l)!Next
<1>1. /\ waiting[t] = None /\ waiting' = waiting /\ exclusive' = exclusive
      /\ Holds(t, k)
      /\ writers' = [writers EXCEPT ![k] = @ \ {t}]
      /\ readers' = [readers EXCEPT ![k] = @ \ {t}]
  BY DEF Leave
<1>2. CASE l # k
  <2>1. writers'[l] = writers[l] /\ readers'[l] = readers[l]
    BY <1>1, <1>2 DEF TypeOK
  <2>2. QED
    BY <1>1, <2>1 DEF Mode
<1>3. CASE l = k
  <2>1. writers'[l] = writers[l] \ {t} /\ readers'[l] = readers[l] \ {t}
    BY <1>1, <1>3 DEF TypeOK
  <2>2. \A u \in Threads : u # t => Mode(l)'[u] = Mode(l)[u]
    BY <1>1, <2>1, ModeOf
  <2>3. Mode(l)[t] \in {"writes", "reads"} /\ Mode(l)'[t] = "away"
    BY <1>1, <1>3, <2>1, ModeOf, NoneIsNoLock DEF Holds
  <2>4. Mode(l)' = [Mode(l) EXCEPT ![t] = Mode(l)'[t]]
    BY <2>2, ModeExcept
  <2>5. QED
    BY <2>3, <2>4, LockNext
<1>4. QED
  BY <1>2, <1>3

\* However many threads nest however many locks, no thread inside a lock ever starts to wait
\* for it again, and each lock is used as RWLock describes.
THEOREM LocksImplementRWLock == Spec => LocksAreRWLocks
<1> DEFINE J == Inv /\ WriterAlone
<1>1. Init => J /\ \A l \in Locks : Lock(l)!Init
  <2>1. Init => Inv /\ WriterAlone
    BY InvInit DEF Init, WriterAlone
  <2>2. ASSUME Init, NEW l \in Locks
        PROVE  Lock(l)!Init
    BY <2>2, NoneIsNoLock DEF Init, Lock!Init, Mode
  <2>3. QED
    BY <2>1, <2>2
<1>2. J /\ [Next]_vars => J' /\ ((\A l \in Locks : UNCHANGED Mode(l) \/ Lock(l)!Next)
                                  \/ UNCHANGED vars)
  <2>1. SUFFICES ASSUME J, [Next]_vars
                 PROVE  J' /\ ((\A l \in Locks : UNCHANGED Mode(l) \/ Lock(l)!Next)
                               \/ UNCHANGED vars)
    OBVIOUS
  <2>2. Inv'
    BY <2>1, InvStep
  <2>3. ASSUME NEW t \in Threads, Step(t)
        PROVE  /\ WriterAlone'
               /\ \A l \in Locks : UNCHANGED Mode(l) \/ Lock(l)!Next
    <3>1. /\ TypeOK /\ WriterAlone /\ ~halted /\ ThreadExact(t)
          /\ ~halted' => ThreadExact(t)'
      <4>1. TypeOK /\ WriterAlone /\ ~halted /\ ThreadExact(t)
        BY <2>1, <2>3, PerThread DEF Inv, Step
      <4>2. QED
        BY <2>3, <4>1, OwnStep
    <3>2. WriterAlone'
      BY <2>3, <3>1, WriterAloneStep
    <3>3. ASSUME NEW l \in Locks
          PROVE  UNCHANGED Mode(l) \/ Lock(l)!Next
      <4>1. CASE Acquire(t)
        BY <3>1, <4>1, AcquireLock
      <4>2. ASSUME NEW k \in Locks, Leave(t, k)
            PROVE  UNCHANGED Mode(l) \/ Lock(l)!Next
        BY <3>1, <4>2, LeaveLock
      <4>3. ASSUME NEW k \in Locks, NEW x \in BOOLEAN, Enter(t, k, x)
            PROVE  UNCHANGED Mode(l) \/ Lock(l)!Next
        BY <3>1, <4>3, EnterLock
      <4>4. QED
        BY <2>3, <4>1, <4>2, <4>3 DEF Step
    <3>4. QED
      BY <3>2, <3>3
  <2>4. CASE UNCHANGED vars
    BY <2>1, <2>2, <2>4 DEF vars, WriterAlone
  <2>5. QED
    BY <2>1, <2>2, <2>3, <2>4 DEF Next
<1> HIDE DEF J
<1>3. QED
  BY <1>1, <1>2, PTL DEF Spec, LocksAreRWLocks
=============================================================================
