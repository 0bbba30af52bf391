------------------------------ MODULE LockOrder ------------------------------
(***************************************************************************)
(* LockOrderChecker: each thread keeps the stack of the FastSpinlocks it   *)
(* has entered, and a CRASH_ASSERT stops the program when a lock is not of *)
(* a higher order than the one below it.  Locks of order LO_DONT_CARE      *)
(* (ClassTypeLock of the object pools) are not checked; the code that      *)
(* holds one enters no other lock.                                         *)
(*                                                                         *)
(* Each lock is a reader-writer lock, RWLock, which FastSpinlock           *)
(* implements.                                                             *)
(***************************************************************************)
EXTENDS Integers, Sequences

CONSTANTS
  Threads,
  Locks,
  None,         \* waiting for no lock
  mLockOrder    \* the order of each lock

LO_DONT_CARE     == 0
LO_FIRST_CLASS   == 1
LO_LUGGAGE_CLASS == 4
MAX_LOCK_DEPTH   == 32

ASSUME OrdersKnown  == mLockOrder \in [Locks -> LO_DONT_CARE..LO_LUGGAGE_CLASS]
ASSUME NoneIsNoLock == None \notin Locks

VARIABLES
  mLockStack,   \* LLockOrderChecker->mLockStack of each thread
  waiting,      \* the lock each thread spins on
  exclusive,    \* ... and whether it wants it exclusively
  writers,      \* the threads inside EnterWriteLock .. LeaveWriteLock of each lock
  readers,      \* the threads inside EnterReadLock .. LeaveReadLock of each lock
  halted        \* a CRASH_ASSERT of LockOrderChecker has failed

vars == <<mLockStack, waiting, exclusive, writers, readers, halted>>

TypeOK ==
  /\ mLockStack \in [Threads -> Seq(Locks)]
  /\ waiting \in [Threads -> Locks \cup {None}]
  /\ exclusive \in [Threads -> BOOLEAN]
  /\ writers \in [Locks -> SUBSET Threads]
  /\ readers \in [Locks -> SUBSET Threads]
  /\ halted \in BOOLEAN

Init ==
  /\ mLockStack = [t \in Threads |-> <<>>]
  /\ waiting = [t \in Threads |-> None]
  /\ exclusive = [t \in Threads |-> FALSE]
  /\ writers = [l \in Locks |-> {}]
  /\ readers = [l \in Locks |-> {}]
  /\ halted = FALSE

Checked(l) == mLockOrder[l] # LO_DONT_CARE
Holds(t, l) == t \in writers[l] \cup readers[l]
Top(t) == mLockStack[t][Len(mLockStack[t])]

\* Mutant of InOrder: locks of one class may be nested.
InOrderOrSame(t, l) ==
  mLockStack[t] # <<>> => mLockOrder[Top(t)] <= mLockOrder[l]

\* The CRASH_ASSERT of Push on the two orders.
InOrder(t, l) ==
  mLockStack[t] # <<>> => mLockOrder[Top(t)] < mLockOrder[l]

\* EnterWriteLock (x) or EnterReadLock: Push, then spin.
Enter(t, l, x) ==
  /\ waiting[t] = None
  /\ \A k \in Locks : Holds(t, k) => Checked(k)
  /\ IF Checked(l) /\ ~(Len(mLockStack[t]) < MAX_LOCK_DEPTH /\ InOrder(t, l))
     THEN /\ halted' = TRUE
          /\ UNCHANGED <<mLockStack, waiting, exclusive>>
     ELSE /\ mLockStack' = IF Checked(l) THEN [mLockStack EXCEPT ![t] = Append(@, l)]
                                         ELSE mLockStack
          /\ waiting' = [waiting EXCEPT ![t] = l]
          /\ exclusive' = [exclusive EXCEPT ![t] = x]
          /\ UNCHANGED halted
  /\ UNCHANGED <<writers, readers>>

\* What the thread waits for is free for it: RWLock's AcquireWrite and AcquireRead.
Acquire(t) ==
  LET l == waiting[t] IN
  /\ l # None
  /\ writers[l] = {}
  /\ IF exclusive[t]
     THEN /\ readers[l] = {}
          /\ writers' = [writers EXCEPT ![l] = {t}]
          /\ UNCHANGED readers
     ELSE /\ readers' = [readers EXCEPT ![l] = @ \cup {t}]
          /\ UNCHANGED writers
  /\ waiting' = [waiting EXCEPT ![t] = None]
  /\ UNCHANGED <<mLockStack, exclusive, halted>>

\* Mutant of Pop: the entry stays.
PopForgotten(t) == UNCHANGED mLockStack

Pop(t) == mLockStack' = [mLockStack EXCEPT ![t] = SubSeq(@, 1, Len(@) - 1)]

\* LeaveWriteLock or LeaveReadLock: the flag first, then Pop and its CRASH_ASSERTs.
Leave(t, l) ==
  /\ waiting[t] = None
  /\ Holds(t, l)
  /\ writers' = [writers EXCEPT ![l] = @ \ {t}]
  /\ readers' = [readers EXCEPT ![l] = @ \ {t}]
  /\ IF Checked(l) THEN IF mLockStack[t] # <<>> /\ Top(t) = l
                        THEN Pop(t) /\ UNCHANGED halted
                        ELSE halted' = TRUE /\ UNCHANGED mLockStack
                   ELSE UNCHANGED <<mLockStack, halted>>
  /\ UNCHANGED <<waiting, exclusive>>

Step(t) ==
  /\ ~halted
  /\ \/ Acquire(t)
     \/ \E l \in Locks : Leave(t, l) \/ \E x \in BOOLEAN : Enter(t, l, x)

Next == (\E t \in Threads : Step(t)) \/ (halted /\ UNCHANGED vars)

Spec == Init /\ [][Next]_vars

-----------------------------------------------------------------------------
(* Correctness *)

\* t spins on a lock that u holds and that is not free for t as long as u does.
WaitsFor(t, u) ==
  /\ waiting[t] # None
  /\ \/ u \in writers[waiting[t]]
     \/ exclusive[t] /\ u \in readers[waiting[t]]

\* No set of threads can ever wait for each other, nor one for itself: whatever the locks
\* and their nesting, the asserts stop the program before it can deadlock
\* (LockOrderChecker::Push).
NoDeadlock ==
  \A D \in SUBSET Threads : D # {} => \E t \in D : \A u \in D : ~WaitsFor(t, u)

\* The checker's stack is the truth about its thread: its entries are exactly the checked
\* locks the thread holds or spins on, each once, in rising order, the awaited one on top
\* (Push, Pop).
StackExact ==
  ~halted => \A t \in Threads :
    LET q == mLockStack[t] IN
    /\ \A i, j \in DOMAIN q : i < j => mLockOrder[q[i]] < mLockOrder[q[j]]
    /\ \A l \in Locks : Checked(l) =>
         ((Holds(t, l) \/ waiting[t] = l) <=> \E i \in DOMAIN q : q[i] = l)
    /\ waiting[t] # None => ~Holds(t, waiting[t]) /\ (Checked(waiting[t]) => Top(t) = waiting[t])

\* What a thread does with lock l, as RWLock tells it.  A thread inside the lock that spins
\* on it once more is shown as one that wants it.
Mode(l) ==
  [t \in Threads |->
     IF waiting[t] = l THEN IF exclusive[t] THEN "wantsWrite" ELSE "wantsRead"
     ELSE IF t \in writers[l] THEN "writes"
     ELSE IF t \in readers[l] THEN "reads"
     ELSE "away"]

\* However the program nests its locks, no thread that is inside one starts to spin on the
\* same one, as a reader or as a writer: RWLock knows no such step, and FastSpinlock, which
\* keeps nothing per thread, may never come back from it.  For the checked locks only the
\* asserts see to that (LockOrderChecker::Push, and Pop, which keeps the stack they look at).
\* So each lock alone is used as RWLock describes.
Lock(l) == INSTANCE RWLock WITH mode <- Mode(l)
LocksAreRWLocks ==
  /\ \A l \in Locks : Lock(l)!Init
  /\ [][\A l \in Locks : UNCHANGED Mode(l) \/ Lock(l)!Next]_vars
=============================================================================
