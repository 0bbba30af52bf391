---------------------------- MODULE MemoryPool ----------------------------
(***************************************************************************)
(* MemoryPool of the IOCP server (MemoryPool.h, MemoryPool.cpp): xnew,     *)
(* xdelete and STLAllocator take and return blocks of a few fixed sizes,   *)
(* each kept in an interlocked free list of its own; requests of more than *)
(* MAX_ALLOC_SIZE bytes go to the heap.  Any thread may free what another  *)
(* one allocated.  The interlocked operations are atomic, what stands      *)
(* between two of them is not.                                             *)
(***************************************************************************)
EXTENDS Integers, Sequences, FiniteSets, SequencesExt

CONSTANTS Threads,
          Blocks,       \* the pieces of memory _aligned_malloc can find (bound)
          Sizes,        \* the sizes the program asks for
          None

ASSUME SizesAssumption == Sizes \subseteq Nat
ASSUME NoneAssumption  == None \notin Blocks

MAX_ALLOC_SIZE == 4096
MEMORY_ALLOCATION_ALIGNMENT == 8
MAX_SMALL_POOL_COUNT == (1024 \div 32) + (1024 \div 128) + (2048 \div 256)
HeaderSize == 16        \* sizeof(MemAllocInfo)

VARIABLES
  freeList,     \* pool size |-> its blocks, the head first (mFreeList)
  allocCount,   \* pool size |-> mAllocCount
  room,         \* block |-> bytes it was obtained with; 0: not obtained
  allocSize,    \* block |-> mAllocSize in its header
  owners,       \* block |-> the pointers to it the program holds
  want,         \* block |-> the size it was last asked for
  pc, mine, real, asked \* each thread's place, block, realAllocSize and size

vars == <<freeList, allocCount, room, allocSize, owners, want, pc, mine, real, asked>>
client == <<owners, want>>
local == <<mine, real, asked>>

(***************************************************************************)
(* The table of MemoryPool's constructor: three loops, each making one     *)
(* pool per size and entering it for every size above the last one's.      *)
(***************************************************************************)
\* for (i = from; i <= to; i += step)
Loop(from, to, step) == [k \in 1 .. ((to - from) \div step) + 1 |-> from + (k - 1) * step]

PoolSizes == Loop(32, 1023, 32) \o Loop(1024, 2047, 128) \o Loop(2048, 4096, 256)

Recent(k) == IF k = 1 THEN 0 ELSE PoolSizes[k - 1]

Entered(k) == Recent(k) + 1 .. PoolSizes[k]

Table == [j \in 0 .. MAX_ALLOC_SIZE |->
            IF \E k \in DOMAIN PoolSizes : j \in Entered(k)
              THEN PoolSizes[CHOOSE k \in DOMAIN PoolSizes : j \in Entered(k)]
              ELSE None]

RealSize(size) == size + HeaderSize

\* the pools these sizes use: the others never change
Pools == {Table[r] : r \in {n \in {RealSize(s) : s \in Sizes} : n <= MAX_ALLOC_SIZE}}

Init ==
  /\ freeList = [p \in Pools |-> << >>] /\ allocCount = [p \in Pools |-> 0]
  /\ room = [b \in Blocks |-> 0] /\ allocSize = [b \in Blocks |-> 0]
  /\ owners = [b \in Blocks |-> 0] /\ want = [b \in Blocks |-> 0]
  /\ pc = [t \in Threads |-> "out"] /\ mine = [t \in Threads |-> None]
  /\ real = [t \in Threads |-> 0] /\ asked = [t \in Threads |-> 0]

Goto(t, from, to) == pc[t] = from /\ pc' = [pc EXCEPT ![t] = to]

\* CRASH_ASSERT: where cond is false the thread ends in the exception filter;
\* the others run on until it has suspended them
CrashAssert(t, from, cond, to) == Goto(t, from, IF cond THEN to ELSE "crashed")

\* _aligned_malloc(bytes): what its header holds is not read before Attach
Malloc(t, bytes) ==
  \E b \in Blocks :
    /\ room[b] = 0
    /\ room' = [room EXCEPT ![b] = bytes]
    /\ mine' = [mine EXCEPT ![t] = b]

\* A bound of the model: a thread asks only when a block is left for it on its
\* pool's list or on the heap, so that malloc always succeeds.
Left(size) ==
  LET p == Table[RealSize(size)] IN
  \/ Cardinality({b \in Blocks : room[b] = 0})
       > Cardinality({t \in Threads : pc[t] \in {"malloc", "pop", "grow"}})
  \/ /\ RealSize(size) <= MAX_ALLOC_SIZE
     /\ Len(freeList[p]) > Cardinality({t \in Threads : pc[t] = "pop" /\ Table[real[t]] = p})

(***************************************************************************)
(* Allocate(size) and SmallSizeMemoryPool::Pop.                            *)
(***************************************************************************)
Allocate(t, size) ==
  /\ Left(size)
  /\ Goto(t, "out", IF RealSize(size) > MAX_ALLOC_SIZE THEN "malloc" ELSE "pop")
  /\ real' = [real EXCEPT ![t] = RealSize(size)]
  /\ asked' = [asked EXCEPT ![t] = size]
  /\ UNCHANGED <<freeList, allocCount, room, allocSize, client, mine>>

\* a size above the largest pool's: straight from the heap
AllocateLarge(t) ==
  /\ Goto(t, "malloc", "attach")
  /\ Malloc(t, real[t])
  /\ UNCHANGED <<freeList, allocCount, allocSize, client, real, asked>>

\* InterlockedPopEntrySList gives a block ...
PopEntry(t) ==
  LET p == Table[real[t]] IN
  /\ Goto(t, "pop", "check")
  /\ freeList[p] # << >>
  /\ mine' = [mine EXCEPT ![t] = Head(freeList[p])]
  /\ freeList' = [freeList EXCEPT ![p] = Tail(@)]
  /\ UNCHANGED <<allocCount, room, allocSize, client, real, asked>>

\* ... that must not be in use
PopCheck(t) ==
  /\ CrashAssert(t, "check", allocSize[mine[t]] = 0, "increment")
  /\ UNCHANGED <<freeList, allocCount, room, allocSize, client, local>>

\* ... or NULL, and the pool obtains a block of its size
PopEmpty(t) ==
  LET p == Table[real[t]] IN
  /\ Goto(t, "pop", "grow")
  /\ freeList[p] = << >>
  /\ UNCHANGED <<freeList, allocCount, room, allocSize, client, local>>

\* mutant: the new block is also put on the list
GrowStocked(t) ==
  /\ Goto(t, "grow", "increment")
  /\ Malloc(t, Table[real[t]])
  /\ freeList' = [freeList EXCEPT ![Table[real[t]]] = <<mine'[t]>> \o @]
  /\ UNCHANGED <<allocCount, allocSize, client, real, asked>>

Grow(t) ==
  /\ Goto(t, "grow", "increment")
  /\ Malloc(t, Table[real[t]])
  /\ UNCHANGED <<freeList, allocCount, allocSize, client, real, asked>>

Increment(t) ==
  /\ Goto(t, "increment", "attach")
  /\ allocCount' = [allocCount EXCEPT ![Table[real[t]]] = @ + 1]
  /\ UNCHANGED <<freeList, room, allocSize, client, local>>

\* AttachMemAllocInfo: the header keeps the size, the program gets the rest
Attach(t) ==
  /\ Goto(t, "attach", "out")
  /\ allocSize' = [allocSize EXCEPT ![mine[t]] = real[t]]
  /\ owners' = [owners EXCEPT ![mine[t]] = @ + 1]
  /\ want' = [want EXCEPT ![mine[t]] = asked[t]]
  /\ mine' = [mine EXCEPT ![t] = None]
  /\ real' = [real EXCEPT ![t] = 0]
  /\ asked' = [asked EXCEPT ![t] = 0]
  /\ UNCHANGED <<freeList, allocCount, room>>

(***************************************************************************)
(* Deallocate(ptr, extraInfo) and SmallSizeMemoryPool::Push.               *)
(***************************************************************************)
Deallocate(t, b) ==
  /\ Goto(t, "out", "exchange")
  /\ owners[b] > 0
  /\ owners' = [owners EXCEPT ![b] = @ - 1]
  /\ mine' = [mine EXCEPT ![t] = b]
  /\ UNCHANGED <<want, freeList, allocCount, room, allocSize, real, asked>>

\* mutant: the size is read and not exchanged
ExchangeRead(t) ==
  /\ CrashAssert(t, "exchange", allocSize[mine[t]] > 0,
                 IF allocSize[mine[t]] > MAX_ALLOC_SIZE THEN "free" ELSE "push")
  /\ real' = [real EXCEPT ![t] = allocSize[mine[t]]]
  /\ UNCHANGED <<freeList, allocCount, room, allocSize, client, mine, asked>>

\* InterlockedExchange(&mAllocSize, 0): a block freed twice shows a 0
Exchange(t) ==
  /\ CrashAssert(t, "exchange", allocSize[mine[t]] > 0,
                 IF allocSize[mine[t]] > MAX_ALLOC_SIZE THEN "free" ELSE "push")
  /\ real' = [real EXCEPT ![t] = allocSize[mine[t]]]
  /\ allocSize' = [allocSize EXCEPT ![mine[t]] = 0]
  /\ UNCHANGED <<freeList, allocCount, room, client, mine, asked>>

\* _aligned_free
FreeLarge(t) ==
  /\ Goto(t, "free", "out")
  /\ room' = [room EXCEPT ![mine[t]] = 0]
  /\ mine' = [mine EXCEPT ![t] = None]
  /\ real' = [real EXCEPT ![t] = 0]
  /\ UNCHANGED <<freeList, allocCount, allocSize, client, asked>>

\* mutant: the block goes to the pool of the object's size
PushBySize(t) ==
  /\ Goto(t, "push", "decrement")
  /\ freeList' = [freeList EXCEPT ![Table[real[t] - HeaderSize]] = <<mine[t]>> \o @]
  /\ mine' = [mine EXCEPT ![t] = None]
  /\ UNCHANGED <<allocCount, room, allocSize, client, real, asked>>

\* InterlockedPushEntrySList
PushEntry(t) ==
  /\ Goto(t, "push", "decrement")
  /\ freeList' = [freeList EXCEPT ![Table[real[t]]] = <<mine[t]>> \o @]
  /\ mine' = [mine EXCEPT ![t] = None]
  /\ UNCHANGED <<allocCount, room, allocSize, client, real, asked>>

\* mutant: the freed block is not counted
NoDecrement(t) ==
  /\ Goto(t, "decrement", "out")
  /\ real' = [real EXCEPT ![t] = 0]
  /\ UNCHANGED <<freeList, allocCount, room, allocSize, client, mine, asked>>

Decrement(t) ==
  /\ Goto(t, "decrement", "out")
  /\ allocCount' = [allocCount EXCEPT ![Table[real[t]]] = @ - 1]
  /\ real' = [real EXCEPT ![t] = 0]
  /\ UNCHANGED <<freeList, room, allocSize, client, mine, asked>>

Next ==
  \E t \in Threads :
    \/ \E size \in Sizes : Allocate(t, size)
    \/ AllocateLarge(t) \/ PopEntry(t) \/ PopCheck(t) \/ PopEmpty(t) \/ Grow(t)
    \/ Increment(t) \/ Attach(t)
    \/ \E b \in Blocks : Deallocate(t, b)
    \/ Exchange(t) \/ FreeLarge(t) \/ PushEntry(t) \/ Decrement(t)

Spec == Init /\ [][Next]_vars

(***************************************************************************)
(* Properties.                                                             *)
(***************************************************************************)
PCs == {"out", "malloc", "pop", "check", "grow", "increment", "attach",
        "exchange", "free", "push", "decrement", "crashed"}

\* Every variable keeps its type; mAllocCount is never below zero.
TypeOK ==
  /\ freeList \in [Pools -> Seq(Blocks)] /\ allocCount \in [Pools -> Nat]
  /\ room \in [Blocks -> Nat] /\ allocSize \in [Blocks -> Nat]
  /\ owners \in [Blocks -> Nat] /\ want \in [Blocks -> Sizes \cup {0}]
  /\ pc \in [Threads -> PCs] /\ mine \in [Threads -> Blocks \cup {None}]
  /\ real \in [Threads -> Nat] /\ asked \in [Threads -> Nat]

\* Neither assertion fails: a block on a free list says it is not in use, and
\* a block the program frees says it is (MemoryPool.cpp:23, :100).
AssertsNeverFail == \A t \in Threads : pc[t] # "crashed"

\* The sizes of the pools that hold n bytes; TightPool is what the table is for:
\* the smallest of them, found by its definition.
PoolsFor(n) == {p \in Range(PoolSizes) : p >= n}

TightPool(n) == CHOOSE p \in PoolsFor(n) : \A q \in PoolsFor(n) : p <= q

\* Whatever a block was used for before, the program's block has room for the
\* header and the object, in the smallest pool that holds both, and a freed
\* block is on the list of its own size: the size kept in the header, not the
\* one the caller passes, chooses the pool.
BlocksComeHome ==
  /\ \A b \in Blocks : owners[b] > 0 =>
       /\ allocSize[b] = RealSize(want[b])
       /\ room[b] = IF allocSize[b] > MAX_ALLOC_SIZE THEN allocSize[b] ELSE TightPool(allocSize[b])
  /\ \A p \in Pools : \A b \in Range(freeList[p]) : room[b] = p

\* The pool's blocks that are not on its list, counted by mAllocCount up to
\* the threads that are between a list operation and the count's.
Out(p) == {b \in Blocks : room[b] = p /\ b \notin Range(freeList[p])}

Uncounted(p) ==
  {t \in Threads : pc[t] \in {"check", "increment"} /\ Table[real[t]] = p}

Overcounted(p) == {t \in Threads : pc[t] = "decrement" /\ Table[real[t]] = p}

\* mAllocCount is never further from the number of blocks out of the pool than
\* the threads inside Pop and Push explain.
CountExact ==
  \A p \in Pools :
    allocCount[p] = Cardinality(Out(p)) - Cardinality(Uncounted(p)) + Cardinality(Overcounted(p))

\* The pool is an allocator: no block is given out while somebody has it.
Memory == INSTANCE Allocator
HandsOutOnce == Memory!Spec
=============================================================================
