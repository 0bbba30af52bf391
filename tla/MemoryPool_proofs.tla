------------------------- MODULE MemoryPool_proofs -------------------------
(***************************************************************************)
(* Proofs about MemoryPool, for any threads, any memory and any sizes.     *)
(* Every block is in one place: on the heap, on the list of its size, in   *)
(* the hands of one thread or with the program; Inv says, for each of      *)
(* these, what the header shows and what room the block has.  A step moves *)
(* one block of one thread (Touches), so each lemma about an action shows  *)
(* the invariant of that thread, that block and the pools' lists and       *)
(* counts, and Together adds the others.                                   *)
(***************************************************************************)
EXTENDS MemoryPool, FiniteSetTheorems, SequenceTheorems, TLAPS

(***************************************************************************)
(* The table of sizes (MemoryPool.cpp:38-:74).                             *)
(***************************************************************************)
\* The pools made by the first loop of the constructor, by the first two, and by all three.
SmallPools  == 31
MiddlePools == 39
AllPools    == 48

\* The k-th pool size in closed form.
PoolAt(k) ==
  IF k <= 31 THEN 32 * k ELSE IF k <= 39 THEN 1024 + 128 * (k - 32) ELSE 2048 + 256 * (k - 40)

\* Concatenation under a name the provers leave alone.
Join(A, B) == A \o B

\* Three sequences in a row, element by element.
LEMMA JoinThree ==
  ASSUME NEW A \in Seq(Nat), NEW B \in Seq(Nat), NEW C \in Seq(Nat)
  PROVE  /\ Join(Join(A, B), C) \in Seq(Nat)
         /\ Len(Join(Join(A, B), C)) = (Len(A) + Len(B)) + Len(C)
         /\ \A k \in 1..(Len(A) + Len(B)) + Len(C) :
              Join(Join(A, B), C)[k] = IF k <= Len(A) THEN A[k]
                                       ELSE IF k <= Len(A) + Len(B) THEN B[k - Len(A)]
                                       ELSE C[k - (Len(A) + Len(B))]
<1>1. PICK D : D = Join(A, B)
  OBVIOUS
<1>2. /\ D \in Seq(Nat) /\ Len(D) = Len(A) + Len(B)
      /\ \A k \in 1..Len(D) : D[k] = IF k <= Len(A) THEN A[k] ELSE B[k - Len(A)]
  BY <1>1, ConcatProperties DEF Join
<1>3. /\ Join(D, C) \in Seq(Nat) /\ Len(Join(D, C)) = Len(D) + Len(C)
      /\ \A k \in 1..Len(D) + Len(C) : Join(D, C)[k] = IF k <= Len(D) THEN D[k] ELSE C[k - Len(D)]
  <2>1. D \in Seq(Nat)
    BY <1>2
  <2>2. QED
    BY <2>1, ConcatProperties DEF Join
<1>4. PICK m, n, p : m = Len(A) /\ n = Len(D) /\ p = Len(C)
  OBVIOUS
<1>5. m \in Nat /\ n \in Nat /\ p \in Nat
  BY <1>2, <1>4
<1>6. ASSUME NEW k \in 1..n + p
      PROVE  Join(D, C)[k] = IF k <= m THEN A[k] ELSE IF k <= n THEN B[k - m] ELSE C[k - n]
  <2>1. m <= n
    BY <1>2, <1>4, <1>5
  <2>2. CASE k <= n
    <3>1. k \in 1..n
      BY <1>5, <2>2
    <3>2. D[k] = IF k <= m THEN A[k] ELSE B[k - m]
      BY <1>2, <1>4, <3>1
    <3>3. Join(D, C)[k] = D[k]
      BY <1>3, <1>4, <1>5, <2>2
    <3>4. QED
      BY <1>5, <2>1, <2>2, <3>2, <3>3
  <2>3. CASE ~(k <= n)
    <3>1. Join(D, C)[k] = C[k - n]
      BY <1>3, <1>4, <1>5, <2>3
    <3>2. QED
      BY <1>5, <2>1, <2>3, <3>1
  <2>4. QED
    BY <2>2, <2>3
<1>7. QED
  BY <1>1, <1>2, <1>3, <1>4, <1>5, <1>6

\* The sizes of the three loops in a row: the k-th pool is of PoolAt(k) bytes.
LEMMA PoolSizesAre ==
  /\ PoolSizes \in Seq(Nat) /\ Len(PoolSizes) = AllPools /\ DOMAIN PoolSizes = 1..AllPools
  /\ \A k \in 1..AllPools : PoolSizes[k] = PoolAt(k) /\ PoolAt(k) \in Nat
<1> DEFINE A == Loop(32, 1023, 32)
           B == Loop(1024, 2047, 128)
           C == Loop(2048, 4096, 256)
           m == SmallPools  n == MiddlePools  l == AllPools
           o == MiddlePools - SmallPools  p == AllPools - MiddlePools
<1>1. m \in Nat /\ A \in Seq(Nat) /\ Len(A) = m /\ \A k \in 1..m : A[k] = 32 + (k - 1) * 32
  <2>1. m \in Nat /\ ((1023 - 32) \div 32) + 1 = m
    BY DEF SmallPools
  <2>2. A = [k \in 1..m |-> 32 + (k - 1) * 32]
    BY <2>1 DEF Loop
  <2> HIDE DEF A, m
  <2>3. QED
    BY <2>1, <2>2
<1>2. o \in Nat /\ B \in Seq(Nat) /\ Len(B) = o /\ \A k \in 1..o : B[k] = 1024 + (k - 1) * 128
  <2>1. o \in Nat /\ ((2047 - 1024) \div 128) + 1 = o
    BY DEF SmallPools, MiddlePools
  <2>2. B = [k \in 1..o |-> 1024 + (k - 1) * 128]
    BY <2>1 DEF Loop
  <2> HIDE DEF B, o
  <2>3. QED
    BY <2>1, <2>2
<1>3. p \in Nat /\ C \in Seq(Nat) /\ Len(C) = p /\ \A k \in 1..p : C[k] = 2048 + (k - 1) * 256
  <2>1. p \in Nat /\ ((4096 - 2048) \div 256) + 1 = p
    BY DEF MiddlePools, AllPools
  <2>2. C = [k \in 1..p |-> 2048 + (k - 1) * 256]
    BY <2>1 DEF Loop
  <2> HIDE DEF C, p
  <2>3. QED
    BY <2>1, <2>2
<1>4. PoolSizes = Join(Join(A, B), C)
  BY DEF PoolSizes, Join
<1>5. m \in Nat /\ n \in Nat /\ l \in Nat /\ n = m + o /\ l = n + p
  BY DEF SmallPools, MiddlePools, AllPools
<1> HIDE DEF A, B, C, m, n, l, o, p
<1>6. /\ PoolSizes \in Seq(Nat) /\ Len(PoolSizes) = l
      /\ \A k \in 1..l : PoolSizes[k] = IF k <= m THEN A[k]
                                        ELSE IF k <= n THEN B[k - m] ELSE C[k - n]
  <2>1. A \in Seq(Nat) /\ B \in Seq(Nat) /\ C \in Seq(Nat)
    BY <1>1, <1>2, <1>3
  <2>2. Len(A) = m /\ Len(A) + Len(B) = n /\ (Len(A) + Len(B)) + Len(C) = l
    BY <1>1, <1>2, <1>3, <1>5
  <2>3. /\ Join(Join(A, B), C) \in Seq(Nat)
        /\ Len(Join(Join(A, B), C)) = (Len(A) + Len(B)) + Len(C)
        /\ \A k \in 1..(Len(A) + Len(B)) + Len(C) :
             Join(Join(A, B), C)[k] = IF k <= Len(A) THEN A[k]
                                      ELSE IF k <= Len(A) + Len(B) THEN B[k - Len(A)]
                                      ELSE C[k - (Len(A) + Len(B))]
    BY <2>1, JoinThree
  <2>4. QED
    BY <1>4, <2>2, <2>3
<1>7. ASSUME NEW k \in 1..l
      PROVE  PoolSizes[k] = PoolAt(k) /\ PoolAt(k) \in Nat
  <2>0. m = 31 /\ n = 39 /\ l = 48
    BY DEF m, n, l, SmallPools, MiddlePools, AllPools
  <2>1. CASE k <= m
    <3>1. k \in 1..m
      BY <1>1, <1>5, <2>1
    <3>2. PoolSizes[k] = 32 + (k - 1) * 32
      BY <1>1, <1>6, <2>1, <3>1
    <3>3. QED
      BY <1>5, <2>0, <2>1, <3>2 DEF PoolAt
  <2>2. CASE ~(k <= m) /\ k <= n
    <3>1. k - m \in 1..o
      BY <1>1, <1>2, <1>5, <2>2
    <3>2. PoolSizes[k] = 1024 + ((k - m) - 1) * 128
      BY <1>2, <1>6, <2>2, <3>1
    <3>3. QED
      BY <1>5, <2>0, <2>2, <3>2 DEF PoolAt
  <2>3. CASE ~(k <= m) /\ ~(k <= n)
    <3>1. k - n \in 1..p
      BY <1>1, <1>2, <1>3, <1>5, <2>3
    <3>2. PoolSizes[k] = 2048 + ((k - n) - 1) * 256
      BY <1>3, <1>6, <2>3, <3>1
    <3>3. QED
      BY <1>5, <2>0, <2>3, <3>2 DEF PoolAt
  <2>4. QED
    BY <2>1, <2>2, <2>3
<1>8. PoolSizes \in Seq(Nat) /\ Len(PoolSizes) = l
  BY <1>6
<1>9. DOMAIN PoolSizes = 1..l
  BY <1>8, LenProperties
<1>10. QED
  BY <1>7, <1>8, <1>9 DEF l

\* The sizes rise from each pool to the next, up to the largest pooled size.
LEMMA PoolsRise ==
  /\ AllPools \in Nat /\ 1 \in 1..AllPools
  /\ \A j, k \in 1..AllPools : j < k => PoolAt(j) < PoolAt(k)
  /\ \A k \in 1..AllPools : PoolAt(k) >= 32 /\ PoolAt(k) <= MAX_ALLOC_SIZE
<1>1. AllPools = 48
  BY DEF AllPools
<1>2. ASSUME NEW j \in Int, NEW k \in Int, 1 <= j, j < k, k <= 48
      PROVE  PoolAt(j) < PoolAt(k)
  <2>1. PoolAt(j) = IF j <= 31 THEN 32 * j ELSE IF j <= 39 THEN 1024 + 128 * (j - 32) ELSE 2048 + 256 * (j - 40)
    BY DEF PoolAt
  <2>2. PoolAt(k) = IF k <= 31 THEN 32 * k ELSE IF k <= 39 THEN 1024 + 128 * (k - 32) ELSE 2048 + 256 * (k - 40)
    BY DEF PoolAt
  <2>3. CASE j <= 31
    BY <1>2, <2>1, <2>2, <2>3
  <2>4. CASE ~(j <= 31) /\ j <= 39
    BY <1>2, <2>1, <2>2, <2>4
  <2>5. CASE ~(j <= 39)
    BY <1>2, <2>1, <2>2, <2>5
  <2>6. QED
    BY <2>3, <2>4, <2>5
<1>3. ASSUME NEW k \in Int, 1 <= k, k <= 48
      PROVE  PoolAt(k) >= 32 /\ PoolAt(k) <= 4096
  BY <1>3 DEF PoolAt
<1>4. AllPools \in Nat /\ \A k \in 1..AllPools : k \in Int /\ 1 <= k /\ k <= 48
  BY <1>1
<1>5. QED
  BY <1>1, <1>2, <1>3, <1>4 DEF MAX_ALLOC_SIZE

\* Every size up to the largest has a pool: the first one that is large enough.
LEMMA PoolExists ==
  ASSUME NEW n \in 1..MAX_ALLOC_SIZE
  PROVE  \E k \in 1..AllPools : n <= PoolAt(k) /\ (k = 1 \/ PoolAt(k - 1) < n)
<1>0. n \in Int /\ 1 <= n /\ n <= 4096
  BY DEF MAX_ALLOC_SIZE
<1>1. SUFFICES \E k \in Int : 1 <= k /\ k <= 48 /\ n <= PoolAt(k) /\ (k = 1 \/ PoolAt(k - 1) < n)
  BY DEF AllPools
<1>2. CASE n <= 992
  <2> DEFINE k == (n + 31) \div 32
  <2>1. k \in Int /\ 32 * k <= n + 31 /\ n + 31 < 32 * k + 32
    BY <1>0
  <2> HIDE DEF k
  <2>2. 1 <= k /\ k <= 31
    BY <1>0, <1>2, <2>1
  <2>3. n <= PoolAt(k) /\ (k = 1 \/ PoolAt(k - 1) < n)
    BY <1>0, <1>2, <2>1, <2>2 DEF PoolAt
  <2>4. QED
    BY <2>1, <2>2, <2>3
<1>3. CASE n > 992 /\ n <= 1920
  <2> DEFINE k == ((n + 127) \div 128) + 24
  <2>1. k \in Int /\ 128 * (k - 24) <= n + 127 /\ n + 127 < 128 * (k - 24) + 128
    BY <1>0
  <2> HIDE DEF k
  <2>2. 32 <= k /\ k <= 39
    BY <1>0, <1>3, <2>1
  <2>3. n <= PoolAt(k) /\ PoolAt(k - 1) < n
    BY <1>0, <1>3, <2>1, <2>2 DEF PoolAt
  <2>4. QED
    BY <2>1, <2>2, <2>3
<1>4. CASE n > 1920
  <2> DEFINE k == ((n + 255) \div 256) + 32
  <2>1. k \in Int /\ 256 * (k - 32) <= n + 255 /\ n + 255 < 256 * (k - 32) + 256
    BY <1>0
  <2> HIDE DEF k
  <2>2. 40 <= k /\ k <= 48
    BY <1>0, <1>4, <2>1
  <2>3. n <= PoolAt(k) /\ PoolAt(k - 1) < n
    BY <1>0, <1>4, <2>1, <2>2 DEF PoolAt
  <2>4. QED
    BY <2>1, <2>2, <2>3
<1>5. QED
  BY <1>0, <1>2, <1>3, <1>4

\* The table holds the smallest of the pools that are large enough.
LEMMA TableAt ==
  ASSUME NEW n \in 1..MAX_ALLOC_SIZE
  PROVE  /\ Table[n] = TightPool(n) /\ Table[n] \in Nat
         /\ n <= Table[n] /\ 32 <= Table[n] /\ Table[n] <= MAX_ALLOC_SIZE
<1>1. PICK k \in 1..AllPools : n <= PoolAt(k) /\ (k = 1 \/ PoolAt(k - 1) < n)
  BY PoolExists
<1>2. /\ DOMAIN PoolSizes = 1..AllPools
      /\ \A j \in 1..AllPools : PoolSizes[j] = PoolAt(j) /\ PoolAt(j) \in Nat
  BY PoolSizesAre
<1>3. /\ AllPools \in Nat
      /\ \A i, j \in 1..AllPools : i < j => PoolAt(i) < PoolAt(j)
      /\ \A j \in 1..AllPools : PoolAt(j) >= 32 /\ PoolAt(j) <= MAX_ALLOC_SIZE
  BY PoolsRise
<1>4. n \in 0..MAX_ALLOC_SIZE /\ n \in Nat /\ n >= 1
  <2>1. MAX_ALLOC_SIZE \in Nat
    BY DEF MAX_ALLOC_SIZE
  <2>2. QED
    BY <2>1
<1>5. \A j \in 1..AllPools : n \in Entered(j) <=> (n <= PoolAt(j) /\ (j = 1 \/ PoolAt(j - 1) < n))
  <2>1. SUFFICES ASSUME NEW j \in 1..AllPools
                 PROVE  n \in Entered(j) <=> (n <= PoolAt(j) /\ (j = 1 \/ PoolAt(j - 1) < n))
    OBVIOUS
  <2>2. CASE j = 1
    BY <1>2, <1>3, <1>4, <2>2 DEF Entered, Recent
  <2>3. CASE j # 1
    <3>1. j - 1 \in 1..AllPools
      BY <1>3, <2>3
    <3>2. QED
      BY <1>2, <1>4, <2>3, <3>1 DEF Entered, Recent
  <2>4. QED
    BY <2>2, <2>3
<1>6. \A j \in 1..AllPools : n \in Entered(j) => j = k
  <2>1. SUFFICES ASSUME NEW j \in 1..AllPools, n \in Entered(j), j # k
                 PROVE  FALSE
    OBVIOUS
  <2>2. n <= PoolAt(j) /\ (j = 1 \/ PoolAt(j - 1) < n)
    BY <1>5, <2>1
  <2>3. CASE j < k
    <3>1. k - 1 \in 1..AllPools /\ k # 1 /\ (j = k - 1 \/ j < k - 1)
      BY <1>3, <2>3
    <3>2. PoolAt(j) <= PoolAt(k - 1)
      BY <1>2, <1>3, <3>1
    <3>3. QED
      BY <1>1, <1>2, <1>4, <2>2, <3>1, <3>2
  <2>4. CASE k < j
    <3>1. j - 1 \in 1..AllPools /\ j # 1 /\ (k = j - 1 \/ k < j - 1)
      BY <1>3, <2>4
    <3>2. PoolAt(k) <= PoolAt(j - 1)
      BY <1>2, <1>3, <3>1
    <3>3. QED
      BY <1>1, <1>2, <1>4, <2>2, <3>1, <3>2
  <2>5. QED
    BY <1>3, <2>1, <2>3, <2>4
<1>7. n \in Entered(k)
  BY <1>1, <1>5
<1>8. Table[n] = PoolAt(k)
  <2>1. (CHOOSE j \in DOMAIN PoolSizes : n \in Entered(j)) = k
    BY <1>2, <1>6, <1>7
  <2>2. \E j \in DOMAIN PoolSizes : n \in Entered(j)
    BY <1>2, <1>7
  <2>3. QED
    BY <1>2, <1>4, <2>1, <2>2 DEF Table
<1>9. TightPool(n) = PoolAt(k)
  <2>1. PoolsFor(n) = {p \in {PoolAt(j) : j \in 1..AllPools} : p >= n}
    <3>1. Range(PoolSizes) = {PoolAt(j) : j \in 1..AllPools}
      BY <1>2 DEF Range
    <3>2. QED
      BY <3>1 DEF PoolsFor
  <2>2. PoolAt(k) \in PoolsFor(n)
    BY <1>1, <1>2, <1>4, <2>1
  <2>3. \A q \in PoolsFor(n) : PoolAt(k) <= q /\ q \in Nat
    <3>1. SUFFICES ASSUME NEW j \in 1..AllPools, PoolAt(j) >= n
                   PROVE  PoolAt(k) <= PoolAt(j) /\ PoolAt(j) \in Nat
      BY <2>1
    <3>2. CASE j < k
      <4>1. k - 1 \in 1..AllPools /\ k # 1 /\ (j = k - 1 \/ j < k - 1)
        BY <1>3, <3>2
      <4>2. PoolAt(j) <= PoolAt(k - 1)
        BY <1>2, <1>3, <4>1
      <4>3. QED
        BY <1>1, <1>2, <1>4, <3>1, <4>1, <4>2
    <3>3. CASE k < j
      BY <1>2, <1>3, <3>3
    <3>4. CASE j = k
      BY <1>2, <3>4
    <3>5. QED
      BY <1>3, <3>2, <3>3, <3>4
  <2>4. \A p \in PoolsFor(n) : (\A q \in PoolsFor(n) : p <= q) => p = PoolAt(k)
    BY <1>2, <2>2, <2>3
  <2>5. QED
    BY <2>2, <2>3, <2>4 DEF TightPool
<1>10. QED
  BY <1>1, <1>2, <1>3, <1>8, <1>9

(***************************************************************************)
(* The inductive invariant, and facts about rooms and lists.               *)
(***************************************************************************)
\* What a request becomes with the header, and the room a block has for it.
Requests == {RealSize(s) : s \in Sizes}

Room(n) == IF n > MAX_ALLOC_SIZE THEN n ELSE Table[n]

Listed(p) == Range(freeList[p])

\* The places where a thread has a block in its hands.
HoldingPCs == {"check", "increment", "attach", "exchange", "free", "push"}
Holding(t) == pc[t] \in HoldingPCs

\* A thread's local variables agree with its place.
ThreadAt(t) ==
  /\ mine[t] # None <=> Holding(t)
  /\ pc[t] \notin {"out", "exchange"} => real[t] \in Requests
  /\ pc[t] \in {"pop", "check", "grow", "increment", "push", "decrement"} => real[t] <= MAX_ALLOC_SIZE
  /\ pc[t] \in {"malloc", "free"} => real[t] > MAX_ALLOC_SIZE
  /\ pc[t] \in {"malloc", "pop", "check", "grow", "increment", "attach"} =>
       asked[t] \in Sizes /\ real[t] = RealSize(asked[t])

\* No other thread has the block in a thread's hands.
Alone(t) == \A u \in Threads : Holding(t) /\ Holding(u) /\ mine[u] = mine[t] => u = t

\* Nor has the program, nor a list; its header is cleared, and it has the room for what it is
\* about to be used for, or was; before the exchange the header says that.
HeldAt(t) ==
  Holding(t) =>
    /\ owners[mine[t]] = 0
    /\ \A p \in Pools : mine[t] \notin Listed(p)
    /\ IF pc[t] = "exchange"
       THEN allocSize[mine[t]] \in Requests /\ room[mine[t]] = Room(allocSize[mine[t]])
       ELSE allocSize[mine[t]] = 0 /\ room[mine[t]] = Room(real[t])

\* A block on a list is there once, of the list's size, cleared, and nobody's.
Once(s) == \A i, j \in DOMAIN s : s[i] = s[j] => i = j
ListAt(p) ==
  /\ Once(freeList[p])
  /\ \A b \in Listed(p) : room[b] = p /\ allocSize[b] = 0 /\ owners[b] = 0

\* A block the program has says so in its header and has the room; one on the heap is cleared.
BlockAt(b) ==
  /\ owners[b] \in {0, 1}
  /\ owners[b] = 1 => /\ want[b] \in Sizes /\ allocSize[b] = RealSize(want[b])
                      /\ room[b] = Room(allocSize[b])
  /\ room[b] = 0 => allocSize[b] = 0

\* The count is that of the blocks out of the pool, but for the threads between the two steps.
CountAt(p) ==
  /\ IsFiniteSet(Out(p)) /\ IsFiniteSet(Uncounted(p)) /\ IsFiniteSet(Overcounted(p))
  /\ allocCount[p] = Cardinality(Out(p)) - Cardinality(Uncounted(p)) + Cardinality(Overcounted(p))

Inv ==
  /\ TypeOK /\ AssertsNeverFail
  /\ \A t \in Threads : ThreadAt(t)
  /\ \A t \in Threads : Alone(t) /\ HeldAt(t)
  /\ \A p \in Pools : ListAt(p)
  /\ \A b \in Blocks : BlockAt(b)
  /\ \A p \in Pools : CountAt(p)

\* Every request has a room, and every pool is one of a request; what is pooled and what is
\* not are told apart by the room.
LEMMA RoomIs ==
  /\ \A n \in Requests : n \in Nat /\ n > 0 /\ Room(n) \in Nat /\ Room(n) > 0
  /\ \A n \in Requests : n <= MAX_ALLOC_SIZE => /\ Table[n] = Room(n) /\ Room(n) \in Pools
                                                /\ Room(n) = TightPool(n)
  /\ \A n \in Requests : n > MAX_ALLOC_SIZE => Room(n) = n /\ Room(n) \notin Pools
  /\ \A p \in Pools : p \in Nat /\ p > 0 /\ p <= MAX_ALLOC_SIZE
  /\ MAX_ALLOC_SIZE \in Nat
<1>1. MAX_ALLOC_SIZE \in Nat
  BY DEF MAX_ALLOC_SIZE
<1>2. \A s \in Sizes : RealSize(s) \in Nat /\ RealSize(s) > 0
  BY SizesAssumption DEF RealSize, HeaderSize
<1>3. ASSUME NEW n \in Requests
      PROVE  n \in Nat /\ n > 0
  BY <1>2 DEF Requests
<1>4. ASSUME NEW n \in Requests, n <= MAX_ALLOC_SIZE
      PROVE  /\ Table[n] = Room(n) /\ Room(n) \in Pools /\ Room(n) = TightPool(n)
             /\ Room(n) \in Nat /\ Room(n) > 0 /\ Room(n) <= MAX_ALLOC_SIZE
  <2>1. n \in 1..MAX_ALLOC_SIZE /\ ~(n > MAX_ALLOC_SIZE)
    BY <1>1, <1>3, <1>4
  <2>2. /\ Table[n] = TightPool(n) /\ Table[n] \in Nat
        /\ 32 <= Table[n] /\ Table[n] <= MAX_ALLOC_SIZE
    BY <2>1, TableAt
  <2>3. Room(n) = Table[n]
    BY <2>1 DEF Room
  <2>4. Table[n] \in Pools
    BY <1>4 DEF Pools, Requests
  <2>5. QED
    BY <2>2, <2>3, <2>4
<1>5. ASSUME NEW p \in Pools
      PROVE  p \in Nat /\ p > 0 /\ p <= MAX_ALLOC_SIZE
  <2>1. PICK n \in Requests : n <= MAX_ALLOC_SIZE /\ p = Table[n]
    BY DEF Pools, Requests
  <2>2. QED
    BY <1>4, <2>1
<1>6. ASSUME NEW n \in Requests, n > MAX_ALLOC_SIZE
      PROVE  Room(n) = n /\ Room(n) \notin Pools /\ Room(n) \in Nat /\ Room(n) > 0
  <2>1. Room(n) = n
    BY <1>6 DEF Room
  <2>2. n \in Nat /\ n > 0
    BY <1>3
  <2>3. n \notin Pools
    BY <1>1, <1>5, <1>6, <2>2
  <2>4. QED
    BY <2>1, <2>2, <2>3
<1>7. \A n \in Requests : n <= MAX_ALLOC_SIZE \/ n > MAX_ALLOC_SIZE
  BY <1>1, <1>3
<1>8. QED
  BY <1>1, <1>3, <1>4, <1>5, <1>6, <1>7

\* Taking the head of a list.
LEMMA PopIs ==
  ASSUME NEW s \in Seq(Blocks), s # << >>, Once(s)
  PROVE  /\ Head(s) \in Blocks /\ Head(s) \in Range(s)
         /\ Tail(s) \in Seq(Blocks) /\ Once(Tail(s)) /\ Range(Tail(s)) = Range(s) \ {Head(s)}
<1>1. /\ Len(s) \in Nat /\ Len(s) >= 1 /\ DOMAIN s = 1..Len(s) /\ Head(s) = s[1]
      /\ \A i \in 1..Len(s) : s[i] \in Blocks
  OBVIOUS
<1>2. /\ Tail(s) \in Seq(Blocks) /\ DOMAIN Tail(s) = 1..Len(s) - 1
      /\ \A i \in 1..Len(s) - 1 : Tail(s)[i] = s[i + 1]
  BY <1>1
<1>3. Head(s) \in Blocks /\ Head(s) \in Range(s)
  BY <1>1 DEF Range
<1>4. \A i \in 1..Len(s) - 1 : i + 1 \in 1..Len(s) /\ i + 1 # 1
  BY <1>1
<1>5. Once(Tail(s))
  <2>1. SUFFICES ASSUME NEW i \in 1..Len(s) - 1, NEW j \in 1..Len(s) - 1, s[i + 1] = s[j + 1]
                 PROVE  i = j
    BY <1>2 DEF Once
  <2>2. i + 1 = j + 1
    BY <1>1, <1>4, <2>1 DEF Once
  <2>3. QED
    BY <2>2
<1>6. ASSUME NEW b \in Range(Tail(s))
      PROVE  b \in Range(s) /\ b # Head(s)
  <2>1. PICK i \in 1..Len(s) - 1 : b = s[i + 1]
    BY <1>2 DEF Range
  <2>2. QED
    BY <1>1, <1>4, <2>1 DEF Range, Once
<1>7. ASSUME NEW b \in Range(s), b # Head(s)
      PROVE  b \in Range(Tail(s))
  <2>1. PICK i \in 1..Len(s) : b = s[i]
    BY <1>1 DEF Range
  <2>2. i - 1 \in 1..Len(s) - 1 /\ (i - 1) + 1 = i
    BY <1>1, <1>7, <2>1
  <2>3. Tail(s)[i - 1] = b
    BY <1>2, <2>1, <2>2
  <2>4. QED
    BY <1>2, <2>2, <2>3 DEF Range
<1>8. QED
  BY <1>2, <1>3, <1>5, <1>6, <1>7

\* Putting a block that is not on the list at its head.
LEMMA PushIs ==
  ASSUME NEW s \in Seq(Blocks), NEW b \in Blocks, Once(s), b \notin Range(s)
  PROVE  /\ << b >> \o s \in Seq(Blocks) /\ Once(<< b >> \o s)
         /\ Range(<< b >> \o s) = Range(s) \cup {b}
<1>1. Len(s) \in Nat /\ DOMAIN s = 1..Len(s)
  OBVIOUS
<1>2. PICK q : q = << b >> \o s
  OBVIOUS
<1>3. /\ q \in Seq(Blocks) /\ DOMAIN q = 1..Len(s) + 1 /\ q[1] = b
      /\ \A i \in 1..Len(s) : q[i + 1] = s[i]
  BY <1>1, <1>2
<1>4. \A i \in 1..Len(s) + 1 : i = 1 \/ (i - 1 \in 1..Len(s) /\ (i - 1) + 1 = i)
  BY <1>1
<1>5. \A i \in 1..Len(s) + 1 : i = 1 \/ q[i] = s[i - 1]
  BY <1>3, <1>4
<1>6. Once(q)
  <2>1. SUFFICES ASSUME NEW i \in 1..Len(s) + 1, NEW j \in 1..Len(s) + 1, q[i] = q[j]
                 PROVE  i = j
    BY <1>3 DEF Once
  <2>2. CASE i = 1 /\ j = 1
    BY <2>2
  <2>3. CASE i = 1 /\ j # 1
    <3>1. s[j - 1] \in Range(s) /\ q[j] = s[j - 1]
      BY <1>1, <1>4, <1>5, <2>3 DEF Range
    <3>2. QED
      BY <1>3, <2>1, <2>3, <3>1
  <2>4. CASE i # 1 /\ j = 1
    <3>1. s[i - 1] \in Range(s) /\ q[i] = s[i - 1]
      BY <1>1, <1>4, <1>5, <2>4 DEF Range
    <3>2. QED
      BY <1>3, <2>1, <2>4, <3>1
  <2>5. CASE i # 1 /\ j # 1
    <3>1. /\ i - 1 \in DOMAIN s /\ j - 1 \in DOMAIN s /\ s[i - 1] = s[j - 1]
          /\ (i - 1) + 1 = i /\ (j - 1) + 1 = j
      BY <1>1, <1>4, <1>5, <2>1, <2>5
    <3>2. i - 1 = j - 1
      BY <3>1 DEF Once
    <3>3. QED
      BY <3>1, <3>2
  <2>6. QED
    BY <2>2, <2>3, <2>4, <2>5
<1>7. ASSUME NEW x \in Range(q)
      PROVE  x \in Range(s) \cup {b}
  <2>1. PICK i \in 1..Len(s) + 1 : x = q[i]
    BY <1>3 DEF Range
  <2>2. QED
    BY <1>1, <1>3, <1>4, <1>5, <2>1 DEF Range
<1>8. ASSUME NEW x \in Range(s)
      PROVE  x \in Range(q)
  <2>1. PICK i \in 1..Len(s) : x = s[i]
    BY <1>1 DEF Range
  <2>2. i + 1 \in 1..Len(s) + 1
    BY <1>1
  <2>3. QED
    BY <1>3, <2>1, <2>2 DEF Range
<1>9. b \in Range(q)
  <2>1. 1 \in 1..Len(s) + 1
    BY <1>1
  <2>2. QED
    BY <1>3, <2>1 DEF Range
<1>10. QED
  BY <1>2, <1>3, <1>6, <1>7, <1>8, <1>9

(***************************************************************************)
(* A step of one thread: what it leaves alone, and what is left to show.   *)
(***************************************************************************)
\* A step of thread t that changes at most block b, which no other thread has.
Touches(t, b) ==
  /\ \A u \in Threads : u # t => /\ pc'[u] = pc[u] /\ mine'[u] = mine[u]
                                 /\ real'[u] = real[u] /\ asked'[u] = asked[u]
  /\ \A a \in Blocks : a # b => /\ room'[a] = room[a] /\ allocSize'[a] = allocSize[a]
                                /\ owners'[a] = owners[a] /\ want'[a] = want[a]
  /\ \A p \in Pools, a \in Blocks : a # b => (a \in Listed(p)' <=> a \in Listed(p))
  /\ \A u \in Threads : u # t /\ Holding(u) => mine[u] # b
  /\ Holding(t)' => mine'[t] = b

\* A thread that has a block in its hands knows which.
LEMMA MineIs ==
  ASSUME Inv, NEW t \in Threads, Holding(t)
  PROVE  mine[t] \in Blocks
<1>1. mine[t] \in Blocks \cup {None} /\ ThreadAt(t)
  BY DEF Inv, TypeOK
<1>2. QED
  BY <1>1 DEF ThreadAt

\* The invariant of the threads that do not step.
LEMMA ElsewhereThreads ==
  ASSUME Inv, NEW t \in Threads, NEW b, Touches(t, b), NEW u \in Threads, u # t
  PROVE  ThreadAt(u)' /\ Alone(u)' /\ HeldAt(u)' /\ pc'[u] # "crashed"
<1>1. pc'[u] = pc[u] /\ mine'[u] = mine[u] /\ real'[u] = real[u] /\ asked'[u] = asked[u]
  BY DEF Touches
<1>2. ThreadAt(u) /\ Alone(u) /\ HeldAt(u) /\ pc[u] # "crashed"
  BY DEF Inv, AssertsNeverFail
<1>3. ThreadAt(u)'
  BY <1>1, <1>2 DEF ThreadAt, Holding, HoldingPCs
<1>4. Holding(u)' <=> Holding(u)
  BY <1>1 DEF Holding
<1>5. Alone(u)'
  <2>1. SUFFICES ASSUME NEW v \in Threads, Holding(u), Holding(v)', mine'[v] = mine[u]
                 PROVE  v = u
    BY <1>1, <1>4 DEF Alone
  <2>2. CASE v = t
    BY <2>1, <2>2 DEF Touches
  <2>3. CASE v # t
    <3>1. pc'[v] = pc[v] /\ mine'[v] = mine[v]
      BY <2>3 DEF Touches
    <3>2. QED
      BY <1>2, <2>1, <3>1 DEF Alone, Holding
  <2>4. QED
    BY <2>2, <2>3
<1>6. HeldAt(u)'
  <2>1. SUFFICES ASSUME Holding(u)
                 PROVE  HeldAt(u)'
    BY <1>4 DEF HeldAt
  <2>2. mine[u] \in Blocks /\ mine[u] # b
    BY <2>1, MineIs DEF Touches
  <2>3. /\ room'[mine[u]] = room[mine[u]] /\ allocSize'[mine[u]] = allocSize[mine[u]]
        /\ owners'[mine[u]] = owners[mine[u]]
        /\ \A p \in Pools : mine[u] \in Listed(p)' <=> mine[u] \in Listed(p)
    BY <2>2 DEF Touches
  <2>4. QED
    BY <1>1, <1>2, <2>1, <2>3 DEF HeldAt
<1>7. QED
  BY <1>1, <1>2, <1>3, <1>5, <1>6

\* The invariant of the blocks that are not touched.
LEMMA ElsewhereBlocks ==
  ASSUME Inv, NEW t \in Threads, NEW b, Touches(t, b), NEW a \in Blocks, a # b
  PROVE  BlockAt(a)'
<1>1. /\ room'[a] = room[a] /\ allocSize'[a] = allocSize[a]
      /\ owners'[a] = owners[a] /\ want'[a] = want[a]
  BY DEF Touches
<1>2. BlockAt(a)
  BY DEF Inv
<1>3. QED
  BY <1>1, <1>2 DEF BlockAt

\* The block a step touches is on no list, and the lists stay.
LEMMA ListsKept ==
  ASSUME Inv, NEW t \in Threads, NEW b, Touches(t, b), freeList' = freeList,
         \A p \in Pools : b \notin Listed(p), NEW p \in Pools
  PROVE  ListAt(p)'
<1>1. freeList'[p] = freeList[p] /\ Listed(p)' = Listed(p) /\ b \notin Listed(p)
  BY DEF Listed
<1>2. ListAt(p) /\ freeList[p] \in Seq(Blocks)
  BY DEF Inv, TypeOK
<1>3. Listed(p) \subseteq Blocks
  BY <1>2 DEF Listed, Range
<1>4. ASSUME NEW a \in Listed(p)
      PROVE  room'[a] = p /\ allocSize'[a] = 0 /\ owners'[a] = 0
  <2>1. a \in Blocks /\ a # b
    BY <1>1, <1>3
  <2>2. room'[a] = room[a] /\ allocSize'[a] = allocSize[a] /\ owners'[a] = owners[a]
    BY <2>1 DEF Touches
  <2>3. QED
    BY <1>2, <2>2 DEF ListAt
<1>5. QED
  BY <1>1, <1>2, <1>4 DEF ListAt

\* What a step has to show besides.
LEMMA Together ==
  ASSUME Inv, NEW t \in Threads, NEW b, Touches(t, b),
         TypeOK', pc'[t] # "crashed", ThreadAt(t)', HeldAt(t)',
         b \in Blocks => BlockAt(b)',
         \A p \in Pools : ListAt(p)', \A p \in Pools : CountAt(p)'
  PROVE  Inv'
<1>1. \A u \in Threads : ThreadAt(u)' /\ HeldAt(u)' /\ pc'[u] # "crashed"
  BY ElsewhereThreads
<1>2. \A u \in Threads : Alone(u)'
  <2>1. SUFFICES ASSUME NEW u \in Threads
                 PROVE  Alone(u)'
    OBVIOUS
  <2>2. CASE u # t
    BY <2>2, ElsewhereThreads
  <2>3. CASE u = t
    <3>1. SUFFICES ASSUME NEW v \in Threads, v # t, Holding(t)', Holding(v)', mine'[v] = mine'[t]
                   PROVE  FALSE
      BY <2>3 DEF Alone
    <3>2. mine'[v] = mine[v] /\ pc'[v] = pc[v]
      BY <3>1 DEF Touches
    <3>3. QED
      BY <3>1, <3>2 DEF Touches, Holding
  <2>4. QED
    BY <2>2, <2>3
<1>3. \A a \in Blocks : BlockAt(a)'
  BY ElsewhereBlocks
<1>4. AssertsNeverFail'
  BY <1>1 DEF AssertsNeverFail
<1>5. QED
  BY <1>1, <1>2, <1>3, <1>4 DEF Inv

\* The threads counted for a pool, when those of others stay.
LEMMA WhoIsCounted ==
  ASSUME NEW t \in Threads, NEW b, Touches(t, b), NEW p \in Pools
  PROVE  /\ \A u \in Threads : u # t => (u \in Uncounted(p)' <=> u \in Uncounted(p))
         /\ \A u \in Threads : u # t => (u \in Overcounted(p)' <=> u \in Overcounted(p))
  BY DEF Touches, Uncounted, Overcounted

\* The blocks out of a pool, when the other ones stay.
LEMMA WhatIsOut ==
  ASSUME NEW t \in Threads, NEW b, Touches(t, b), NEW p \in Pools
  PROVE  \A a \in Blocks : a # b => (a \in Out(p)' <=> a \in Out(p))
  BY DEF Touches, Out, Listed

\* A set changed in one element.
In(x, S) == IF x \in S THEN 1 ELSE 0

\* The size of a set changes by what happens to the one element that may come or go.
LEMMA OneElement ==
  ASSUME NEW S, NEW T, NEW x, IsFiniteSet(S), \A y \in S \cup T : y # x => (y \in T <=> y \in S)
  PROVE  IsFiniteSet(T) /\ Cardinality(T) = Cardinality(S) + In(x, T) - In(x, S)
<1>1. Cardinality(S) \in Nat
  BY FS_CardinalityType
<1>2. CASE x \in T /\ x \notin S
  <2>1. T = S \cup {x}
    BY <1>2
  <2>2. IsFiniteSet(S \cup {x}) /\ Cardinality(S \cup {x}) = Cardinality(S) + 1
    BY <1>2, FS_AddElement
  <2>3. QED
    BY <1>1, <1>2, <2>1, <2>2 DEF In
<1>3. CASE x \notin T /\ x \in S
  <2>1. T = S \ {x}
    BY <1>3
  <2>2. IsFiniteSet(S \ {x}) /\ Cardinality(S \ {x}) = Cardinality(S) - 1
    BY <1>3, FS_RemoveElement
  <2>3. QED
    BY <1>1, <1>3, <2>1, <2>2 DEF In
<1>4. CASE x \in T <=> x \in S
  <2>1. T = S
    BY <1>4
  <2>2. QED
    BY <1>1, <2>1 DEF In
<1>5. QED
  BY <1>2, <1>3, <1>4

\* The count stays exact when it moves by what the step changes of the three sets.
LEMMA CountMoves ==
  ASSUME Inv, NEW t \in Threads, NEW b, Touches(t, b), NEW p \in Pools,
         allocCount'[p] = allocCount[p]
                          + (In(b, Out(p)') - In(b, Out(p)))
                          - (In(t, Uncounted(p)') - In(t, Uncounted(p)))
                          + (In(t, Overcounted(p)') - In(t, Overcounted(p)))
  PROVE  CountAt(p)'
<1>1. CountAt(p) /\ allocCount[p] \in Nat
  BY DEF Inv, TypeOK
<1>2. /\ IsFiniteSet(Out(p)) /\ Cardinality(Out(p)) \in Nat
      /\ IsFiniteSet(Uncounted(p)) /\ Cardinality(Uncounted(p)) \in Nat
      /\ IsFiniteSet(Overcounted(p)) /\ Cardinality(Overcounted(p)) \in Nat
  BY <1>1, FS_CardinalityType DEF CountAt
<1>3. /\ Uncounted(p)' \subseteq Threads /\ Uncounted(p) \subseteq Threads
      /\ Overcounted(p)' \subseteq Threads /\ Overcounted(p) \subseteq Threads
      /\ Out(p)' \subseteq Blocks /\ Out(p) \subseteq Blocks
  BY DEF Uncounted, Overcounted, Out
<1>4. \A y \in Out(p) \cup Out(p)' : y # b => (y \in Out(p)' <=> y \in Out(p))
  BY <1>3, WhatIsOut
<1>5. \A y \in Uncounted(p) \cup Uncounted(p)' : y # t => (y \in Uncounted(p)' <=> y \in Uncounted(p))
  BY <1>3, WhoIsCounted
<1>6. \A y \in Overcounted(p) \cup Overcounted(p)' :
        y # t => (y \in Overcounted(p)' <=> y \in Overcounted(p))
  BY <1>3, WhoIsCounted
<1>7. /\ IsFiniteSet(Out(p)')
      /\ Cardinality(Out(p)') = Cardinality(Out(p)) + In(b, Out(p)') - In(b, Out(p))
  BY <1>2, <1>4, OneElement
<1>8. /\ IsFiniteSet(Uncounted(p)')
      /\ Cardinality(Uncounted(p)')
           = Cardinality(Uncounted(p)) + In(t, Uncounted(p)') - In(t, Uncounted(p))
  BY <1>2, <1>5, OneElement
<1>9. /\ IsFiniteSet(Overcounted(p)')
      /\ Cardinality(Overcounted(p)')
           = Cardinality(Overcounted(p)) + In(t, Overcounted(p)') - In(t, Overcounted(p))
  BY <1>2, <1>6, OneElement
<1>10. \A x, S : In(x, S) \in {0, 1}
  BY DEF In
<1>11. allocCount[p] = Cardinality(Out(p)) - Cardinality(Uncounted(p)) + Cardinality(Overcounted(p))
  BY <1>1 DEF CountAt
<1>12. /\ In(b, Out(p)') \in Int /\ In(b, Out(p)) \in Int
       /\ In(t, Uncounted(p)') \in Int /\ In(t, Uncounted(p)) \in Int
       /\ In(t, Overcounted(p)') \in Int /\ In(t, Overcounted(p)) \in Int
  BY <1>10
<1>13. allocCount'[p] = Cardinality(Out(p)') - Cardinality(Uncounted(p)') + Cardinality(Overcounted(p)')
  BY <1>1, <1>2, <1>7, <1>8, <1>9, <1>11, <1>12
<1>14. QED
  BY <1>7, <1>8, <1>9, <1>13 DEF CountAt

\* A block out of a pool for every thread that has yet to count one: mAllocCount is not negative.
LEMMA UncountedOut ==
  ASSUME Inv, NEW p \in Pools
  PROVE  Cardinality(Uncounted(p)) <= Cardinality(Out(p))
<1>1. IsFiniteSet(Out(p)) /\ IsFiniteSet(Uncounted(p))
  BY DEF Inv, CountAt
<1>2. ASSUME NEW t \in Uncounted(p)
      PROVE  Holding(t) /\ t \in Threads /\ mine[t] \in Out(p)
  <2>1. t \in Threads /\ pc[t] \in {"check", "increment"} /\ Table[real[t]] = p
    BY DEF Uncounted
  <2>2. Holding(t)
    BY <2>1 DEF Holding, HoldingPCs
  <2>3. mine[t] \in Blocks
    BY <2>1, <2>2, MineIs
  <2>4. ThreadAt(t) /\ HeldAt(t)
    BY <2>1 DEF Inv
  <2>5. real[t] \in Requests /\ real[t] <= MAX_ALLOC_SIZE
    BY <2>1, <2>4 DEF ThreadAt
  <2>6. p = Room(real[t])
    BY <2>1, <2>5, RoomIs
  <2>7. room[mine[t]] = p /\ mine[t] \notin Listed(p)
    BY <2>1, <2>2, <2>4, <2>6 DEF HeldAt
  <2>8. QED
    BY <2>1, <2>2, <2>3, <2>7 DEF Out, Listed
<1>3. PICK f : f = [t \in Uncounted(p) |-> mine[t]]
  OBVIOUS
<1>4. f \in [Uncounted(p) -> Out(p)]
  BY <1>2, <1>3
<1>5. ASSUME NEW t \in Uncounted(p), NEW u \in Uncounted(p), f[t] = f[u]
      PROVE  t = u
  <2>1. mine[t] = mine[u]
    BY <1>3, <1>5
  <2>2. Alone(t)
    BY <1>2 DEF Inv
  <2>3. QED
    BY <1>2, <2>1, <2>2 DEF Alone
<1>6. f \in Injection(Uncounted(p), Out(p))
  BY <1>4, <1>5 DEF Injection, IsInjective
<1>7. QED
  BY <1>1, <1>6, FS_Injection

\* Before the first request nothing is held, listed or counted.
LEMMA InvInit == Init => Inv
<1>1. SUFFICES ASSUME Init PROVE Inv
  OBVIOUS
<1>2. TypeOK
  BY <1>1 DEF Init, TypeOK, PCs
<1>3. AssertsNeverFail
  BY <1>1 DEF Init, AssertsNeverFail
<1>4. ASSUME NEW t \in Threads
      PROVE  ThreadAt(t) /\ Alone(t) /\ HeldAt(t)
  <2>1. pc[t] = "out" /\ mine[t] = None
    BY <1>1 DEF Init
  <2>2. QED
    BY <2>1 DEF ThreadAt, Alone, HeldAt, Holding, HoldingPCs
<1>5. ASSUME NEW p \in Pools
      PROVE  ListAt(p)
  <2>1. freeList[p] = << >> /\ Range(<< >>) = {}
    BY <1>1 DEF Init, Range
  <2>2. QED
    BY <2>1 DEF ListAt, Listed, Once
<1>6. ASSUME NEW b \in Blocks
      PROVE  BlockAt(b)
  BY <1>1 DEF Init, BlockAt
<1>7. ASSUME NEW p \in Pools
      PROVE  CountAt(p)
  <2>1. p # 0
    BY RoomIs
  <2>2. Out(p) = {} /\ Uncounted(p) = {} /\ Overcounted(p) = {} /\ allocCount[p] = 0
    BY <1>1, <2>1 DEF Init, Out, Uncounted, Overcounted
  <2>3. QED
    BY <2>2, FS_EmptySet DEF CountAt
<1>8. QED
  BY <1>2, <1>3, <1>4, <1>5, <1>6, <1>7 DEF Inv

(***************************************************************************)
(* Facts about threads, blocks and pools where the invariant holds.        *)
(***************************************************************************)
\* A step that moves neither the count nor what it counts.
LEMMA SameCounted ==
  ASSUME Inv, NEW t \in Threads, NEW b, Touches(t, b), NEW p \in Pools, allocCount'[p] = allocCount[p],
         b \in Out(p)' <=> b \in Out(p),
         t \in Uncounted(p)' <=> t \in Uncounted(p),
         t \in Overcounted(p)' <=> t \in Overcounted(p)
  PROVE  CountAt(p)'
<1>1. allocCount[p] \in Nat /\ \A x, S : In(x, S) \in {0, 1}
  BY DEF Inv, TypeOK, In
<1>2. In(b, Out(p)') = In(b, Out(p)) /\ In(b, Out(p)) \in Int
  BY <1>1 DEF In
<1>3. /\ In(t, Uncounted(p)') = In(t, Uncounted(p)) /\ In(t, Uncounted(p)) \in Int
      /\ In(t, Overcounted(p)') = In(t, Overcounted(p)) /\ In(t, Overcounted(p)) \in Int
  BY <1>1 DEF In
<1>4. allocCount'[p] = allocCount[p]
                       + (In(b, Out(p)') - In(b, Out(p)))
                       - (In(t, Uncounted(p)') - In(t, Uncounted(p)))
                       + (In(t, Overcounted(p)') - In(t, Overcounted(p)))
  BY <1>1, <1>2, <1>3
<1>5. QED
  BY <1>4, CountMoves

\* Where the rooms and the lists stay, what is out of a pool stays.
LEMMA SameOut ==
  ASSUME UNCHANGED <<freeList, room>>, NEW p
  PROVE  Out(p)' = Out(p) /\ Listed(p)' = Listed(p)
  BY DEF Out, Listed

\* The places that are not between a list operation and its count.
LEMMA NotCounting ==
  ASSUME NEW t \in Threads, NEW p
  PROVE  /\ pc[t] \notin {"check", "increment"} => t \notin Uncounted(p)
         /\ pc[t] # "decrement" => t \notin Overcounted(p)
         /\ pc'[t] \notin {"check", "increment"} => t \notin Uncounted(p)'
         /\ pc'[t] # "decrement" => t \notin Overcounted(p)'
  BY DEF Uncounted, Overcounted

\* A block in a thread's hands is nobody else's.
LEMMA InHand ==
  ASSUME Inv, NEW t \in Threads, Holding(t)
  PROVE  /\ mine[t] \in Blocks /\ owners[mine[t]] = 0
         /\ \A p \in Pools : mine[t] \notin Listed(p)
         /\ \A u \in Threads : u # t /\ Holding(u) => mine[u] # mine[t]
<1>1. HeldAt(t) /\ Alone(t)
  BY DEF Inv
<1>2. QED
  BY <1>1, MineIs DEF HeldAt, Alone

\* A thread without a block has None, and None is on no list.
LEMMA NobodyHasNone ==
  ASSUME Inv
  PROVE  /\ \A u \in Threads : Holding(u) => mine[u] # None
         /\ \A u \in Threads : ~Holding(u) => mine[u] = None
         /\ \A p \in Pools : Listed(p) \subseteq Blocks /\ None \notin Listed(p)
<1>1. \A u \in Threads : Holding(u) <=> mine[u] # None
  BY DEF Inv, ThreadAt
<1>2. ASSUME NEW p \in Pools
      PROVE  Listed(p) \subseteq Blocks
  <2>1. freeList[p] \in Seq(Blocks)
    BY DEF Inv, TypeOK
  <2>2. QED
    BY <2>1 DEF Listed, Range
<1>3. QED
  BY <1>1, <1>2, NoneAssumption

\* What malloc finds is cleared, and nobody's.
LEMMA Fresh ==
  ASSUME Inv, NEW b \in Blocks, room[b] = 0
  PROVE  /\ allocSize[b] = 0 /\ owners[b] = 0
         /\ \A p \in Pools : b \notin Listed(p) /\ b \notin Out(p)
         /\ \A u \in Threads : Holding(u) => mine[u] # b
<1>1. BlockAt(b)
  BY DEF Inv
<1>2. \A p \in Pools : p # 0
  BY RoomIs
<1>3. \A p \in Pools : b \notin Listed(p) /\ b \notin Out(p)
  BY <1>2 DEF Inv, ListAt, Out
<1>4. ASSUME owners[b] = 1
      PROVE  FALSE
  <2>1. allocSize[b] \in Requests /\ room[b] = Room(allocSize[b])
    BY <1>1, <1>4 DEF BlockAt, Requests
  <2>2. QED
    BY <2>1, RoomIs
<1>5. ASSUME NEW u \in Threads, Holding(u), mine[u] = b
      PROVE  FALSE
  <2>1. HeldAt(u) /\ ThreadAt(u)
    BY DEF Inv
  <2>2. CASE pc[u] = "exchange"
    <3>1. allocSize[b] \in Requests /\ room[b] = Room(allocSize[b])
      BY <1>5, <2>1, <2>2 DEF HeldAt
    <3>2. QED
      BY <3>1, RoomIs
  <2>3. CASE pc[u] # "exchange"
    <3>1. real[u] \in Requests
      BY <1>5, <2>1, <2>3 DEF ThreadAt, Holding, HoldingPCs
    <3>2. room[b] = Room(real[u])
      BY <1>5, <2>1, <2>3 DEF HeldAt
    <3>3. QED
      BY <3>1, <3>2, RoomIs
  <2>4. QED
    BY <2>2, <2>3
<1>6. QED
  BY <1>1, <1>3, <1>4, <1>5 DEF BlockAt

\* The pool of a thread's request.
LEMMA PoolOf ==
  ASSUME Inv, NEW t \in Threads, pc[t] \in {"pop", "check", "grow", "increment", "push", "decrement"}
  PROVE  /\ real[t] \in Requests /\ Table[real[t]] \in Pools
         /\ Table[real[t]] = Room(real[t])
<1>1. ThreadAt(t)
  BY DEF Inv
<1>2. real[t] \in Requests /\ real[t] <= MAX_ALLOC_SIZE
  BY <1>1 DEF ThreadAt
<1>3. QED
  BY <1>2, RoomIs

\* A step that changes no block touches the one in hand, if any.
LEMMA LocalTouches ==
  ASSUME Inv, NEW t \in Threads, UNCHANGED <<freeList, room, allocSize, owners, want>>,
         \A u \in Threads : u # t => /\ pc'[u] = pc[u] /\ mine'[u] = mine[u]
                                     /\ real'[u] = real[u] /\ asked'[u] = asked[u],
         mine'[t] = mine[t]
  PROVE  Touches(t, mine[t])
<1>1. PICK b : b = mine[t]
  OBVIOUS
<1>2. \A u \in Threads : u # t /\ Holding(u) => mine[u] # b
  BY <1>1, InHand, NobodyHasNone
<1>3. Holding(t)' => mine'[t] = b
  BY <1>1
<1>4. \A p \in Pools : Listed(p)' = Listed(p)
  BY DEF Listed
<1>5. Touches(t, b)
  BY <1>2, <1>3, <1>4 DEF Touches
<1>6. QED
  BY <1>1, <1>5

\* What such a step has to show.
LEMMA OnlyLocal ==
  ASSUME Inv, NEW t \in Threads, UNCHANGED <<freeList, room, allocSize, owners, want>>,
         Touches(t, mine[t]),
         TypeOK', pc'[t] # "crashed", ThreadAt(t)', HeldAt(t)',
         \A p \in Pools : CountAt(p)'
  PROVE  Inv'
<1>1. PICK b : b = mine[t]
  OBVIOUS
<1>2. Touches(t, b)
  BY <1>1
<1>3. \A p \in Pools : b \notin Listed(p)
  BY <1>1, InHand, NobodyHasNone
<1>4. \A p \in Pools : ListAt(p)'
  BY <1>2, <1>3, ListsKept
<1>5. b \in Blocks => BlockAt(b)'
  <2>1. b \in Blocks => BlockAt(b)
    BY DEF Inv
  <2>2. QED
    BY <2>1 DEF BlockAt
<1>6. QED
  BY <1>2, <1>4, <1>5, Together

(***************************************************************************)
(* The steps that change no block.                                         *)
(***************************************************************************)
\* Allocate: the thread has its size and no block yet.
LEMMA AllocateKeeps ==
  ASSUME Inv, NEW t \in Threads, NEW size \in Sizes, Allocate(t, size)
  PROVE  Inv'
<1>1. /\ pc[t] = "out" /\ pc'[t] \in {"malloc", "pop"} /\ mine' = mine
      /\ (pc'[t] = "malloc" <=> RealSize(size) > MAX_ALLOC_SIZE)
      /\ real'[t] = RealSize(size) /\ asked'[t] = size
      /\ UNCHANGED <<freeList, allocCount, room, allocSize, owners, want>>
      /\ \A u \in Threads : u # t => pc'[u] = pc[u] /\ real'[u] = real[u] /\ asked'[u] = asked[u]
  BY DEF Inv, TypeOK, Allocate, Goto, client
<1>2. RealSize(size) \in Requests /\ RealSize(size) \in Nat
  BY RoomIs DEF Requests
<1>3. TypeOK'
  BY <1>1, <1>2, SizesAssumption DEF Inv, TypeOK, PCs, Allocate, Goto, client
<1>4. Touches(t, mine[t])
  BY <1>1, LocalTouches
<1>5. ~Holding(t) /\ ~Holding(t)' /\ mine[t] = None
  <2>1. ~Holding(t) /\ ~Holding(t)'
    BY <1>1 DEF Holding, HoldingPCs
  <2>2. QED
    BY <2>1, NobodyHasNone
<1>6. ThreadAt(t)' /\ HeldAt(t)'
  <2>1. RealSize(size) <= MAX_ALLOC_SIZE \/ RealSize(size) > MAX_ALLOC_SIZE
    BY <1>2, RoomIs
  <2>2. QED
    BY <1>1, <1>2, <1>5, <2>1 DEF ThreadAt, HeldAt
<1>7. ASSUME NEW p \in Pools
      PROVE  CountAt(p)'
  BY <1>1, <1>4, SameOut, NotCounting, SameCounted
<1>8. QED
  BY <1>1, <1>3, <1>4, <1>6, <1>7, OnlyLocal

\* An empty list: on to the allocation of a new block.
LEMMA PopEmptyKeeps ==
  ASSUME Inv, NEW t \in Threads, PopEmpty(t)
  PROVE  Inv'
<1>1. /\ pc[t] = "pop" /\ pc'[t] = "grow"
      /\ UNCHANGED <<freeList, allocCount, room, allocSize, owners, want, mine, real, asked>>
      /\ \A u \in Threads : u # t => pc'[u] = pc[u]
  BY DEF Inv, TypeOK, PopEmpty, Goto, client, local
<1>2. TypeOK'
  BY <1>1 DEF Inv, TypeOK, PCs, PopEmpty, Goto
<1>3. Touches(t, mine[t])
  BY <1>1, LocalTouches
<1>4. ~Holding(t) /\ ~Holding(t)'
  BY <1>1 DEF Holding, HoldingPCs
<1>5. ThreadAt(t)' /\ HeldAt(t)'
  <2>1. ThreadAt(t)
    BY DEF Inv
  <2>2. QED
    BY <1>1, <1>4, <2>1 DEF ThreadAt, HeldAt
<1>6. ASSUME NEW p \in Pools
      PROVE  CountAt(p)'
  BY <1>1, <1>3, SameOut, NotCounting, SameCounted
<1>7. QED
  BY <1>1, <1>2, <1>3, <1>5, <1>6, OnlyLocal

\* The assertion of Pop: what a list gives is cleared.
LEMMA PopCheckKeeps ==
  ASSUME Inv, NEW t \in Threads, PopCheck(t)
  PROVE  Inv'
<1>1. pc[t] = "check" /\ Holding(t) /\ HeldAt(t) /\ ThreadAt(t)
  BY DEF Inv, PopCheck, CrashAssert, Goto, Holding, HoldingPCs
<1>2. allocSize[mine[t]] = 0
  BY <1>1 DEF HeldAt
<1>3. /\ pc'[t] = "increment"
      /\ UNCHANGED <<freeList, allocCount, room, allocSize, owners, want, mine, real, asked>>
      /\ \A u \in Threads : u # t => pc'[u] = pc[u]
  BY <1>2 DEF Inv, TypeOK, PopCheck, CrashAssert, Goto, client, local
<1>4. TypeOK'
  BY <1>2, <1>3 DEF Inv, TypeOK, PCs, PopCheck, CrashAssert, Goto
<1>5. Touches(t, mine[t])
  BY <1>3, LocalTouches
<1>6. Holding(t)'
  BY <1>3 DEF Holding, HoldingPCs
<1>7. ThreadAt(t)' /\ HeldAt(t)'
  <2>1. \A p : Listed(p)' = Listed(p)
    BY <1>3 DEF Listed
  <2>2. QED
    BY <1>1, <1>3, <1>6, <2>1 DEF ThreadAt, HeldAt
<1>8. ASSUME NEW p \in Pools
      PROVE  CountAt(p)'
  <2>1. t \in Uncounted(p)' <=> t \in Uncounted(p)
    BY <1>1, <1>3 DEF Uncounted
  <2>2. QED
    BY <1>1, <1>3, <1>5, <2>1, SameOut, NotCounting, SameCounted
<1>9. QED
  BY <1>3, <1>4, <1>5, <1>7, <1>8, OnlyLocal

\* The block a thread has got is counted.
LEMMA IncrementKeeps ==
  ASSUME Inv, NEW t \in Threads, Increment(t)
  PROVE  Inv'
<1>1. pc[t] = "increment" /\ Holding(t) /\ HeldAt(t) /\ ThreadAt(t)
  BY DEF Inv, Increment, Goto, Holding, HoldingPCs
<1>2. PICK q : q = Table[real[t]] /\ q \in Pools
  BY <1>1, PoolOf
<1>3. /\ pc'[t] = "attach"
      /\ UNCHANGED <<freeList, room, allocSize, owners, want, mine, real, asked>>
      /\ allocCount' = [allocCount EXCEPT ![q] = @ + 1]
      /\ \A u \in Threads : u # t => pc'[u] = pc[u]
  BY <1>2 DEF Inv, TypeOK, Increment, Goto, client, local
<1>4. TypeOK'
  BY <1>2, <1>3 DEF Inv, TypeOK, PCs, Increment, Goto
<1>5. Touches(t, mine[t])
  BY <1>3, LocalTouches
<1>6. Holding(t)'
  BY <1>3 DEF Holding, HoldingPCs
<1>7. ThreadAt(t)' /\ HeldAt(t)'
  <2>1. \A p : Listed(p)' = Listed(p)
    BY <1>3 DEF Listed
  <2>2. QED
    BY <1>1, <1>3, <1>6, <2>1 DEF ThreadAt, HeldAt
<1>8. ASSUME NEW p \in Pools
      PROVE  CountAt(p)'
  <2>1. CASE p # q
    <3>1. t \notin Uncounted(p) /\ t \notin Uncounted(p)'
      BY <1>2, <1>3, <2>1 DEF Uncounted
    <3>2. allocCount'[p] = allocCount[p]
      BY <1>3, <2>1 DEF Inv, TypeOK
    <3>3. QED
      BY <1>1, <1>3, <1>5, <3>1, <3>2, SameOut, NotCounting, SameCounted
  <2>2. CASE p = q
    <3>1. t \in Uncounted(p) /\ t \notin Uncounted(p)'
      BY <1>1, <1>2, <1>3, <2>2 DEF Uncounted
    <3>2. t \notin Overcounted(p) /\ t \notin Overcounted(p)'
      BY <1>1, <1>3, NotCounting
    <3>3. allocCount[p] \in Nat /\ allocCount'[p] = allocCount[p] + 1
      BY <1>3, <2>2 DEF Inv, TypeOK
    <3>4. In(mine[t], Out(p)') = In(mine[t], Out(p)) /\ In(mine[t], Out(p)) \in Int
      BY <1>3, SameOut DEF In
    <3>5. /\ In(t, Uncounted(p)) = 1 /\ In(t, Uncounted(p)') = 0
          /\ In(t, Overcounted(p)) = 0 /\ In(t, Overcounted(p)') = 0
      BY <3>1, <3>2 DEF In
    <3>6. allocCount'[p] = allocCount[p]
                       + (In(mine[t], Out(p)') - In(mine[t], Out(p)))
                       - (In(t, Uncounted(p)') - In(t, Uncounted(p)))
                       + (In(t, Overcounted(p)') - In(t, Overcounted(p)))
      BY <3>3, <3>4, <3>5
    <3>7. QED
      BY <1>5, <3>6, CountMoves
  <2>3. QED
    BY <2>1, <2>2
<1>9. QED
  BY <1>3, <1>4, <1>5, <1>7, <1>8, OnlyLocal

\* The block a thread has put back is no longer counted; some block was, by UncountedOut.
LEMMA DecrementKeeps ==
  ASSUME Inv, NEW t \in Threads, Decrement(t)
  PROVE  Inv'
<1>1. pc[t] = "decrement" /\ ~Holding(t) /\ ThreadAt(t)
  BY DEF Inv, Decrement, Goto, Holding, HoldingPCs
<1>2. PICK q : q = Table[real[t]] /\ q \in Pools
  BY <1>1, PoolOf
<1>3. /\ pc'[t] = "out" /\ real' = [real EXCEPT ![t] = 0]
      /\ UNCHANGED <<freeList, room, allocSize, owners, want, mine, asked>>
      /\ allocCount' = [allocCount EXCEPT ![q] = @ - 1]
      /\ \A u \in Threads : u # t => pc'[u] = pc[u] /\ real'[u] = real[u]
  BY <1>2 DEF Inv, TypeOK, Decrement, Goto, client
<1>4. allocCount[q] > 0 /\ allocCount[q] \in Nat
  <2>1. CountAt(q) /\ allocCount[q] \in Nat
    BY <1>2 DEF Inv, TypeOK
  <2>2. t \in Overcounted(q)
    BY <1>1, <1>2 DEF Overcounted
  <2>3. /\ Cardinality(Overcounted(q)) # 0 /\ Cardinality(Overcounted(q)) \in Nat
        /\ Cardinality(Uncounted(q)) \in Nat /\ Cardinality(Out(q)) \in Nat
    BY <2>1, <2>2, FS_EmptySet, FS_CardinalityType DEF CountAt
  <2>4. Cardinality(Uncounted(q)) <= Cardinality(Out(q))
    BY <1>2, UncountedOut
  <2>5. allocCount[q] = Cardinality(Out(q)) - Cardinality(Uncounted(q)) + Cardinality(Overcounted(q))
    BY <2>1 DEF CountAt
  <2>6. QED
    BY <2>1, <2>3, <2>4, <2>5
<1>5. TypeOK'
  <2>1. allocCount' \in [Pools -> Nat]
    BY <1>2, <1>3, <1>4 DEF Inv, TypeOK
  <2>2. QED
    BY <1>3, <2>1 DEF Inv, TypeOK, PCs, Decrement, Goto
<1>6. Touches(t, mine[t])
  BY <1>3, LocalTouches
<1>7. ~Holding(t)'
  BY <1>3 DEF Holding, HoldingPCs
<1>8. ThreadAt(t)' /\ HeldAt(t)'
  BY <1>1, <1>3, <1>7 DEF ThreadAt, HeldAt
<1>9. ASSUME NEW p \in Pools
      PROVE  CountAt(p)'
  <2>1. CASE p # q
    <3>1. t \notin Overcounted(p) /\ t \notin Overcounted(p)'
      BY <1>2, <1>3, <2>1 DEF Overcounted
    <3>2. allocCount'[p] = allocCount[p]
      BY <1>3, <2>1 DEF Inv, TypeOK
    <3>3. QED
      BY <1>1, <1>3, <1>6, <3>1, <3>2, SameOut, NotCounting, SameCounted
  <2>2. CASE p = q
    <3>1. t \in Overcounted(p) /\ t \notin Overcounted(p)'
      BY <1>1, <1>2, <1>3, <2>2 DEF Overcounted
    <3>2. t \notin Uncounted(p) /\ t \notin Uncounted(p)'
      BY <1>1, <1>3, NotCounting
    <3>3. allocCount[p] \in Nat /\ allocCount'[p] = allocCount[p] - 1
      BY <1>3, <2>2 DEF Inv, TypeOK
    <3>4. In(mine[t], Out(p)') = In(mine[t], Out(p)) /\ In(mine[t], Out(p)) \in Int
      BY <1>3, SameOut DEF In
    <3>5. /\ In(t, Uncounted(p)) = 0 /\ In(t, Uncounted(p)') = 0
          /\ In(t, Overcounted(p)) = 1 /\ In(t, Overcounted(p)') = 0
      BY <3>1, <3>2 DEF In
    <3>6. allocCount'[p] = allocCount[p]
                       + (In(mine[t], Out(p)') - In(mine[t], Out(p)))
                       - (In(t, Uncounted(p)') - In(t, Uncounted(p)))
                       + (In(t, Overcounted(p)') - In(t, Overcounted(p)))
      BY <3>3, <3>4, <3>5
    <3>7. QED
      BY <1>6, <3>6, CountMoves
  <2>3. QED
    BY <2>1, <2>2
<1>10. QED
  BY <1>3, <1>5, <1>6, <1>8, <1>9, OnlyLocal

(***************************************************************************)
(* The steps by which a thread gets a block from the heap or a list.       *)
(***************************************************************************)
\* A block from the heap for a request above the pools: no pool counts it.
LEMMA AllocateLargeKeeps ==
  ASSUME Inv, NEW t \in Threads, AllocateLarge(t)
  PROVE  Inv'
<1>1. /\ pc[t] = "malloc" /\ ~Holding(t) /\ ThreadAt(t)
      /\ real[t] \in Requests /\ real[t] > MAX_ALLOC_SIZE
  BY DEF Inv, ThreadAt, AllocateLarge, Goto, Holding, HoldingPCs
<1>2. PICK b \in Blocks : /\ room[b] = 0 /\ room' = [room EXCEPT ![b] = real[t]]
                          /\ mine' = [mine EXCEPT ![t] = b]
  BY DEF AllocateLarge, Malloc
<1>3. /\ pc'[t] = "attach" /\ mine'[t] = b /\ room'[b] = real[t]
      /\ UNCHANGED <<freeList, allocCount, allocSize, owners, want, real, asked>>
      /\ \A u \in Threads : u # t => pc'[u] = pc[u] /\ mine'[u] = mine[u]
      /\ \A a \in Blocks : a # b => room'[a] = room[a]
  BY <1>2 DEF Inv, TypeOK, AllocateLarge, Goto, client
<1>4. /\ allocSize[b] = 0 /\ owners[b] = 0
      /\ \A p \in Pools : b \notin Listed(p) /\ b \notin Out(p)
      /\ \A u \in Threads : Holding(u) => mine[u] # b
  BY <1>2, Fresh
<1>5. \A p : Listed(p)' = Listed(p)
  BY <1>3 DEF Listed
<1>6. Touches(t, b)
  BY <1>3, <1>4, <1>5 DEF Touches
<1>7. Room(real[t]) = real[t] /\ real[t] \in Nat /\ real[t] # 0 /\ real[t] \notin Pools
  BY <1>1, RoomIs
<1>8. TypeOK'
  BY <1>2, <1>3, <1>7 DEF Inv, TypeOK, PCs, AllocateLarge, Goto
<1>9. Holding(t)' /\ b # None
  BY <1>3, NoneAssumption DEF Holding, HoldingPCs
<1>10. ThreadAt(t)' /\ HeldAt(t)'
  BY <1>1, <1>3, <1>4, <1>5, <1>7, <1>9 DEF ThreadAt, HeldAt
<1>11. BlockAt(b)'
  <2>1. BlockAt(b)
    BY DEF Inv
  <2>2. QED
    BY <1>3, <1>4, <1>7, <2>1 DEF BlockAt
<1>12. \A p \in Pools : ListAt(p)'
  BY <1>3, <1>4, <1>6, ListsKept
<1>13. ASSUME NEW p \in Pools
       PROVE  CountAt(p)'
  <2>1. b \notin Out(p)' /\ b \notin Out(p)
    BY <1>3, <1>4, <1>7 DEF Out
  <2>2. QED
    BY <1>1, <1>3, <1>6, <2>1, NotCounting, SameCounted
<1>14. QED
  BY <1>3, <1>6, <1>8, <1>10, <1>11, <1>12, <1>13, Together

\* A new block of the pool's size: out of the pool, and yet to be counted.
LEMMA GrowKeeps ==
  ASSUME Inv, NEW t \in Threads, Grow(t)
  PROVE  Inv'
<1>1. pc[t] = "grow" /\ ~Holding(t) /\ ThreadAt(t)
  BY DEF Inv, Grow, Goto, Holding, HoldingPCs
<1>2. PICK q : q = Table[real[t]] /\ q \in Pools /\ q = Room(real[t]) /\ real[t] \in Requests
  BY <1>1, PoolOf
<1>3. PICK b \in Blocks : /\ room[b] = 0 /\ room' = [room EXCEPT ![b] = q]
                          /\ mine' = [mine EXCEPT ![t] = b]
  BY <1>2 DEF Grow, Malloc
<1>4. /\ pc'[t] = "increment" /\ mine'[t] = b /\ room'[b] = q
      /\ UNCHANGED <<freeList, allocCount, allocSize, owners, want, real, asked>>
      /\ \A u \in Threads : u # t => pc'[u] = pc[u] /\ mine'[u] = mine[u]
      /\ \A a \in Blocks : a # b => room'[a] = room[a]
  BY <1>3 DEF Inv, TypeOK, Grow, Goto, client
<1>5. /\ allocSize[b] = 0 /\ owners[b] = 0
      /\ \A p \in Pools : b \notin Listed(p) /\ b \notin Out(p)
      /\ \A u \in Threads : Holding(u) => mine[u] # b
  BY <1>3, Fresh
<1>6. \A p : Listed(p)' = Listed(p)
  BY <1>4 DEF Listed
<1>7. Touches(t, b)
  BY <1>4, <1>5, <1>6 DEF Touches
<1>8. q \in Nat /\ q # 0
  BY <1>2, RoomIs
<1>9. TypeOK'
  BY <1>3, <1>4, <1>8 DEF Inv, TypeOK, PCs, Grow, Goto
<1>10. Holding(t)' /\ b # None
  BY <1>4, NoneAssumption DEF Holding, HoldingPCs
<1>11. ThreadAt(t)' /\ HeldAt(t)'
  BY <1>1, <1>2, <1>4, <1>5, <1>6, <1>10 DEF ThreadAt, HeldAt
<1>12. BlockAt(b)'
  <2>1. BlockAt(b)
    BY DEF Inv
  <2>2. QED
    BY <1>4, <1>5, <1>8, <2>1 DEF BlockAt
<1>13. \A p \in Pools : ListAt(p)'
  BY <1>4, <1>5, <1>7, ListsKept
<1>14. ASSUME NEW p \in Pools
       PROVE  CountAt(p)'
  <2>1. CASE p # q
    <3>1. b \notin Out(p)' /\ b \notin Out(p)
      BY <1>4, <1>5, <2>1 DEF Out
    <3>2. t \notin Uncounted(p) /\ t \notin Uncounted(p)'
      BY <1>2, <1>4, <2>1 DEF Uncounted
    <3>3. QED
      BY <1>1, <1>4, <1>7, <3>1, <3>2, NotCounting, SameCounted
  <2>2. CASE p = q
    <3>1. b \in Out(p)' /\ b \notin Out(p)
      BY <1>4, <1>5, <1>6, <2>2 DEF Out, Listed
    <3>2. t \in Uncounted(p)' /\ t \notin Uncounted(p)
      BY <1>1, <1>2, <1>4, <2>2 DEF Uncounted
    <3>3. t \notin Overcounted(p) /\ t \notin Overcounted(p)'
      BY <1>1, <1>4, NotCounting
    <3>4. allocCount[p] \in Nat /\ allocCount'[p] = allocCount[p]
      BY <1>4 DEF Inv, TypeOK
    <3>5. /\ In(b, Out(p)) = 0 /\ In(b, Out(p)') = 1
          /\ In(t, Uncounted(p)) = 0 /\ In(t, Uncounted(p)') = 1
          /\ In(t, Overcounted(p)) = 0 /\ In(t, Overcounted(p)') = 0
      BY <3>1, <3>2, <3>3 DEF In
    <3>6. allocCount'[p] = allocCount[p]
                       + (In(b, Out(p)') - In(b, Out(p)))
                       - (In(t, Uncounted(p)') - In(t, Uncounted(p)))
                       + (In(t, Overcounted(p)') - In(t, Overcounted(p)))
      BY <3>4, <3>5
    <3>7. QED
      BY <1>7, <3>6, CountMoves
  <2>3. QED
    BY <2>1, <2>2
<1>15. QED
  BY <1>4, <1>7, <1>9, <1>11, <1>12, <1>13, <1>14, Together

\* The head of a list goes from the list into the thread's hands, yet to be counted.
LEMMA PopEntryKeeps ==
  ASSUME Inv, NEW t \in Threads, PopEntry(t)
  PROVE  Inv'
<1>1. pc[t] = "pop" /\ ~Holding(t) /\ ThreadAt(t)
  BY DEF Inv, PopEntry, Goto, Holding, HoldingPCs
<1>2. PICK q : q = Table[real[t]] /\ q \in Pools /\ q = Room(real[t]) /\ real[t] \in Requests
  BY <1>1, PoolOf
<1>3. freeList[q] \in Seq(Blocks) /\ freeList[q] # << >> /\ ListAt(q) /\ Once(freeList[q])
  BY <1>2 DEF Inv, TypeOK, PopEntry, ListAt
<1>4. PICK b : b = Head(freeList[q])
  OBVIOUS
<1>5. /\ b \in Blocks /\ b \in Listed(q) /\ Tail(freeList[q]) \in Seq(Blocks)
      /\ Once(Tail(freeList[q])) /\ Range(Tail(freeList[q])) = Listed(q) \ {b}
  BY <1>3, <1>4, PopIs DEF Listed
<1>6. /\ pc'[t] = "check" /\ mine' = [mine EXCEPT ![t] = b]
      /\ freeList' = [freeList EXCEPT ![q] = Tail(@)]
      /\ UNCHANGED <<allocCount, room, allocSize, owners, want, real, asked>>
  BY <1>2, <1>4 DEF Inv, TypeOK, PopEntry, Goto, client
<1>7. /\ mine'[t] = b /\ freeList'[q] = Tail(freeList[q])
      /\ \A p \in Pools : p # q => freeList'[p] = freeList[p]
      /\ \A u \in Threads : u # t => pc'[u] = pc[u] /\ mine'[u] = mine[u]
  BY <1>2, <1>6 DEF Inv, TypeOK, PopEntry, Goto
<1>8. room[b] = q /\ allocSize[b] = 0 /\ owners[b] = 0
  BY <1>3, <1>5 DEF ListAt
<1>9. \A p \in Pools : p # q => b \notin Listed(p)
  BY <1>8 DEF Inv, ListAt
<1>10. /\ Listed(q)' = Listed(q) \ {b}
       /\ \A p \in Pools : p # q => Listed(p)' = Listed(p)
  BY <1>5, <1>7 DEF Listed
<1>11. Touches(t, b)
  <2>1. ASSUME NEW p \in Pools, NEW a \in Blocks, a # b
        PROVE  a \in Listed(p)' <=> a \in Listed(p)
    BY <1>10, <2>1
  <2>2. \A u \in Threads : u # t /\ Holding(u) => mine[u] # b
    BY <1>2, <1>5, InHand
  <2>3. QED
    BY <1>6, <1>7, <2>1, <2>2 DEF Touches
<1>12. TypeOK'
  <2>1. freeList' \in [Pools -> Seq(Blocks)]
    BY <1>2, <1>5, <1>6 DEF Inv, TypeOK
  <2>2. pc' \in [Threads -> PCs]
    BY DEF Inv, TypeOK, PCs, PopEntry, Goto
  <2>3. mine' \in [Threads -> Blocks \cup {None}]
    BY <1>5, <1>6 DEF Inv, TypeOK
  <2>4. QED
    BY <1>6, <2>1, <2>2, <2>3 DEF Inv, TypeOK
<1>13. Holding(t)' /\ b # None
  BY <1>5, <1>6, NoneAssumption DEF Holding, HoldingPCs
<1>14. ThreadAt(t)'
  BY <1>1, <1>6, <1>7, <1>13 DEF ThreadAt
<1>15. HeldAt(t)'
  <2>1. \A p \in Pools : b \notin Listed(p)'
    BY <1>9, <1>10
  <2>2. QED
    BY <1>2, <1>6, <1>7, <1>8, <1>13, <2>1 DEF HeldAt
<1>16. BlockAt(b)'
  <2>1. BlockAt(b)
    BY <1>5 DEF Inv
  <2>2. QED
    BY <1>6, <2>1 DEF BlockAt
<1>17. ASSUME NEW p \in Pools
       PROVE  ListAt(p)'
  <2>1. ListAt(p)
    BY DEF Inv
  <2>2. Once(freeList'[p]) /\ Listed(p)' \subseteq Listed(p)
    BY <1>5, <1>7, <1>10, <2>1 DEF ListAt
  <2>3. QED
    BY <1>6, <2>1, <2>2 DEF ListAt
<1>18. ASSUME NEW p \in Pools
       PROVE  CountAt(p)'
  <2>1. CASE p # q
    <3>1. b \notin Out(p)' /\ b \notin Out(p)
      BY <1>6, <1>8, <2>1 DEF Out
    <3>2. t \notin Uncounted(p) /\ t \notin Uncounted(p)'
      BY <1>2, <1>6, <2>1 DEF Uncounted
    <3>3. QED
      BY <1>1, <1>6, <1>11, <3>1, <3>2, NotCounting, SameCounted
  <2>2. CASE p = q
    <3>1. b \in Out(p)' /\ b \notin Out(p)
      BY <1>5, <1>6, <1>8, <1>10, <2>2 DEF Out, Listed
    <3>2. t \in Uncounted(p)' /\ t \notin Uncounted(p)
      BY <1>1, <1>2, <1>6, <2>2 DEF Uncounted
    <3>3. t \notin Overcounted(p) /\ t \notin Overcounted(p)'
      BY <1>1, <1>6, NotCounting
    <3>4. allocCount[p] \in Nat /\ allocCount'[p] = allocCount[p]
      BY <1>6 DEF Inv, TypeOK
    <3>5. /\ In(b, Out(p)) = 0 /\ In(b, Out(p)') = 1
          /\ In(t, Uncounted(p)) = 0 /\ In(t, Uncounted(p)') = 1
          /\ In(t, Overcounted(p)) = 0 /\ In(t, Overcounted(p)') = 0
      BY <3>1, <3>2, <3>3 DEF In
    <3>6. allocCount'[p] = allocCount[p]
                       + (In(b, Out(p)') - In(b, Out(p)))
                       - (In(t, Uncounted(p)') - In(t, Uncounted(p)))
                       + (In(t, Overcounted(p)') - In(t, Overcounted(p)))
      BY <3>4, <3>5
    <3>7. QED
      BY <1>11, <3>6, CountMoves
  <2>3. QED
    BY <2>1, <2>2
<1>19. QED
  BY <1>5, <1>6, <1>11, <1>12, <1>14, <1>15, <1>16, <1>17, <1>18, Together

(***************************************************************************)
(* The steps that give the block to the program and take it back.          *)
(***************************************************************************)
\* The block goes from the thread's hands to the program, its size in its header.
LEMMA AttachKeeps ==
  ASSUME Inv, NEW t \in Threads, Attach(t)
  PROVE  Inv'
<1>1. pc[t] = "attach" /\ Holding(t) /\ ThreadAt(t) /\ HeldAt(t)
  BY DEF Inv, Attach, Goto, Holding, HoldingPCs
<1>2. PICK b : b = mine[t]
  OBVIOUS
<1>3. /\ b \in Blocks /\ owners[b] = 0 /\ \A p \in Pools : b \notin Listed(p)
      /\ \A u \in Threads : u # t /\ Holding(u) => mine[u] # b
  BY <1>1, <1>2, InHand
<1>4. /\ pc'[t] = "out" /\ mine' = [mine EXCEPT ![t] = None]
      /\ allocSize' = [allocSize EXCEPT ![b] = real[t]]
      /\ owners' = [owners EXCEPT ![b] = @ + 1]
      /\ want' = [want EXCEPT ![b] = asked[t]]
      /\ UNCHANGED <<freeList, allocCount, room>>
  BY <1>2 DEF Inv, TypeOK, Attach, Goto
<1>5. \A u \in Threads : u # t => /\ pc'[u] = pc[u] /\ mine'[u] = mine[u]
                                  /\ real'[u] = real[u] /\ asked'[u] = asked[u]
  BY DEF Inv, TypeOK, Attach, Goto
<1>6. /\ mine'[t] = None /\ allocSize'[b] = real[t] /\ owners'[b] = 1 /\ want'[b] = asked[t]
      /\ \A a \in Blocks : a # b => /\ allocSize'[a] = allocSize[a]
                                    /\ owners'[a] = owners[a] /\ want'[a] = want[a]
  BY <1>3, <1>4 DEF Inv, TypeOK
<1>7. \A p : Listed(p)' = Listed(p)
  BY <1>4 DEF Listed
<1>8. ~Holding(t)'
  BY <1>4 DEF Holding, HoldingPCs
<1>9. Touches(t, b)
  BY <1>3, <1>4, <1>5, <1>6, <1>7, <1>8 DEF Touches
<1>10. /\ asked[t] \in Sizes /\ real[t] = RealSize(asked[t]) /\ real[t] \in Requests
       /\ room[b] = Room(real[t])
  BY <1>1, <1>2 DEF ThreadAt, HeldAt
<1>11. real[t] \in Nat /\ Room(real[t]) # 0
  BY <1>10, RoomIs
<1>12. TypeOK'
  <2>1. owners' \in [Blocks -> Nat]
    <3>1. owners \in [Blocks -> Nat] /\ owners' = [owners EXCEPT ![b] = owners[b] + 1]
      BY <1>4 DEF Inv, TypeOK
    <3>2. owners[b] + 1 \in Nat
      BY <1>3
    <3>3. QED
      BY <3>1, <3>2
  <2>2. want' \in [Blocks -> Sizes \cup {0}]
    BY <1>4, <1>10 DEF Inv, TypeOK
  <2>3. allocSize' \in [Blocks -> Nat]
    BY <1>4, <1>11 DEF Inv, TypeOK
  <2>4. pc' \in [Threads -> PCs]
    BY DEF Inv, TypeOK, PCs, Attach, Goto
  <2>5. /\ mine' \in [Threads -> Blocks \cup {None}]
        /\ real' \in [Threads -> Nat] /\ asked' \in [Threads -> Nat]
    BY <1>4 DEF Inv, TypeOK, Attach
  <2>6. QED
    BY <1>4, <2>1, <2>2, <2>3, <2>4, <2>5 DEF Inv, TypeOK
<1>13. ThreadAt(t)' /\ HeldAt(t)'
  BY <1>4, <1>6, <1>8 DEF ThreadAt, HeldAt
<1>14. BlockAt(b)'
  BY <1>4, <1>6, <1>10, <1>11 DEF BlockAt
<1>15. \A p \in Pools : ListAt(p)'
  BY <1>3, <1>4, <1>9, ListsKept
<1>16. ASSUME NEW p \in Pools
       PROVE  CountAt(p)'
  BY <1>1, <1>4, <1>9, SameOut, NotCounting, SameCounted
<1>17. QED
  BY <1>4, <1>9, <1>12, <1>13, <1>14, <1>15, <1>16, Together

\* The block goes from the program, which has one pointer to it, into the thread's hands.
LEMMA DeallocateKeeps ==
  ASSUME Inv, NEW t \in Threads, NEW b \in Blocks, Deallocate(t, b)
  PROVE  Inv' /\ owners[b] = 1
<1>1. pc[t] = "out" /\ ~Holding(t) /\ ThreadAt(t) /\ BlockAt(b) /\ owners[b] > 0
  BY DEF Inv, Deallocate, Goto, Holding, HoldingPCs
<1>2. /\ owners[b] = 1 /\ want[b] \in Sizes /\ allocSize[b] = RealSize(want[b])
      /\ room[b] = Room(allocSize[b])
  BY <1>1 DEF BlockAt
<1>3. allocSize[b] \in Requests /\ room[b] # 0
  BY <1>2, RoomIs DEF Requests
<1>4. \A p \in Pools : b \notin Listed(p)
  BY <1>2 DEF Inv, ListAt
<1>5. \A u \in Threads : Holding(u) => mine[u] # b
  BY <1>2, InHand
<1>6. /\ pc'[t] = "exchange" /\ mine' = [mine EXCEPT ![t] = b]
      /\ owners' = [owners EXCEPT ![b] = @ - 1]
      /\ UNCHANGED <<want, freeList, allocCount, room, allocSize, real, asked>>
  BY DEF Inv, TypeOK, Deallocate, Goto
<1>7. /\ mine'[t] = b /\ owners'[b] = 0
      /\ \A u \in Threads : u # t => pc'[u] = pc[u] /\ mine'[u] = mine[u]
      /\ \A a \in Blocks : a # b => owners'[a] = owners[a]
  BY <1>2 DEF Inv, TypeOK, Deallocate, Goto
<1>8. \A p : Listed(p)' = Listed(p)
  BY <1>6 DEF Listed
<1>9. Touches(t, b)
  BY <1>5, <1>6, <1>7, <1>8 DEF Touches
<1>10. TypeOK'
  <2>1. owners' \in [Blocks -> Nat]
    BY <1>2, <1>6 DEF Inv, TypeOK
  <2>2. QED
    BY <1>6, <2>1 DEF Inv, TypeOK, PCs, Deallocate, Goto
<1>11. Holding(t)' /\ b # None
  BY <1>6, NoneAssumption DEF Holding, HoldingPCs
<1>12. ThreadAt(t)' /\ HeldAt(t)'
  BY <1>2, <1>3, <1>4, <1>6, <1>7, <1>8, <1>11 DEF ThreadAt, HeldAt
<1>13. BlockAt(b)'
  BY <1>3, <1>6, <1>7 DEF BlockAt
<1>14. \A p \in Pools : ListAt(p)'
  BY <1>4, <1>6, <1>9, ListsKept
<1>15. ASSUME NEW p \in Pools
       PROVE  CountAt(p)'
  BY <1>1, <1>6, <1>9, SameOut, NotCounting, SameCounted
<1>16. QED
  BY <1>2, <1>6, <1>9, <1>10, <1>12, <1>13, <1>14, <1>15, Together

\* The header gives the size and is cleared; the size chooses the heap or a pool.
LEMMA ExchangeKeeps ==
  ASSUME Inv, NEW t \in Threads, Exchange(t)
  PROVE  Inv'
<1>1. pc[t] = "exchange" /\ Holding(t) /\ ThreadAt(t) /\ HeldAt(t)
  BY DEF Inv, Exchange, CrashAssert, Goto, Holding, HoldingPCs
<1>2. PICK b : b = mine[t]
  OBVIOUS
<1>3. /\ b \in Blocks /\ owners[b] = 0 /\ \A p \in Pools : b \notin Listed(p)
      /\ \A u \in Threads : u # t /\ Holding(u) => mine[u] # b
  BY <1>1, <1>2, InHand
<1>4. PICK n : n = allocSize[b]
  OBVIOUS
<1>5. n \in Requests /\ room[b] = Room(n)
  BY <1>1, <1>2, <1>4 DEF HeldAt
<1>6. n \in Nat /\ n > 0 /\ (n <= MAX_ALLOC_SIZE \/ n > MAX_ALLOC_SIZE) /\ Room(n) # 0
  BY <1>5, RoomIs
<1>7. /\ pc'[t] \in {"free", "push"} /\ (pc'[t] = "free" <=> n > MAX_ALLOC_SIZE)
      /\ real' = [real EXCEPT ![t] = n] /\ allocSize' = [allocSize EXCEPT ![b] = 0]
      /\ UNCHANGED <<freeList, allocCount, room, owners, want, mine, asked>>
  BY <1>2, <1>4, <1>6 DEF Inv, TypeOK, Exchange, CrashAssert, Goto, client
<1>8. \A u \in Threads : u # t => pc'[u] = pc[u] /\ real'[u] = real[u]
  BY DEF Inv, TypeOK, Exchange, CrashAssert, Goto
<1>9. /\ real'[t] = n /\ allocSize'[b] = 0
      /\ \A a \in Blocks : a # b => allocSize'[a] = allocSize[a]
  BY <1>3, <1>7 DEF Inv, TypeOK
<1>10. \A p : Listed(p)' = Listed(p)
  BY <1>7 DEF Listed
<1>11. Touches(t, b)
  BY <1>2, <1>3, <1>7, <1>8, <1>9, <1>10 DEF Touches
<1>12. TypeOK'
  <2>1. pc' \in [Threads -> PCs]
    <3>1. pc' = [pc EXCEPT ![t] = pc'[t]]
      BY DEF Inv, TypeOK, Exchange, CrashAssert, Goto
    <3>2. QED
      BY <1>7, <3>1 DEF Inv, TypeOK, PCs
  <2>2. QED
    BY <1>6, <1>7, <2>1 DEF Inv, TypeOK
<1>13. Holding(t)' /\ b # None
  BY <1>3, <1>7, NoneAssumption DEF Holding, HoldingPCs
<1>14. ThreadAt(t)' /\ HeldAt(t)'
  <2>1. ThreadAt(t)'
    BY <1>2, <1>5, <1>6, <1>7, <1>9, <1>13 DEF ThreadAt
  <2>2. HeldAt(t)'
    BY <1>2, <1>3, <1>5, <1>7, <1>9, <1>10, <1>13 DEF HeldAt
  <2>3. QED
    BY <2>1, <2>2
<1>15. BlockAt(b)'
  BY <1>3, <1>5, <1>6, <1>7, <1>9 DEF BlockAt
<1>16. \A p \in Pools : ListAt(p)'
  BY <1>3, <1>7, <1>11, ListsKept
<1>17. ASSUME NEW p \in Pools
       PROVE  CountAt(p)'
  <2>1. pc'[t] \notin {"check", "increment"} /\ pc'[t] # "decrement"
    BY <1>7
  <2>2. QED
    BY <1>1, <1>7, <1>11, <2>1, SameOut, NotCounting, SameCounted
<1>18. QED
  BY <1>7, <1>11, <1>12, <1>14, <1>15, <1>16, <1>17, Together

\* A large block goes back to the heap.
LEMMA FreeLargeKeeps ==
  ASSUME Inv, NEW t \in Threads, FreeLarge(t)
  PROVE  Inv'
<1>1. pc[t] = "free" /\ Holding(t) /\ ThreadAt(t) /\ HeldAt(t)
  BY DEF Inv, FreeLarge, Goto, Holding, HoldingPCs
<1>2. PICK b : b = mine[t]
  OBVIOUS
<1>3. /\ b \in Blocks /\ owners[b] = 0 /\ \A p \in Pools : b \notin Listed(p)
      /\ \A u \in Threads : u # t /\ Holding(u) => mine[u] # b
  BY <1>1, <1>2, InHand
<1>4. /\ real[t] \in Requests /\ real[t] > MAX_ALLOC_SIZE /\ room[b] = Room(real[t])
      /\ allocSize[b] = 0
  BY <1>1, <1>2 DEF ThreadAt, HeldAt
<1>5. /\ pc'[t] = "out" /\ mine' = [mine EXCEPT ![t] = None]
      /\ room' = [room EXCEPT ![b] = 0] /\ real' = [real EXCEPT ![t] = 0]
      /\ UNCHANGED <<freeList, allocCount, allocSize, owners, want, asked>>
  BY <1>2 DEF Inv, TypeOK, FreeLarge, Goto, client
<1>6. \A u \in Threads : u # t => pc'[u] = pc[u] /\ mine'[u] = mine[u] /\ real'[u] = real[u]
  BY DEF Inv, TypeOK, FreeLarge, Goto
<1>7. mine'[t] = None /\ room'[b] = 0 /\ \A a \in Blocks : a # b => room'[a] = room[a]
  BY <1>3, <1>5 DEF Inv, TypeOK
<1>8. \A p : Listed(p)' = Listed(p)
  BY <1>5 DEF Listed
<1>9. ~Holding(t)'
  BY <1>5 DEF Holding, HoldingPCs
<1>10. Touches(t, b)
  BY <1>3, <1>5, <1>6, <1>7, <1>8, <1>9 DEF Touches
<1>11. TypeOK'
  <2>1. pc' \in [Threads -> PCs]
    BY DEF Inv, TypeOK, PCs, FreeLarge, Goto
  <2>2. room' \in [Blocks -> Nat]
    BY <1>5 DEF Inv, TypeOK
  <2>3. mine' \in [Threads -> Blocks \cup {None}] /\ real' \in [Threads -> Nat]
    BY <1>5 DEF Inv, TypeOK
  <2>4. QED
    BY <1>5, <2>1, <2>2, <2>3 DEF Inv, TypeOK
<1>12. ThreadAt(t)' /\ HeldAt(t)'
  BY <1>5, <1>7, <1>9 DEF ThreadAt, HeldAt
<1>13. BlockAt(b)'
  BY <1>3, <1>4, <1>5 DEF BlockAt
<1>14. \A p \in Pools : ListAt(p)'
  BY <1>3, <1>5, <1>10, ListsKept
<1>15. ASSUME NEW p \in Pools
       PROVE  CountAt(p)'
  <2>1. p # 0 /\ room[b] # p
    BY <1>4, RoomIs
  <2>2. b \notin Out(p) /\ b \notin Out(p)'
    BY <1>7, <2>1 DEF Out
  <2>3. QED
    BY <1>1, <1>5, <1>10, <2>2, NotCounting, SameCounted
<1>16. QED
  BY <1>5, <1>10, <1>11, <1>12, <1>13, <1>14, <1>15, Together

\* The block goes on the list of its size, to be counted off.
LEMMA PushEntryKeeps ==
  ASSUME Inv, NEW t \in Threads, PushEntry(t)
  PROVE  Inv'
<1>1. pc[t] = "push" /\ Holding(t) /\ ThreadAt(t) /\ HeldAt(t)
  BY DEF Inv, PushEntry, Goto, Holding, HoldingPCs
<1>2. PICK q : q = Table[real[t]] /\ q \in Pools /\ q = Room(real[t])
  BY <1>1, PoolOf
<1>3. PICK b : b = mine[t]
  OBVIOUS
<1>4. /\ b \in Blocks /\ owners[b] = 0 /\ \A p \in Pools : b \notin Listed(p)
      /\ \A u \in Threads : u # t /\ Holding(u) => mine[u] # b
  BY <1>1, <1>3, InHand
<1>5. room[b] = q /\ allocSize[b] = 0
  BY <1>1, <1>2, <1>3 DEF HeldAt
<1>6. PICK s : s = << b >> \o freeList[q]
  OBVIOUS
<1>7. s \in Seq(Blocks) /\ Once(s) /\ Range(s) = Listed(q) \cup {b}
  <2>1. freeList[q] \in Seq(Blocks) /\ ListAt(q)
    BY <1>2 DEF Inv, TypeOK
  <2>2. Once(freeList[q]) /\ b \notin Range(freeList[q])
    BY <1>2, <1>4, <2>1 DEF ListAt, Listed
  <2>3. QED
    BY <1>4, <1>6, <2>1, <2>2, PushIs DEF Listed
<1>8. /\ pc'[t] = "decrement" /\ mine' = [mine EXCEPT ![t] = None]
      /\ freeList' = [freeList EXCEPT ![q] = s]
      /\ UNCHANGED <<allocCount, room, allocSize, owners, want, real, asked>>
  BY <1>2, <1>3, <1>6 DEF Inv, TypeOK, PushEntry, Goto, client
<1>9. \A u \in Threads : u # t => pc'[u] = pc[u] /\ mine'[u] = mine[u]
  BY DEF Inv, TypeOK, PushEntry, Goto
<1>10. /\ mine'[t] = None /\ freeList'[q] = s
       /\ \A p \in Pools : p # q => freeList'[p] = freeList[p]
  BY <1>2, <1>8 DEF Inv, TypeOK
<1>11. /\ Listed(q)' = Listed(q) \cup {b}
       /\ \A p \in Pools : p # q => Listed(p)' = Listed(p)
  BY <1>7, <1>10 DEF Listed
<1>12. ~Holding(t)'
  BY <1>8 DEF Holding, HoldingPCs
<1>13. Touches(t, b)
  <2>1. ASSUME NEW p \in Pools, NEW a \in Blocks, a # b
        PROVE  a \in Listed(p)' <=> a \in Listed(p)
    BY <1>11, <2>1
  <2>2. QED
    BY <1>4, <1>8, <1>9, <1>12, <2>1 DEF Touches
<1>14. TypeOK'
  <2>1. freeList' \in [Pools -> Seq(Blocks)]
    BY <1>2, <1>7, <1>8 DEF Inv, TypeOK
  <2>2. QED
    BY <1>8, <2>1 DEF Inv, TypeOK, PCs, PushEntry, Goto
<1>15. ThreadAt(t)' /\ HeldAt(t)'
  BY <1>1, <1>8, <1>10, <1>12 DEF ThreadAt, HeldAt
<1>16. BlockAt(b)'
  <2>1. BlockAt(b)
    BY <1>4 DEF Inv
  <2>2. QED
    BY <1>8, <2>1 DEF BlockAt
<1>17. ASSUME NEW p \in Pools
       PROVE  ListAt(p)'
  <2>1. ListAt(p)
    BY DEF Inv
  <2>2. CASE p = q
    <3>1. Once(freeList'[p])
      BY <1>7, <1>10, <2>2
    <3>2. \A a \in Listed(p)' : room[a] = p /\ allocSize[a] = 0 /\ owners[a] = 0
      BY <1>4, <1>5, <1>11, <2>1, <2>2 DEF ListAt
    <3>3. QED
      BY <1>8, <3>1, <3>2 DEF ListAt
  <2>3. CASE p # q
    BY <1>8, <1>10, <1>11, <2>1, <2>3 DEF ListAt
  <2>4. QED
    BY <2>2, <2>3
<1>18. ASSUME NEW p \in Pools
       PROVE  CountAt(p)'
  <2>1. CASE p # q
    <3>1. b \notin Out(p)' /\ b \notin Out(p)
      BY <1>5, <1>8, <2>1 DEF Out
    <3>2. t \notin Overcounted(p) /\ t \notin Overcounted(p)'
      BY <1>2, <1>8, <2>1 DEF Overcounted
    <3>3. QED
      BY <1>1, <1>8, <1>13, <3>1, <3>2, NotCounting, SameCounted
  <2>2. CASE p = q
    <3>1. b \notin Out(p)' /\ b \in Out(p)
      <4>1. b \notin Range(freeList[p]) /\ b \in Range(freeList'[p])
        BY <1>2, <1>4, <1>7, <1>10, <2>2 DEF Listed
      <4>2. QED
        BY <1>4, <1>5, <2>2, <4>1 DEF Out
    <3>2. t \in Overcounted(p)' /\ t \notin Overcounted(p)
      BY <1>1, <1>2, <1>8, <2>2 DEF Overcounted
    <3>3. t \notin Uncounted(p) /\ t \notin Uncounted(p)'
      BY <1>1, <1>8, NotCounting
    <3>4. allocCount[p] \in Nat /\ allocCount'[p] = allocCount[p]
      BY <1>8 DEF Inv, TypeOK
    <3>5. /\ In(b, Out(p)) = 1 /\ In(b, Out(p)') = 0
          /\ In(t, Uncounted(p)) = 0 /\ In(t, Uncounted(p)') = 0
          /\ In(t, Overcounted(p)) = 0 /\ In(t, Overcounted(p)') = 1
      BY <3>1, <3>2, <3>3 DEF In
    <3>6. allocCount'[p] = allocCount[p]
                       + (In(b, Out(p)') - In(b, Out(p)))
                       - (In(t, Uncounted(p)') - In(t, Uncounted(p)))
                       + (In(t, Overcounted(p)') - In(t, Overcounted(p)))
      BY <3>4, <3>5
    <3>7. QED
      BY <1>13, <3>6, CountMoves
  <2>3. QED
    BY <2>1, <2>2
<1>19. QED
  BY <1>4, <1>8, <1>13, <1>14, <1>15, <1>16, <1>17, <1>18, Together

(***************************************************************************)
(* The theorems.                                                           *)
(***************************************************************************)
\* The constructor's table finds, for every size up to the largest, the smallest pool that holds it,
\* and no pool is smaller than the alignment; there are as many as declared (MemoryPool.cpp:38-:74).
THEOREM TableHoldsTightPools ==
  /\ \A n \in 1..MAX_ALLOC_SIZE : Table[n] = TightPool(n) /\ n <= Table[n]
  /\ \A p \in Range(PoolSizes) : p > MEMORY_ALLOCATION_ALIGNMENT
  /\ Len(PoolSizes) = MAX_SMALL_POOL_COUNT
<1>1. \A n \in 1..MAX_ALLOC_SIZE : Table[n] = TightPool(n) /\ n <= Table[n]
  BY TableAt
<1>2. ASSUME NEW p \in Range(PoolSizes)
      PROVE  p > MEMORY_ALLOCATION_ALIGNMENT
  <2>1. PICK k \in 1..AllPools : p = PoolAt(k) /\ p \in Nat
    BY PoolSizesAre DEF Range
  <2>2. p >= 32
    BY <2>1, PoolsRise
  <2>3. QED
    BY <2>1, <2>2 DEF MEMORY_ALLOCATION_ALIGNMENT
<1>3. Len(PoolSizes) = MAX_SMALL_POOL_COUNT
  <2>1. AllPools = MAX_SMALL_POOL_COUNT
    BY DEF AllPools, MAX_SMALL_POOL_COUNT
  <2>2. QED
    BY <2>1, PoolSizesAre
<1>4. QED
  BY <1>1, <1>2, <1>3

\* Inv is inductive.
LEMMA InvStep == Inv /\ [Next]_vars => Inv'
<1>1. SUFFICES ASSUME Inv, [Next]_vars PROVE Inv'
  OBVIOUS
<1>2. CASE Next
  <2>1. PICK t \in Threads :
          \/ \E size \in Sizes : Allocate(t, size)
          \/ AllocateLarge(t) \/ PopEntry(t) \/ PopCheck(t) \/ PopEmpty(t) \/ Grow(t)
          \/ Increment(t) \/ Attach(t)
          \/ \E b \in Blocks : Deallocate(t, b)
          \/ Exchange(t) \/ FreeLarge(t) \/ PushEntry(t) \/ Decrement(t)
    BY <1>2 DEF Next
  <2>2. CASE \E size \in Sizes : Allocate(t, size)
    BY <1>1, <2>2, AllocateKeeps
  <2>3. CASE \E b \in Blocks : Deallocate(t, b)
    BY <1>1, <2>3, DeallocateKeeps
  <2>4. CASE AllocateLarge(t) \/ Grow(t) \/ Attach(t)
    BY <1>1, <2>4, AllocateLargeKeeps, GrowKeeps, AttachKeeps
  <2>5. CASE PopEntry(t) \/ PopCheck(t) \/ PopEmpty(t)
    BY <1>1, <2>5, PopEntryKeeps, PopCheckKeeps, PopEmptyKeeps
  <2>6. CASE Exchange(t) \/ FreeLarge(t) \/ PushEntry(t)
    BY <1>1, <2>6, ExchangeKeeps, FreeLargeKeeps, PushEntryKeeps
  <2>7. CASE Increment(t) \/ Decrement(t)
    BY <1>1, <2>7, IncrementKeeps, DecrementKeeps
  <2>8. QED
    BY <2>1, <2>2, <2>3, <2>4, <2>5, <2>6, <2>7
<1>3. CASE UNCHANGED vars
  <2>1. /\ UNCHANGED <<freeList, allocCount, room, allocSize, owners, want, pc, mine, real, asked>>
    BY <1>3 DEF vars
  <2>2. TypeOK' /\ AssertsNeverFail'
    BY <1>1, <2>1 DEF Inv, TypeOK, AssertsNeverFail
  <2>3. ASSUME NEW t \in Threads
        PROVE  ThreadAt(t)' /\ Alone(t)' /\ HeldAt(t)'
    <3>1. ThreadAt(t) /\ Alone(t) /\ HeldAt(t)
      BY <1>1 DEF Inv
    <3>2. QED
      BY <2>1, <3>1 DEF ThreadAt, Alone, HeldAt, Holding, Listed
  <2>4. ASSUME NEW p \in Pools
        PROVE  ListAt(p)' /\ CountAt(p)'
    <3>1. ListAt(p) /\ CountAt(p)
      BY <1>1 DEF Inv
    <3>2. QED
      BY <2>1, <3>1 DEF ListAt, Listed, CountAt, Out, Uncounted, Overcounted
  <2>5. ASSUME NEW b \in Blocks
        PROVE  BlockAt(b)'
    <3>1. BlockAt(b)
      BY <1>1 DEF Inv
    <3>2. QED
      BY <2>1, <3>1 DEF BlockAt
  <2>6. QED
    BY <2>2, <2>3, <2>4, <2>5 DEF Inv
<1>4. QED
  BY <1>1, <1>2, <1>3

\* Inv holds in every reachable state.
LEMMA InvAlways == Spec => []Inv
  BY InvInit, InvStep, PTL DEF Spec

\* Every variable keeps its type whatever threads allocate and free; in particular mAllocCount is
\* never below zero (MemoryPool.cpp:26, :33).
THEOREM TypeCorrect == Spec => []TypeOK
<1>1. Inv => TypeOK
  BY DEF Inv
<1>2. QED
  BY <1>1, InvAlways, PTL

\* The assertions of Pop and Deallocate hold: what a list gives is not in use, what the program
\* frees is, however the interlocked steps of the threads interleave (MemoryPool.cpp:23, :100).
THEOREM AssertionsHold == Spec => []AssertsNeverFail
<1>1. Inv => AssertsNeverFail
  BY DEF Inv
<1>2. QED
  BY <1>1, InvAlways, PTL

\* A block the program has was obtained with the room of the smallest pool that holds the object
\* and its header, and a block on a list is of the list's size (MemoryPool.cpp:76-:110).
THEOREM BlocksReturnHome == Spec => []BlocksComeHome
<1>1. ASSUME Inv
      PROVE  BlocksComeHome
  <2>1. ASSUME NEW b \in Blocks, owners[b] > 0
        PROVE  /\ allocSize[b] = RealSize(want[b])
               /\ room[b] = IF allocSize[b] > MAX_ALLOC_SIZE THEN allocSize[b] ELSE TightPool(allocSize[b])
    <3>1. /\ want[b] \in Sizes /\ allocSize[b] = RealSize(want[b])
          /\ room[b] = Room(allocSize[b])
      BY <1>1, <2>1 DEF Inv, BlockAt
    <3>2. allocSize[b] \in Requests
      BY <3>1 DEF Requests
    <3>3. allocSize[b] <= MAX_ALLOC_SIZE \/ allocSize[b] > MAX_ALLOC_SIZE
      BY <3>2, RoomIs
    <3>4. CASE allocSize[b] > MAX_ALLOC_SIZE
      BY <3>1, <3>2, <3>4, RoomIs
    <3>5. CASE ~(allocSize[b] > MAX_ALLOC_SIZE)
      <4>1. Room(allocSize[b]) = TightPool(allocSize[b])
        BY <3>2, <3>3, <3>5, RoomIs
      <4>2. QED
        BY <3>1, <3>5, <4>1
    <3>6. QED
      BY <3>4, <3>5
  <2>2. \A p \in Pools : \A b \in Range(freeList[p]) : room[b] = p
    BY <1>1 DEF Inv, ListAt, Listed
  <2>3. QED
    BY <2>1, <2>2 DEF BlocksComeHome
<1>2. QED
  BY <1>1, InvAlways, PTL

\* mAllocCount is the number of blocks out of the pool, but for the threads that are between a list
\* operation and its count (MemoryPool.cpp:14-:34).
THEOREM CountIsExact == Spec => []CountExact
<1>1. Inv => CountExact
  BY DEF Inv, CountAt, CountExact
<1>2. QED
  BY <1>1, InvAlways, PTL

\* Attach gives a block, Deallocate takes one back, and the other steps are not seen.
LEMMA AllocatorStep == Inv /\ [Next]_vars => [Memory!Next]_owners
<1>1. SUFFICES ASSUME Inv, [Next]_vars PROVE [Memory!Next]_owners
  OBVIOUS
<1>2. ASSUME NEW t \in Threads, Attach(t)
      PROVE  Memory!Next
  <2>1. Holding(t)
    BY <1>2 DEF Attach, Goto, Holding, HoldingPCs
  <2>2. mine[t] \in Blocks /\ owners[mine[t]] = 0
    BY <1>1, <2>1, InHand
  <2>3. owners' = [owners EXCEPT ![mine[t]] = 1]
    BY <1>2, <2>2 DEF Attach
  <2>4. Memory!Give(mine[t])
    BY <2>2, <2>3 DEF Memory!Give
  <2>5. QED
    BY <2>2, <2>4 DEF Memory!Next
<1>3. ASSUME NEW t \in Threads, NEW b \in Blocks, Deallocate(t, b)
      PROVE  Memory!Next
  <2>1. owners[b] = 1
    BY <1>1, <1>3, DeallocateKeeps
  <2>2. owners' = [owners EXCEPT ![b] = 0]
    BY <1>3, <2>1 DEF Deallocate
  <2>3. QED
    BY <2>1, <2>2 DEF Memory!Next, Memory!TakeBack
<1>4. ASSUME NEW t \in Threads, NEW size \in Sizes, Allocate(t, size)
      PROVE  UNCHANGED owners
  BY <1>4 DEF Allocate, client
<1>5. ASSUME NEW t \in Threads,
             AllocateLarge(t) \/ PopEntry(t) \/ PopCheck(t) \/ PopEmpty(t) \/ Grow(t)
      PROVE  UNCHANGED owners
  BY <1>5 DEF AllocateLarge, PopEntry, PopCheck, PopEmpty, Grow, client
<1>6. ASSUME NEW t \in Threads,
             Increment(t) \/ Exchange(t) \/ FreeLarge(t) \/ PushEntry(t) \/ Decrement(t)
      PROVE  UNCHANGED owners
  BY <1>6 DEF Increment, Exchange, FreeLarge, PushEntry, Decrement, client
<1>7. CASE Next
  BY <1>2, <1>3, <1>4, <1>5, <1>6, <1>7 DEF Next
<1>8. CASE UNCHANGED vars
  BY <1>8 DEF vars
<1>9. QED
  BY <1>1, <1>7, <1>8

\* The pool implements the allocator: xnew gives a block nobody has, and xdelete takes one back from
\* the one that has it, for any number of threads, blocks and sizes (MemoryPool.cpp:76-:110).
THEOREM RefinesAllocator == Spec => HandsOutOnce
<1>1. Init => Memory!Init
  BY DEF Init, Memory!Init
<1>2. QED
  BY <1>1, InvAlways, AllocatorStep, PTL DEF Spec, HandsOutOnce, Memory!Spec
=============================================================================
