---------------------------- MODULE MCMemoryPool ----------------------------
(***************************************************************************)
(* Two threads, four pieces of memory, and the sizes at the edges of two   *)
(* pools, of the table and of the pooled sizes: with the header 32, 33,    *)
(* 64, 4096 and 4097 bytes.                                                *)
(***************************************************************************)
EXTENDS MemoryPool, TLC

EdgeSizes == {16, 17, 48, 4080, 4081}

\* The constructor's table over all its indices: every size finds the smallest
\* pool that holds it (index 0, never asked for, finds none), every pool is
\* larger than the alignment (MemoryPool.cpp:10), and there are as many as
\* MAX_SMALL_POOL_COUNT says (MemoryPool.h:59).
ASSUME TableIsTight ==
  /\ \A n \in 1 .. MAX_ALLOC_SIZE : Table[n] = TightPool(n)
  /\ Table[0] = None
  /\ \A p \in Range(PoolSizes) : p > MEMORY_ALLOCATION_ALIGNMENT
  /\ Len(PoolSizes) = MAX_SMALL_POOL_COUNT

Symmetry == Permutations(Threads) \cup Permutations(Blocks)
=============================================================================
