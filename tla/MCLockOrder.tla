----------------------------- MODULE MCLockOrder -----------------------------
(* A small instance of LockOrder for TLC: the client session manager's lock, *)
(* two player locks of one class, a send buffer lock and an object pool's.   *)
EXTENDS LockOrder, TLC

CONSTANTS t1, t2, t3, manager, player1, player2, sendBuffer, pool

ThreeThreads == {t1, t2, t3}
FiveLocks    == {manager, player1, player2, sendBuffer, pool}

Orders == manager :> 1 @@ player1 :> 2 @@ player2 :> 2 @@ sendBuffer :> 4 @@ pool :> 0

\* Threads, and the two player locks, are interchangeable.
Interchangeable == Permutations(ThreeThreads) \cup Permutations({player1, player2})
=============================================================================
