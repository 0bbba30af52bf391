---------------------------- MODULE Allocator ----------------------------
(***************************************************************************)
(* What a memory pool promises the program: Allocate gives a block nobody  *)
(* has, Deallocate takes back a block somebody has.  How blocks are found, *)
(* kept and counted is not visible here.                                   *)
(***************************************************************************)
EXTENDS Naturals

CONSTANT Blocks         \* the pieces of memory

VARIABLE owners         \* block |-> the pointers to it the program holds

Init == owners = [b \in Blocks |-> 0]

Give(b)     == owners[b] = 0 /\ owners' = [owners EXCEPT ![b] = 1]

TakeBack(b) == owners[b] = 1 /\ owners' = [owners EXCEPT ![b] = 0]

Next == \E b \in Blocks : Give(b) \/ TakeBack(b)

Spec == Init /\ [][Next]_owners
=============================================================================
