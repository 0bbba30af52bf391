------------------------------ MODULE ByteQueue ------------------------------
(***************************************************************************)
(* What the send buffer of a session promises: bytes leave in the order in *)
(* which they came, none is lost, changed or made up, and those lent to    *)
(* the kernel are the oldest and stay as they are.                         *)
(***************************************************************************)
EXTENDS Integers, Sequences

CONSTANT Bytes

VARIABLES
  queue,   \* the bytes stored, oldest first
  out      \* the bytes lent

Init == queue = <<>> /\ out = <<>>

\* Bytes are added behind those that are there.
Put ==
  /\ queue' \in Seq(Bytes)
  /\ Len(queue) <= Len(queue')
  /\ queue = SubSeq(queue', 1, Len(queue))
  /\ UNCHANGED out

Lend ==
  /\ out = <<>>
  /\ \E n \in 1..Len(queue) : out' = SubSeq(queue, 1, n)
  /\ UNCHANGED queue

\* The kernel has taken the first n of the bytes lent, or none.
TakeBack ==
  /\ \E n \in 0..Len(out) : queue' = SubSeq(queue, n + 1, Len(queue))
  /\ out' = <<>>

Clear ==
  /\ out = <<>>
  /\ queue' = <<>>
  /\ UNCHANGED out

Next == Put \/ Lend \/ TakeBack \/ Clear

Spec == Init /\ [][Next]_<<queue, out>>
=============================================================================
