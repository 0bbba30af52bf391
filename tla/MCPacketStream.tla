---------------------------- MODULE MCPacketStream ----------------------------
(* Small instances of PacketStream for TLC. *)
EXTENDS PacketStream

LOCAL INSTANCE Functions

MaxPayload == 3

\* The stream of packets with these sizes of payload.
StreamOf(size) ==
  [k \in 1..Packets + 1 |-> 1 + (k - 1) * HEADER_SIZE + SumFunctionOnSet(size, 1..k - 1)]

\* Every stream of packets with at most MaxPayload bytes of payload, and those whose packets
\* have one byte of it or MaxPayload.
SmallStreams == {StreamOf(size) : size \in [1..Packets -> 0..MaxPayload]}
ShortOrLong  == {StreamOf(size) : size \in [1..Packets -> {1, MaxPayload}]}

StreamPositions == 0..1 + Packets * (HEADER_SIZE + MaxPayload)
OneType == {"handled"}
=============================================================================
