---------------------------- MODULE PacketStream ----------------------------
(***************************************************************************)
(* mRecvBuffer of a session and ClientSession::OnRead: what the client     *)
(* sent arrives in pieces of any length, and OnRead takes the packets from *)
(* the buffer.  One worker at a time does this (SessionLifecycle).         *)
(*                                                                         *)
(* A byte is its position in the client's stream, and 0 is what was in the *)
(* memory before.  Packet k of the stream is HEADER_SIZE bytes that tell   *)
(* its size and type, and its payload.                                     *)
(***************************************************************************)
EXTENDS CircularBuffer

CONSTANTS
  HEADER_SIZE,
  Packets,      \* the number of packets a client sends
  Streams,      \* where each packet starts, and behind the last one where it ends
  Types         \* what the types of a client's packets may be

\* "handled" has a handler, "default" is left to DefaultHandler, "outside" is not in 1..1023.
KnownTypes == {"handled", "default", "outside"}

ASSUME HeaderInside  == HEADER_SIZE \in Nat \ {0}
ASSUME PacketsNatural == Packets \in Nat
ASSUME StreamsAreCut ==
  \A f \in Streams :
    /\ f \in [1..Packets + 1 -> Nat] /\ f[1] = 1
    /\ \A j, k \in 1..Packets + 1 : j < k => f[k] >= f[j] + HEADER_SIZE
    /\ 0..f[Packets + 1] \subseteq Bytes
ASSUME TypesKnown    == Types \subseteq KnownTypes

VARIABLES
  start,      \* the stream of the present client, a member of Streams
  type,       \* the types of its packets
  connected,  \* mConnected
  pc,         \* "preRecv" | "recv": that receive is outstanding | "onRead" | "closed"
  recv,       \* the memory given to WSARecv
  input,      \* what OnRead's codedInputStream has not read yet
  got,        \* auxiliary: bytes received
  handled,    \* auxiliary: packets given to a handler
  intact      \* auxiliary: each of them was whole and unchanged

streamVars == <<start, type>>
workVars   == <<connected, pc, recv, input>>
auxVars    == <<got, handled, intact>>
vars == <<bufferVars, streamVars, workVars, auxVars>>

NoMemory == [at |-> 0, len |-> 0]

NewClient ==
  /\ start' \in Streams
  /\ type' \in [1..Packets -> Types]
  /\ connected' = TRUE /\ pc' = "preRecv" /\ recv' = NoMemory /\ input' = NoMemory
  /\ got' = 0 /\ handled' = 0 /\ intact' = TRUE

StreamInit ==
  /\ Empty
  /\ mBuffer = [i \in Offsets |-> 0]
  /\ start \in Streams
  /\ type \in [1..Packets -> Types]
  /\ connected = TRUE /\ pc = "preRecv" /\ recv = NoMemory /\ input = NoMemory
  /\ got = 0 /\ handled = 0 /\ intact = TRUE

-----------------------------------------------------------------------------
(* Receiving *)

\* PostRecv: all free space is given to the kernel, or the connection is closed if there is
\* none or WSARecv fails.
PostRecv ==
  /\ pc = "preRecv"
  /\ connected
  /\ OpenB
  /\ \/ /\ GetFreeSpaceSize > 0
        /\ recv' = [at |-> GetBuffer, len |-> GetFreeSpaceSize]
        /\ pc' = "recv"
        /\ UNCHANGED connected
     \/ /\ connected' = FALSE
        /\ pc' = "closed"
        /\ UNCHANGED recv
  /\ UNCHANGED <<streamVars, input, auxVars>>

\* RecvCompletion: n more bytes of the stream are in the buffer, and OnRead looks at its
\* first region.
RecvCompletion(n) ==
  /\ pc = "recv"
  /\ n \in 1..recv.len
  /\ got + n < start[Packets + 1]
  /\ mBuffer' = Copied([i \in 1..n |-> got + i], recv.at)
  /\ Commit(n)
  /\ got' = got + n
  /\ recv' = NoMemory
  /\ input' = [at |-> GetBufferStart', len |-> GetContiguiousBytes']
  /\ pc' = "onRead"
  /\ UNCHANGED <<streamVars, connected, handled, intact>>

\* The receive is cancelled, the peer has closed, or the session is disconnected elsewhere.
Disconnect ==
  /\ connected
  /\ connected' = FALSE
  /\ UNCHANGED <<bufferVars, streamVars, pc, recv, input, auxVars>>
RecvFailed ==
  /\ pc \in {"preRecv", "recv"}
  /\ ~connected
  /\ pc' = "closed"
  /\ recv' = NoMemory
  /\ UNCHANGED <<bufferVars, streamVars, connected, input, auxVars>>

-----------------------------------------------------------------------------
(* ClientSession::OnRead *)

\* The header at the front of the buffer is that of packet k.
HeaderOf(k) == Peek(HEADER_SIZE) = [i \in 1..HEADER_SIZE |-> start[k] + i - 1]

Size(k) == start[k + 1] - start[k] - HEADER_SIZE

\* What OnRead reads there: anything, if it is no header of the stream.
ReadHeader(size, t) ==
  \/ \E k \in 1..Packets : HeaderOf(k) /\ size = Size(k) /\ t = type[k]
  \/ /\ \A k \in 1..Packets : ~HeaderOf(k)
     /\ size \in 0..mCapacity + 1 /\ t \in KnownTypes

\* The memory payloadPos points to.
Payload(size) ==
  [i \in 1..size |-> LET at == input.at + HEADER_SIZE + i - 1
                     IN IF at \in Offsets THEN mBuffer[at] ELSE 0]

\* The test behind "packet complete?".
Complete(size) == GetStoredSize >= size

\* Mutant of Taken: the header stays in the buffer.
TakenPayload(size) == size

\* The bytes OnRead removes for a packet.
Taken(size) == HEADER_SIZE + size

ReadRawOk == input.len >= HEADER_SIZE

\* One turn of the loop that reaches a handler.
HandlePacket(size, t) ==
  /\ pc = "onRead"
  /\ ReadRawOk /\ GetStoredSize >= HEADER_SIZE
  /\ ReadHeader(size, t)
  /\ Complete(size)
  /\ t # "outside"
  /\ connected' = (connected /\ t # "default")
  /\ Remove(Taken(size))
  /\ input' = IF input.len > HEADER_SIZE + size
              THEN [at |-> input.at + HEADER_SIZE + size, len |-> input.len - HEADER_SIZE - size]
              ELSE NoMemory
  /\ handled' = handled + 1
  /\ intact' = (/\ intact
                /\ HEADER_SIZE + size <= GetStoredSize
                /\ HeaderOf(handled + 1)
                /\ Payload(size) = [i \in 1..size |-> start[handled + 1] + HEADER_SIZE + i - 1])
  /\ UNCHANGED <<streamVars, pc, recv, got>>

\* OnRead returns and PreRecv is called: nothing more to read, a packet that is not complete,
\* or one with a type outside of the table.
OnReadDone ==
  /\ pc = "onRead"
  /\ \/ /\ ~ReadRawOk \/ GetStoredSize < HEADER_SIZE
        /\ UNCHANGED connected
     \/ /\ ReadRawOk /\ GetStoredSize >= HEADER_SIZE
        /\ \E size \in 0..mCapacity + 1, t \in KnownTypes :
             /\ ReadHeader(size, t)
             /\ \/ ~Complete(size) /\ UNCHANGED connected
                \/ Complete(size) /\ t = "outside" /\ connected' = FALSE
  /\ pc' = "preRecv"
  /\ input' = NoMemory
  /\ UNCHANGED <<bufferVars, streamVars, recv, auxVars>>

\* ClientSession::SessionReset, and the next client of the session.
SessionReset ==
  /\ pc = "closed"
  /\ BufferReset
  /\ NewClient

Worker ==
  \/ PostRecv \/ RecvFailed \/ OnReadDone
  \/ \E size \in 0..mCapacity + 1, t \in KnownTypes : HandlePacket(size, t)

Next ==
  \/ Worker \/ Disconnect \/ SessionReset
  \/ \E n \in 1..mCapacity : RecvCompletion(n)

Spec == StreamInit /\ [][Next]_vars

-----------------------------------------------------------------------------
(* Correctness *)

StreamTypeOK ==
  /\ TypeOK
  /\ start \in Streams
  /\ type \in [1..Packets -> Types]
  /\ connected \in BOOLEAN
  /\ pc \in {"preRecv", "recv", "onRead", "closed"}
  /\ recv \in [at : 0..mCapacity, len : 0..mCapacity]
  /\ input \in [at : 0..mCapacity, len : 0..mCapacity]
  /\ got \in Nat /\ handled \in Nat /\ intact \in BOOLEAN

\* The memory given to WSARecv holds nothing that is stored: the kernel can write all of it
\* (PostRecv, GetFreeSpaceSize, GetBuffer).
RecvRegionFree ==
  \A x \in recv.at..recv.at + recv.len - 1 :
    /\ x \in Offsets
    /\ x \notin mARegionPointer..mARegionPointer + mARegionSize - 1
    /\ x \notin mBRegionPointer..mBRegionPointer + mBRegionSize - 1

\* What is stored is the last part of what was received, in order, none lost, doubled or
\* overwritten, however the packets lie over the regions and however much is removed at once
\* (PostRecv, RecvCompletion, Remove).
StreamKept == Stored = [i \in 1..GetStoredSize |-> got - GetStoredSize + i]

\* As long as every packet was whole when it was handled, OnRead takes the packets of the
\* stream in order, each once: what is stored, or comes next, begins with the first packet
\* that was not handled (OnRead).
FramesInOrder == intact => got - GetStoredSize + 1 = start[handled + 1]

Handled == handled' = handled + 1 /\ intact

\* A packet is handled only when all of it is there ("packet complete?").
CompleteWhenHandled ==
  [][Handled => GetStoredSize >= HEADER_SIZE + Size(handled + 1)]_vars
=============================================================================
