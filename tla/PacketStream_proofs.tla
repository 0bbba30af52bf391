------------------------- MODULE PacketStream_proofs -------------------------
(***************************************************************************)
(* Proofs about PacketStream, for any capacity, header size and streams.   *)
(* Beside Shape, that of the circular buffer, the inductive invariant says *)
(* that the memory given to the kernel is the free space the buffer would  *)
(* give again, and that the position in the stream of what is stored is    *)
(* known: from there on it is what the client sent.                        *)
(***************************************************************************)
EXTENDS PacketStream, CircularBuffer_proofs

StreamTypes ==
  /\ start \in Streams
  /\ type \in [1..Packets -> Types]
  /\ connected \in BOOLEAN
  /\ pc \in {"preRecv", "recv", "onRead", "closed"}
  /\ handled \in Nat /\ intact \in BOOLEAN

InputInside ==
  /\ input \in [at : 0..mCapacity, len : 0..mCapacity]
  /\ input.at + input.len <= mCapacity

RecvGiven ==
  /\ pc # "recv" => recv = NoMemory
  /\ pc = "recv" => /\ recv = [at |-> GetBuffer, len |-> GetFreeSpaceSize]
                    /\ mBRegionPointer = BAllocated

Received ==
  /\ got \in Nat /\ got < start[Packets + 1]
  /\ GetStoredSize <= got
  /\ StreamKept

Aligned ==
  intact => handled <= Packets /\ got - GetStoredSize + 1 = start[handled + 1]

Inv == Shape /\ StreamTypes /\ InputInside /\ RecvGiven /\ Received /\ Aligned

USE CapacityPositive, HeaderInside, PacketsNatural

\* What is known of any stream.
LEMMA StreamIs ==
  ASSUME NEW f \in Streams
  PROVE  /\ f \in [1..Packets + 1 -> Nat] /\ f[1] = 1
         /\ \A j, k \in 1..Packets + 1 : j < k => f[k] >= f[j] + HEADER_SIZE
         /\ 0..f[Packets + 1] \subseteq Bytes
         /\ 1 \in 1..Packets + 1 /\ Packets + 1 \in 1..Packets + 1
         /\ f[Packets + 1] \in Nat /\ f[Packets + 1] >= 1
<1>1. /\ f \in [1..Packets + 1 -> Nat] /\ f[1] = 1
      /\ \A j, k \in 1..Packets + 1 : j < k => f[k] >= f[j] + HEADER_SIZE
      /\ 0..f[Packets + 1] \subseteq Bytes
  BY StreamsAreCut
<1>2. 1 \in 1..Packets + 1 /\ Packets + 1 \in 1..Packets + 1
  OBVIOUS
<1>3. f[Packets + 1] \in Nat /\ f[Packets + 1] >= 1
  <2>1. CASE Packets = 0
    BY <1>1, <2>1
  <2>2. CASE Packets > 0
    BY <1>1, <1>2, <2>2
  <2>3. QED
    BY <2>1, <2>2
<1>4. QED
  BY <1>1, <1>2, <1>3

\* A new stream, with nothing received of it.
LEMMA NothingReceived ==
  ASSUME Shape, Stored = <<>>, start \in Streams, got = 0, handled = 0
  PROVE  Received /\ Aligned
<1>1. GetStoredSize = 0
  BY AIsFront
<1>2. StreamKept
  BY <1>1 DEF StreamKept
<1>3. QED
  BY <1>1, <1>2, StreamIs DEF Received, Aligned

LEMMA InvInit ==
  ASSUME StreamInit
  PROVE  Inv
<1>1. Init
  BY ZeroIsByte DEF StreamInit, Init
<1>2. Shape /\ Stored = <<>>
  BY <1>1, ShapeInit
<1>3. Received /\ Aligned
  BY <1>2, NothingReceived DEF StreamInit
<1>4. QED
  BY <1>2, <1>3 DEF StreamInit, Inv, StreamTypes, InputInside, RecvGiven, NoMemory

LEMMA ResetKeeps ==
  ASSUME Inv, SessionReset
  PROVE  Inv'
<1>1. Shape' /\ Stored' = <<>>
  BY ShapeReset DEF SessionReset
<1>2. start' \in Streams /\ got' = 0 /\ handled' = 0
  BY DEF SessionReset, NewClient
<1>3. GetStoredSize' = 0
  BY <1>1 DEF SessionReset, BufferReset, GetStoredSize
<1>4. Received' /\ Aligned'
  BY <1>1, <1>2, <1>3, StreamIs DEF Received, Aligned, StreamKept
<1>5. QED
  BY <1>1, <1>4 DEF SessionReset, NewClient, Inv, StreamTypes, InputInside, RecvGiven, NoMemory

LEMMA PostRecvKeeps ==
  ASSUME Inv, PostRecv
  PROVE  Inv'
<1>1. OpenB /\ UNCHANGED <<streamVars, input, auxVars>>
  BY DEF PostRecv
<1>2. Shape' /\ Stored' = Stored
  BY <1>1, OpenBEffect DEF Inv
<1>3. GetStoredSize' = GetStoredSize
  BY <1>1 DEF OpenB, GetStoredSize
<1>4. Received' /\ Aligned'
  BY <1>1, <1>2, <1>3 DEF Inv, Received, Aligned, StreamKept, streamVars, auxVars
<1>5. StreamTypes' /\ InputInside'
  BY <1>1 DEF PostRecv, Inv, StreamTypes, InputInside, streamVars, auxVars
<1>6. RecvGiven'
  BY <1>1, OpenBKeepsFree DEF PostRecv, Inv, RecvGiven
<1>7. QED
  BY <1>2, <1>4, <1>5, <1>6 DEF Inv

\* The part of the stream that is stored.
LEMMA StoredIs ==
  ASSUME Inv
  PROVE  /\ Stored \in Seq(Bytes) /\ Len(Stored) = GetStoredSize /\ GetStoredSize \in Nat
         /\ GetStoredSize <= got /\ got \in Nat
         /\ Stored = [i \in 1..GetStoredSize |-> got - GetStoredSize + i]
<1>1. Shape /\ Received
  BY DEF Inv
<1>2. GetStoredSize <= got /\ got \in Nat
  BY <1>1 DEF Received
<1>3. Stored = [i \in 1..GetStoredSize |-> got - GetStoredSize + i]
  BY <1>1 DEF Received, StreamKept
<1>4. QED
  BY <1>1, <1>2, <1>3, AIsFront

LEMMA NextLength ==
  ASSUME Shape'
  PROVE  GetStoredSize' \in Nat /\ Len(Stored') = GetStoredSize'
<1>1. GetStoredSize' \in Nat
  <2>1. mARegionSize' \in 0..mCapacity /\ mBRegionSize' \in 0..mCapacity
    BY DEF Shape, TypeOK
  <2>2. \A a, b \in 0..mCapacity : a + b \in Nat
    OBVIOUS
  <2>3. mARegionSize' + mBRegionSize' \in Nat
    BY <2>1, <2>2, Zenon
  <2>4. QED
    BY <2>3, Zenon DEF GetStoredSize
<1> DEFINE at(i) == IF i <= mARegionSize THEN mBuffer[mARegionPointer + i - 1]
                                         ELSE mBuffer[mBRegionPointer + i - mARegionSize - 1]
<1>2. Stored' = [i \in 1..GetStoredSize' |-> at(i)']
  BY DEF Stored, Peek
<1> HIDE DEF at
<1>3. QED
  BY <1>1, <1>2

\* What has been received goes behind what is stored.
LEMMA RecvAppends ==
  ASSUME Inv, NEW n, RecvCompletion(n)
  PROVE  /\ n \in Nat /\ n > 0 /\ Shape'
         /\ [i \in 1..n |-> got + i] \in Seq(Bytes)
         /\ Len([i \in 1..n |-> got + i]) = n
         /\ Stored' = Stored \o [i \in 1..n |-> got + i]
<1> DEFINE chunk == [i \in 1..n |-> got + i]
<1>1. /\ pc = "recv" /\ n \in 1..recv.len /\ got + n < start[Packets + 1]
      /\ mBuffer' = Copied(chunk, recv.at) /\ Commit(n)
  BY Zenon DEF RecvCompletion
<1>2. /\ recv.at = GetBuffer /\ recv.len = GetFreeSpaceSize
      /\ GetFreeSpaceSize \in Nat /\ got \in Nat
  BY <1>1, FreeSpaceApart DEF Inv, RecvGiven, Received
<1>3. n \in Nat /\ n > 0 /\ n <= GetFreeSpaceSize
  BY <1>1, <1>2
<1>4. chunk \in Seq(Bytes) /\ Len(chunk) = n
  <2>1. \A i \in 1..n : got + i \in 0..start[Packets + 1]
    BY <1>1, <1>2, <1>3, StreamIs DEF Inv, StreamTypes
  <2>2. \A i \in 1..n : got + i \in Bytes
    BY <2>1, StreamIs DEF Inv, StreamTypes
  <2>3. QED
    BY <1>3, <2>2
<1> HIDE DEF chunk
<1>5. Write(chunk)
  BY <1>1, <1>2, <1>3, <1>4 DEF Write
<1>6. Shape' /\ Stored' = Stored \o chunk
  BY <1>2, <1>3, <1>4, <1>5, WriteEffect DEF Inv
<1>7. QED
  BY <1>3, <1>4, <1>6 DEF chunk

\* Two sequences put together, as a function.
LEMMA PutTogether ==
  ASSUME NEW q \in Seq(Bytes), NEW r \in Seq(Bytes)
  PROVE  /\ Len(q \o r) = Len(q) + Len(r)
         /\ q \o r = [i \in 1..Len(q) + Len(r) |-> IF i <= Len(q) THEN q[i] ELSE r[i - Len(q)]]
<1> DEFINE c == q \o r
<1>1. c \in Seq(Bytes) /\ Len(c) = Len(q) + Len(r)
  OBVIOUS
<1>2. \A i \in 1..Len(q) + Len(r) : c[i] = IF i <= Len(q) THEN q[i] ELSE r[i - Len(q)]
  OBVIOUS
<1> HIDE DEF c
<1>3. c = [i \in 1..Len(q) + Len(r) |-> c[i]]
  BY <1>1
<1>4. c = [i \in 1..Len(q) + Len(r) |-> IF i <= Len(q) THEN q[i] ELSE r[i - Len(q)]]
  BY <1>2, <1>3
<1>5. QED
  BY <1>1, <1>4 DEF c

LEMMA RecvCompletionKeeps ==
  ASSUME Inv, NEW n, RecvCompletion(n)
  PROVE  Inv'
<1> DEFINE chunk == [i \in 1..n |-> got + i]
           m == GetStoredSize
<1>1. /\ n \in Nat /\ n > 0 /\ Shape' /\ chunk \in Seq(Bytes) /\ Len(chunk) = n
      /\ Stored' = Stored \o chunk
  BY RecvAppends
<1>2. /\ got' = got + n /\ got + n < start[Packets + 1]
      /\ recv' = NoMemory /\ pc' = "onRead"
      /\ input' = [at |-> GetBufferStart', len |-> GetContiguiousBytes']
      /\ UNCHANGED <<streamVars, connected, handled, intact>>
  BY DEF RecvCompletion
<1>3. /\ Stored \in Seq(Bytes) /\ Len(Stored) = m /\ m \in Nat /\ m <= got /\ got \in Nat
      /\ Stored = [i \in 1..m |-> got - m + i]
  BY StoredIs
<1>4. Len(Stored') = m + n
      /\ Stored' = [i \in 1..m + n |-> IF i <= m THEN Stored[i] ELSE chunk[i - m]]
  <2> HIDE DEF chunk, m
  <2>1. /\ Len(Stored \o chunk) = Len(Stored) + Len(chunk)
        /\ Stored \o chunk = [i \in 1..Len(Stored) + Len(chunk) |->
                                IF i <= Len(Stored) THEN Stored[i] ELSE chunk[i - Len(Stored)]]
    BY <1>1, <1>3, PutTogether
  <2>2. Len(Stored) = m /\ Len(chunk) = n /\ Stored' = Stored \o chunk
    BY <1>1, <1>3
  <2>3. QED
    BY <2>1, <2>2
<1>5. GetStoredSize' = m + n
  BY <1>1, <1>4, NextLength
<1>6. \A i \in 1..m + n :
        (IF i <= m THEN Stored[i] ELSE chunk[i - m]) = (got + n) - (m + n) + i
  <2> TAKE i \in 1..m + n
  <2> HIDE DEF m
  <2>1. CASE i <= m
    BY <1>1, <1>3, <2>1
  <2>2. CASE ~(i <= m)
    <3>1. i - m \in 1..n
      BY <1>1, <1>3, <2>2
    <3>2. chunk[i - m] = got + (i - m)
      BY <3>1
    <3>3. QED
      BY <1>1, <1>3, <2>2, <3>2
  <2>3. QED
    BY <2>1, <2>2
<1> HIDE DEF chunk, m
<1>7. Stored' = [i \in 1..m + n |-> (got + n) - (m + n) + i]
  BY <1>4, <1>6
<1>8. Received'
  <2>1. got + n \in Nat /\ m + n <= got + n
    BY <1>1, <1>3
  <2>2. start' = start
    BY <1>2 DEF streamVars
  <2>3. StreamKept'
    BY <1>2, <1>5, <1>7 DEF StreamKept
  <2>4. QED
    BY <1>2, <1>5, <2>1, <2>2, <2>3 DEF Received
<1>9. Aligned'
  <2>1. (got + n) - (m + n) + 1 = got - m + 1
    BY <1>1, <1>3
  <2>2. QED
    BY <1>2, <1>5, <2>1 DEF Aligned, Inv, streamVars, m
<1>10. InputInside'
  <2>1. mBRegionSize' > 0 => mARegionSize' > 0
    BY <1>1 DEF Shape, TypeOK, RegionsApart
  <2>2. mARegionSize' > 0
    <3>1. mARegionSize' \in Nat /\ mBRegionSize' \in Nat
      BY <1>1 DEF Shape, TypeOK
    <3>2. mARegionSize' + mBRegionSize' = m + n
      BY <1>5 DEF GetStoredSize
    <3>3. \A a, b \in Nat : (b > 0 => a > 0) /\ a + b = m + n => a > 0
      BY <1>1, <1>3
    <3>4. QED
      BY <2>1, <3>1, <3>2, <3>3, Zenon
  <2>3. input' = [at |-> mARegionPointer', len |-> mARegionSize']
    BY <1>2, <2>2 DEF GetBufferStart, GetContiguiousBytes
  <2>4. QED
    BY <1>1, <2>3 DEF InputInside, Shape, TypeOK, RegionsApart
<1>11. StreamTypes' /\ RecvGiven'
  BY <1>2 DEF Inv, StreamTypes, RecvGiven, streamVars
<1>12. QED
  BY <1>1, <1>8, <1>9, <1>10, <1>11 DEF Inv

\* What a packet takes from the front of what is stored.
LEMMA PacketTaken ==
  ASSUME Inv, NEW n \in Nat, Remove(n), UNCHANGED got
  PROVE  /\ Shape' /\ GetStoredSize' \in Nat
         /\ GetStoredSize' <= got /\ StreamKept'
         /\ n <= GetStoredSize => GetStoredSize' = GetStoredSize - n
<1> DEFINE m == GetStoredSize
<1>1. /\ Stored \in Seq(Bytes) /\ Len(Stored) = m /\ m \in Nat /\ m <= got /\ got \in Nat
      /\ Stored = [i \in 1..m |-> got - m + i]
  BY StoredIs
<1>2. CASE n <= m
  <2>1. Shape' /\ Stored' = SubSeq(Stored, n + 1, m)
    <3>1. n \in 0..m
      BY <1>1, <1>2
    <3>2. Shape' /\ Stored' = SubSeq(Stored, n + 1, Len(Stored))
      BY <3>1, RemoveEffect DEF Inv
    <3>3. QED
      BY <1>1, <3>2
  <2>2. Stored' = [i \in 1..m - n |-> Stored[n + i]]
    BY <1>1, <1>2, <2>1, DroppedIs
  <2>3. GetStoredSize' = m - n
    <3>1. Len(Stored') = GetStoredSize'
      BY <2>1, NextLength
    <3> HIDE DEF m
    <3>2. m - n \in Nat
      BY <1>1, <1>2
    <3>3. Len(Stored') = m - n
      BY <2>2, <3>2
    <3>4. QED
      BY <3>1, <3>3
  <2>4. \A i \in 1..m - n : Stored[n + i] = got - (m - n) + i
    <3> TAKE i \in 1..m - n
    <3>1. n + i \in 1..m
      BY <1>1, <1>2
    <3>2. QED
      BY <1>1, <3>1
  <2> HIDE DEF m
  <2>5. Stored' = [i \in 1..m - n |-> got - (m - n) + i]
    BY <2>2, <2>4
  <2>6. StreamKept'
    BY <2>3, <2>5 DEF StreamKept
  <2>7. QED
    BY <1>1, <1>2, <2>1, <2>3, <2>6 DEF m
<1>3. CASE n > m
  <2>1. Shape' /\ Stored' = <<>>
    BY <1>3, RemoveTooMuch DEF Inv
  <2>2. GetStoredSize' = 0
    <3>1. Len(Stored') = GetStoredSize'
      BY <2>1, NextLength
    <3>2. QED
      BY <2>1, <3>1
  <2>3. StreamKept'
    BY <2>1, <2>2 DEF StreamKept
  <2>4. QED
    BY <1>1, <1>3, <2>1, <2>2, <2>3
<1>4. QED
  BY <1>1, <1>2, <1>3

\* A whole packet at the front that is the next of the stream has that packet's size.
LEMMA NextPacket ==
  ASSUME Inv, NEW size, NEW t, ReadHeader(size, t), intact, HeaderOf(handled + 1),
         GetStoredSize >= HEADER_SIZE
  PROVE  handled + 1 \in 1..Packets /\ size = Size(handled + 1)
<1>1. /\ handled \in Nat /\ handled <= Packets /\ got \in Nat /\ got < start[Packets + 1]
      /\ got - GetStoredSize + 1 = start[handled + 1] /\ start \in Streams
      /\ GetStoredSize \in Nat
  BY AIsFront DEF Inv, StreamTypes, Received, Aligned
<1>2. handled # Packets
  BY <1>1, StreamIs
<1>3. handled + 1 \in 1..Packets
  BY <1>1, <1>2
<1>4. PICK k \in 1..Packets : HeaderOf(k) /\ size = Size(k)
  BY <1>3 DEF ReadHeader
<1>5. start[k] = start[handled + 1]
  <2>1. [i \in 1..HEADER_SIZE |-> start[k] + i - 1] = [i \in 1..HEADER_SIZE |-> start[handled + 1] + i - 1]
    BY <1>4 DEF HeaderOf
  <2>2. 1 \in 1..HEADER_SIZE
    OBVIOUS
  <2>3. start[k] + 1 - 1 = start[handled + 1] + 1 - 1
    BY <2>1, <2>2
  <2>4. start[k] \in Nat /\ start[handled + 1] \in Nat
    BY <1>1, <1>3, StreamIs
  <2>5. QED
    BY <2>3, <2>4
<1>6. k = handled + 1
  <2>1. k \in 1..Packets + 1 /\ handled + 1 \in 1..Packets + 1
    BY <1>3
  <2>2. start[k] \in Nat
    BY <1>1, <2>1, StreamIs
  <2>3. ~(k < handled + 1) /\ ~(handled + 1 < k)
    BY <1>1, <1>5, <2>1, <2>2, StreamIs
  <2>4. QED
    BY <2>1, <2>3
<1>7. QED
  BY <1>3, <1>4, <1>6

LEMMA HandlePacketKeeps ==
  ASSUME Inv, NEW size \in Nat, NEW t, HandlePacket(size, t)
  PROVE  Inv'
<1>1. /\ ReadHeader(size, t) /\ GetStoredSize >= HEADER_SIZE
      /\ connected' = (connected /\ t # "default")
      /\ Remove(HEADER_SIZE + size)
      /\ handled' = handled + 1
      /\ pc = "onRead" /\ ReadRawOk
  BY DEF HandlePacket, Taken
<1>2. UNCHANGED <<streamVars, pc, recv, got>>
  BY DEF HandlePacket
<1>3. HEADER_SIZE + size \in Nat
  OBVIOUS
<1>4. /\ Shape' /\ GetStoredSize' \in Nat /\ GetStoredSize' <= got /\ StreamKept'
      /\ HEADER_SIZE + size <= GetStoredSize => GetStoredSize' = GetStoredSize - (HEADER_SIZE + size)
  BY <1>1, <1>2, <1>3, PacketTaken
<1>5. Received'
  BY <1>2, <1>4 DEF Inv, Received, streamVars
<1>6. Aligned'
  <2>1. SUFFICES ASSUME intact'
                 PROVE  handled' <= Packets /\ got' - GetStoredSize' + 1 = start'[handled' + 1]
    BY DEF Aligned
  <2>2. intact /\ HEADER_SIZE + size <= GetStoredSize /\ HeaderOf(handled + 1)
    BY <2>1 DEF HandlePacket
  <2>3. handled + 1 \in 1..Packets /\ size = Size(handled + 1)
    BY <1>1, <2>2, NextPacket
  <2>4. got - GetStoredSize + 1 = start[handled + 1] /\ start \in Streams /\ got \in Nat
    BY <2>2 DEF Inv, Aligned, StreamTypes, Received
  <2>5. start[handled + 1] \in Nat /\ start[handled + 2] \in Nat /\ handled + 2 \in 1..Packets + 1
    <3>1. handled + 1 \in 1..Packets + 1 /\ handled + 2 \in 1..Packets + 1 /\ handled + 1 + 1 = handled + 2
      BY <2>3 DEF Inv, StreamTypes
    <3>2. QED
      BY <2>4, <3>1, StreamIs
  <2>6. HEADER_SIZE + size = start[handled + 2] - start[handled + 1]
    BY <2>3, <2>5 DEF Size, Inv, StreamTypes
  <2>7. GetStoredSize \in Nat
    BY AIsFront DEF Inv
  <2>8. got - (GetStoredSize - (HEADER_SIZE + size)) + 1 = start[handled + 2]
    BY <2>4, <2>5, <2>6, <2>7
  <2>9. QED
    BY <1>1, <1>2, <1>4, <2>2, <2>3, <2>8 DEF streamVars, Inv, StreamTypes
<1>7. StreamTypes'
  BY <1>1, <1>2 DEF HandlePacket, Inv, StreamTypes, streamVars
<1>8. InputInside'
  BY DEF HandlePacket, Inv, InputInside, NoMemory
<1>9. RecvGiven'
  BY <1>1, <1>2 DEF Inv, RecvGiven
<1>10. QED
  BY <1>4, <1>5, <1>6, <1>7, <1>8, <1>9 DEF Inv

\* Steps that leave the buffer and the position in the stream alone.
LEMMA BufferUntouched ==
  ASSUME Inv, UNCHANGED <<bufferVars, streamVars, auxVars>>
  PROVE  Shape' /\ Received' /\ Aligned' /\ GetBuffer' = GetBuffer /\ BAllocated' = BAllocated
         /\ GetFreeSpaceSize' = GetFreeSpaceSize /\ mBRegionPointer' = mBRegionPointer
  BY DEF Inv, Shape, TypeOK, RegionsApart, BWasLarger, GetAFreeSpace, Received, Aligned,
         StreamKept, Stored, Peek, GetStoredSize, GetBuffer, BAllocated, GetFreeSpaceSize,
         GetBFreeSpace, MoreBeforeA, GetSpaceBeforeA, bufferVars, regions, streamVars, auxVars

LEMMA InvStep ==
  ASSUME Inv, [Next]_vars
  PROVE  Inv'
<1>1. CASE PostRecv
  BY <1>1, PostRecvKeeps
<1>2. CASE RecvFailed
  BY <1>2, BufferUntouched
  DEF RecvFailed, Inv, StreamTypes, InputInside, RecvGiven, streamVars, auxVars
<1>3. CASE OnReadDone
  <2>1. /\ UNCHANGED <<bufferVars, streamVars, recv, auxVars>>
        /\ pc = "onRead" /\ pc' = "preRecv" /\ input' = NoMemory /\ connected' \in BOOLEAN
    BY <1>3 DEF OnReadDone, Inv, StreamTypes
  <2>2. Shape' /\ Received' /\ Aligned'
    BY <2>1, BufferUntouched
  <2>3. StreamTypes' /\ InputInside' /\ RecvGiven'
    BY <2>1 DEF Inv, StreamTypes, InputInside, RecvGiven, NoMemory, streamVars, auxVars
  <2>4. QED
    BY <2>2, <2>3 DEF Inv
<1>4. ASSUME NEW size \in 0..mCapacity + 1, NEW t \in KnownTypes, HandlePacket(size, t)
      PROVE  Inv'
  BY <1>4, HandlePacketKeeps
<1>5. CASE Disconnect
  BY <1>5, BufferUntouched
  DEF Disconnect, Inv, StreamTypes, InputInside, RecvGiven, streamVars, auxVars
<1>6. CASE SessionReset
  BY <1>6, ResetKeeps
<1>7. ASSUME NEW n \in 1..mCapacity, RecvCompletion(n)
      PROVE  Inv'
  BY <1>7, RecvCompletionKeeps
<1>8. CASE UNCHANGED vars
  BY <1>8, BufferUntouched
  DEF vars, workVars, Inv, StreamTypes, InputInside, RecvGiven, streamVars, auxVars
<1>9. QED
  BY <1>1, <1>2, <1>3, <1>4, <1>5, <1>6, <1>7, <1>8 DEF Next, Worker

LEMMA InvAlways == Spec => []Inv
  BY InvInit, InvStep, PTL DEF Spec

\* Every variable keeps its type: the receive buffer stays within its memory, and OnRead's
\* stream within the first region it was made of.
THEOREM TypeCorrect == Spec => []StreamTypeOK
<1>1. Inv => StreamTypeOK
  <2>1. SUFFICES ASSUME Inv PROVE recv \in [at : 0..mCapacity, len : 0..mCapacity]
    BY DEF Inv, Shape, StreamTypes, InputInside, Received, StreamTypeOK
  <2>2. CASE pc = "recv"
    BY <2>1, <2>2, FreeSpaceApart DEF Inv, RecvGiven
  <2>3. CASE pc # "recv"
    BY <2>1, <2>3 DEF Inv, RecvGiven, NoMemory
  <2>4. QED
    BY <2>2, <2>3
<1>2. QED
  BY <1>1, InvAlways, PTL

\* The kernel may write all of the memory given to WSARecv: nothing is stored there.
THEOREM RecvMemoryFree == Spec => []RecvRegionFree
<1>1. Inv => RecvRegionFree
  <2>1. SUFFICES ASSUME Inv, NEW x \in recv.at..recv.at + recv.len - 1
                 PROVE  /\ x \in Offsets
                        /\ x \notin mARegionPointer..mARegionPointer + mARegionSize - 1
                        /\ x \notin mBRegionPointer..mBRegionPointer + mBRegionSize - 1
    BY DEF RecvRegionFree
  <2>2. CASE pc = "recv"
    <3>1. /\ recv.at = GetBuffer /\ recv.len = GetFreeSpaceSize /\ mBRegionPointer = BAllocated
          /\ Shape
      BY <2>1, <2>2 DEF Inv, RecvGiven
    <3>2. CASE BAllocated = nullptr
      BY <2>1, <3>1, <3>2, FreeSpaceApart DEF Shape, TypeOK, RegionsApart, Offsets, nullptr
    <3>3. CASE BAllocated # nullptr
      BY <2>1, <3>1, <3>3, FreeSpaceApart DEF Shape, TypeOK, RegionsApart, Offsets
    <3>4. QED
      BY <3>2, <3>3
  <2>3. CASE pc # "recv"
    BY <2>1, <2>3 DEF Inv, RecvGiven, NoMemory
  <2>4. QED
    BY <2>2, <2>3
<1>2. QED
  BY <1>1, InvAlways, PTL

\* What is stored is what the client sent, without a gap, up to the last byte received.
THEOREM StreamIsKept == Spec => []StreamKept
<1>1. Inv => StreamKept
  BY DEF Inv, Received
<1>2. QED
  BY <1>1, InvAlways, PTL

\* Packets that are handled whole are handled in order, each once.
THEOREM PacketsInOrder == Spec => []FramesInOrder
<1>1. Inv => FramesInOrder
  BY DEF Inv, Aligned, FramesInOrder
<1>2. QED
  BY <1>1, InvAlways, PTL
=============================================================================
