------------------------ MODULE CircularBuffer_proofs ------------------------
(***************************************************************************)
(* What each operation of CircularBuffer does to the regions and to the    *)
(* bytes stored, for any capacity and any bytes; then SendBuffer, for      *)
(* messages of any bounded length.  SendInv is Shape, the invariant of the *)
(* circular buffer, and LentFromA: a send is outstanding only while the    *)
(* pending count says so, and only for the front part of region A, which   *)
(* stays where it is until the send ends.                                  *)
(***************************************************************************)
EXTENDS SendBuffer, SequenceTheorems, TLAPS

\* B is opened only when that makes more room, and stays the larger share from then on.
BWasLarger == mBRegionPointer # nullptr => GetAFreeSpace < mARegionPointer

Shape == TypeOK /\ RegionsApart /\ BWasLarger

\* Two sequences put together, element by element.
LEMMA ConcatenationIs ==
  ASSUME NEW q \in Seq(Bytes), NEW r \in Seq(Bytes), NEW f,
         f = [i \in 1..Len(q) + Len(r) |-> f[i]],
         \A i \in 1..Len(q) + Len(r) : f[i] = IF i <= Len(q) THEN q[i] ELSE r[i - Len(q)]
  PROVE  f = q \o r
<1> DEFINE c == q \o r
<1>1. c \in Seq(Bytes) /\ Len(c) = Len(q) + Len(r)
  OBVIOUS
<1>2. \A i \in 1..Len(q) + Len(r) : c[i] = IF i <= Len(q) THEN q[i] ELSE r[i - Len(q)]
  OBVIOUS
<1> HIDE DEF c
<1>3. c = [i \in 1..Len(q) + Len(r) |-> c[i]]
  BY <1>1
<1>4. f = c
  BY <1>2, <1>3
<1>5. QED
  BY <1>4 DEF c

\* What is left when the first n elements are gone.
LEMMA DroppedIs ==
  ASSUME NEW q \in Seq(Bytes), NEW n \in 0..Len(q)
  PROVE  SubSeq(q, n + 1, Len(q)) = [i \in 1..Len(q) - n |-> q[n + i]]
<1>1. n + 1 \in 1..Len(q) + 1
  OBVIOUS
<1> DEFINE d == SubSeq(q, n + 1, Len(q))
<1>2. /\ DOMAIN d = 1..Len(q) - n /\ d = [i \in DOMAIN d |-> d[i]]
      /\ \A i \in 1..Len(q) - n : d[i] = q[n + i]
  <2>1. /\ d \in Seq(Bytes) /\ Len(d) = Len(q) - n
        /\ \A i \in 1..Len(q) - n : d[i] = q[(n + 1) + i - 1]
    BY <1>1, SubSeqProperties
  <2>2. \A i \in 1..Len(q) - n : (n + 1) + i - 1 = n + i
    OBVIOUS
  <2> HIDE DEF d
  <2>3. QED
    BY <2>1, <2>2
<1> HIDE DEF d
<1>3. d = [i \in 1..Len(q) - n |-> q[n + i]]
  BY <1>2
<1>4. QED
  BY <1>3 DEF d

LEMMA ShapeInit ==
  ASSUME Init
  PROVE  Shape /\ Stored = <<>>
<1>1. Shape
  BY CapacityPositive DEF Init, Empty, Shape, TypeOK, RegionsApart, BWasLarger, nullptr
<1>2. GetStoredSize = 0
  BY DEF Init, Empty, GetStoredSize
<1>3. Stored = <<>>
  BY <1>2 DEF Stored, Peek
<1>4. QED
  BY <1>1, <1>3

LEMMA ShapeReset ==
  ASSUME BufferReset
  PROVE  Shape' /\ Stored' = <<>>
<1>1. Shape'
  BY CapacityPositive, ZeroIsByte
  DEF BufferReset, Shape, TypeOK, RegionsApart, BWasLarger, nullptr
<1>2. GetStoredSize' = 0
  BY DEF BufferReset, GetStoredSize
<1>3. Stored' = <<>>
  BY <1>2 DEF Stored, Peek
<1>4. QED
  BY <1>1, <1>3

\* The bytes of region A are the first of those stored.
LEMMA AIsFront ==
  ASSUME Shape
  PROVE  /\ Stored \in Seq(Bytes) /\ Len(Stored) = GetStoredSize
         /\ GetStoredSize \in Nat /\ mARegionSize <= GetStoredSize
         /\ GetStoredSize <= mCapacity
         /\ \A i \in 1..mARegionSize : Stored[i] = mBuffer[mARegionPointer + i - 1]
<1>1. /\ GetStoredSize = mARegionSize + mBRegionSize /\ GetStoredSize \in Nat
      /\ GetStoredSize <= mCapacity
      /\ mARegionSize \in Nat /\ mBRegionSize \in Nat
  BY CapacityPositive DEF GetStoredSize, Shape, TypeOK, RegionsApart, BWasLarger, GetAFreeSpace
<1>2. \A i \in 1..GetStoredSize :
        /\ i <= mARegionSize => mARegionPointer + i - 1 \in Offsets
        /\ ~(i <= mARegionSize) => mBRegionPointer + i - mARegionSize - 1 \in Offsets
  BY <1>1, CapacityPositive DEF Shape, TypeOK, RegionsApart, Offsets, nullptr
<1>3. Stored = [i \in 1..GetStoredSize |->
                  IF i <= mARegionSize THEN mBuffer[mARegionPointer + i - 1]
                                       ELSE mBuffer[mBRegionPointer + i - mARegionSize - 1]]
  BY DEF Stored, Peek
<1>4. \A i \in 1..GetStoredSize : Stored[i] \in Bytes
  BY <1>2, <1>3 DEF Shape, TypeOK
<1>5. \A i \in 1..mARegionSize : i \in 1..GetStoredSize /\ i <= mARegionSize
  BY <1>1
<1>6. QED
  BY <1>1, <1>3, <1>4, <1>5

\* Opening B does not touch what is stored.
LEMMA OpenBEffect ==
  ASSUME Shape, OpenB
  PROVE  Shape' /\ Stored' = Stored
<1>1. mBRegionPointer' = mBRegionPointer \/ (mBRegionPointer = nullptr /\ mBRegionPointer' = 0)
  BY DEF OpenB, BAllocated
<1>2. Shape'
  BY CapacityPositive
  DEF Shape, OpenB, BAllocated, MoreBeforeA, GetAFreeSpace, GetSpaceBeforeA, TypeOK,
      RegionsApart, BWasLarger, nullptr
<1>3. GetStoredSize' = GetStoredSize
  BY DEF OpenB, GetStoredSize
<1>4. \A i \in 1..GetStoredSize : Peek(GetStoredSize)'[i] = Peek(GetStoredSize)[i]
  BY <1>1, <1>3 DEF Shape, RegionsApart, TypeOK, OpenB, GetStoredSize, Peek
<1>5. Stored' = Stored
  BY <1>3, <1>4 DEF Stored, Peek
<1>6. QED
  BY <1>2, <1>5

\* The three areas of the memory: where a write goes is free, and within the memory.
LEMMA FreeSpaceApart ==
  ASSUME Shape
  PROVE  /\ GetFreeSpaceSize \in Nat /\ GetBuffer \in Nat
         /\ GetBuffer + GetFreeSpaceSize <= mCapacity
         /\ BAllocated = nullptr => /\ mBRegionSize = 0 /\ mBRegionPointer = nullptr
                                    /\ GetBuffer = mARegionPointer + mARegionSize
         /\ BAllocated # nullptr => /\ BAllocated = 0 /\ mARegionSize > 0
                                    /\ GetBuffer = mBRegionSize
                                    /\ GetBuffer + GetFreeSpaceSize = mARegionPointer
                                    /\ GetAFreeSpace < mARegionPointer
  BY CapacityPositive
  DEF Shape, TypeOK, RegionsApart, BWasLarger, GetFreeSpaceSize, GetBuffer, BAllocated,
      MoreBeforeA, GetAFreeSpace, GetSpaceBeforeA, GetBFreeSpace, nullptr

\* Opening B does not change where the next bytes go, nor how many there may be.
LEMMA OpenBKeepsFree ==
  ASSUME Shape, OpenB
  PROVE  /\ BAllocated' = BAllocated /\ mBRegionPointer' = BAllocated
         /\ GetBuffer' = GetBuffer /\ GetFreeSpaceSize' = GetFreeSpaceSize
<1>1. /\ mBRegionPointer' = BAllocated
      /\ UNCHANGED <<mBuffer, mARegionPointer, mARegionSize, mBRegionSize>>
  BY DEF OpenB
<1>2. BAllocated' = BAllocated
  BY <1>1 DEF BAllocated, MoreBeforeA, GetAFreeSpace, GetSpaceBeforeA, nullptr
<1>3. QED
  BY <1>1, <1>2
  DEF GetBuffer, GetFreeSpaceSize, GetBFreeSpace, GetAFreeSpace

\* Unless free space is less than half of the memory everything fits.
LEMMA HalfUsable ==
  ASSUME Shape
  PROVE  RefusedOnlyWhenHalfFull
  BY FreeSpaceApart, CapacityPositive
  DEF Shape, TypeOK, RegionsApart, BWasLarger, RefusedOnlyWhenHalfFull, GetFreeSpaceSize,
      GetStoredSize, GetBuffer, BAllocated, MoreBeforeA, GetAFreeSpace, GetSpaceBeforeA,
      GetBFreeSpace, nullptr

\* A write that fits appends to what is stored; region A keeps its place and its bytes.
LEMMA WriteEffect ==
  ASSUME Shape, NEW chunk \in Seq(Bytes), Write(chunk)
  PROVE  /\ Shape'
         /\ Stored' = IF GetFreeSpaceSize < Len(chunk) THEN Stored ELSE Stored \o chunk
         /\ mARegionPointer' = mARegionPointer /\ mARegionSize' >= mARegionSize
         /\ \A i \in 0..mARegionSize - 1 :
              mBuffer'[mARegionPointer + i] = mBuffer[mARegionPointer + i]
<1>1. CASE GetFreeSpaceSize < Len(chunk)
  <2>1. OpenB
    BY <1>1 DEF Write
  <2>2. QED
    BY <1>1, <2>1, OpenBEffect DEF OpenB, Shape, TypeOK
<1>2. CASE ~(GetFreeSpaceSize < Len(chunk))
  <2> DEFINE n == Len(chunk)
             at == GetBuffer
  <2>1. /\ mBuffer' = Copied(chunk, at) /\ Commit(n)
        /\ n \in Nat /\ at \in Nat /\ n <= GetFreeSpaceSize /\ at + n <= mCapacity
    <3>1. mBuffer' = Copied(chunk, at) /\ Commit(n)
      BY <1>2, Zenon DEF Write
    <3>2. n \in Nat /\ at \in Nat /\ n <= GetFreeSpaceSize /\ at + n <= mCapacity
      BY <1>2, FreeSpaceApart, CapacityPositive
    <3>3. QED
      BY <3>1, <3>2
  <2>2. /\ mBuffer' \in [Offsets -> Bytes]
        /\ \A j \in 1..n : mBuffer'[at + j - 1] = chunk[j]
        /\ \A i \in Offsets : i < at \/ i >= at + n => mBuffer'[i] = mBuffer[i]
    <3>1. \A i \in Offsets : (IF i \in at..at + n - 1 THEN chunk[i - at + 1] ELSE mBuffer[i]) \in Bytes
      <4>1. \A j \in 1..n : chunk[j] \in Bytes
        OBVIOUS
      <4>2. \A i \in at..at + n - 1 : i - at + 1 \in 1..n
        BY <2>1
      <4>3. QED
        BY <4>1, <4>2 DEF Shape, TypeOK
    <3>2. \A j \in 1..n : at + j - 1 \in Offsets /\ at + j - 1 \in at..at + n - 1
                          /\ (at + j - 1) - at + 1 = j
      BY <2>1, CapacityPositive DEF Offsets
    <3>3. \A i \in Offsets : i < at \/ i >= at + n => i \notin at..at + n - 1
      BY <2>1 DEF Offsets
    <3>4. mBuffer' = [i \in Offsets |-> IF i \in at..at + n - 1 THEN chunk[i - at + 1]
                                                                ELSE mBuffer[i]]
      BY <2>1 DEF Copied
    <3> HIDE DEF at, n
    <3>5. QED
      BY <3>1, <3>2, <3>3, <3>4
  <2>3. CASE BAllocated = nullptr
    <3>1. /\ mARegionSize' = mARegionSize + n /\ mBRegionSize' = 0 /\ mBRegionSize = 0
          /\ mBRegionPointer' = nullptr /\ mBRegionPointer = nullptr
          /\ mARegionPointer' = mARegionPointer
          /\ at = mARegionPointer + mARegionSize
      BY <2>1, <2>3, FreeSpaceApart DEF Commit
    <3>2. Shape'
      BY <2>1, <2>2, <3>1, CapacityPositive DEF Shape, TypeOK, RegionsApart, BWasLarger
    <3>3. \A i \in 0..mARegionSize - 1 :
            mBuffer'[mARegionPointer + i] = mBuffer[mARegionPointer + i]
      BY <2>1, <2>2, <3>1, CapacityPositive DEF Shape, TypeOK, RegionsApart, Offsets
    <3>4. Stored' = Stored \o chunk
      <4>1. GetStoredSize = mARegionSize /\ GetStoredSize' = mARegionSize + n
        BY <3>1, <2>1 DEF GetStoredSize, Shape, TypeOK
      <4>2. Stored = [i \in 1..mARegionSize |-> mBuffer[mARegionPointer + i - 1]]
        BY <4>1 DEF Stored, Peek, Shape, TypeOK
      <4>3. Stored' = [i \in 1..mARegionSize + n |-> mBuffer'[mARegionPointer + i - 1]]
        BY <3>1, <4>1 DEF Stored, Peek, Shape, TypeOK
      <4> HIDE DEF n, at
      <4>4. \A i \in 1..mARegionSize + n : mBuffer'[mARegionPointer + i - 1] =
              IF i <= mARegionSize THEN mBuffer[mARegionPointer + i - 1]
                                   ELSE chunk[i - mARegionSize]
        <5>1. \A i \in 1..mARegionSize : i - 1 \in 0..mARegionSize - 1
                /\ mARegionPointer + (i - 1) = mARegionPointer + i - 1
          BY DEF Shape, TypeOK
        <5>2. \A i \in mARegionSize + 1..mARegionSize + n :
                i - mARegionSize \in 1..n /\ at + (i - mARegionSize) - 1 = mARegionPointer + i - 1
          BY <2>1, <3>1 DEF Shape, TypeOK
        <5>3. \A i \in 1..mARegionSize + n : i \in 1..mARegionSize
                \/ (i \in mARegionSize + 1..mARegionSize + n /\ ~(i <= mARegionSize))
          BY <2>1 DEF Shape, TypeOK
        <5>4. QED
          BY <2>2, <3>3, <5>1, <5>2, <5>3
      <4>5. Stored \in Seq(Bytes) /\ Len(Stored) = mARegionSize
        <5>1. \A i \in 1..mARegionSize : mBuffer[mARegionPointer + i - 1] \in Bytes
          BY CapacityPositive DEF Shape, TypeOK, RegionsApart, Offsets
        <5>2. mARegionSize \in Nat
          BY DEF Shape, TypeOK
        <5>3. QED
          BY <4>2, <5>1, <5>2
      <4>6. \A i \in 1..Len(Stored) + Len(chunk) :
              Stored'[i] = IF i <= Len(Stored) THEN Stored[i] ELSE chunk[i - Len(Stored)]
        <5>1. \A i \in 1..mARegionSize + n : i <= mARegionSize => i \in 1..mARegionSize
          BY DEF Shape, TypeOK
        <5>2. QED
          BY <4>2, <4>3, <4>4, <4>5, <5>1 DEF n
      <4>7. Stored' = [i \in 1..Len(Stored) + Len(chunk) |-> Stored'[i]]
        BY <4>3, <4>5 DEF n
      <4>8. QED
        BY <4>5, <4>6, <4>7, ConcatenationIs, Zenon
    <3>5. QED
      BY <1>2, <2>1, <3>1, <3>2, <3>3, <3>4 DEF Shape, TypeOK
  <2>4. CASE BAllocated # nullptr
    <3>1. /\ mARegionSize' = mARegionSize /\ mBRegionSize' = mBRegionSize + n
          /\ mBRegionPointer' = 0 /\ mARegionPointer' = mARegionPointer
          /\ mARegionSize > 0 /\ at = mBRegionSize /\ at + n <= mARegionPointer
          /\ GetAFreeSpace < mARegionPointer
      BY <2>1, <2>4, FreeSpaceApart DEF Commit
    <3>2. Shape'
      BY <2>1, <2>2, <3>1, CapacityPositive
      DEF Shape, TypeOK, RegionsApart, BWasLarger, GetAFreeSpace, nullptr
    <3>3. \A i \in 0..mARegionSize - 1 :
            mBuffer'[mARegionPointer + i] = mBuffer[mARegionPointer + i]
      BY <2>1, <2>2, <3>1, CapacityPositive DEF Shape, TypeOK, RegionsApart, Offsets
    <3>4. Stored' = Stored \o chunk
      <4> DEFINE m == mARegionSize + mBRegionSize
      <4>1. GetStoredSize = m /\ GetStoredSize' = m + n /\ m \in Nat
        BY <2>1, <3>1 DEF GetStoredSize, Shape, TypeOK
      <4>2. Stored = [i \in 1..m |-> IF i <= mARegionSize THEN mBuffer[mARegionPointer + i - 1]
                                     ELSE mBuffer[i - mARegionSize - 1]]
        <5>1. mBRegionPointer # 0 => m = mARegionSize
          BY DEF Shape, TypeOK, RegionsApart, nullptr
        <5>2. \A i \in 1..m : ~(i <= mARegionSize) => mBRegionPointer = 0
          BY <5>1 DEF Shape, TypeOK
        <5>3. \A i \in 1..m : Peek(m)[i] = IF i <= mARegionSize THEN mBuffer[mARegionPointer + i - 1]
                                           ELSE mBuffer[i - mARegionSize - 1]
          <6>1. TAKE i \in 1..m
          <6>2. i \in Int /\ mARegionSize \in Int
            BY <4>1 DEF Shape, TypeOK
          <6>3. CASE i <= mARegionSize
            BY <6>3 DEF Peek
          <6>4. CASE ~(i <= mARegionSize)
            <7>1. mBRegionPointer + i - mARegionSize - 1 = i - mARegionSize - 1
              BY <5>2, <6>2, <6>4
            <7>2. QED
              BY <6>4, <7>1 DEF Peek
          <6>5. QED
            BY <6>3, <6>4
        <5> HIDE DEF m
        <5>4. QED
          BY <4>1, <5>3 DEF Stored, Peek
      <4>3. Stored' = [i \in 1..m + n |-> IF i <= mARegionSize THEN mBuffer'[mARegionPointer + i - 1]
                                          ELSE mBuffer'[i - mARegionSize - 1]]
        <5>1. \A i \in 1..m + n : 0 + i - mARegionSize - 1 = i - mARegionSize - 1
          BY <4>1 DEF Shape, TypeOK
        <5> HIDE DEF m
        <5>2. QED
          BY <3>1, <4>1, <5>1 DEF Stored, Peek
      <4>4. \A i \in 1..m : (IF i <= mARegionSize THEN mBuffer'[mARegionPointer + i - 1]
                                                  ELSE mBuffer'[i - mARegionSize - 1]) = Stored[i]
        <5>1. \A i \in 1..mARegionSize :
                mBuffer'[mARegionPointer + i - 1] = mBuffer[mARegionPointer + i - 1]
          <6>1. \A i \in 1..mARegionSize : i - 1 \in 0..mARegionSize - 1
                  /\ mARegionPointer + (i - 1) = mARegionPointer + i - 1
            BY DEF Shape, TypeOK
          <6>2. QED
            BY <3>3, <6>1
        <5>2. \A i \in mARegionSize + 1..m :
                mBuffer'[i - mARegionSize - 1] = mBuffer[i - mARegionSize - 1]
          <6>1. \A i \in mARegionSize + 1..m : i - mARegionSize - 1 \in Offsets
                                               /\ i - mARegionSize - 1 < at
            BY <2>1, <3>1, CapacityPositive DEF Shape, TypeOK, RegionsApart, Offsets
          <6>2. QED
            BY <2>2, <6>1
        <5>3. \A i \in 1..m : i <= mARegionSize => i \in 1..mARegionSize
          BY <4>1 DEF Shape, TypeOK
        <5>4. \A i \in 1..m : ~(i <= mARegionSize) => i \in mARegionSize + 1..m
          BY <4>1 DEF Shape, TypeOK
        <5> HIDE DEF m
        <5>5. QED
          BY <4>2, <5>1, <5>2, <5>3, <5>4
      <4>5. \A i \in m + 1..m + n : ~(i <= mARegionSize)
                                    /\ mBuffer'[i - mARegionSize - 1] = chunk[i - m]
        <5>1. \A i \in m + 1..m + n :
                ~(i <= mARegionSize) /\ i - m \in 1..n /\ at + (i - m) - 1 = i - mARegionSize - 1
          BY <2>1, <3>1 DEF Shape, TypeOK
        <5> HIDE DEF m, n, at
        <5>2. QED
          BY <2>2, <5>1
      <4>6. Stored \in Seq(Bytes) /\ Len(Stored) = m
        <5>1. \A i \in 1..m : Stored[i] \in Bytes
          <6>1. \A i \in 1..m : (i <= mARegionSize => mARegionPointer + i - 1 \in Offsets)
                              /\ (~(i <= mARegionSize) => i - mARegionSize - 1 \in Offsets)
            BY <4>1, CapacityPositive, <3>1 DEF Shape, TypeOK, RegionsApart, Offsets
          <6> HIDE DEF m
          <6>2. QED
            BY <4>2, <6>1 DEF Shape, TypeOK
        <5> HIDE DEF m
        <5>2. QED
          BY <4>1, <4>2, <5>1
      <4> HIDE DEF m
      <4>7. \A i \in 1..m + n : Stored'[i] = IF i <= m THEN Stored[i] ELSE chunk[i - m]
        <5>1. \A i \in 1..m + n : i \in 1..m \/ (i \in m + 1..m + n /\ ~(i <= m))
          BY <2>1, <4>1
        <5>2. \A i \in 1..m : i <= m
          BY <4>1
        <5>3. QED
          BY <4>3, <4>4, <4>5, <5>1, <5>2
      <4>8. Stored' = [i \in 1..Len(Stored) + Len(chunk) |-> Stored'[i]]
        BY <4>3, <4>6 DEF n
      <4>9. \A i \in 1..Len(Stored) + Len(chunk) :
              Stored'[i] = IF i <= Len(Stored) THEN Stored[i] ELSE chunk[i - Len(Stored)]
        BY <4>6, <4>7 DEF n
      <4>10. QED
        BY <4>6, <4>8, <4>9, ConcatenationIs, Zenon
    <3>5. QED
      BY <1>2, <3>1, <3>2, <3>3, <3>4 DEF Shape, TypeOK
  <2>5. QED
    BY <1>2, <2>3, <2>4
<1>3. QED
  BY <1>1, <1>2

\* Removing what there is takes it from the front.
LEMMA RemoveEffect ==
  ASSUME Shape, NEW n \in 0..GetStoredSize, Remove(n)
  PROVE  Shape' /\ Stored' = SubSeq(Stored, n + 1, Len(Stored))
<1> DEFINE m == GetStoredSize
           q == Stored
<1>1. /\ m = mARegionSize + mBRegionSize /\ m \in Nat /\ n \in 0..m
      /\ mARegionSize \in Nat /\ mBRegionSize \in Nat /\ mARegionPointer \in Nat
  BY DEF GetStoredSize, Shape, TypeOK
<1>2. /\ q = [i \in 1..m |-> q[i]] /\ q \in Seq(Bytes) /\ Len(q) = m
      /\ \A i \in 1..m : q[i] = IF i <= mARegionSize THEN mBuffer[mARegionPointer + i - 1]
                                 ELSE mBuffer[mBRegionPointer + i - mARegionSize - 1]
  <2>1. q = [i \in 1..m |-> IF i <= mARegionSize THEN mBuffer[mARegionPointer + i - 1]
                             ELSE mBuffer[mBRegionPointer + i - mARegionSize - 1]]
    BY DEF Stored, Peek
  <2>2. \A i \in 1..m :
          /\ i <= mARegionSize => mARegionPointer + i - 1 \in Offsets
          /\ ~(i <= mARegionSize) => mBRegionPointer + i - mARegionSize - 1 \in Offsets
    BY <1>1, CapacityPositive DEF Shape, TypeOK, RegionsApart, Offsets, nullptr
  <2> HIDE DEF q, m
  <2>3. \A i \in 1..m : q[i] \in Bytes
    BY <2>1, <2>2 DEF Shape, TypeOK
  <2>4. QED
    BY <1>1, <2>1, <2>3
<1>3. CASE n < mARegionSize
  <2>1. /\ mARegionSize' = mARegionSize - n /\ mARegionPointer' = mARegionPointer + n
        /\ mBuffer' = mBuffer /\ mBRegionPointer' = mBRegionPointer
        /\ mBRegionSize' = mBRegionSize
    BY <1>1, <1>3 DEF Remove
  <2>2. Shape'
    BY <1>1, <1>3, <2>1, CapacityPositive
    DEF Shape, TypeOK, RegionsApart, BWasLarger, GetAFreeSpace, nullptr
  <2>3. GetStoredSize' = m - n
    BY <1>1, <2>1 DEF GetStoredSize
  <2>4. Stored' = [i \in 1..m - n |-> IF i <= mARegionSize - n
                                     THEN mBuffer[mARegionPointer + n + i - 1]
                                     ELSE mBuffer[mBRegionPointer + i - (mARegionSize - n) - 1]]
    BY <2>1, <2>3 DEF Stored, Peek
  <2>5. \A i \in 1..m - n : (IF i <= mARegionSize - n
                              THEN mBuffer[mARegionPointer + n + i - 1]
                              ELSE mBuffer[mBRegionPointer + i - (mARegionSize - n) - 1]) = q[n + i]
    <3>1. \A i \in 1..m - n :
            /\ n + i \in 1..m /\ (n + i <= mARegionSize <=> i <= mARegionSize - n)
            /\ mARegionPointer + n + i - 1 = mARegionPointer + (n + i) - 1
            /\ mBRegionPointer + i - (mARegionSize - n) - 1
                 = mBRegionPointer + (n + i) - mARegionSize - 1
      BY <1>1, <1>3 DEF Shape, TypeOK, nullptr
    <3> HIDE DEF m, q
    <3>2. QED
      BY <1>2, <3>1
  <2> HIDE DEF q, m
  <2>6. Stored' = [i \in 1..m - n |-> q[n + i]]
    BY <2>4, <2>5
  <2>7. Stored' = SubSeq(q, n + 1, m)
    BY <1>1, <1>2, <2>6, DroppedIs
  <2>8. QED
    BY <1>2, <2>2, <2>7 DEF q
<1>4. CASE n >= mARegionSize
  <2> DEFINE left == m - n
             fromB == n - mARegionSize
  <2>1. /\ mARegionSize' = left /\ mARegionPointer' = 0
        /\ mBRegionPointer' = nullptr /\ mBRegionSize' = 0
        /\ left = mBRegionSize - fromB /\ left \in Nat /\ fromB \in Nat
        /\ mBuffer' = IF left > 0
                      THEN [i \in Offsets |->
                              IF i < left THEN mBuffer[mBRegionPointer + fromB + i] ELSE mBuffer[i]]
                      ELSE mBuffer
    <3>1. (IF n > mARegionSize THEN mARegionSize ELSE n) = mARegionSize
      BY <1>1, <1>4
    <3>2. (IF n - mARegionSize > mBRegionSize THEN mBRegionSize ELSE n - mARegionSize) = fromB
      BY <1>1, <1>4
    <3>3. mBRegionSize - fromB = left /\ ~(mARegionSize - mARegionSize > 0)
          /\ left \in Nat /\ fromB \in Nat
      BY <1>1, <1>4
    <3> HIDE DEF m, left, fromB
    <3>4. QED
      BY <3>1, <3>2, <3>3 DEF Remove
  <2>2. left > 0 => mBRegionPointer = 0 /\ fromB + left <= mCapacity
    BY <1>1, <2>1, CapacityPositive DEF Shape, TypeOK, RegionsApart, nullptr
  <2>3. mBuffer' \in [Offsets -> Bytes]
    <3>1. \A i \in Offsets : left > 0 /\ i < left => mBRegionPointer + fromB + i \in Offsets
      BY <2>1, <2>2, CapacityPositive DEF Offsets
    <3>2. mBuffer \in [Offsets -> Bytes]
      BY DEF Shape, TypeOK
    <3> HIDE DEF left, fromB
    <3>3. CASE left > 0
      <4>1. mBuffer' = [i \in Offsets |->
                          IF i < left THEN mBuffer[mBRegionPointer + fromB + i] ELSE mBuffer[i]]
        BY <2>1, <3>3
      <4>2. QED
        BY <3>1, <3>2, <3>3, <4>1
    <3>4. QED
      BY <2>1, <3>2, <3>3
  <2>4. Shape'
    BY <1>1, <1>4, <2>1, <2>2, <2>3, CapacityPositive
    DEF Shape, TypeOK, RegionsApart, BWasLarger, nullptr
  <2>5. GetStoredSize' = left
    BY <2>1 DEF GetStoredSize
  <2>6. Stored' = [i \in 1..left |-> mBuffer'[i - 1]]
    <3>1. \A i \in 1..left : i <= left /\ 0 + i - 1 = i - 1
      BY <2>1
    <3> HIDE DEF left
    <3>2. QED
      BY <2>1, <2>5, <3>1 DEF Stored, Peek
  <2>7. \A i \in 1..left : mBuffer'[i - 1] = q[n + i]
    <3>1. \A i \in 1..left :
            /\ left > 0 /\ i - 1 \in Offsets /\ i - 1 < left
            /\ n + i \in 1..m /\ ~(n + i <= mARegionSize)
            /\ mBRegionPointer + (n + i) - mARegionSize - 1 = mBRegionPointer + fromB + (i - 1)
      <4>1. SUFFICES ASSUME NEW i \in 1..left
                     PROVE  /\ left > 0 /\ i - 1 \in Offsets /\ i - 1 < left
                            /\ n + i \in 1..m /\ ~(n + i <= mARegionSize)
                            /\ mBRegionPointer + (n + i) - mARegionSize - 1
                                 = mBRegionPointer + fromB + (i - 1)
        OBVIOUS
      <4>2. /\ left \in Nat /\ fromB \in Nat /\ left > 0 /\ mBRegionPointer = 0
            /\ fromB + left <= mCapacity /\ m = n + left /\ n = mARegionSize + fromB
        BY <1>1, <1>4, <2>1, <2>2
      <4> HIDE DEF m, left, fromB
      <4>3. QED
        BY <1>1, <4>2, CapacityPositive DEF Offsets
    <3> HIDE DEF m, q, left, fromB
    <3>2. TAKE i \in 1..left
    <3>3. mBuffer'[i - 1] = mBuffer[mBRegionPointer + fromB + (i - 1)]
      BY <2>1, <3>1
    <3>4. q[n + i] = mBuffer[mBRegionPointer + (n + i) - mARegionSize - 1]
      BY <1>2, <3>1
    <3>5. QED
      BY <3>1, <3>3, <3>4
  <2> HIDE DEF q, left
  <2>8. Stored' = [i \in 1..left |-> q[n + i]]
    BY <2>6, <2>7
  <2> HIDE DEF m
  <2>9. Stored' = SubSeq(q, n + 1, m)
    BY <1>1, <1>2, <2>8, DroppedIs DEF left
  <2>10. QED
    BY <1>2, <2>4, <2>9 DEF q
<1>5. QED
  BY <1>1, <1>3, <1>4

\* Removing more than there is leaves nothing.
LEMMA RemoveTooMuch ==
  ASSUME Shape, NEW n \in Nat, n > GetStoredSize, Remove(n)
  PROVE  Shape' /\ Stored' = <<>>
<1>1. /\ GetStoredSize = mARegionSize + mBRegionSize /\ GetStoredSize \in 0..GetStoredSize
      /\ mARegionSize \in Nat /\ mBRegionSize \in Nat
  BY DEF GetStoredSize, Shape, TypeOK
<1>2. Remove(GetStoredSize)
  BY <1>1 DEF Remove
<1>3. Stored \in Seq(Bytes) /\ Len(Stored) = GetStoredSize
  BY AIsFront
<1>4. Shape' /\ Stored' = SubSeq(Stored, GetStoredSize + 1, Len(Stored))
  BY <1>1, <1>2, RemoveEffect
<1>5. SubSeq(Stored, GetStoredSize + 1, Len(Stored)) = <<>>
  BY <1>1, <1>3
<1>6. QED
  BY <1>4, <1>5

(***************************************************************************)
(* The send buffer.                                                        *)
(***************************************************************************)
LentFromA ==
  /\ mSendPendingCount \in Nat
  /\ mWsaBuf = NoSend \/ mSendPendingCount > 0
  /\ mWsaBuf.bytes \in Seq(Bytes)
  /\ mWsaBuf = NoSend \/ (mWsaBuf.buf = mARegionPointer /\ Len(mWsaBuf.bytes) > 0)
  /\ Len(mWsaBuf.bytes) <= mARegionSize
  /\ \A i \in 1..Len(mWsaBuf.bytes) :
       mBuffer[mARegionPointer + i - 1] = mWsaBuf.bytes[i]

SendInv == Shape /\ LentFromA

LEMMA ChunkIsSeq ==
  ASSUME NEW chunk \in Chunks
  PROVE  chunk \in Seq(Bytes)
  BY CapacityPositive DEF Chunks

\* What an operation that leaves the front of region A alone does to a send.
LEMMA LentKept ==
  ASSUME SendInv, UNCHANGED <<mSendPendingCount, mWsaBuf>>, mARegionPointer' = mARegionPointer,
         mARegionSize' \in Nat, mARegionSize' >= mARegionSize,
         \A i \in 0..mARegionSize - 1 : mBuffer'[mARegionPointer + i] = mBuffer[mARegionPointer + i]
  PROVE  LentFromA'
<1>1. \A i \in 1..Len(mWsaBuf.bytes) :
        i - 1 \in 0..mARegionSize - 1 /\ mARegionPointer + (i - 1) = mARegionPointer + i - 1
  BY DEF SendInv, LentFromA, Shape, TypeOK
<1>2. mARegionSize \in Nat /\ Len(mWsaBuf.bytes) \in Nat
  BY DEF SendInv, LentFromA, Shape, TypeOK
<1>3. QED
  BY <1>1, <1>2 DEF SendInv, LentFromA

\* FlushSend lends region A, which is not empty when anything is stored.
LEMMA FlushEffect ==
  ASSUME SendInv, FlushSend
  PROVE  /\ SendInv' /\ Stored' = Stored /\ mWsaBuf.bytes = <<>>
         /\ mARegionSize > 0 /\ mARegionSize <= Len(Stored)
         /\ mWsaBuf'.bytes = SubSeq(Stored, 1, mARegionSize)
<1>1. UNCHANGED bufferVars /\ mWsaBuf = NoSend
  BY DEF FlushSend, SendInv, LentFromA
<1>2. mARegionSize > 0 /\ mARegionSize \in Nat
  BY DEF FlushSend, GetContiguiousBytes, SendInv, Shape, TypeOK, RegionsApart
<1>3. mWsaBuf' = [buf   |-> mARegionPointer,
                  bytes |-> [i \in 1..mARegionSize |-> mBuffer[mARegionPointer + i - 1]]]
  BY <1>2 DEF FlushSend, GetContiguiousBytes, GetBufferStart
<1>4. Shape' /\ Stored' = Stored
  BY <1>1 DEF SendInv, Shape, TypeOK, RegionsApart, BWasLarger, GetAFreeSpace, bufferVars, regions,
              Stored, Peek, GetStoredSize
<1>5. /\ Stored \in Seq(Bytes) /\ mARegionSize <= Len(Stored)
      /\ \A i \in 1..mARegionSize : Stored[i] = mBuffer[mARegionPointer + i - 1]
  BY AIsFront DEF SendInv
<1> DEFINE lent == [i \in 1..mARegionSize |-> mBuffer[mARegionPointer + i - 1]]
<1>6. lent \in Seq(Bytes) /\ Len(lent) = mARegionSize
  <2>1. \A i \in 1..mARegionSize : Stored[i] \in Bytes
    BY <1>2, <1>5
  <2>2. \A i \in 1..mARegionSize : mBuffer[mARegionPointer + i - 1] \in Bytes
    BY <1>5, <2>1
  <2>3. lent \in [1..mARegionSize -> Bytes]
    BY <2>2
  <2> HIDE DEF lent
  <2>4. QED
    BY <1>2, <2>3
<1>7. LentFromA'
  <2>1. mWsaBuf'.buf = mARegionPointer /\ mWsaBuf'.bytes = lent
    BY <1>3
  <2>2. /\ mARegionPointer' = mARegionPointer /\ mARegionSize' = mARegionSize
        /\ mBuffer' = mBuffer
    BY <1>1 DEF bufferVars, regions
  <2>3. \A i \in 1..mARegionSize : lent[i] = mBuffer[mARegionPointer + i - 1]
    OBVIOUS
  <2>5. mSendPendingCount' \in Nat /\ mSendPendingCount' > 0
    BY DEF FlushSend, SendInv, LentFromA
  <2> HIDE DEF lent
  <2>4. QED
    BY <1>2, <1>6, <2>1, <2>2, <2>3, <2>5 DEF LentFromA
<1>8. lent = SubSeq(Stored, 1, mARegionSize)
  <2> DEFINE front == SubSeq(Stored, 1, mARegionSize)
  <2>1. /\ front \in Seq(Bytes) /\ Len(front) = mARegionSize
        /\ \A i \in 1..mARegionSize : front[i] = Stored[i]
    BY <1>2, <1>5
  <2> HIDE DEF front
  <2>2. front = [i \in 1..mARegionSize |-> front[i]]
    BY <2>1
  <2>3. front = lent
    BY <1>5, <2>1, <2>2
  <2>4. QED
    BY <2>3 DEF front
<1>9. QED
  BY <1>1, <1>2, <1>3, <1>4, <1>5, <1>7, <1>8 DEF SendInv, NoSend

\* A completed send takes n bytes of region A away.
LEMMA CompletionEffect ==
  ASSUME SendInv, NEW n, SendCompletion(n)
  PROVE  /\ SendInv' /\ mWsaBuf'.bytes = <<>> /\ n \in 1..Len(mWsaBuf.bytes)
         /\ Stored' = SubSeq(Stored, n + 1, Len(Stored))
<1>1. /\ n \in 1..Len(mWsaBuf.bytes) /\ Remove(n) /\ mWsaBuf' = NoSend
      /\ mSendPendingCount' = mSendPendingCount - 1
  BY Zenon DEF SendCompletion
<1>2. n \in 0..GetStoredSize
  BY <1>1, AIsFront DEF SendInv, LentFromA, Shape, TypeOK
<1>3. Shape' /\ Stored' = SubSeq(Stored, n + 1, Len(Stored))
  BY <1>1, <1>2, RemoveEffect DEF SendInv
<1>4. LentFromA'
  BY <1>1, <1>3 DEF SendInv, LentFromA, NoSend, Shape, TypeOK
<1>5. QED
  BY <1>1, <1>3, <1>4 DEF SendInv, NoSend

\* Any other end of a send leaves the buffer as it is.
LEMMA FailureEffect ==
  ASSUME SendInv, SendFailed
  PROVE  SendInv' /\ Stored' = Stored /\ mWsaBuf'.bytes = <<>>
<1>1. UNCHANGED <<bufferVars, mSendPendingCount>> /\ mWsaBuf' = NoSend
  BY DEF SendFailed
<1>2. Shape' /\ Stored' = Stored
  BY <1>1 DEF SendInv, Shape, TypeOK, RegionsApart, BWasLarger, GetAFreeSpace, bufferVars, regions,
              Stored, Peek, GetStoredSize
<1>3. LentFromA'
  BY <1>1, <1>2 DEF SendInv, LentFromA, NoSend, Shape, TypeOK
<1>4. QED
  BY <1>1, <1>2, <1>3 DEF SendInv, NoSend

LEMMA ResetEffect ==
  ASSUME SendInv, SendBufferReset
  PROVE  SendInv' /\ Stored' = <<>> /\ mWsaBuf.bytes = <<>> /\ mWsaBuf' = mWsaBuf
<1>1. /\ BufferReset /\ mWsaBuf = NoSend
      /\ mWsaBuf' = mWsaBuf /\ mSendPendingCount' = mSendPendingCount
  BY DEF SendBufferReset
<1>2. Shape' /\ Stored' = <<>>
  BY <1>1, ShapeReset
<1>3. LentFromA'
  BY <1>1, <1>2 DEF SendInv, LentFromA, NoSend, Shape, TypeOK
<1>4. QED
  BY <1>1, <1>2, <1>3 DEF SendInv, NoSend

LEMMA RequestEffect ==
  ASSUME SendInv, NEW message \in Chunks, SendRequest(message)
  PROVE  SendInv' /\ Stored' \in {Stored, Stored \o message} /\ mWsaBuf' = mWsaBuf
<1>1. Write(message) /\ UNCHANGED <<mSendPendingCount, mWsaBuf>>
  BY DEF SendRequest
<1>2. /\ Shape'
      /\ Stored' = IF GetFreeSpaceSize < Len(message) THEN Stored ELSE Stored \o message
      /\ mARegionPointer' = mARegionPointer /\ mARegionSize' >= mARegionSize
      /\ \A i \in 0..mARegionSize - 1 :
           mBuffer'[mARegionPointer + i] = mBuffer[mARegionPointer + i]
  BY <1>1, ChunkIsSeq, WriteEffect DEF SendInv
<1>3. LentFromA'
  BY <1>1, <1>2, LentKept DEF Shape, TypeOK
<1>4. QED
  BY <1>1, <1>2, <1>3 DEF SendInv

LEMMA SendInvInit ==
  ASSUME SendInit
  PROVE  SendInv /\ Stored = <<>> /\ mWsaBuf.bytes = <<>>
<1>1. Shape /\ Stored = <<>>
  BY ShapeInit DEF SendInit
<1>2. mWsaBuf = NoSend /\ mSendPendingCount = 0
  BY DEF SendInit
<1>3. LentFromA
  BY <1>1, <1>2 DEF SendInv, LentFromA, NoSend, Shape, TypeOK
<1>4. QED
  BY <1>1, <1>2, <1>3 DEF SendInv, NoSend

LEMMA SendInvStep ==
  ASSUME SendInv, [SendNext]_sendVars
  PROVE  SendInv'
<1>1. ASSUME NEW message \in Chunks, SendRequest(message)
      PROVE  SendInv'
  BY <1>1, RequestEffect
<1>2. CASE FlushSend
  BY <1>2, FlushEffect
<1>3. ASSUME NEW n \in 1..mCapacity, SendCompletion(n)
      PROVE  SendInv'
  BY <1>3, CompletionEffect
<1>4. CASE SendFailed
  BY <1>4, FailureEffect
<1>5. CASE SendBufferReset
  BY <1>5, ResetEffect
<1>6. CASE UNCHANGED sendVars
  BY <1>6 DEF SendInv, LentFromA, Shape, TypeOK, RegionsApart, BWasLarger, GetAFreeSpace, sendVars,
              bufferVars, regions
<1>7. QED
  BY <1>1, <1>2, <1>3, <1>4, <1>5, <1>6 DEF SendNext

LEMMA SendInvAlways == SendSpec => []SendInv
  BY SendInvInit, SendInvStep, PTL DEF SendSpec

\* The memory, the region pointers and sizes keep their types: the code never writes
\* outside mBuffer, whatever its capacity and the messages.
THEOREM BufferTypeCorrect == SendSpec => []TypeOK
<1>1. SendInv => TypeOK
  BY DEF SendInv, Shape
<1>2. QED
  BY <1>1, SendInvAlways, PTL

\* The two regions stay apart and within the memory.
THEOREM RegionsStayApart == SendSpec => []RegionsApart
<1>1. SendInv => RegionsApart
  BY DEF SendInv, Shape
<1>2. QED
  BY <1>1, SendInvAlways, PTL

\* Half of the memory can always be used, however the regions lie.
THEOREM HalfAlwaysUsable == SendSpec => []RefusedOnlyWhenHalfFull
<1>1. SendInv => RefusedOnlyWhenHalfFull
  BY HalfUsable DEF SendInv
<1>2. QED
  BY <1>1, SendInvAlways, PTL

\* The kernel sends what was there when WSASend was called: no later SendRequest disturbs it.
THEOREM SendIntact == SendSpec => []SendRegionIntact
<1>1. SendInv => SendRegionIntact
  <2>1. SUFFICES ASSUME SendInv, NEW i \in 1..Len(mWsaBuf.bytes)
                 PROVE  /\ mBuffer[mWsaBuf.buf + i - 1] = mWsaBuf.bytes[i]
                        /\ i <= GetStoredSize /\ Stored[i] = mWsaBuf.bytes[i]
    BY DEF SendInv, LentFromA, SendRegionIntact
  <2>2. /\ mWsaBuf.buf = mARegionPointer
        /\ i \in 1..mARegionSize /\ mBuffer[mARegionPointer + i - 1] = mWsaBuf.bytes[i]
    BY <2>1 DEF SendInv, LentFromA, NoSend, Shape, TypeOK
  <2>3. i <= GetStoredSize /\ Stored[i] = mBuffer[mARegionPointer + i - 1]
    BY <2>1, <2>2, AIsFront DEF SendInv, Shape, TypeOK
  <2>4. QED
    BY <2>2, <2>3
<1>2. QED
  BY <1>1, SendInvAlways, PTL

\* Exactly the transferred bytes leave the buffer.
THEOREM CompletionExact == SendSpec => SentExactly
<1>1. SendInv /\ [SendNext]_sendVars =>
        [\A n \in 1..mCapacity :
           SendCompletion(n) => Stored' = SubSeq(Stored, n + 1, Len(Stored))]_sendVars
  BY CompletionEffect
<1>2. QED
  BY <1>1, SendInvAlways, PTL DEF SendSpec, SentExactly

\* The buffer implements a queue of bytes: its steps are those of ByteQueue.
THEOREM RefinesByteQueue == SendSpec => ImplementsByteQueue
<1>1. SendInit => Queue!Init
  BY SendInvInit DEF Queue!Init
<1>2. SendInv /\ [SendNext]_sendVars => [Queue!Next]_<<Stored, mWsaBuf.bytes>>
  <2> SUFFICES ASSUME SendInv, [SendNext]_sendVars
               PROVE  Queue!Next \/ UNCHANGED <<Stored, mWsaBuf.bytes>>
    BY Zenon
  <2>s. /\ Stored \in Seq(Bytes) /\ Len(Stored) \in Nat /\ SubSeq(Stored, 1, Len(Stored)) = Stored
        /\ Len(mWsaBuf.bytes) \in Nat
    BY AIsFront DEF SendInv, LentFromA
  <2>1. ASSUME NEW message \in Chunks, SendRequest(message)
        PROVE  Queue!Next \/ UNCHANGED <<Stored, mWsaBuf.bytes>>
    <3>1. Stored' \in {Stored, Stored \o message} /\ mWsaBuf' = mWsaBuf
      BY <2>1, RequestEffect
    <3>2. CASE Stored' = Stored \o message
      <4>1. message \in Seq(Bytes)
        BY ChunkIsSeq
      <4>2. /\ Stored \o message \in Seq(Bytes) /\ Len(Stored) <= Len(Stored \o message)
            /\ Stored = SubSeq(Stored \o message, 1, Len(Stored))
        BY <2>s, <4>1
      <4>3. Queue!Put
        BY <3>1, <3>2, <4>2 DEF Queue!Put
      <4>4. QED
        BY <4>3 DEF Queue!Next
    <3>3. QED
      BY <3>1, <3>2
  <2>2. CASE FlushSend
    <3>1. Queue!Lend
      BY <2>2, <2>s, FlushEffect DEF Queue!Lend, SendInv, Shape, TypeOK
    <3>2. QED
      BY <3>1 DEF Queue!Next
  <2>3. ASSUME NEW n \in 1..mCapacity, SendCompletion(n)
        PROVE  Queue!Next
    <3>1. /\ n \in 1..Len(mWsaBuf.bytes) /\ mWsaBuf'.bytes = <<>>
          /\ Stored' = SubSeq(Stored, n + 1, Len(Stored))
      BY <2>3, CompletionEffect
    <3>2. n \in 0..Len(mWsaBuf.bytes)
      BY <2>s, <3>1
    <3>3. Queue!TakeBack
      BY <3>1, <3>2 DEF Queue!TakeBack
    <3>4. QED
      BY <3>3 DEF Queue!Next
  <2>4. CASE SendFailed
    <3>1. Stored' = SubSeq(Stored, 0 + 1, Len(Stored)) /\ mWsaBuf'.bytes = <<>>
          /\ 0 \in 0..Len(mWsaBuf.bytes)
      BY <2>4, <2>s, FailureEffect
    <3>2. Queue!TakeBack
      BY <3>1 DEF Queue!TakeBack
    <3>3. QED
      BY <3>2 DEF Queue!Next
  <2>5. CASE SendBufferReset
    <3>1. Queue!Clear
      BY <2>5, ResetEffect DEF Queue!Clear
    <3>2. QED
      BY <3>1 DEF Queue!Next
  <2>6. CASE UNCHANGED sendVars
    BY <2>6 DEF sendVars, bufferVars, regions, Stored, Peek, GetStoredSize
  <2>7. QED
    BY <2>1, <2>2, <2>3, <2>4, <2>5, <2>6 DEF SendNext
<1>3. QED
  BY <1>1, <1>2, SendInvAlways, PTL DEF SendSpec, ImplementsByteQueue, Queue!Spec
=============================================================================
