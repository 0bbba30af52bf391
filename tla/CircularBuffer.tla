--------------------------- MODULE CircularBuffer ---------------------------
(***************************************************************************)
(* CircularBuffer: the bytes stored are those of region A followed by      *)
(* those of region B.  B is opened at the start of the memory when more is *)
(* free before A than behind it, and becomes A when A is used up.          *)
(* Pointers are offsets from mBuffer.                                      *)
(***************************************************************************)
EXTENDS Integers, Sequences

CONSTANTS
  mCapacity,
  Bytes,
  MaxChunk    \* bound on the bytes written at once

ASSUME CapacityPositive == mCapacity \in Nat \ {0} /\ MaxChunk \in Nat
ASSUME ZeroIsByte == 0 \in Bytes

nullptr == -1
Offsets == 0..mCapacity - 1
Chunks  == UNION {[1..n -> Bytes] : n \in 1..MaxChunk}

VARIABLES mBuffer, mARegionPointer, mARegionSize, mBRegionPointer, mBRegionSize

regions == <<mARegionPointer, mARegionSize, mBRegionPointer, mBRegionSize>>
bufferVars == <<mBuffer, regions>>

TypeOK ==
  /\ mBuffer \in [Offsets -> Bytes]
  /\ mARegionPointer \in 0..mCapacity
  /\ mARegionSize \in 0..mCapacity
  /\ mBRegionPointer \in {nullptr, 0}
  /\ mBRegionSize \in 0..mCapacity

Empty ==
  /\ mARegionPointer = 0
  /\ mARegionSize = 0
  /\ mBRegionPointer = nullptr
  /\ mBRegionSize = 0

\* The constructor; the memory holds whatever new char[] found.
Init == mBuffer \in [Offsets -> Bytes] /\ Empty

GetStoredSize == mARegionSize + mBRegionSize

GetContiguiousBytes == IF mARegionSize > 0 THEN mARegionSize ELSE mBRegionSize

GetBufferStart == IF mARegionSize > 0 THEN mARegionPointer ELSE mBRegionPointer

\* Mutant of GetAFreeSpace: the size of A is forgotten.
AFreeBehindStart == mCapacity - mARegionPointer

GetAFreeSpace == mCapacity - mARegionPointer - mARegionSize

GetSpaceBeforeA == mARegionPointer

\* Mutant of GetBFreeSpace: B may grow to the end of A.
BFreeToEndOfA(b) == mARegionPointer + mARegionSize - b - mBRegionSize

GetBFreeSpace(b) == mARegionPointer - b - mBRegionSize

\* Mutant of MoreBeforeA: B is never opened.
NeverMoreBeforeA == FALSE

\* More is free before A than behind it.
MoreBeforeA == GetAFreeSpace < GetSpaceBeforeA

\* mBRegionPointer once GetFreeSpaceSize, or Write, has allocated B if it has to.
BAllocated == IF mBRegionPointer = nullptr /\ MoreBeforeA THEN 0 ELSE mBRegionPointer

\* What GetFreeSpaceSize returns, and GetBuffer after it.
GetFreeSpaceSize ==
  IF BAllocated # nullptr THEN GetBFreeSpace(BAllocated) ELSE GetAFreeSpace
GetBuffer ==
  IF BAllocated # nullptr THEN BAllocated + mBRegionSize ELSE mARegionPointer + mARegionSize

\* The bytes copied by Peek, from A first, when that many are stored.
Peek(n) ==
  [i \in 1..n |-> IF i <= mARegionSize THEN mBuffer[mARegionPointer + i - 1]
                                       ELSE mBuffer[mBRegionPointer + i - mARegionSize - 1]]

\* memcpy of a chunk to offset at.
Copied(chunk, at) ==
  [i \in Offsets |-> IF i \in at..at + Len(chunk) - 1 THEN chunk[i - at + 1] ELSE mBuffer[i]]

\* Commit(n) in the region that is being written.
Commit(n) ==
  /\ mBRegionPointer' = BAllocated
  /\ IF BAllocated # nullptr
     THEN mBRegionSize' = mBRegionSize + n /\ UNCHANGED mARegionSize
     ELSE mARegionSize' = mARegionSize + n /\ UNCHANGED mBRegionSize
  /\ UNCHANGED mARegionPointer

\* GetFreeSpaceSize on its own, or before a write that does not fit: B may have been opened.
OpenB ==
  /\ mBRegionPointer' = BAllocated
  /\ UNCHANGED <<mBuffer, mARegionPointer, mARegionSize, mBRegionSize>>

\* Write, and what PostSend and SendRequest do with GetFreeSpaceSize, GetBuffer and Commit.
Write(chunk) ==
  IF GetFreeSpaceSize < Len(chunk)
  THEN OpenB
  ELSE mBuffer' = Copied(chunk, GetBuffer) /\ Commit(Len(chunk))

\* Mutant of Remove: when A is used up, B is given up with it.
RemoveLosesB(n) ==
  LET left == IF n > mARegionSize THEN 0 ELSE mARegionSize - n IN
  /\ mARegionSize' = left
  /\ mARegionPointer' = IF left > 0 THEN mARegionPointer + n ELSE 0
  /\ mBRegionPointer' = IF left > 0 THEN mBRegionPointer ELSE nullptr
  /\ mBRegionSize' = IF left > 0 THEN mBRegionSize ELSE 0
  /\ UNCHANGED mBuffer

\* Mutant of Remove: what is left of B is not moved up.
RemoveUnmoved(n) ==
  LET fromA == IF n > mARegionSize THEN mARegionSize ELSE n
      fromB == IF n - fromA > mBRegionSize THEN mBRegionSize ELSE n - fromA
      left  == IF mARegionSize = fromA THEN mBRegionSize - fromB ELSE mARegionSize - fromA
  IN /\ mARegionSize' = left
     /\ mARegionPointer' = IF mARegionSize = fromA THEN 0 ELSE mARegionPointer + fromA
     /\ mBRegionPointer' = IF mARegionSize = fromA THEN nullptr ELSE mBRegionPointer
     /\ mBRegionSize' = IF mARegionSize = fromA THEN 0 ELSE mBRegionSize
     /\ UNCHANGED mBuffer

\* Remove and the end of Read: the first n bytes go, and B becomes A when A is used up.
Remove(n) ==
  LET fromA == IF n > mARegionSize THEN mARegionSize ELSE n
      fromB == IF n - fromA > mBRegionSize THEN mBRegionSize ELSE n - fromA
      left  == mBRegionSize - fromB
  IN IF mARegionSize - fromA > 0
     THEN /\ mARegionSize' = mARegionSize - fromA
          /\ mARegionPointer' = mARegionPointer + fromA
          /\ UNCHANGED <<mBuffer, mBRegionPointer, mBRegionSize>>
     ELSE /\ mBuffer' = IF left > 0
                        THEN [i \in Offsets |->
                                IF i < left THEN mBuffer[mBRegionPointer + fromB + i]
                                            ELSE mBuffer[i]]
                        ELSE mBuffer
          /\ mARegionPointer' = 0
          /\ mARegionSize' = left
          /\ mBRegionPointer' = nullptr
          /\ mBRegionSize' = 0

BufferReset ==
  /\ mBuffer' = [i \in Offsets |-> 0]
  /\ mARegionPointer' = 0 /\ mARegionSize' = 0
  /\ mBRegionPointer' = nullptr /\ mBRegionSize' = 0

-----------------------------------------------------------------------------
(* Correctness *)

\* Everything stored, oldest first.
Stored == Peek(GetStoredSize)

\* The regions never overlap nor leave the memory, and A is empty only when all is empty
\* (Remove, AllocateB).
RegionsApart ==
  /\ mARegionPointer + mARegionSize <= mCapacity
  /\ mBRegionPointer = nullptr => mBRegionSize = 0
  /\ mBRegionPointer # nullptr => mBRegionSize <= mARegionPointer /\ mARegionSize > 0
  /\ mARegionSize = 0 => mARegionPointer = 0

\* A message is refused only if it would leave less than half of the memory unused: opening
\* B never costs more than that (GetFreeSpaceSize).
RefusedOnlyWhenHalfFull == 2 * (GetStoredSize + GetFreeSpaceSize + 1) > mCapacity
=============================================================================
