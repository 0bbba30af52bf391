----------------------------- MODULE SendBuffer -----------------------------
(***************************************************************************)
(* mSendBuffer of a session: messages are written into it while the kernel *)
(* may still be reading the region handed to the last WSASend, which is    *)
(* taken away when the send completes.  mSendBufferLock makes each of      *)
(* these one step.                                                         *)
(***************************************************************************)
EXTENDS CircularBuffer

VARIABLES
  mSendPendingCount,
  mWsaBuf   \* the region of the outstanding send, and auxiliary: the bytes it held

sendVars == <<bufferVars, mSendPendingCount, mWsaBuf>>

NoSend == [buf |-> 0, bytes |-> <<>>]

SendInit == Init /\ mSendPendingCount = 0 /\ mWsaBuf = NoSend

\* ClientSession::SendRequest, Session::PostSend, under the lock.
SendRequest(message) == Write(message) /\ UNCHANGED <<mSendPendingCount, mWsaBuf>>

\* FlushSend with data and no send pending: one WSASend of the first region.
FlushSend ==
  /\ GetContiguiousBytes > 0
  /\ mSendPendingCount <= 0
  /\ mSendPendingCount' = mSendPendingCount + 1
  /\ mWsaBuf' = [buf   |-> GetBufferStart,
                 bytes |-> [i \in 1..GetContiguiousBytes |-> mBuffer[GetBufferStart + i - 1]]]
  /\ UNCHANGED bufferVars

\* n bytes were transferred.
SendCompletion(n) ==
  /\ n \in 1..Len(mWsaBuf.bytes)
  /\ Remove(n)
  /\ mSendPendingCount' = mSendPendingCount - 1
  /\ mWsaBuf' = NoSend

\* A send that failed: SendCompletion is not called, and the count stays.
SendFailed ==
  /\ mWsaBuf # NoSend
  /\ mWsaBuf' = NoSend
  /\ UNCHANGED <<bufferVars, mSendPendingCount>>

\* ClientSession::SessionReset, when nothing refers to the session any more.
SendBufferReset ==
  /\ mWsaBuf = NoSend
  /\ BufferReset
  /\ UNCHANGED <<mSendPendingCount, mWsaBuf>>

SendNext ==
  \/ \E message \in Chunks : SendRequest(message)
  \/ FlushSend
  \/ \E n \in 1..mCapacity : SendCompletion(n)
  \/ SendFailed
  \/ SendBufferReset

SendSpec == SendInit /\ [][SendNext]_sendVars

-----------------------------------------------------------------------------
(* Correctness *)

\* What the kernel reads is what was there when WSASend was called, whatever has been written
\* since, and it is the oldest part of the data (FlushSend, SendRequest, AllocateB).
SendRegionIntact ==
  \A i \in DOMAIN mWsaBuf.bytes :
    /\ mBuffer[mWsaBuf.buf + i - 1] = mWsaBuf.bytes[i]
    /\ i <= GetStoredSize /\ Stored[i] = mWsaBuf.bytes[i]

\* A completed send takes exactly the transferred bytes, also when they end one region or
\* leave part of it (SendCompletion, Remove).
SentExactly ==
  [][\A n \in 1..mCapacity :
       SendCompletion(n) => Stored' = SubSeq(Stored, n + 1, Len(Stored))]_sendVars

\* The two regions are one queue of bytes.
Queue == INSTANCE ByteQueue WITH queue <- Stored, out <- mWsaBuf.bytes
ImplementsByteQueue == Queue!Spec
=============================================================================
