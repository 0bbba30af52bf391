---------------------- MODULE SessionLifecycle_proofs ----------------------
(***************************************************************************)
(* Proofs about SessionLifecycle, for any number of sessions and workers,  *)
(* any bounds and any set of operating-system faults.                      *)
(*                                                                         *)
(* The types rest on TypeInv below: TypeOK, what the two counters say of   *)
(* the free list (PoolCount) and, while the program runs, the shape of     *)
(* each worker's local state (Control).  A worker dereferences ctx, client *)
(* and the front of its list, so none of the types holds without Control;  *)
(* the pop in IssueSession finds a session because of PoolCount.           *)
(*                                                                         *)
(* The life cycle rests on SessionInv: TypeInv, the stage of each session  *)
(* (Stages), who holds mSendBufferLock (SendLocks) and BroadcastManager's  *)
(* lock (BroadcastLocks), and a free list without repetitions.  The sends  *)
(* and receives rest on FlightInv: SessionInv, the right to post the next  *)
(* receive (ReceiveStages) and the send that is in flight (SendStages).    *)
(***************************************************************************)
EXTENDS SessionLifecycle, FiniteSetTheorems, SequenceTheorems, TLAPS

\* Code that holds the context it took from the port, or made in FlushSend.
ContextPCs == Kinds \cup {"setup", "acceptRecv", "register", "onRead", "chat", "chatSend",
                          "relBase", "closing", "delete", "flushPost"}
ReturnPCs  == {"return", "reset", "pushBack"}

\* Each worker's variables agree with the code it is about to run.
ControlAt(w) ==
  /\ pc[w] \in ContextPCs => ctx[w] \in Sessions
  /\ pc[w] \notin ContextPCs \cup ReturnPCs => ctx[w] = None
  /\ pc[w] \in ReturnPCs => client[w] \in Sessions
  /\ pc[w] \notin ReturnPCs => client[w] = None
  /\ pc[w] \in {"flushLock", "flushPost", "flushDisc"} => sendList[w] # <<>>
Control == \A w \in Workers : ControlAt(w)

\* What is missing from the free list is issued and not returned.
PoolCount == issueCount - returnCount = Cardinality(Sessions) - Len(freeList)

-----------------------------------------------------------------------------
(* Types *)

LEMMA TypesUnchanged ==
  /\ SessionTypes /\ UNCHANGED sessionVars => SessionTypes'
  /\ SendTypes /\ UNCHANGED sendVars => SendTypes'
  /\ PoolTypes /\ UNCHANGED poolVars => PoolTypes'
  /\ CastTypes /\ UNCHANGED castVars => CastTypes'
  /\ ListTypes /\ UNCHANGED listVars => ListTypes'
  /\ WorkTypes /\ UNCHANGED workVars => WorkTypes'
  BY DEF SessionTypes, SendTypes, PoolTypes, CastTypes, ListTypes, WorkTypes,
         sessionVars, sendVars, poolVars, castVars, listVars, workVars

\* An accepted operation is one more of its kind in the kernel.
LEMMA KernelEffect ==
  ASSUME SessionTypes, NEW s \in Sessions, NEW k \in Kinds, PostToKernel(s, k)
  PROVE  /\ io' \in [Sessions -> [Kinds -> Nat]]
         /\ \A t \in Sessions, j \in Kinds :
              io'[t][j] = IF t = s /\ j = k THEN io[s][k] + 1 ELSE io[t][j]
  BY DEF SessionTypes, PostToKernel

\* PostOverlapped adds one reference and one operation of kind k.
LEMMA PostEffect ==
  ASSUME SessionTypes, NEW s \in Sessions, NEW k \in Kinds, PostOverlapped(s, k)
  PROVE  /\ refCount' \in [Sessions -> Int]
         /\ io' \in [Sessions -> [Kinds -> Nat]]
         /\ \A t \in Sessions : refCount'[t] = IF t = s THEN refCount[s] + 1 ELSE refCount[t]
         /\ \A t \in Sessions, j \in Kinds :
              io'[t][j] = IF t = s /\ j = k THEN io[s][k] + 1 ELSE io[t][j]
  BY KernelEffect DEF SessionTypes, PostOverlapped

\* DisconnectRequest does something only when it is the first for this connection.
LEMMA DisconnectEffect ==
  ASSUME SessionTypes, NEW s \in Sessions, DisconnectRequest(s)
  PROVE  /\ connected' \in [Sessions -> BOOLEAN]
         /\ refCount' \in [Sessions -> Int]
         /\ io' \in [Sessions -> [Kinds -> Nat]]
         /\ \A t \in Sessions : connected'[t] = (connected[t] /\ t # s)
         /\ \E d \in {0, 1} :
              /\ d = 1 => connected[s]
              /\ \A t \in Sessions : refCount'[t] = IF t = s THEN refCount[s] + d ELSE refCount[t]
              /\ \A t \in Sessions, j \in Kinds : io'[t][j] =
                   IF t = s /\ j = "disconnect" THEN io[s]["disconnect"] + d ELSE io[t][j]
<1>1. /\ connected' \in [Sessions -> BOOLEAN]
      /\ \A t \in Sessions : connected'[t] = (connected[t] /\ t # s)
  BY DEF DisconnectRequest, SessionTypes
<1>2. CASE connected[s] /\ PostOverlapped(s, "disconnect")
  BY <1>1, <1>2, PostEffect DEF Kinds
<1>3. CASE UNCHANGED <<refCount, io>>
  <2>1. \A t \in Sessions, j \in Kinds : io'[t][j] =
          IF t = s /\ j = "disconnect" THEN io[s]["disconnect"] + 0 ELSE io[t][j]
    BY <1>3 DEF SessionTypes, Kinds
  <2>2. \A t \in Sessions : refCount'[t] = IF t = s THEN refCount[s] + 0 ELSE refCount[t]
    BY <1>3 DEF SessionTypes
  <2>3. refCount' \in [Sessions -> Int] /\ io' \in [Sessions -> [Kinds -> Nat]]
    BY <1>3 DEF SessionTypes
  <2>4. QED
    BY <1>1, <2>1, <2>2, <2>3
<1>4. QED
  BY <1>2, <1>3 DEF DisconnectRequest

\* FlushSend works on a session of the list, and takes it from there.
LEMMA FrontIsSession ==
  ASSUME ListTypes, NEW w \in Workers, sendList[w] # <<>>
  PROVE  Front(w) \in Sessions /\ Tail(sendList[w]) \in Seq(Sessions)
<1>1. sendList[w] \in Seq(Sessions)
  BY DEF ListTypes
<1>2. QED
  BY <1>1, HeadTailProperties DEF Front

LEMMA PopEffect ==
  ASSUME ListTypes, NEW w \in Workers, sendList[w] # <<>>, PopFront(w)
  PROVE  /\ sendList' \in [Workers -> Seq(Sessions)]
         /\ sendList'[w] = Tail(sendList[w])
         /\ \A v \in Workers \ {w} : sendList'[v] = sendList[v]
  BY FrontIsSession DEF PopFront, ListTypes

LEMMA RetryEffect ==
  ASSUME ListTypes, NEW w \in Workers, NEW s \in Sessions, Retry(w, s)
  PROVE  failList' \in [Workers -> Seq(Sessions)]
<1>1. Append(failList[w], s) \in Seq(Sessions)
  BY DEF ListTypes
<1>2. QED
  BY <1>1 DEF Retry, ListTypes


\* ReleaseRef takes one reference away; at zero w turns to ReturnClientSession, below zero
\* the program stops.
LEMMA ReleaseEffect ==
  ASSUME SessionTypes, WorkTypes, NEW w \in Workers, NEW s \in Sessions, NEW next \in PCs,
         ReleaseRef(w, s, next)
  PROVE  /\ refCount' \in [Sessions -> Int]
         /\ pc' \in [Workers -> PCs]
         /\ client' \in [Workers -> Sessions \cup {None}]
         /\ halt' \in {halt, "ReleaseRef"}
         /\ \A t \in Sessions : refCount'[t] = IF t = s THEN refCount[s] - 1 ELSE refCount[t]
         /\ \A v \in Workers \ {w} : pc'[v] = pc[v] /\ client'[v] = client[v]
         /\ refCount[s] = 1 => pc'[w] = "return" /\ client'[w] = s /\ halt' = halt
         /\ refCount[s] > 1 => pc'[w] = next /\ client'[w] = client[w] /\ halt' = halt
         /\ refCount[s] < 1 => pc' = pc /\ client' = client /\ halt' = "ReleaseRef"
<1> DEFINE ret == refCount[s] - 1
<1>1. ret \in Int /\ refCount' = [refCount EXCEPT ![s] = ret]
  BY DEF ReleaseRef, SessionTypes
<1>2. /\ refCount' \in [Sessions -> Int]
      /\ \A t \in Sessions : refCount'[t] = IF t = s THEN refCount[s] - 1 ELSE refCount[t]
  BY <1>1 DEF SessionTypes
<1>3. CASE ret = 0
  <2>1. /\ pc' = [pc EXCEPT ![w] = "return"]
        /\ client' = [client EXCEPT ![w] = s] /\ halt' = halt
    BY <1>3 DEF ReleaseRef, CrashAssert, Goto
  <2>2. refCount[s] = 1
    BY <1>3 DEF SessionTypes
  <2>3. "return" \in PCs
    BY DEF PCs
  <2>4. QED
    BY <1>2, <2>1, <2>2, <2>3 DEF WorkTypes, SessionTypes
<1>4. CASE ret > 0
  <2>1. pc' = [pc EXCEPT ![w] = next] /\ client' = client /\ halt' = halt
    BY <1>1, <1>4 DEF ReleaseRef, CrashAssert, Goto
  <2>2. refCount[s] > 1
    BY <1>1, <1>4 DEF SessionTypes
  <2>3. QED
    BY <1>2, <2>1, <2>2 DEF WorkTypes, SessionTypes
<1>5. CASE ret < 0
  <2>1. pc' = pc /\ client' = client /\ halt' = "ReleaseRef"
    BY <1>1, <1>5 DEF ReleaseRef, CrashAssert
  <2>2. refCount[s] < 1
    BY <1>1, <1>5 DEF SessionTypes
  <2>3. QED
    BY <1>2, <2>1, <2>2 DEF WorkTypes, SessionTypes
<1>6. ret = 0 \/ ret > 0 \/ ret < 0
  BY DEF SessionTypes
<1>7. QED
  BY <1>3, <1>4, <1>5, <1>6

\* A sequence without its last element (vector::pop_back).
LEMMA PopBack ==
  ASSUME NEW S, NEW q \in Seq(S), Len(q) > 0
  PROVE  /\ SubSeq(q, 1, Len(q) - 1) \in Seq(S)
         /\ Len(SubSeq(q, 1, Len(q) - 1)) = Len(q) - 1
         /\ \A i \in 1..Len(q) - 1 : SubSeq(q, 1, Len(q) - 1)[i] = q[i]
<1>1. PICK n \in Nat : n = Len(q) - 1
  OBVIOUS
<1>2. \A i \in 1..n : q[i] \in S
  BY <1>1
<1>3. /\ SubSeq(q, 1, n) \in Seq(S)
      /\ Len(SubSeq(q, 1, n)) = n
      /\ \A i \in 1..n : SubSeq(q, 1, n)[i] = q[i]
  BY <1>1, <1>2, SubSeqProperties
<1>4. QED
  BY <1>1, <1>3

\* The loop of AcceptClientSessions finds a session to pop: the counters tell it.
LEMMA FreeListNonempty ==
  ASSUME PoolTypes, PoolCount, MayIssue
  PROVE  /\ Len(freeList) \in 1..Len(freeList)
         /\ freeList[Len(freeList)] \in Sessions
         /\ SubSeq(freeList, 1, Len(freeList) - 1) \in Seq(Sessions)
         /\ Len(SubSeq(freeList, 1, Len(freeList) - 1)) = Len(freeList) - 1
         /\ \A i \in 1..Len(freeList) - 1 :
              SubSeq(freeList, 1, Len(freeList) - 1)[i] = freeList[i]
<1>1. Cardinality(Sessions) \in Nat
  BY SessionsFinite, FS_CardinalityType
<1>2. freeList \in Seq(Sessions) /\ Len(freeList) \in Nat
  BY DEF PoolTypes
<1>3. Len(freeList) > 0
  BY <1>1, <1>2 DEF PoolTypes, PoolCount, MayIssue
<1>4. Len(freeList) \in 1..Len(freeList) /\ freeList[Len(freeList)] \in Sessions
  BY <1>2, <1>3
<1>5. QED
  BY <1>2, <1>4, PopBack

\* One turn of AcceptClientSessions: the popped session gets the reference for issuing and,
\* unless AcceptEx fails, an outstanding accept.
LEMMA IssueEffect ==
  ASSUME SessionTypes, PoolTypes, PoolCount, IssueSession
  PROVE  \E s \in Sessions, d \in {0, 1} :
           /\ s = freeList[Len(freeList)]
           /\ refCount' \in [Sessions -> Int]
           /\ baseRef' \in [Sessions -> BOOLEAN]
           /\ io' \in [Sessions -> [Kinds -> Nat]]
           /\ d = 0 => halt' = "exit" /\ mgrLock' = None
           /\ d = 1 => halt' = halt /\ mgrLock' = mgrLock
           /\ \A t \in Sessions : baseRef'[t] = (baseRef[t] \/ t = s)
           /\ \A t \in Sessions :
                refCount'[t] = IF t = s THEN refCount[s] + 1 + d ELSE refCount[t]
           /\ \A t \in Sessions, j \in Kinds : io'[t][j] =
                IF t = s /\ j = "accept" THEN io[s]["accept"] + d ELSE io[t][j]
<1> DEFINE s == freeList[Len(freeList)]
<1>1. s \in Sessions
  BY FreeListNonempty DEF IssueSession
<1>2. /\ baseRef' \in [Sessions -> BOOLEAN]
      /\ \A t \in Sessions : baseRef'[t] = (baseRef[t] \/ t = s)
  BY <1>1 DEF IssueSession, SessionTypes
<1>3. CASE /\ refCount' = [refCount EXCEPT ![s] = @ + 2]
           /\ PostToKernel(s, "accept")
           /\ UNCHANGED <<mgrLock, halt>>
  <2>1. /\ refCount' \in [Sessions -> Int]
        /\ \A t \in Sessions :
             refCount'[t] = IF t = s THEN refCount[s] + 1 + 1 ELSE refCount[t]
    BY <1>1, <1>3 DEF SessionTypes
  <2>2. /\ io' \in [Sessions -> [Kinds -> Nat]]
        /\ \A t \in Sessions, j \in Kinds : io'[t][j] =
             IF t = s /\ j = "accept" THEN io[s]["accept"] + 1 ELSE io[t][j]
    BY <1>1, <1>3, KernelEffect DEF Kinds
  <2>3. 1 \in {0, 1} /\ 1 # 0
    OBVIOUS
  <2>4. QED
    BY <1>1, <1>2, <1>3, <2>1, <2>2, <2>3
<1>4. CASE /\ refCount' = [refCount EXCEPT ![s] = @ + 1]
           /\ mgrLock' = None
           /\ halt' = "exit"
           /\ UNCHANGED io
  <2>1. /\ refCount' \in [Sessions -> Int]
        /\ \A t \in Sessions :
             refCount'[t] = IF t = s THEN refCount[s] + 1 + 0 ELSE refCount[t]
    BY <1>1, <1>4 DEF SessionTypes
  <2>2. /\ io' \in [Sessions -> [Kinds -> Nat]]
        /\ \A t \in Sessions, j \in Kinds : io'[t][j] =
             IF t = s /\ j = "accept" THEN io[s]["accept"] + 0 ELSE io[t][j]
    BY <1>1, <1>4 DEF SessionTypes, Kinds
  <2>3. 0 \in {0, 1} /\ 0 # 1
    OBVIOUS
  <2>4. QED
    BY <1>1, <1>2, <1>4, <2>1, <2>2, <2>3
<1>5. QED
  BY <1>3, <1>4 DEF IssueSession


\* Every step keeps the types.
LEMMA TypeStep ==
  ASSUME TypeOK, PoolCount, Running, Control, Next
  PROVE  TypeOK'
<1> USE NamesDistinct, BoundsNatural
<1>t. SessionTypes /\ SendTypes /\ PoolTypes /\ CastTypes /\ ListTypes /\ WorkTypes
  BY DEF TypeOK
<1>1. ASSUME IssueSession
      PROVE  TypeOK'
  <2>1. SessionTypes'
    BY <1>t, <1>1, IssueEffect DEF IssueSession, SessionTypes
  <2>2. PoolTypes'
    BY <1>t, <1>1, FreeListNonempty DEF IssueSession, PoolTypes
  <2>3. halt' \in Halts
    BY <1>1 DEF IssueSession, TypeOK, Halts
  <2>4. QED
    BY <1>t, <1>1, <2>1, <2>2, <2>3, TypesUnchanged DEF IssueSession, TypeOK
<1>2. ASSUME AcceptClientSessions
      PROVE  TypeOK'
  <2>1. PoolTypes'
    BY <1>t, <1>2 DEF AcceptClientSessions, PoolTypes
  <2>2. QED
    BY <1>t, <1>2, <2>1, TypesUnchanged DEF AcceptClientSessions, TypeOK
<1>3. ASSUME StopIssuing
      PROVE  TypeOK'
  <2>1. PoolTypes'
    BY <1>t, <1>3 DEF StopIssuing, PoolTypes
  <2>2. QED
    BY <1>t, <1>3, <2>1, TypesUnchanged DEF StopIssuing, TypeOK
<1>4. ASSUME NEW w \in Workers, NEW s \in Sessions, NEW k \in Kinds, DequeueCompletion(w, s, k)
      PROVE  TypeOK'
  <2>1. SessionTypes'
    BY <1>t, <1>4 DEF DequeueCompletion, SessionTypes
  <2>2. WorkTypes'
    BY <1>t, <1>4 DEF DequeueCompletion, WorkTypes, Goto, PCs, Kinds
  <2>3. QED
    BY <1>t, <1>4, <2>1, <2>2, TypesUnchanged DEF DequeueCompletion, TypeOK
<1>5. ASSUME NEW w \in Workers, DequeueTimeout(w)
      PROVE  TypeOK'
  <2>1. WorkTypes'
    BY <1>t, <1>5 DEF DequeueTimeout, WorkTypes, Goto, PCs, Kinds
  <2>2. QED
    BY <1>t, <1>5, <2>1, TypesUnchanged DEF DequeueTimeout, TypeOK
<1>6. ASSUME NEW w \in Workers, CloseConnection(w)
      PROVE  TypeOK'
  <2>1. ctx[w] \in Sessions
    BY Control, <1>6 DEF Control, ControlAt, ContextPCs, Kinds, CloseConnection
  <2>2. SessionTypes'
    BY <1>t, <1>6, <2>1, DisconnectEffect DEF CloseConnection, SessionTypes
  <2>3. WorkTypes'
    BY <1>t, <1>6, <2>1 DEF CloseConnection, WorkTypes, Goto, PCs, Kinds
  <2>4. QED
    BY <1>t, <1>6, <2>2, <2>3, TypesUnchanged DEF CloseConnection, TypeOK
<1>7. ASSUME NEW w \in Workers, DeleteContext(w)
      PROVE  TypeOK'
  <2>1. ctx[w] \in Sessions
    BY Control, <1>7 DEF Control, ControlAt, ContextPCs, Kinds, DeleteContext
  <2>2. SessionTypes'
    BY <1>t, <1>7, <2>1, ReleaseEffect DEF DeleteContext, SessionTypes, PCs
  <2>3. WorkTypes'
    BY <1>t, <1>7, <2>1, ReleaseEffect DEF DeleteContext, WorkTypes, PCs, Kinds
  <2>4. halt' \in Halts
    BY <1>t, <1>7, <2>1, ReleaseEffect DEF DeleteContext, PCs, TypeOK, Halts, Asserts
  <2>5. QED
    BY <1>t, <1>7, <2>2, <2>3, <2>4, TypesUnchanged DEF DeleteContext, TypeOK
<1>8. ASSUME NEW w \in Workers, AcceptConnected(w)
      PROVE  TypeOK'
  <2>1. ctx[w] \in Sessions
    BY Control, <1>8 DEF Control, ControlAt, ContextPCs, Kinds, AcceptConnected
  <2>2. SessionTypes'
    BY <1>t, <1>8, <2>1 DEF AcceptConnected, SessionTypes
  <2>3. WorkTypes'
    BY <1>t, <1>8, <2>1 DEF AcceptConnected, WorkTypes, Goto, PCs, Kinds, CrashAssert
  <2>4. halt' \in Halts
    BY <1>8 DEF AcceptConnected, CrashAssert, TypeOK, Halts, Asserts
  <2>5. QED
    BY <1>t, <1>8, <2>2, <2>3, <2>4, TypesUnchanged DEF AcceptConnected, TypeOK
<1>9. ASSUME NEW w \in Workers, AcceptSetupDone(w)
      PROVE  TypeOK'
  <2>1. ctx[w] \in Sessions
    BY Control, <1>9 DEF Control, ControlAt, ContextPCs, Kinds, AcceptSetupDone
  <2>2. SessionTypes'
    BY <1>t, <1>9, <2>1 DEF AcceptSetupDone, SessionTypes
  <2>3. WorkTypes'
    BY <1>t, <1>9, <2>1 DEF AcceptSetupDone, WorkTypes, Goto, PCs, Kinds
  <2>4. QED
    BY <1>t, <1>9, <2>2, <2>3, TypesUnchanged DEF AcceptSetupDone, TypeOK
<1>10. ASSUME NEW w \in Workers, AcceptSetupFailed(w)
      PROVE  TypeOK'
  <2>1. ctx[w] \in Sessions
    BY Control, <1>10 DEF Control, ControlAt, ContextPCs, Kinds, AcceptSetupFailed
  <2>2. SessionTypes'
    BY <1>t, <1>10, <2>1, DisconnectEffect DEF AcceptSetupFailed, SessionTypes
  <2>3. WorkTypes'
    BY <1>t, <1>10, <2>1 DEF AcceptSetupFailed, WorkTypes, Goto, PCs, Kinds
  <2>4. QED
    BY <1>t, <1>10, <2>2, <2>3, TypesUnchanged DEF AcceptSetupFailed, TypeOK
<1>11. ASSUME NEW w \in Workers, AcceptPreRecv(w)
      PROVE  TypeOK'
  <2>1. ctx[w] \in Sessions
    BY Control, <1>11 DEF Control, ControlAt, ContextPCs, Kinds, AcceptPreRecv
  <2>2. SessionTypes'
    BY <1>t, <1>11, <2>1, PostEffect
      DEF AcceptPreRecv, SessionTypes, ReceivePosted, ReceiveRefused, Kinds
  <2>3. WorkTypes'
    BY <1>t, <1>11, <2>1 DEF AcceptPreRecv, WorkTypes, Goto, PCs, Kinds
  <2>4. QED
    BY <1>t, <1>11, <2>2, <2>3, TypesUnchanged DEF AcceptPreRecv, TypeOK
<1>12. ASSUME NEW w \in Workers, AcceptRegister(w)
      PROVE  TypeOK'
  <2>1. ctx[w] \in Sessions
    BY Control, <1>12 DEF Control, ControlAt, ContextPCs, Kinds, AcceptRegister
  <2>2. CastTypes'
    BY <1>t, <1>12, <2>1 DEF AcceptRegister, CastTypes
  <2>3. WorkTypes'
    BY <1>t, <1>12, <2>1 DEF AcceptRegister, WorkTypes, Goto, PCs, Kinds, CrashAssert
  <2>4. halt' \in Halts
    BY <1>12 DEF AcceptRegister, CrashAssert, TypeOK, Halts, Asserts
  <2>5. QED
    BY <1>t, <1>12, <2>2, <2>3, <2>4, TypesUnchanged DEF AcceptRegister, TypeOK
<1>13. ASSUME NEW w \in Workers, RecvZeroCompleted(w)
      PROVE  TypeOK'
  <2>1. ctx[w] \in Sessions
    BY Control, <1>13 DEF Control, ControlAt, ContextPCs, Kinds, RecvZeroCompleted
  <2>2. SessionTypes'
    BY <1>t, <1>13, <2>1, PostEffect
      DEF RecvZeroCompleted, SessionTypes, ReceivePosted, ReceiveRefused, Kinds
  <2>3. WorkTypes'
    BY <1>t, <1>13, <2>1 DEF RecvZeroCompleted, WorkTypes, Goto, PCs, Kinds
  <2>4. QED
    BY <1>t, <1>13, <2>2, <2>3, TypesUnchanged DEF RecvZeroCompleted, TypeOK
<1>14. ASSUME NEW w \in Workers, RecvCompleted(w)
      PROVE  TypeOK'
  <2>1. WorkTypes'
    BY <1>t, <1>14 DEF RecvCompleted, WorkTypes, Goto, PCs, Kinds
  <2>2. QED
    BY <1>t, <1>14, <2>1, TypesUnchanged DEF RecvCompleted, TypeOK
<1>15. ASSUME NEW w \in Workers, OnReadBadPacket(w)
      PROVE  TypeOK'
  <2>1. ctx[w] \in Sessions
    BY Control, <1>15 DEF Control, ControlAt, ContextPCs, Kinds, OnReadBadPacket
  <2>2. SessionTypes'
    BY <1>t, <1>15, <2>1, DisconnectEffect DEF OnReadBadPacket, SessionTypes
  <2>3. QED
    BY <1>t, <1>15, <2>2, TypesUnchanged DEF OnReadBadPacket, TypeOK
<1>16. ASSUME NEW w \in Workers, OnReadChat(w)
      PROVE  TypeOK'
  <2>1. CastTypes'
    BY <1>t, <1>16 DEF OnReadChat, CastTypes
  <2>2. WorkTypes'
    BY <1>t, <1>16 DEF OnReadChat, WorkTypes, Goto, PCs, Kinds
  <2>3. QED
    BY <1>t, <1>16, <2>1, <2>2, TypesUnchanged DEF OnReadChat, TypeOK
<1>17. ASSUME NEW w \in Workers, OnReadDone(w)
      PROVE  TypeOK'
  <2>1. ctx[w] \in Sessions
    BY Control, <1>17 DEF Control, ControlAt, ContextPCs, Kinds, OnReadDone
  <2>2. SessionTypes'
    BY <1>t, <1>17, <2>1, PostEffect
      DEF OnReadDone, SessionTypes, ReceivePosted, ReceiveRefused, Kinds
  <2>3. WorkTypes'
    BY <1>t, <1>17, <2>1 DEF OnReadDone, WorkTypes, Goto, PCs, Kinds
  <2>4. QED
    BY <1>t, <1>17, <2>2, <2>3, TypesUnchanged DEF OnReadDone, TypeOK
<1>18. ASSUME NEW w \in Workers, BroadcastLock(w)
      PROVE  TypeOK'
  <2>1. CastTypes'
    BY <1>t, <1>18 DEF BroadcastLock, CastTypes
  <2>2. WorkTypes'
    BY <1>t, <1>18 DEF BroadcastLock, WorkTypes, Goto, PCs, Kinds
  <2>3. QED
    BY <1>t, <1>18, <2>1, <2>2, TypesUnchanged DEF BroadcastLock, TypeOK
<1>19. ASSUME NEW w \in Workers, BroadcastUnlock(w)
      PROVE  TypeOK'
  <2>1. CastTypes'
    BY <1>t, <1>19 DEF BroadcastUnlock, CastTypes
  <2>2. WorkTypes'
    BY <1>t, <1>19 DEF BroadcastUnlock, WorkTypes, Goto, PCs, Kinds
  <2>3. QED
    BY <1>t, <1>19, <2>1, <2>2, TypesUnchanged DEF BroadcastUnlock, TypeOK
<1>20. ASSUME NEW w \in Workers, NEW t \in Sessions, BroadcastSend(w, t)
      PROVE  TypeOK'
  <2>1. SendTypes'
    BY <1>t, <1>20 DEF BroadcastSend, SendTypes, HasRoom
  <2>2. CastTypes'
    BY <1>t, <1>20 DEF BroadcastSend, CastTypes
  <2>3. ListTypes'
    BY <1>t, <1>20 DEF BroadcastSend, ListForFlush, ListTypes
  <2>4. QED
    BY <1>t, <1>20, <2>1, <2>2, <2>3, TypesUnchanged DEF BroadcastSend, TypeOK
<1>21. ASSUME NEW w \in Workers, NEW t \in Sessions, BroadcastAbort(w, t)
      PROVE  TypeOK'
  <2>1. SessionTypes'
    BY <1>t, <1>21, DisconnectEffect DEF BroadcastAbort, SessionTypes
  <2>2. CastTypes'
    BY <1>t, <1>21 DEF BroadcastAbort, CastTypes
  <2>3. QED
    BY <1>t, <1>21, <2>1, <2>2, TypesUnchanged DEF BroadcastAbort, TypeOK
<1>22. ASSUME NEW w \in Workers, NEW n \in 1..SendCap, SendCompleted(w, n)
      PROVE  TypeOK'
  <2>1. ctx[w] \in Sessions
    BY Control, <1>22 DEF Control, ControlAt, ContextPCs, Kinds, SendCompleted
  <2>2. SendTypes'
    BY <1>t, <1>22, <2>1 DEF SendCompleted, SendTypes
  <2>3. WorkTypes'
    BY <1>t, <1>22, <2>1 DEF SendCompleted, WorkTypes, Goto, PCs, Kinds
  <2>4. QED
    BY <1>t, <1>22, <2>2, <2>3, TypesUnchanged DEF SendCompleted, TypeOK
<1>23. ASSUME NEW w \in Workers, SendFailed(w)
      PROVE  TypeOK'
  <2>1. WorkTypes'
    BY <1>t, <1>23 DEF SendFailed, WorkTypes, Goto, PCs, Kinds
  <2>2. QED
    BY <1>t, <1>23, <2>1, TypesUnchanged DEF SendFailed, TypeOK
<1>24. ASSUME NEW w \in Workers, DisconnectUnregister(w)
      PROVE  TypeOK'
  <2>1. ctx[w] \in Sessions
    BY Control, <1>24 DEF Control, ControlAt, ContextPCs, Kinds, DisconnectUnregister
  <2>2. CastTypes'
    BY <1>t, <1>24, <2>1 DEF DisconnectUnregister, CastTypes, Erase
  <2>3. WorkTypes'
    BY <1>t, <1>24, <2>1 DEF DisconnectUnregister, WorkTypes, Goto, PCs, Kinds, CrashAssert
  <2>4. halt' \in Halts
    BY <1>24 DEF DisconnectUnregister, CrashAssert, TypeOK, Halts, Asserts
  <2>5. QED
    BY <1>t, <1>24, <2>2, <2>3, <2>4, TypesUnchanged DEF DisconnectUnregister, TypeOK
<1>25. ASSUME NEW w \in Workers, DisconnectReleaseBase(w)
      PROVE  TypeOK'
  <2>1. ctx[w] \in Sessions
    BY Control, <1>25 DEF Control, ControlAt, ContextPCs, Kinds, DisconnectReleaseBase
  <2>2. SessionTypes'
    BY <1>t, <1>25, <2>1, ReleaseEffect DEF DisconnectReleaseBase, SessionTypes, PCs
  <2>3. WorkTypes'
    BY <1>t, <1>25, <2>1, ReleaseEffect DEF DisconnectReleaseBase, WorkTypes, PCs, Kinds
  <2>4. halt' \in Halts
    BY <1>t, <1>25, <2>1, ReleaseEffect DEF DisconnectReleaseBase, PCs, TypeOK, Halts, Asserts
  <2>5. QED
    BY <1>t, <1>25, <2>2, <2>3, <2>4, TypesUnchanged DEF DisconnectReleaseBase, TypeOK
<1>26. ASSUME NEW w \in Workers, FlushBegin(w)
      PROVE  TypeOK'
  <2>1. WorkTypes'
    BY <1>t, <1>26 DEF FlushBegin, WorkTypes, Goto, PCs, Kinds
  <2>2. QED
    BY <1>t, <1>26, <2>1, TypesUnchanged DEF FlushBegin, TypeOK
<1>27. ASSUME NEW w \in Workers, FlushNothing(w)
      PROVE  TypeOK'
  <2>1. sendList[w] # <<>>
    BY Control, <1>27 DEF Control, ControlAt, FlushNothing
  <2>2. Front(w) \in Sessions /\ Tail(sendList[w]) \in Seq(Sessions)
    BY <1>t, <2>1, FrontIsSession
  <2>3. ListTypes'
    BY <1>t, <1>27, <2>1, <2>2, PopEffect, RetryEffect DEF FlushNothing, ListTypes
  <2>4. WorkTypes'
    BY <1>t, <1>27, <2>1, <2>2 DEF FlushNothing, WorkTypes, Goto, PCs, Kinds
  <2>5. QED
    BY <1>t, <1>27, <2>3, <2>4, TypesUnchanged DEF FlushNothing, TypeOK
<1>28. ASSUME NEW w \in Workers, FlushStart(w)
      PROVE  TypeOK'
  <2>1. sendList[w] # <<>>
    BY Control, <1>28 DEF Control, ControlAt, FlushStart
  <2>2. Front(w) \in Sessions /\ Tail(sendList[w]) \in Seq(Sessions)
    BY <1>t, <2>1, FrontIsSession
  <2>3. SessionTypes'
    BY <1>t, <1>28, <2>1, <2>2 DEF FlushStart, SessionTypes
  <2>4. SendTypes'
    BY <1>t, <1>28, <2>1, <2>2 DEF FlushStart, SendTypes
  <2>5. WorkTypes'
    BY <1>t, <1>28, <2>1, <2>2 DEF FlushStart, WorkTypes, Goto, PCs, Kinds
  <2>6. QED
    BY <1>t, <1>28, <2>3, <2>4, <2>5, TypesUnchanged DEF FlushStart, TypeOK
<1>29. ASSUME NEW w \in Workers, FlushPosted(w)
      PROVE  TypeOK'
  <2>1. ctx[w] \in Sessions
    BY Control, <1>29 DEF Control, ControlAt, ContextPCs, Kinds, FlushPosted
  <2>2. sendList[w] # <<>>
    BY Control, <1>29 DEF Control, ControlAt, FlushPosted
  <2>3. Front(w) \in Sessions /\ Tail(sendList[w]) \in Seq(Sessions)
    BY <1>t, <2>2, FrontIsSession
  <2>4. SessionTypes'
    BY <1>t, <1>29, <2>1, <2>2, <2>3, KernelEffect DEF FlushPosted, SessionTypes, Kinds
  <2>5. SendTypes'
    <3>1. PICK n \in 1..sendData[ctx[w]] : sendLen' = [sendLen EXCEPT ![ctx[w]] = n]
      BY <1>29 DEF FlushPosted
    <3>2. n \in Int /\ n <= SendCap
      BY <1>t, <2>1, BoundsNatural DEF SendTypes
    <3>3. QED
      BY <1>t, <1>29, <2>1, <3>1, <3>2 DEF FlushPosted, SendTypes
  <2>6. ListTypes'
    BY <1>t, <1>29, <2>1, <2>2, <2>3, PopEffect, RetryEffect DEF FlushPosted, ListTypes
  <2>7. WorkTypes'
    BY <1>t, <1>29, <2>1, <2>2, <2>3 DEF FlushPosted, WorkTypes, Goto, PCs, Kinds
  <2>8. QED
    BY <1>t, <1>29, <2>4, <2>5, <2>6, <2>7, TypesUnchanged DEF FlushPosted, TypeOK
<1>30. ASSUME NEW w \in Workers, FlushFailed(w)
      PROVE  TypeOK'
  <2>1. ctx[w] \in Sessions
    BY Control, <1>30 DEF Control, ControlAt, ContextPCs, Kinds, FlushFailed
  <2>2. SessionTypes'
    BY <1>t, <1>30, <2>1, ReleaseEffect DEF FlushFailed, SessionTypes, PCs
  <2>3. WorkTypes'
    BY <1>t, <1>30, <2>1, ReleaseEffect DEF FlushFailed, WorkTypes, PCs, Kinds
  <2>4. halt' \in Halts
    BY <1>t, <1>30, <2>1, ReleaseEffect DEF FlushFailed, PCs, TypeOK, Halts, Asserts
  <2>5. QED
    BY <1>t, <1>30, <2>2, <2>3, <2>4, TypesUnchanged DEF FlushFailed, TypeOK
<1>31. ASSUME NEW w \in Workers, FlushDisconnect(w)
      PROVE  TypeOK'
  <2>1. sendList[w] # <<>>
    BY Control, <1>31 DEF Control, ControlAt, FlushDisconnect
  <2>2. Front(w) \in Sessions /\ Tail(sendList[w]) \in Seq(Sessions)
    BY <1>t, <2>1, FrontIsSession
  <2>3. SessionTypes'
    BY <1>t, <1>31, <2>1, <2>2, DisconnectEffect DEF FlushDisconnect, SessionTypes
  <2>4. SendTypes'
    BY <1>t, <1>31, <2>1, <2>2 DEF FlushDisconnect, SendTypes
  <2>5. ListTypes'
    BY <1>t, <1>31, <2>1, <2>2, PopEffect DEF FlushDisconnect, ListTypes
  <2>6. WorkTypes'
    BY <1>t, <1>31, <2>1, <2>2 DEF FlushDisconnect, WorkTypes, Goto, PCs, Kinds
  <2>7. QED
    BY <1>t, <1>31, <2>3, <2>4, <2>5, <2>6, TypesUnchanged DEF FlushDisconnect, TypeOK
<1>32. ASSUME NEW w \in Workers, FlushEnd(w)
      PROVE  TypeOK'
  <2>1. ListTypes'
    BY <1>t, <1>32 DEF FlushEnd, ListTypes
  <2>2. WorkTypes'
    BY <1>t, <1>32 DEF FlushEnd, WorkTypes, Goto, PCs, Kinds
  <2>3. QED
    BY <1>t, <1>32, <2>1, <2>2, TypesUnchanged DEF FlushEnd, TypeOK
<1>33. ASSUME NEW w \in Workers, ReturnLockOrder(w)
      PROVE  TypeOK'
  <2>1. WorkTypes'
    BY <1>t, <1>33 DEF ReturnLockOrder, WorkTypes, Goto, PCs, Kinds, CrashAssert
  <2>2. halt' \in Halts
    BY <1>33 DEF ReturnLockOrder, CrashAssert, TypeOK, Halts, Asserts
  <2>3. QED
    BY <1>t, <1>33, <2>1, <2>2, TypesUnchanged DEF ReturnLockOrder, TypeOK
<1>34. ASSUME NEW w \in Workers, ReturnLock(w)
      PROVE  TypeOK'
  <2>1. client[w] \in Sessions
    BY Control, <1>34 DEF Control, ControlAt, ReturnPCs, ReturnLock
  <2>2. PoolTypes'
    BY <1>t, <1>34, <2>1 DEF ReturnLock, PoolTypes
  <2>3. WorkTypes'
    BY <1>t, <1>34, <2>1 DEF ReturnLock, WorkTypes, Goto, PCs, Kinds, CrashAssert
  <2>4. halt' \in Halts
    BY <1>34 DEF ReturnLock, CrashAssert, TypeOK, Halts, Asserts
  <2>5. QED
    BY <1>t, <1>34, <2>2, <2>3, <2>4, TypesUnchanged DEF ReturnLock, TypeOK
<1>35. ASSUME NEW w \in Workers, ReturnReset(w)
      PROVE  TypeOK'
  <2>1. client[w] \in Sessions
    BY Control, <1>35 DEF Control, ControlAt, ReturnPCs, ReturnReset
  <2>2. SessionTypes'
    BY <1>t, <1>35, <2>1 DEF ReturnReset, SessionTypes
  <2>3. WorkTypes'
    BY <1>t, <1>35, <2>1 DEF ReturnReset, WorkTypes, Goto, PCs, Kinds
  <2>4. QED
    BY <1>t, <1>35, <2>2, <2>3, TypesUnchanged DEF ReturnReset, TypeOK
<1>36. ASSUME NEW w \in Workers, ReturnPushBack(w)
      PROVE  TypeOK'
  <2>1. client[w] \in Sessions
    BY Control, <1>36 DEF Control, ControlAt, ReturnPCs, ReturnPushBack
  <2>2. SessionTypes'
    BY <1>t, <1>36, <2>1 DEF ReturnPushBack, SessionTypes
  <2>3. SendTypes'
    BY <1>t, <1>36, <2>1 DEF ReturnPushBack, SendTypes, BufferReset
  <2>4. PoolTypes'
    BY <1>t, <1>36, <2>1 DEF ReturnPushBack, PoolTypes, IncReturnCount
  <2>5. WorkTypes'
    BY <1>t, <1>36, <2>1 DEF ReturnPushBack, WorkTypes, Goto, PCs, Kinds
  <2>6. QED
    BY <1>t, <1>36, <2>2, <2>3, <2>4, <2>5, TypesUnchanged DEF ReturnPushBack, TypeOK
<1>37. QED
  BY <1>1, <1>2, <1>3, <1>4, <1>5, <1>6, <1>7, <1>8, <1>9, <1>10, <1>11, <1>12, <1>13, <1>14,
     <1>15, <1>16, <1>17, <1>18, <1>19, <1>20, <1>21, <1>22, <1>23, <1>24, <1>25, <1>26, <1>27,
     <1>28, <1>29, <1>30, <1>31, <1>32, <1>33, <1>34, <1>35, <1>36
    DEF Next, MainThread, Step, Dequeue, Halted


-----------------------------------------------------------------------------
(* Control: the local state of the workers *)

\* What a worker's steps leave alone: the local variables of the other workers.
OthersKept(w) ==
  \A v \in Workers \ {w} :
    /\ pc'[v] = pc[v] /\ ctx'[v] = ctx[v] /\ client'[v] = client[v]
    /\ sendList'[v] = sendList[v] /\ targets'[v] = targets[v]

LEMMA StepIsLocal ==
  ASSUME TypeOK, Control, NEW w \in Workers, Step(w) \/ Dequeue(w)
  PROVE  OthersKept(w)
<1>t. SessionTypes /\ CastTypes /\ ListTypes /\ WorkTypes
  BY DEF TypeOK
<1>1. ASSUME NEW s \in Sessions, NEW k \in Kinds, DequeueCompletion(w, s, k)
      PROVE  OthersKept(w)
  BY <1>t, <1>1
    DEF DequeueCompletion, Goto, castVars, listVars, OthersKept, WorkTypes, ListTypes
<1>2. ASSUME DequeueTimeout(w)
      PROVE  OthersKept(w)
  BY <1>t, <1>2 DEF DequeueTimeout, Goto, castVars, listVars, OthersKept, WorkTypes, ListTypes
<1>3. ASSUME CloseConnection(w)
      PROVE  OthersKept(w)
  BY <1>t, <1>3 DEF CloseConnection, Goto, castVars, listVars, OthersKept, WorkTypes, ListTypes
<1>4. ASSUME DeleteContext(w)
      PROVE  OthersKept(w)
  <2>1. ctx[w] \in Sessions
    BY Control, <1>4 DEF Control, ControlAt, ContextPCs, Kinds, DeleteContext
  <2>2. QED
    BY <1>t, <1>4, <2>1, ReleaseEffect
      DEF DeleteContext, PCs, castVars, listVars, OthersKept, WorkTypes, ListTypes
<1>5. ASSUME AcceptConnected(w)
      PROVE  OthersKept(w)
  BY <1>t, <1>5
    DEF AcceptConnected, CrashAssert, Goto, castVars, listVars, OthersKept, WorkTypes, ListTypes
<1>6. ASSUME AcceptSetupDone(w)
      PROVE  OthersKept(w)
  BY <1>t, <1>6 DEF AcceptSetupDone, Goto, castVars, listVars, OthersKept, WorkTypes, ListTypes
<1>7. ASSUME AcceptSetupFailed(w)
      PROVE  OthersKept(w)
  BY <1>t, <1>7
    DEF AcceptSetupFailed, Goto, castVars, listVars, OthersKept, WorkTypes, ListTypes
<1>8. ASSUME AcceptPreRecv(w)
      PROVE  OthersKept(w)
  BY <1>t, <1>8 DEF AcceptPreRecv, Goto, castVars, listVars, OthersKept, WorkTypes, ListTypes
<1>9. ASSUME AcceptRegister(w)
      PROVE  OthersKept(w)
  BY <1>t, <1>9
    DEF AcceptRegister, CrashAssert, Goto, listVars, OthersKept, WorkTypes, ListTypes, CastTypes
<1>10. ASSUME RecvZeroCompleted(w)
      PROVE  OthersKept(w)
  BY <1>t, <1>10
    DEF RecvZeroCompleted, Goto, castVars, listVars, OthersKept, WorkTypes, ListTypes
<1>11. ASSUME RecvCompleted(w)
      PROVE  OthersKept(w)
  BY <1>t, <1>11 DEF RecvCompleted, Goto, castVars, listVars, OthersKept, WorkTypes, ListTypes
<1>12. ASSUME OnReadBadPacket(w)
      PROVE  OthersKept(w)
  BY <1>t, <1>12
    DEF OnReadBadPacket, castVars, listVars, workVars, OthersKept, WorkTypes, ListTypes
<1>13. ASSUME OnReadChat(w)
      PROVE  OthersKept(w)
  BY <1>t, <1>13 DEF OnReadChat, Goto, listVars, OthersKept, WorkTypes, ListTypes, CastTypes
<1>14. ASSUME OnReadDone(w)
      PROVE  OthersKept(w)
  BY <1>t, <1>14 DEF OnReadDone, Goto, castVars, listVars, OthersKept, WorkTypes, ListTypes
<1>15. ASSUME BroadcastLock(w)
      PROVE  OthersKept(w)
  BY <1>t, <1>15 DEF BroadcastLock, Goto, listVars, OthersKept, WorkTypes, ListTypes, CastTypes
<1>16. ASSUME BroadcastUnlock(w)
      PROVE  OthersKept(w)
  BY <1>t, <1>16
    DEF BroadcastUnlock, Goto, listVars, OthersKept, WorkTypes, ListTypes, CastTypes
<1>17. ASSUME NEW t \in Sessions, BroadcastSend(w, t)
      PROVE  OthersKept(w)
  BY <1>t, <1>17
    DEF BroadcastSend, ListForFlush, workVars, OthersKept, WorkTypes, ListTypes, CastTypes
<1>18. ASSUME NEW t \in Sessions, BroadcastAbort(w, t)
      PROVE  OthersKept(w)
  BY <1>t, <1>18
    DEF BroadcastAbort, listVars, workVars, OthersKept, WorkTypes, ListTypes, CastTypes
<1>19. ASSUME NEW n \in 1..SendCap, SendCompleted(w, n)
      PROVE  OthersKept(w)
  BY <1>t, <1>19 DEF SendCompleted, Goto, castVars, listVars, OthersKept, WorkTypes, ListTypes
<1>20. ASSUME SendFailed(w)
      PROVE  OthersKept(w)
  BY <1>t, <1>20 DEF SendFailed, Goto, castVars, listVars, OthersKept, WorkTypes, ListTypes
<1>21. ASSUME DisconnectUnregister(w)
      PROVE  OthersKept(w)
  BY <1>t, <1>21
    DEF DisconnectUnregister, CrashAssert, Goto, listVars, OthersKept, WorkTypes, ListTypes,
        CastTypes
<1>22. ASSUME DisconnectReleaseBase(w)
      PROVE  OthersKept(w)
  <2>1. ctx[w] \in Sessions
    BY Control, <1>22 DEF Control, ControlAt, ContextPCs, Kinds, DisconnectReleaseBase
  <2>2. QED
    BY <1>t, <1>22, <2>1, ReleaseEffect
      DEF DisconnectReleaseBase, PCs, castVars, listVars, OthersKept, WorkTypes, ListTypes
<1>23. ASSUME FlushBegin(w)
      PROVE  OthersKept(w)
  BY <1>t, <1>23 DEF FlushBegin, Goto, castVars, listVars, OthersKept, WorkTypes, ListTypes
<1>24. ASSUME FlushNothing(w)
      PROVE  OthersKept(w)
  BY <1>t, <1>24 DEF FlushNothing, Goto, PopFront, castVars, OthersKept, WorkTypes, ListTypes
<1>25. ASSUME FlushStart(w)
      PROVE  OthersKept(w)
  BY <1>t, <1>25 DEF FlushStart, Goto, castVars, listVars, OthersKept, WorkTypes, ListTypes
<1>26. ASSUME FlushPosted(w)
      PROVE  OthersKept(w)
  BY <1>t, <1>26 DEF FlushPosted, Goto, PopFront, castVars, OthersKept, WorkTypes, ListTypes
<1>27. ASSUME FlushFailed(w)
      PROVE  OthersKept(w)
  <2>1. ctx[w] \in Sessions
    BY Control, <1>27 DEF Control, ControlAt, ContextPCs, Kinds, FlushFailed
  <2>2. QED
    BY <1>t, <1>27, <2>1, ReleaseEffect
      DEF FlushFailed, PCs, castVars, listVars, OthersKept, WorkTypes, ListTypes
<1>28. ASSUME FlushDisconnect(w)
      PROVE  OthersKept(w)
  BY <1>t, <1>28 DEF FlushDisconnect, Goto, PopFront, castVars, OthersKept, WorkTypes, ListTypes
<1>29. ASSUME FlushEnd(w)
      PROVE  OthersKept(w)
  BY <1>t, <1>29 DEF FlushEnd, Goto, castVars, OthersKept, WorkTypes, ListTypes
<1>30. ASSUME ReturnLockOrder(w)
      PROVE  OthersKept(w)
  BY <1>t, <1>30
    DEF ReturnLockOrder, CrashAssert, Goto, castVars, listVars, OthersKept, WorkTypes, ListTypes
<1>31. ASSUME ReturnLock(w)
      PROVE  OthersKept(w)
  BY <1>t, <1>31
    DEF ReturnLock, CrashAssert, Goto, castVars, listVars, OthersKept, WorkTypes, ListTypes
<1>32. ASSUME ReturnReset(w)
      PROVE  OthersKept(w)
  BY <1>t, <1>32 DEF ReturnReset, Goto, castVars, listVars, OthersKept, WorkTypes, ListTypes
<1>33. ASSUME ReturnPushBack(w)
      PROVE  OthersKept(w)
  BY <1>t, <1>33 DEF ReturnPushBack, Goto, castVars, listVars, OthersKept, WorkTypes, ListTypes
<1>34. QED
  BY <1>1, <1>2, <1>3, <1>4, <1>5, <1>6, <1>7, <1>8, <1>9, <1>10, <1>11, <1>12, <1>13, <1>14,
     <1>15, <1>16, <1>17, <1>18, <1>19, <1>20, <1>21, <1>22, <1>23, <1>24, <1>25, <1>26, <1>27,
     <1>28, <1>29, <1>30, <1>31, <1>32, <1>33
    DEF Step, Dequeue

\* The stepping worker's own variables agree with where its step leads, unless the step
\* stops the program.
LEMMA ControlStepOwn ==
  ASSUME TypeOK, Control, NEW w \in Workers, Step(w) \/ Dequeue(w), Running'
  PROVE  ControlAt(w)'
<1> USE NamesDistinct
<1>t. SessionTypes /\ ListTypes /\ WorkTypes
  BY DEF TypeOK
<1>c. ControlAt(w)
  BY DEF Control
<1>1. ASSUME NEW s \in Sessions, NEW k \in Kinds, DequeueCompletion(w, s, k)
      PROVE  ControlAt(w)'
  BY <1>c, <1>t, <1>1
    DEF DequeueCompletion, Goto, listVars, WorkTypes, ControlAt, ContextPCs, ReturnPCs, Kinds
<1>2. ASSUME DequeueTimeout(w)
      PROVE  ControlAt(w)'
  BY <1>c, <1>t, <1>2
    DEF DequeueTimeout, Goto, listVars, WorkTypes, ControlAt, ContextPCs, ReturnPCs, Kinds
<1>3. ASSUME CloseConnection(w)
      PROVE  ControlAt(w)'
  BY <1>c, <1>t, <1>3
    DEF CloseConnection, Goto, listVars, WorkTypes, ControlAt, ContextPCs, ReturnPCs, Kinds
<1>4. ASSUME DeleteContext(w)
      PROVE  ControlAt(w)'
  <2>1. ctx[w] \in Sessions
    BY <1>c, <1>4 DEF ControlAt, ContextPCs, Kinds, DeleteContext
  <2>2. \/ pc'[w] = "return" /\ client'[w] = ctx[w]
        \/ pc'[w] = "flush" /\ client'[w] = client[w]
    BY <1>t, <1>4, <2>1, ReleaseEffect DEF DeleteContext, PCs, Running, SessionTypes
  <2>3. ctx'[w] = None /\ pc[w] = "delete"
    BY <1>t, <1>4 DEF DeleteContext, WorkTypes
  <2>4. QED
    BY <1>c, <2>1, <2>2, <2>3 DEF ControlAt, ContextPCs, Kinds, ReturnPCs
<1>5. ASSUME AcceptConnected(w)
      PROVE  ControlAt(w)'
  BY <1>c, <1>t, <1>5
    DEF AcceptConnected, CrashAssert, Goto, listVars, WorkTypes, ControlAt, ContextPCs,
        ReturnPCs, Kinds, Running
<1>6. ASSUME AcceptSetupDone(w)
      PROVE  ControlAt(w)'
  BY <1>c, <1>t, <1>6
    DEF AcceptSetupDone, Goto, listVars, WorkTypes, ControlAt, ContextPCs, ReturnPCs, Kinds
<1>7. ASSUME AcceptSetupFailed(w)
      PROVE  ControlAt(w)'
  BY <1>c, <1>t, <1>7
    DEF AcceptSetupFailed, Goto, listVars, WorkTypes, ControlAt, ContextPCs, ReturnPCs, Kinds
<1>8. ASSUME AcceptPreRecv(w)
      PROVE  ControlAt(w)'
  BY <1>c, <1>t, <1>8
    DEF AcceptPreRecv, Goto, listVars, WorkTypes, ControlAt, ContextPCs, ReturnPCs, Kinds
<1>9. ASSUME AcceptRegister(w)
      PROVE  ControlAt(w)'
  BY <1>c, <1>t, <1>9
    DEF AcceptRegister, CrashAssert, Goto, listVars, WorkTypes, ControlAt, ContextPCs,
        ReturnPCs, Kinds, Running
<1>10. ASSUME RecvZeroCompleted(w)
      PROVE  ControlAt(w)'
  BY <1>c, <1>t, <1>10
    DEF RecvZeroCompleted, Goto, listVars, WorkTypes, ControlAt, ContextPCs, ReturnPCs, Kinds
<1>11. ASSUME RecvCompleted(w)
      PROVE  ControlAt(w)'
  BY <1>c, <1>t, <1>11
    DEF RecvCompleted, Goto, listVars, WorkTypes, ControlAt, ContextPCs, ReturnPCs, Kinds
<1>12. ASSUME OnReadBadPacket(w)
      PROVE  ControlAt(w)'
  BY <1>c, <1>t, <1>12
    DEF OnReadBadPacket, listVars, workVars, WorkTypes, ControlAt, ContextPCs, ReturnPCs, Kinds
<1>13. ASSUME OnReadChat(w)
      PROVE  ControlAt(w)'
  BY <1>c, <1>t, <1>13
    DEF OnReadChat, Goto, listVars, WorkTypes, ControlAt, ContextPCs, ReturnPCs, Kinds
<1>14. ASSUME OnReadDone(w)
      PROVE  ControlAt(w)'
  BY <1>c, <1>t, <1>14
    DEF OnReadDone, Goto, listVars, WorkTypes, ControlAt, ContextPCs, ReturnPCs, Kinds
<1>15. ASSUME BroadcastLock(w)
      PROVE  ControlAt(w)'
  BY <1>c, <1>t, <1>15
    DEF BroadcastLock, Goto, listVars, WorkTypes, ControlAt, ContextPCs, ReturnPCs, Kinds
<1>16. ASSUME BroadcastUnlock(w)
      PROVE  ControlAt(w)'
  BY <1>c, <1>t, <1>16
    DEF BroadcastUnlock, Goto, listVars, WorkTypes, ControlAt, ContextPCs, ReturnPCs, Kinds
<1>17. ASSUME NEW t \in Sessions, BroadcastSend(w, t)
      PROVE  ControlAt(w)'
  BY <1>c, <1>t, <1>17
    DEF BroadcastSend, workVars, WorkTypes, ControlAt, ContextPCs, ReturnPCs, Kinds, ListTypes
<1>18. ASSUME NEW t \in Sessions, BroadcastAbort(w, t)
      PROVE  ControlAt(w)'
  BY <1>c, <1>t, <1>18
    DEF BroadcastAbort, listVars, workVars, WorkTypes, ControlAt, ContextPCs, ReturnPCs, Kinds
<1>19. ASSUME NEW n \in 1..SendCap, SendCompleted(w, n)
      PROVE  ControlAt(w)'
  BY <1>c, <1>t, <1>19
    DEF SendCompleted, Goto, listVars, WorkTypes, ControlAt, ContextPCs, ReturnPCs, Kinds
<1>20. ASSUME SendFailed(w)
      PROVE  ControlAt(w)'
  BY <1>c, <1>t, <1>20
    DEF SendFailed, Goto, listVars, WorkTypes, ControlAt, ContextPCs, ReturnPCs, Kinds
<1>21. ASSUME DisconnectUnregister(w)
      PROVE  ControlAt(w)'
  BY <1>c, <1>t, <1>21
    DEF DisconnectUnregister, CrashAssert, Goto, listVars, WorkTypes, ControlAt, ContextPCs,
        ReturnPCs, Kinds, Running
<1>22. ASSUME DisconnectReleaseBase(w)
      PROVE  ControlAt(w)'
  <2>1. ctx[w] \in Sessions
    BY <1>c, <1>22 DEF ControlAt, ContextPCs, Kinds, DisconnectReleaseBase
  <2>2. QED
    BY <1>t, <1>c, <1>22, <2>1, ReleaseEffect
      DEF DisconnectReleaseBase, PCs, Running, ControlAt, ContextPCs, Kinds, ReturnPCs,
          WorkTypes, SessionTypes, listVars
<1>23. ASSUME FlushBegin(w)
      PROVE  ControlAt(w)'
  BY <1>c, <1>t, <1>23
    DEF FlushBegin, Goto, listVars, WorkTypes, ControlAt, ContextPCs, ReturnPCs, Kinds
<1>24. ASSUME FlushNothing(w)
      PROVE  ControlAt(w)'
  BY <1>c, <1>t, <1>24
    DEF FlushNothing, Goto, WorkTypes, ControlAt, ContextPCs, ReturnPCs, Kinds
<1>25. ASSUME FlushStart(w)
      PROVE  ControlAt(w)'
  BY <1>c, <1>t, <1>25, FrontIsSession
    DEF FlushStart, Goto, listVars, WorkTypes, ControlAt, ContextPCs, ReturnPCs, Kinds,
        ListTypes
<1>26. ASSUME FlushPosted(w)
      PROVE  ControlAt(w)'
  BY <1>c, <1>t, <1>26 DEF FlushPosted, Goto, WorkTypes, ControlAt, ContextPCs, ReturnPCs, Kinds
<1>27. ASSUME FlushFailed(w)
      PROVE  ControlAt(w)'
  <2>1. ctx[w] \in Sessions
    BY <1>c, <1>27 DEF ControlAt, ContextPCs, Kinds, FlushFailed
  <2>2. QED
    BY <1>t, <1>c, <1>27, <2>1, ReleaseEffect
      DEF FlushFailed, PCs, Running, ControlAt, ContextPCs, Kinds, ReturnPCs, WorkTypes,
          SessionTypes, listVars
<1>28. ASSUME FlushDisconnect(w)
      PROVE  ControlAt(w)'
  BY <1>c, <1>t, <1>28
    DEF FlushDisconnect, Goto, WorkTypes, ControlAt, ContextPCs, ReturnPCs, Kinds
<1>29. ASSUME FlushEnd(w)
      PROVE  ControlAt(w)'
  BY <1>c, <1>t, <1>29 DEF FlushEnd, Goto, WorkTypes, ControlAt, ContextPCs, ReturnPCs, Kinds
<1>30. ASSUME ReturnLockOrder(w)
      PROVE  ControlAt(w)'
  BY <1>c, <1>t, <1>30
    DEF ReturnLockOrder, CrashAssert, Goto, listVars, WorkTypes, ControlAt, ContextPCs,
        ReturnPCs, Kinds, Running
<1>31. ASSUME ReturnLock(w)
      PROVE  ControlAt(w)'
  BY <1>c, <1>t, <1>31
    DEF ReturnLock, CrashAssert, Goto, listVars, WorkTypes, ControlAt, ContextPCs, ReturnPCs,
        Kinds, Running
<1>32. ASSUME ReturnReset(w)
      PROVE  ControlAt(w)'
  BY <1>c, <1>t, <1>32
    DEF ReturnReset, Goto, listVars, WorkTypes, ControlAt, ContextPCs, ReturnPCs, Kinds
<1>33. ASSUME ReturnPushBack(w)
      PROVE  ControlAt(w)'
  BY <1>c, <1>t, <1>33
    DEF ReturnPushBack, Goto, listVars, WorkTypes, ControlAt, ContextPCs, ReturnPCs, Kinds
<1>34. QED
  BY <1>1, <1>2, <1>3, <1>4, <1>5, <1>6, <1>7, <1>8, <1>9, <1>10, <1>11, <1>12, <1>13, <1>14,
     <1>15, <1>16, <1>17, <1>18, <1>19, <1>20, <1>21, <1>22, <1>23, <1>24, <1>25, <1>26, <1>27,
     <1>28, <1>29, <1>30, <1>31, <1>32, <1>33
    DEF Step, Dequeue

LEMMA ControlStep ==
  ASSUME TypeOK, Control, Next, Running'
  PROVE  Control'
<1>1. CASE MainThread
  <2>1. UNCHANGED <<workVars, listVars>>
    BY <1>1 DEF MainThread, AcceptClientSessions, IssueSession, StopIssuing
  <2>2. QED
    BY <2>1 DEF Control, ControlAt, workVars, listVars
<1>2. ASSUME NEW w \in Workers, Step(w) \/ Dequeue(w)
      PROVE  Control'
  <2>1. OthersKept(w) /\ ControlAt(w)'
    BY <1>2, StepIsLocal, ControlStepOwn
  <2>2. QED
    BY <2>1 DEF OthersKept, Control, ControlAt
<1>3. CASE Halted
  BY <1>3 DEF Halted, vars, workVars, listVars, Control, ControlAt
<1>4. QED
  BY <1>1, <1>2, <1>3 DEF Next

\* The two counters and the free list stay in step.
LEMMA PoolStep ==
  ASSUME TypeOK, PoolCount, Control, Next
  PROVE  PoolCount'
<1> USE SessionsFinite, FS_CardinalityType
<1>t. PoolTypes /\ Cardinality(Sessions) \in Nat
  BY DEF TypeOK
<1>1. CASE IssueSession
  <2>1. Len(freeList') = Len(freeList) - 1
    BY <1>t, <1>1, FreeListNonempty DEF IssueSession
  <2>2. issueCount' = issueCount + 1 /\ returnCount' = returnCount
    BY <1>1 DEF IssueSession
  <2>3. QED
    BY <1>t, <2>1, <2>2 DEF PoolCount, PoolTypes
<1>2. ASSUME NEW w \in Workers, ReturnPushBack(w)
      PROVE  PoolCount'
  <2>1. Len(freeList') = Len(freeList) + 1
    BY <1>t, <1>2 DEF ReturnPushBack, PoolTypes
  <2>2. QED
    BY <1>t, <1>2, <2>1 DEF ReturnPushBack, IncReturnCount, PoolCount, PoolTypes
<1>3. CASE UNCHANGED <<freeList, issueCount, returnCount>>
  BY <1>3 DEF PoolCount
<1>4. QED
  <2>1. ASSUME NEW w \in Workers, Step(w), ~ReturnPushBack(w)
        PROVE  UNCHANGED <<freeList, issueCount, returnCount>>
    BY <2>1
      DEF Step, DequeueTimeout, CloseConnection, DeleteContext, AcceptConnected,
          AcceptSetupDone, AcceptSetupFailed, AcceptPreRecv, AcceptRegister, RecvZeroCompleted,
          RecvCompleted, OnReadBadPacket, OnReadChat, OnReadDone, BroadcastLock, BroadcastUnlock,
          BroadcastSend, BroadcastAbort, SendCompleted, SendFailed, DisconnectUnregister,
          DisconnectReleaseBase, FlushBegin, FlushNothing, FlushStart, FlushPosted, FlushFailed,
          FlushDisconnect, FlushEnd, ReturnLockOrder, ReturnLock, ReturnReset, poolVars
  <2>2. QED
    BY <1>1, <1>2, <1>3, <2>1 DEF Next, MainThread, AcceptClientSessions, StopIssuing,
       Dequeue, DequeueCompletion, Halted, vars, poolVars


-----------------------------------------------------------------------------
(* The part of the invariant that types rest on *)

TypeInv == TypeOK /\ PoolCount /\ (Running => Control)

LEMMA TypeInvInit ==
  ASSUME Init
  PROVE  TypeInv
<1> USE SessionsFinite, FS_CardinalityType, NamesDistinct, BoundsNatural
<1>1. Cardinality(Sessions) \in Nat
  OBVIOUS
<1>2. freeList \in Seq(Sessions) /\ Len(freeList) = Cardinality(Sessions)
  BY <1>1 DEF Init
<1>3. SessionTypes /\ SendTypes
  BY DEF Init, SessionTypes, SendTypes, Kinds
<1>4. PoolTypes /\ CastTypes /\ halt \in Halts
  BY <1>2 DEF Init, PoolTypes, CastTypes, Halts
<1>5. ListTypes /\ WorkTypes
  BY DEF Init, ListTypes, WorkTypes, PCs
<1>6. PoolCount
  BY <1>1, <1>2 DEF Init, PoolCount
<1>7. Control
  BY DEF Init, Control, ControlAt, ContextPCs, ReturnPCs, Kinds
<1>8. QED
  BY <1>3, <1>4, <1>5, <1>6, <1>7 DEF TypeInv, TypeOK

LEMMA TypeInvStep ==
  ASSUME TypeInv, [Next]_vars
  PROVE  TypeInv'
<1>1. CASE Running /\ Next
  BY <1>1, TypeStep, PoolStep, ControlStep DEF TypeInv
<1>2. CASE UNCHANGED vars
  BY <1>2, TypesUnchanged
  DEF TypeInv, TypeOK, PoolCount, Running, Control, ControlAt, vars, poolVars, workVars, listVars
<1>3. CASE ~Running /\ Next
  <2>1. UNCHANGED vars
    BY <1>3 DEF Next, MainThread, Step, Dequeue, Halted
  <2>2. QED
    BY <1>2, <2>1
<1>4. QED
  BY <1>1, <1>2, <1>3

\* Every variable keeps its type in every run of the program: sessions, send buffers,
\* the free list, the broadcast set and the workers' send lists only ever hold what the
\* code's declarations say, whatever the number of sessions and workers.
THEOREM TypeCorrect == Spec => []TypeOK
<1>1. Init => TypeInv
  BY TypeInvInit
<1>2. TypeInv /\ [Next]_vars => TypeInv'
  BY TypeInvStep
<1>3. TypeInv => TypeOK
  BY DEF TypeInv
<1>4. QED
  BY <1>1, <1>2, <1>3, PTL DEF Spec

-----------------------------------------------------------------------------
(* The stages of a session *)

AcceptPCs     == {"accept", "setup", "acceptRecv", "register"}
DisconnectPCs == {"disconnect", "relBase"}
StagePCs      == AcceptPCs \cup DisconnectPCs \cup {"flushPost"}

\* Worker w handles a context of s at one of P.
At(w, s, P) == ctx[w] = s /\ pc[w] \in P

Free(s) == s \in InRange(freeList)

\* A session on the free list is as SessionReset left it and is referenced by nothing.
FreeStage(s) ==
  Free(s) => /\ ~baseRef[s] /\ ~connected[s] /\ refCount[s] = 0
             /\ \A k \in Kinds : io[s][k] = 0
             /\ \A w \in Workers : ctx[w] # s /\ client[w] # s
             /\ sock[s] = "fresh" /\ sendData[s] = 0 /\ sendLock[s] = None

\* From issuing to the registration in the broadcast set.
AcceptStage(s) ==
  /\ io[s]["accept"] \in {0, 1}
  /\ io[s]["accept"] = 1 =>
       /\ baseRef[s] /\ ~connected[s] /\ sock[s] = "fresh" /\ s \notin registered
       /\ \A w \in Workers : ~At(w, s, AcceptPCs)
  /\ \A w \in Workers : At(w, s, AcceptPCs) =>
       /\ baseRef[s] /\ s \notin registered
       /\ pc[w] = "accept" => ~connected[s]
       /\ pc[w] \in {"accept", "setup"} => sock[s] = "accepted"
       /\ \A v \in Workers : At(v, s, AcceptPCs) => v = w

\* mConnected, the broadcast set and the socket all belong to an issued session.
ConnectedStage(s) ==
  /\ connected[s] => baseRef[s]
  /\ s \in registered => baseRef[s]
  /\ ~baseRef[s] /\ ~Free(s) => sock[s] = "closed"

\* A DisconnectEx is outstanding or its completion is being handled: once per issue.
DisconnectStage(s) ==
  /\ io[s]["disconnect"] \in {0, 1}
  /\ io[s]["disconnect"] = 1 =>
       /\ baseRef[s] /\ ~connected[s] /\ io[s]["accept"] = 0
       /\ \A w \in Workers : ~At(w, s, {"accept"} \cup DisconnectPCs)
  /\ \A w \in Workers : At(w, s, DisconnectPCs) =>
       /\ baseRef[s] /\ ~connected[s] /\ io[s]["accept"] = 0 /\ sock[s] = "closed"
       /\ \A v \in Workers : At(v, s, {"accept"} \cup DisconnectPCs) => v = w
       /\ pc[w] = "relBase" =>
            s \notin registered /\ \A v \in Workers : ~At(v, s, AcceptPCs)

\* A worker is in ReturnClientSession for s: the only reference there can still be is that of
\* a FlushSend which found the session in its list, and that one cannot post its send.
ReturnStage(s) ==
  Returning(s) =>
    /\ ~baseRef[s] /\ ~connected[s] /\ ~Free(s)
    /\ \A k \in Kinds : io[s][k] = 0
    /\ \A w \in Workers : ctx[w] = s => pc[w] = "flushPost"
    /\ refCount[s] \in {0, 1}
    /\ refCount[s] = 1 => \E w \in Workers : ctx[w] = s
    /\ \A w, v \in Workers :
         client[w] = s /\ client[v] = s /\ sendLock[s] \notin {w, v} => w = v

\* The reference count of a session that is not being returned is exact; it is zero only on
\* the free list.
CountStage(s) ==
  ~Returning(s) =>
    /\ refCount[s] = References(s)
    /\ References(s) = 0 => Free(s)

Stages(s) ==
  /\ FreeStage(s) /\ AcceptStage(s) /\ ConnectedStage(s) /\ DisconnectStage(s)
  /\ ReturnStage(s) /\ CountStage(s)

\* mSendBufferLock is held only inside FlushSend, for the session at the front.
SendLocks ==
  \A w \in Workers :
    /\ pc[w] = "flushPost" => sendLock[ctx[w]] = w /\ ctx[w] = Front(w)
    /\ \A s \in Sessions : sendLock[s] = w =>
         /\ pc[w] \in {"flushPost", "flushDisc", "return"}
         /\ sendList[w] # <<>> /\ s = Front(w)

\* What of the workers concerns session s.
SameWorkers(s) ==
  \A w \in Workers :
    /\ ctx'[w] = s <=> ctx[w] = s
    /\ client'[w] = s <=> client[w] = s
SameStagePCs(s) ==
  \A w \in Workers : ctx[w] = s /\ {pc[w], pc'[w]} \cap StagePCs # {} => pc'[w] = pc[w]

SameSession(s) ==
  /\ connected'[s] = connected[s] /\ refCount'[s] = refCount[s] /\ sock'[s] = sock[s]
  /\ \A k \in Kinds : io'[s][k] = io[s][k]
  /\ baseRef'[s] = baseRef[s] /\ sendLock'[s] = sendLock[s]
  /\ Free(s)' = Free(s) /\ (s \in registered)' = (s \in registered)

\* References depends on the issuing reference, the kernel's operations and the holders only.
LEMMA ReferencesSame ==
  ASSUME NEW s, \A w \in Workers : ctx'[w] = s <=> ctx[w] = s,
         \A k \in Kinds : io'[s][k] = io[s][k], baseRef'[s] = baseRef[s]
  PROVE  References(s)' = References(s)
<1>1. Holders(s)' = Holders(s)
  BY DEF Holders
<1>2. QED
  BY <1>1 DEF References, Outstanding, Kinds

\* A step that leaves all this alone leaves the stage of s alone.
LEMMA StagesKept ==
  ASSUME NEW s \in Sessions, Stages(s), SameSession(s), SameWorkers(s), SameStagePCs(s),
         Free(s) => sendData'[s] = sendData[s]
  PROVE  Stages(s)'
<1>1. \A w \in Workers, P \in SUBSET StagePCs : At(w, s, P)' <=> At(w, s, P)
  BY DEF At, SameWorkers, SameStagePCs
<1>2. AcceptPCs \in SUBSET StagePCs /\ DisconnectPCs \in SUBSET StagePCs
      /\ {"accept"} \cup DisconnectPCs \in SUBSET StagePCs
  BY DEF AcceptPCs, DisconnectPCs, StagePCs
<1>3. "accept" \in Kinds /\ "disconnect" \in Kinds
  BY DEF Kinds
<1>4. References(s)' = References(s)
  BY ReferencesSame DEF SameSession, SameWorkers
<1>5. Returning(s)' <=> Returning(s)
  BY DEF Returning, SameWorkers
<1>6. FreeStage(s)'
  BY DEF Stages, FreeStage, SameSession, SameWorkers
<1>7. \A w \in Workers : At(w, s, AcceptPCs) \/ At(w, s, DisconnectPCs) => pc'[w] = pc[w]
  BY <1>2 DEF At, SameStagePCs
<1>8. AcceptStage(s)'
  BY <1>1, <1>2, <1>3, <1>7 DEF Stages, AcceptStage, SameSession
<1>9. ConnectedStage(s)'
  BY DEF Stages, ConnectedStage, SameSession
<1>10. DisconnectStage(s)'
  BY <1>1, <1>2, <1>3, <1>7 DEF Stages, DisconnectStage, SameSession
<1>11. \A w \in Workers : ctx[w] = s => (pc'[w] = "flushPost" <=> pc[w] = "flushPost")
  BY DEF SameStagePCs, StagePCs
<1>12. ReturnStage(s)'
  BY <1>5, <1>11 DEF Stages, ReturnStage, SameSession, SameWorkers
<1>13. CountStage(s)'
  BY <1>4, <1>5 DEF Stages, CountStage, SameSession
<1>14. QED
  BY <1>6, <1>8, <1>9, <1>10, <1>12, <1>13 DEF Stages

\* The holders of a session can be counted.
LEMMA FiniteHolders ==
  ASSUME NEW s
  PROVE  IsFiniteSet(Holders(s)) /\ Cardinality(Holders(s)) \in Nat
<1>1. Holders(s) \subseteq Workers
  BY DEF Holders
<1>2. QED
  BY <1>1, WorkersFinite, FS_Subset, FS_CardinalityType

\* Nothing is outstanding exactly when no kind of operation is.
LEMMA NoOperation ==
  ASSUME SessionTypes, NEW s \in Sessions
  PROVE  /\ Outstanding(s) \in Nat
         /\ \A k \in Kinds : io[s][k] \in Nat /\ Outstanding(s) >= io[s][k]
         /\ Outstanding(s) = 0 <=> \A k \in Kinds : io[s][k] = 0
<1>1. \A k \in Kinds : io[s][k] \in Nat
  BY DEF SessionTypes
<1>2. /\ io[s]["accept"] \in Nat /\ io[s]["recvZero"] \in Nat /\ io[s]["recv"] \in Nat
      /\ io[s]["send"] \in Nat /\ io[s]["disconnect"] \in Nat
  BY <1>1 DEF Kinds
<1>3. \A k \in Kinds : k = "accept" \/ k = "recvZero" \/ k = "recv" \/ k = "send"
                         \/ k = "disconnect"
  BY DEF Kinds
<1>4. Outstanding(s) \in Nat /\ \A k \in Kinds : Outstanding(s) >= io[s][k]
  BY <1>2, <1>3 DEF Outstanding
<1>5. ASSUME Outstanding(s) = 0
      PROVE  \A k \in Kinds : io[s][k] = 0
  BY <1>1, <1>4, <1>5
<1>6. ASSUME \A k \in Kinds : io[s][k] = 0
      PROVE  Outstanding(s) = 0
  BY <1>6 DEF Outstanding, Kinds
<1>7. QED
  BY <1>1, <1>4, <1>5, <1>6

\* Nothing refers to a session exactly when its count of references is zero.
LEMMA NoReferences ==
  ASSUME SessionTypes, NEW s \in Sessions
  PROVE  /\ References(s) \in Nat /\ Outstanding(s) \in Nat
         /\ baseRef[s] => References(s) >= 1
         /\ \A w \in Workers : ctx[w] = s =>
              References(s) >= 1 /\ (baseRef[s] => References(s) >= 2)
         /\ \A k \in Kinds : References(s) >= io[s][k]
         /\ References(s) = 0 <=> /\ ~baseRef[s]
                                  /\ \A k \in Kinds : io[s][k] = 0
                                  /\ \A w \in Workers : ctx[w] # s
<1>1. /\ \A k \in Kinds : io[s][k] \in Nat
      /\ baseRef[s] \in BOOLEAN
  BY DEF SessionTypes
<1>2. /\ Outstanding(s) \in Nat
      /\ \A k \in Kinds : Outstanding(s) >= io[s][k]
      /\ Outstanding(s) = 0 <=> \A k \in Kinds : io[s][k] = 0
  BY NoOperation
<1>3. Cardinality(Holders(s)) \in Nat
  BY FiniteHolders
<1>4. Cardinality(Holders(s)) = 0 <=> \A w \in Workers : ctx[w] # s
  BY FiniteHolders, FS_EmptySet DEF Holders
<1>5. References(s) = (IF baseRef[s] THEN 1 ELSE 0) + Outstanding(s) + Cardinality(Holders(s))
  BY DEF References
<1>6. \A w \in Workers : ctx[w] = s => Cardinality(Holders(s)) >= 1
  BY <1>3, <1>4
<1>7. \A k \in Kinds : References(s) >= io[s][k]
  <2>1. SUFFICES ASSUME NEW k \in Kinds PROVE References(s) >= io[s][k]
    OBVIOUS
  <2>2. Outstanding(s) >= io[s][k] /\ io[s][k] \in Nat
    BY <1>1, <1>2
  <2>3. QED
    BY <1>1, <1>2, <1>3, <1>5, <2>2
<1>8. baseRef[s] => References(s) >= 1
  BY <1>2, <1>3, <1>5
<1>9. \A w \in Workers : ctx[w] = s =>
        References(s) >= 1 /\ (baseRef[s] => References(s) >= 2)
  BY <1>2, <1>3, <1>5, <1>6
<1>10. /\ References(s) \in Nat
       /\ References(s) = 0 <=>
            ~baseRef[s] /\ Outstanding(s) = 0 /\ Cardinality(Holders(s)) = 0
  BY <1>1, <1>2, <1>3, <1>5
<1>11. References(s) = 0 <=> /\ ~baseRef[s]
                             /\ \A k \in Kinds : io[s][k] = 0
                             /\ \A w \in Workers : ctx[w] # s
  BY <1>2, <1>4, <1>10
<1>12. QED
  BY <1>1, <1>2, <1>7, <1>8, <1>9, <1>10, <1>11

\* d more operations of kind k in the kernel.
LEMMA OperationCounted ==
  ASSUME SessionTypes, NEW s \in Sessions, NEW k \in Kinds, NEW d \in {-1, 0, 1},
         \A j \in Kinds : io'[s][j] = IF j = k THEN io[s][k] + d ELSE io[s][j]
  PROVE  Outstanding(s)' = Outstanding(s) + d
<1>1. \A j \in Kinds : io[s][j] \in Nat
  BY DEF SessionTypes
<1>2. QED
  BY <1>1 DEF Outstanding, Kinds

\* w takes, or drops, a context of s.
LEMMA HolderAdded ==
  ASSUME NEW s, NEW w \in Workers, ctx[w] # s, ctx'[w] = s,
         \A v \in Workers \ {w} : ctx'[v] = s <=> ctx[v] = s
  PROVE  Cardinality(Holders(s)') = Cardinality(Holders(s)) + 1
<1>1. Holders(s)' = Holders(s) \cup {w} /\ w \notin Holders(s)
  BY DEF Holders
<1>2. QED
  BY <1>1, FiniteHolders, FS_AddElement

\* A worker that gives up its context of s is one holder less.
LEMMA HolderDropped ==
  ASSUME NEW s, NEW w \in Workers, ctx[w] = s, ctx'[w] # s,
         \A v \in Workers \ {w} : ctx'[v] = s <=> ctx[v] = s
  PROVE  Cardinality(Holders(s)') = Cardinality(Holders(s)) - 1
<1>1. Holders(s)' = Holders(s) \ {w} /\ w \in Holders(s)
  BY DEF Holders
<1>2. QED
  BY <1>1, FiniteHolders, FS_RemoveElement

\* The holders of s are the same when nobody takes or drops a context of s.
LEMMA HoldersKept ==
  ASSUME NEW s, \A w \in Workers : ctx'[w] = s <=> ctx[w] = s
  PROVE  Holders(s)' = Holders(s)
  BY DEF Holders

-----------------------------------------------------------------------------
(* DisconnectRequest and the posting of receives *)

\* No worker enters a stage of s, and only from the accept's set-up one may leave it.
StagePCsLeft(s) ==
  \A w \in Workers : ctx[w] = s =>
    \/ pc'[w] = pc[w]
    \/ {pc[w], pc'[w]} \cap StagePCs = {}
    \/ pc[w] = "setup" /\ pc'[w] \notin StagePCs

\* ... so fewer workers are at the stages of s, none elsewhere than before.
LEMMA StagePCsLeftEffect ==
  ASSUME NEW s, SameWorkers(s), StagePCsLeft(s)
  PROVE  \A w \in Workers :
           /\ \A P \in SUBSET StagePCs : At(w, s, P)' => At(w, s, P) /\ pc'[w] = pc[w]
           /\ At(w, s, DisconnectPCs)' <=> At(w, s, DisconnectPCs)
           /\ ctx[w] = s => (pc'[w] = "flushPost" <=> pc[w] = "flushPost")
  BY DEF SameWorkers, StagePCsLeft, At, StagePCs, AcceptPCs, DisconnectPCs

\* What DisconnectRequest(s) changes is in keeping with every stage of s.
LEMMA StagesDisconnect ==
  ASSUME SessionTypes, NEW s \in Sessions, Stages(s), DisconnectRequest(s),
         SameWorkers(s), StagePCsLeft(s), UNCHANGED <<sock, baseRef, registered, freeList>>,
         \/ sendLock'[s] = sendLock[s]
         \/ sendLock[s] \in Workers /\ client[sendLock[s]] # s,
         Free(s) => sendData'[s] = sendData[s] /\ sendLock'[s] = sendLock[s]
  PROVE  Stages(s)'
<1>1. PICK d \in {0, 1} :
        /\ d = 1 => connected[s]
        /\ refCount'[s] = refCount[s] + d
        /\ \A j \in Kinds : io'[s][j] = IF j = "disconnect" THEN io[s][j] + d ELSE io[s][j]
  BY DisconnectEffect
<1>2. ~connected'[s]
  BY DisconnectEffect
<1>3. "accept" \in Kinds /\ "disconnect" \in Kinds
  BY DEF Kinds
<1>4. /\ \A w \in Workers :
           /\ At(w, s, AcceptPCs)' => At(w, s, AcceptPCs) /\ pc'[w] = pc[w]
           /\ At(w, s, {"accept"} \cup DisconnectPCs)' =>
                At(w, s, {"accept"} \cup DisconnectPCs) /\ pc'[w] = pc[w]
           /\ At(w, s, DisconnectPCs)' => At(w, s, DisconnectPCs) /\ pc'[w] = pc[w]
           /\ ctx[w] = s => (pc'[w] = "flushPost" <=> pc[w] = "flushPost")
  <2>1. AcceptPCs \in SUBSET StagePCs /\ DisconnectPCs \in SUBSET StagePCs
        /\ {"accept"} \cup DisconnectPCs \in SUBSET StagePCs
    BY DEF AcceptPCs, DisconnectPCs, StagePCs
  <2>2. QED
    BY <2>1, StagePCsLeftEffect
<1>5. Returning(s)' <=> Returning(s)
  BY DEF Returning, SameWorkers
<1>6. Free(s)' <=> Free(s)
  BY DEF Free, InRange
<1>7. connected[s] => /\ ~Free(s) /\ ~Returning(s) /\ baseRef[s] /\ io[s]["accept"] = 0
                      /\ io[s]["disconnect"] = 0
                      /\ \A w \in Workers : ~At(w, s, {"accept"} \cup DisconnectPCs)
  BY DEF Stages, FreeStage, ReturnStage, AcceptStage, ConnectedStage, DisconnectStage, At,
         AcceptPCs, DisconnectPCs
<1>8. FreeStage(s)'
  BY <1>1, <1>2, <1>6, <1>7 DEF Stages, FreeStage, SameWorkers
<1>9. AcceptStage(s)'
  BY <1>1, <1>2, <1>3, <1>4, <1>7 DEF Stages, AcceptStage
<1>10. ConnectedStage(s)'
  BY <1>2, <1>6 DEF Stages, ConnectedStage
<1>11. DisconnectStage(s)'
  <2>1. io'[s]["accept"] = io[s]["accept"] /\ io'[s]["disconnect"] = io[s]["disconnect"] + d
    BY <1>1, <1>3
  <2>2. \A w \in Workers : At(w, s, DisconnectPCs)' =>
          /\ baseRef'[s] /\ ~connected'[s] /\ io'[s]["accept"] = 0 /\ sock'[s] = "closed"
          /\ \A v \in Workers : At(v, s, {"accept"} \cup DisconnectPCs)' => v = w
          /\ pc'[w] = "relBase" =>
               s \notin registered' /\ \A v \in Workers : ~At(v, s, AcceptPCs)'
    BY <1>2, <1>4, <2>1 DEF Stages, DisconnectStage
  <2>3. CASE d = 0
    <3>1. io'[s]["disconnect"] = io[s]["disconnect"]
      BY <1>3, <2>1, <2>3 DEF SessionTypes
    <3>2. QED
      BY <1>2, <1>4, <2>1, <2>2, <3>1 DEF Stages, DisconnectStage
  <2>4. CASE d = 1
    BY <1>1, <1>2, <1>4, <1>7, <2>1, <2>2, <2>4 DEF DisconnectStage
  <2>5. QED
    BY <2>3, <2>4
<1>12. ReturnStage(s)'
  <2>1. SUFFICES ASSUME Returning(s)
                 PROVE  ReturnStage(s)'
    BY <1>5 DEF ReturnStage
  <2>2. d = 0 /\ refCount'[s] = refCount[s]
    BY <1>1, <1>7, <2>1 DEF SessionTypes
  <2>3. \A k \in Kinds : io'[s][k] = 0
    BY <1>1, <2>1, <2>2 DEF Stages, ReturnStage
  <2>4. \A v, w \in Workers : client'[v] = s /\ client'[w] = s /\ sendLock'[s] \notin {v, w} => v = w
    BY <2>1 DEF Stages, ReturnStage, SameWorkers
  <2>5. QED
    BY <1>2, <1>4, <1>6, <2>1, <2>2, <2>3, <2>4 DEF Stages, ReturnStage, SameWorkers
<1>13. CountStage(s)'
  <2>1. References(s)' = References(s) + d
    <3>1. Holders(s)' = Holders(s)
      BY HoldersKept DEF SameWorkers
    <3>2. Outstanding(s)' = Outstanding(s) + d
      BY <1>1, <1>3, OperationCounted
    <3>3. Outstanding(s) \in Nat /\ Cardinality(Holders(s)) \in Nat
      BY NoReferences, FiniteHolders
    <3>4. QED
      BY <3>1, <3>2, <3>3 DEF References
  <2>2. References(s) \in Nat
    BY NoReferences
  <2>3. QED
    BY <1>1, <1>5, <1>6, <2>1, <2>2 DEF Stages, CountStage
<1>14. QED
  BY <1>8, <1>9, <1>10, <1>11, <1>12, <1>13 DEF Stages

\* While the program runs: who holds a send lock, and the stage of every session.
StageInv == Running => SendLocks /\ \A s \in Sessions : Stages(s)

\* A session is left alone by a step that is about session s.
Elsewhere(s) ==
  \A t \in Sessions \ {s} :
    SameSession(t) /\ SameWorkers(t) /\ SameStagePCs(t) /\ sendData'[t] = sendData[t]

\* A step about session s that keeps the stage of s keeps every stage.
LEMMA StagesElsewhere ==
  ASSUME NEW s \in Sessions, \A t \in Sessions : Stages(t), Elsewhere(s), Stages(s)'
  PROVE  \A t \in Sessions : Stages(t)'
  BY StagesKept DEF Elsewhere

\* A session with something outstanding is neither free nor being returned.
LEMMA Outstands ==
  ASSUME NEW s \in Sessions, NEW k \in Kinds, io[s][k] > 0, Stages(s), SessionTypes
  PROVE  ~Free(s) /\ ~Returning(s)
  BY DEF Stages, FreeStage, ReturnStage, SessionTypes

\* ... nor is one whose context a worker handles, but for FlushSend.
LEMMA InHand ==
  ASSUME NEW s \in Sessions, NEW w \in Workers, ctx[w] = s, Stages(s)
  PROVE  ~Free(s) /\ (pc[w] # "flushPost" => ~Returning(s))
  BY DEF Stages, FreeStage, ReturnStage

\* The completion taken from the port: what the kernel held a worker now handles.
LEMMA StagesDequeue ==
  ASSUME TypeInv, StageInv, Running, NEW w \in Workers, NEW s \in Sessions, NEW k \in Kinds,
         DequeueCompletion(w, s, k)
  PROVE  Stages(s)'
<1>t. SessionTypes /\ WorkTypes /\ Control /\ ctx[w] = None /\ s # None
  BY NamesDistinct DEF TypeInv, TypeOK, DequeueCompletion, Control, ControlAt, ContextPCs, ReturnPCs, Kinds
<1>s. Stages(s)
  BY DEF StageInv
<1>1. /\ \A j \in Kinds : io'[s][j] = IF j = k THEN io[s][k] - 1 ELSE io[s][j]
      /\ io[s][k] > 0 /\ \A j \in Kinds : io[s][j] \in Nat
  BY <1>t DEF DequeueCompletion, SessionTypes
<1>2. /\ sock'[s] = IF k = "accept" THEN "accepted"
                    ELSE IF k = "disconnect" THEN "closed" ELSE sock[s]
      /\ k = "disconnect" => sock[s] = "open"
  BY <1>t DEF DequeueCompletion, SessionTypes
<1>3. /\ ctx'[w] = s /\ pc'[w] = k
      /\ \A v \in Workers \ {w} : ctx'[v] = ctx[v] /\ pc'[v] = pc[v]
      /\ UNCHANGED <<connected, refCount, baseRef, sendLock, sendData, freeList, registered, client>>
  BY <1>t DEF DequeueCompletion, Goto, WorkTypes, sendVars, poolVars, castVars
<1>4. ~Free(s) /\ ~Returning(s)
  BY <1>t, <1>s, <1>1, Outstands
<1>5. ~Free(s)' /\ ~Returning(s)'
  BY <1>3, <1>4 DEF Free, InRange, Returning
<1>6. \A P : \A v \in Workers \ {w} : At(v, s, P)' <=> At(v, s, P)
  BY <1>3 DEF At
<1>7. \A P : ~At(w, s, P) /\ (At(w, s, P)' <=> k \in P)
  BY <1>t, <1>3 DEF At
<1>8. "accept" \in Kinds /\ "disconnect" \in Kinds
  BY DEF Kinds
<1>9. k \in AcceptPCs <=> k = "accept"
  BY DEF Kinds, AcceptPCs
<1>10. k \in DisconnectPCs <=> k = "disconnect"
  BY DEF Kinds, DisconnectPCs
<1>11. AcceptStage(s)'
  <2>1. CASE k = "accept"
    <3>1. io[s]["accept"] = 1 /\ io'[s]["accept"] = 0
      BY <1>s, <1>1, <1>8, <2>1 DEF Stages, AcceptStage
    <3>2. QED
      BY <1>s, <1>2, <1>3, <1>6, <1>7, <2>1, <3>1 DEF Stages, AcceptStage
  <2>2. CASE k # "accept"
    <3>1. io'[s]["accept"] = io[s]["accept"]
      BY <1>1, <1>8, <2>2
    <3>2. k = "disconnect" => io[s]["accept"] = 0 /\ sock[s] = "open"
      BY <1>s, <1>1, <1>2 DEF Stages, DisconnectStage
    <3>3. \A v \in Workers : At(v, s, AcceptPCs)' <=> v # w /\ At(v, s, AcceptPCs)
      BY <1>6, <1>7, <1>9, <2>2
    <3>4. QED
      BY <1>s, <1>2, <1>3, <2>2, <3>1, <3>2, <3>3 DEF Stages, AcceptStage
  <2>3. QED
    BY <2>1, <2>2
<1>12. ConnectedStage(s)'
  BY <1>s, <1>1, <1>2, <1>3, <1>4, <1>5 DEF Stages, ConnectedStage, AcceptStage, SessionTypes
<1>13. DisconnectStage(s)'
  <2>1. CASE k = "disconnect"
    <3>1. io[s]["disconnect"] = 1 /\ io'[s]["disconnect"] = 0 /\ io'[s]["accept"] = io[s]["accept"]
      BY <1>s, <1>1, <1>8, <2>1 DEF Stages, DisconnectStage
    <3>2. \A v \in Workers : At(v, s, {"accept"} \cup DisconnectPCs)' => v = w
      BY <1>s, <1>6, <3>1 DEF Stages, DisconnectStage
    <3>3. \A v \in Workers : At(v, s, DisconnectPCs)' => v = w
      BY <3>2 DEF At
    <3>4. QED
      BY <1>s, <1>2, <1>3, <2>1, <3>1, <3>2, <3>3 DEF Stages, DisconnectStage
  <2>2. CASE k = "accept"
    <3>1. io[s]["accept"] = 1
      BY <1>s, <1>1, <2>2 DEF Stages, AcceptStage
    <3>2. io[s]["disconnect"] = 0 /\ \A v \in Workers : ~At(v, s, DisconnectPCs)
      BY <1>s, <3>1 DEF Stages, DisconnectStage
    <3>3. io'[s]["disconnect"] = 0 /\ \A v \in Workers : ~At(v, s, DisconnectPCs)'
      BY <1>1, <1>6, <1>7, <1>8, <1>10, <2>2, <3>2
    <3>4. QED
      BY <3>3 DEF DisconnectStage
  <2>3. CASE k \notin {"accept", "disconnect"}
    <3>1. /\ io'[s]["accept"] = io[s]["accept"] /\ io'[s]["disconnect"] = io[s]["disconnect"]
          /\ sock'[s] = sock[s]
      BY <1>1, <1>2, <1>8, <2>3
    <3>2. k \notin AcceptPCs /\ k \notin DisconnectPCs /\ k \notin {"accept"} \cup DisconnectPCs
      BY <1>9, <1>10, <2>3
    <3>3. \A v \in Workers :
            /\ At(v, s, AcceptPCs)' <=> v # w /\ At(v, s, AcceptPCs)
            /\ At(v, s, DisconnectPCs)' <=> v # w /\ At(v, s, DisconnectPCs)
            /\ At(v, s, {"accept"} \cup DisconnectPCs)' <=>
                 v # w /\ At(v, s, {"accept"} \cup DisconnectPCs)
      BY <1>6, <1>7, <3>2
    <3>4. QED
      BY <1>s, <1>3, <3>1, <3>3 DEF Stages, DisconnectStage
  <2>4. QED
    BY <2>1, <2>2, <2>3
<1>14. CountStage(s)'
  <2>1. References(s)' = References(s)
    <3>1. Outstanding(s)' = Outstanding(s) + (-1)
      BY <1>t, <1>1, OperationCounted
    <3>2. Cardinality(Holders(s)') = Cardinality(Holders(s)) + 1
      BY <1>t, <1>3, HolderAdded
    <3>3. Outstanding(s) \in Nat /\ Cardinality(Holders(s)) \in Nat
      BY <1>t, NoReferences, FiniteHolders
    <3>4. QED
      BY <1>3, <3>1, <3>2, <3>3 DEF References
  <2>2. QED
    BY <1>s, <1>3, <1>4, <2>1 DEF Stages, CountStage
<1>15. QED
  BY <1>5, <1>11, <1>12, <1>13, <1>14 DEF Stages, FreeStage, ReturnStage

\* w moves on with its context of s; the other workers stay where they are.
Moves(w, s, q) ==
  /\ ctx[w] = s /\ pc'[w] = q /\ UNCHANGED <<ctx, client>>
  /\ \A v \in Workers \ {w} : pc'[v] = pc[v]

\* A worker that moves on takes part in the stages by the code it reaches.
LEMMA MovesEffect ==
  ASSUME NEW w \in Workers, NEW s, NEW q, Moves(w, s, q)
  PROVE  /\ \A P, Q : \A v \in Workers \ {w} : At(v, s, P)' <=> At(v, s, P)
         /\ \A P : At(w, s, P)' <=> q \in P
         /\ \A P : At(w, s, P) <=> pc[w] \in P
         /\ Returning(s)' = Returning(s) /\ Holders(s)' = Holders(s)
  BY DEF Moves, At, Returning, Holders

\* The stages that a move within the accept's handler, or out of it, does not concern.
LEMMA StagesAccepting ==
  ASSUME SessionTypes, NEW s \in Sessions, Stages(s), NEW w \in Workers, NEW q,
         Moves(w, s, q), pc[w] \in AcceptPCs, q \notin DisconnectPCs \cup {"accept", "flushPost"},
         UNCHANGED <<freeList, baseRef>>, NEW d \in {0, 1}, NEW k \in {"recvZero", "recv"},
         refCount'[s] = refCount[s] + d,
         \A j \in Kinds : io'[s][j] = IF j = k THEN io[s][k] + d ELSE io[s][j]
  PROVE  /\ FreeStage(s)' /\ ReturnStage(s)' /\ CountStage(s)'
         /\ io'[s]["accept"] = 0 /\ baseRef'[s]
         /\ s \notin registered
         /\ \A v \in Workers : At(v, s, AcceptPCs)' => v = w
         /\ \A v \in Workers : At(v, s, {"accept"} \cup DisconnectPCs)' => At(v, s, DisconnectPCs)
         /\ \A v \in Workers : At(v, s, DisconnectPCs)' <=> At(v, s, DisconnectPCs)
         /\ io'[s]["disconnect"] = io[s]["disconnect"]
<1>1. ~Free(s) /\ ~Returning(s)
  BY InHand DEF Moves, AcceptPCs
<1>2. ~Free(s)' /\ ~Returning(s)'
  BY <1>1, MovesEffect DEF Free, InRange
<1>3. At(w, s, AcceptPCs)
  BY DEF Moves, At
<1>4. baseRef[s] /\ s \notin registered /\ \A v \in Workers : At(v, s, AcceptPCs) => v = w
  BY <1>3 DEF Stages, AcceptStage
<1>5. io[s]["accept"] = 0
  BY <1>3 DEF Stages, AcceptStage
<1>6. {"accept", "disconnect", "recvZero", "recv"} \subseteq Kinds
  BY DEF Kinds
<1>7. io'[s]["accept"] = 0 /\ io'[s]["disconnect"] = io[s]["disconnect"]
  BY <1>5, <1>6
<1>8. CountStage(s)'
  <2>1. Outstanding(s)' = Outstanding(s) + d
    BY <1>6, OperationCounted
  <2>2. Outstanding(s) \in Nat /\ Cardinality(Holders(s)) \in Nat
    BY NoReferences, FiniteHolders
  <2>3. References(s)' = References(s) + d
    BY <2>1, <2>2, MovesEffect DEF References
  <2>4. References(s) \in Nat /\ References(s) >= 1
    BY <1>4, NoReferences
  <2>5. QED
    BY <1>1, <2>3, <2>4 DEF Stages, CountStage
<1>9. \A v \in Workers : At(v, s, AcceptPCs)' => v = w
  BY <1>4, MovesEffect
<1>10. \A v \in Workers : At(v, s, DisconnectPCs)' <=> At(v, s, DisconnectPCs)
  <2>1. pc[w] \notin DisconnectPCs /\ q \notin DisconnectPCs
    BY DEF AcceptPCs, DisconnectPCs
  <2>2. QED
    BY <2>1, MovesEffect
<1>11. \A v \in Workers : At(v, s, {"accept"} \cup DisconnectPCs)' => At(v, s, DisconnectPCs)
  <2>1. SUFFICES ASSUME NEW v \in Workers, ctx'[v] = s, pc'[v] \in {"accept"} \cup DisconnectPCs
                 PROVE  At(v, s, DisconnectPCs)
    BY DEF At
  <2>2. v # w
    BY <2>1 DEF Moves
  <2>3. ctx[v] = s /\ pc[v] = pc'[v]
    BY <2>1, <2>2 DEF Moves
  <2>4. pc[v] # "accept"
    BY <1>4, <2>2, <2>3 DEF At, AcceptPCs
  <2>5. QED
    BY <2>1, <2>3, <2>4 DEF At
<1>12. FreeStage(s)' /\ ReturnStage(s)'
  BY <1>2 DEF FreeStage, ReturnStage
<1>13. baseRef'[s]
  BY <1>4
<1>14. QED
  BY <1>4, <1>7, <1>8, <1>9, <1>10, <1>11, <1>12, <1>13

\* AcceptCompletion finds the session not connected: its CRASH_ASSERT holds.
LEMMA StagesAcceptConnected ==
  ASSUME TypeInv, StageInv, Running, NEW w \in Workers, NEW s \in Sessions, ctx[w] = s,
         AcceptConnected(w)
  PROVE  ~connected[s] /\ halt' = halt /\ Stages(s)'
<1>t. SessionTypes /\ WorkTypes
  BY DEF TypeInv, TypeOK
<1>s. Stages(s)
  BY <1>t DEF StageInv
<1>1. At(w, s, AcceptPCs) /\ pc[w] = "accept" /\ At(w, s, {"accept"} \cup DisconnectPCs)
  BY DEF At, AcceptConnected, AcceptPCs
<1>2. ~connected[s] /\ sock[s] = "accepted"
  BY <1>1, <1>s DEF Stages, AcceptStage
<1>3. /\ Moves(w, s, "setup") /\ halt' = halt /\ connected'[s]
      /\ UNCHANGED <<refCount, sock, io, baseRef, registered, freeList>>
  BY <1>t, <1>2 DEF AcceptConnected, CrashAssert, Goto, Moves, WorkTypes, SessionTypes, poolVars, castVars
<1>4. /\ io[s]["disconnect"] = 0
      /\ \A v \in Workers : ~At(v, s, DisconnectPCs)
  <2>1. io[s]["disconnect"] = 0
    BY <1>s, <1>1 DEF Stages, DisconnectStage
  <2>2. \A v \in Workers : At(v, s, DisconnectPCs) => v = w
    BY <1>s, <1>1 DEF Stages, DisconnectStage
  <2>3. QED
    BY <1>1, <2>1, <2>2 DEF At, DisconnectPCs
<1>5. /\ FreeStage(s)' /\ ReturnStage(s)' /\ CountStage(s)'
      /\ io'[s]["accept"] = 0 /\ baseRef'[s] /\ s \notin registered
      /\ \A v \in Workers : At(v, s, AcceptPCs)' => v = w
      /\ \A v \in Workers : At(v, s, DisconnectPCs)' <=> At(v, s, DisconnectPCs)
      /\ io'[s]["disconnect"] = io[s]["disconnect"]
  <2>1. refCount'[s] = refCount[s] + 0
    BY <1>t, <1>3 DEF SessionTypes
  <2>2. \A j \in Kinds : io'[s][j] = IF j = "recv" THEN io[s]["recv"] + 0 ELSE io[s][j]
    BY <1>t, <1>3 DEF SessionTypes
  <2>3. "setup" \notin DisconnectPCs \cup {"accept", "flushPost"} /\ pc[w] \in AcceptPCs
    BY <1>1 DEF DisconnectPCs, AcceptPCs
  <2>4. QED
    BY <1>t, <1>s, <1>3, <2>1, <2>2, <2>3, StagesAccepting
<1>6. AcceptStage(s)'
  BY <1>2, <1>3, <1>5 DEF AcceptStage, Moves
<1>7. DisconnectStage(s)'
  BY <1>4, <1>5 DEF DisconnectStage
<1>8. ConnectedStage(s)'
  BY <1>5 DEF ConnectedStage
<1>9. QED
  BY <1>t, <1>2, <1>3, <1>5, <1>6, <1>7, <1>8 DEF Stages

\* The socket is set up and associated with the port.
LEMMA StagesAcceptSetupDone ==
  ASSUME TypeInv, StageInv, Running, NEW w \in Workers, NEW s \in Sessions, ctx[w] = s,
         AcceptSetupDone(w)
  PROVE  Stages(s)'
<1>t. SessionTypes /\ WorkTypes
  BY DEF TypeInv, TypeOK
<1>s. Stages(s)
  BY <1>t DEF StageInv
<1>1. At(w, s, AcceptPCs) /\ pc[w] = "setup"
  BY DEF At, AcceptSetupDone, AcceptPCs
<1>2. sock[s] = "accepted"
  BY <1>1, <1>s DEF Stages, AcceptStage
<1>3. /\ Moves(w, s, "acceptRecv")
      /\ UNCHANGED <<connected, refCount, io, baseRef, registered, freeList>>
  BY <1>t DEF AcceptSetupDone, Goto, Moves, WorkTypes, poolVars, castVars
<1>4. \A v \in Workers : ~At(v, s, DisconnectPCs)
  BY <1>s, <1>2 DEF Stages, DisconnectStage
<1>5. /\ FreeStage(s)' /\ ReturnStage(s)' /\ CountStage(s)'
      /\ io'[s]["accept"] = 0 /\ baseRef'[s] /\ s \notin registered
      /\ \A v \in Workers : At(v, s, AcceptPCs)' => v = w
      /\ \A v \in Workers : At(v, s, {"accept"} \cup DisconnectPCs)' => At(v, s, DisconnectPCs)
      /\ \A v \in Workers : At(v, s, DisconnectPCs)' <=> At(v, s, DisconnectPCs)
      /\ io'[s]["disconnect"] = io[s]["disconnect"]
  <2>1. refCount'[s] = refCount[s] + 0
    BY <1>t, <1>3 DEF SessionTypes
  <2>2. \A j \in Kinds : io'[s][j] = IF j = "recv" THEN io[s]["recv"] + 0 ELSE io[s][j]
    BY <1>t, <1>3 DEF SessionTypes
  <2>3. /\ "acceptRecv" \notin DisconnectPCs \cup {"accept", "flushPost"}
        /\ pc[w] \in AcceptPCs
    BY <1>1 DEF DisconnectPCs, AcceptPCs
  <2>4. QED
    BY <1>t, <1>s, <1>3, <2>1, <2>2, <2>3, StagesAccepting
<1>6. AcceptStage(s)'
  BY <1>3, <1>5 DEF AcceptStage, Moves
<1>7. DisconnectStage(s)'
  BY <1>s, <1>3, <1>4, <1>5 DEF Stages, DisconnectStage
<1>8. ConnectedStage(s)'
  BY <1>5 DEF ConnectedStage
<1>9. QED
  BY <1>t, <1>5, <1>6, <1>7, <1>8 DEF Stages

\* PreRecv and PostRecv: k is posted if d = 1.
LEMMA ReceiveEffect ==
  ASSUME SessionTypes, NEW s \in Sessions, NEW k \in Kinds, ReceivePosted(s, k) \/ ReceiveRefused
  PROVE  /\ \A t \in Sessions \ {s} : refCount'[t] = refCount[t] /\ \A j \in Kinds : io'[t][j] = io[t][j]
         /\ \E d \in {0, 1} :
              /\ d = 1 => connected[s] /\ ReceivePosted(s, k)
              /\ d = 0 => ReceiveRefused
              /\ refCount'[s] = refCount[s] + d
              /\ \A j \in Kinds : io'[s][j] = IF j = k THEN io[s][k] + d ELSE io[s][j]
<1>1. CASE ReceivePosted(s, k)
  BY <1>1, PostEffect DEF ReceivePosted
<1>2. CASE ReceiveRefused
  <2>1. refCount'[s] = refCount[s] + 0
    BY <1>2 DEF ReceiveRefused, SessionTypes
  <2>2. \A j \in Kinds : io'[s][j] = IF j = k THEN io[s][k] + 0 ELSE io[s][j]
    BY <1>2 DEF ReceiveRefused, SessionTypes
  <2>3. \A t \in Sessions : refCount'[t] = refCount[t] /\ \A j \in Kinds : io'[t][j] = io[t][j]
    BY <1>2 DEF ReceiveRefused
  <2>4. QED
    BY <1>2, <2>1, <2>2, <2>3
<1>3. QED
  BY <1>1, <1>2

\* AcceptCompletion posts the first receive, or fails to.
LEMMA StagesAcceptPreRecv ==
  ASSUME TypeInv, StageInv, Running, NEW w \in Workers, NEW s \in Sessions, ctx[w] = s,
         AcceptPreRecv(w)
  PROVE  Stages(s)'
<1>t. SessionTypes /\ WorkTypes
  BY DEF TypeInv, TypeOK
<1>s. Stages(s)
  BY <1>t DEF StageInv
<1>1. pc[w] = "acceptRecv"
  BY DEF AcceptPreRecv
<1>2. PICK d \in {0, 1} :
        /\ refCount'[s] = refCount[s] + d
        /\ \A j \in Kinds : io'[s][j] = IF j = "recvZero" THEN io[s]["recvZero"] + d ELSE io[s][j]
  <2>1. "recvZero" \in Kinds
    BY DEF Kinds
  <2>2. QED
    BY <1>t, <2>1, ReceiveEffect DEF AcceptPreRecv
<1>3. /\ Moves(w, s, "register")
      /\ UNCHANGED <<connected, sock, baseRef, registered, freeList>>
  BY <1>t DEF AcceptPreRecv, Goto, Moves, WorkTypes, poolVars, castVars
<1>5. /\ FreeStage(s)' /\ ReturnStage(s)' /\ CountStage(s)'
      /\ io'[s]["accept"] = 0 /\ baseRef'[s] /\ s \notin registered
      /\ \A v \in Workers : At(v, s, AcceptPCs)' => v = w
      /\ \A v \in Workers : At(v, s, {"accept"} \cup DisconnectPCs)' => At(v, s, DisconnectPCs)
      /\ \A v \in Workers : At(v, s, DisconnectPCs)' <=> At(v, s, DisconnectPCs)
      /\ io'[s]["disconnect"] = io[s]["disconnect"]
  <2>3. /\ "register" \notin DisconnectPCs \cup {"accept", "flushPost"}
        /\ pc[w] \in AcceptPCs
    BY <1>1 DEF DisconnectPCs, AcceptPCs
  <2>4. QED
    BY <1>t, <1>s, <1>2, <1>3, <2>3, StagesAccepting
<1>6. AcceptStage(s)'
  BY <1>3, <1>5 DEF AcceptStage, Moves
<1>7. DisconnectStage(s)'
  <2>1. \A v \in Workers : At(v, s, DisconnectPCs) => v # w /\ pc'[v] = pc[v]
    BY <1>1, <1>3 DEF At, DisconnectPCs, Moves
  <2>2. \A v \in Workers : At(v, s, DisconnectPCs) => pc[v] # "relBase"
    BY <1>s, <1>1 DEF Stages, DisconnectStage, At, AcceptPCs
  <2>3. \A v \in Workers : At(v, s, DisconnectPCs) => At(v, s, {"accept"} \cup DisconnectPCs)
    BY DEF At
  <2>4. QED
    BY <1>s, <1>3, <1>5, <2>1, <2>2, <2>3 DEF Stages, DisconnectStage
<1>8. ConnectedStage(s)'
  BY <1>5 DEF ConnectedStage
<1>9. QED
  BY <1>t, <1>5, <1>6, <1>7, <1>8 DEF Stages

\* RegisterClient does not find the session: its CRASH_ASSERT holds.
LEMMA StagesAcceptRegister ==
  ASSUME TypeInv, StageInv, Running, NEW w \in Workers, NEW s \in Sessions, ctx[w] = s,
         AcceptRegister(w)
  PROVE  s \notin registered /\ halt' = halt /\ Stages(s)'
<1>t. SessionTypes /\ WorkTypes
  BY DEF TypeInv, TypeOK
<1>s. Stages(s)
  BY <1>t DEF StageInv
<1>1. pc[w] = "register" /\ At(w, s, AcceptPCs)
  BY DEF At, AcceptRegister, AcceptPCs
<1>2. s \notin registered
  BY <1>1, <1>s DEF Stages, AcceptStage
<1>3. /\ Moves(w, s, "delete") /\ halt' = halt
      /\ UNCHANGED <<connected, refCount, sock, io, baseRef, freeList>>
  BY <1>t, <1>2 DEF AcceptRegister, CrashAssert, Goto, Moves, WorkTypes, poolVars, sessionVars
<1>5. /\ FreeStage(s)' /\ ReturnStage(s)' /\ CountStage(s)'
      /\ io'[s]["accept"] = 0 /\ baseRef'[s] /\ s \notin registered
      /\ \A v \in Workers : At(v, s, AcceptPCs)' => v = w
      /\ \A v \in Workers : At(v, s, {"accept"} \cup DisconnectPCs)' => At(v, s, DisconnectPCs)
      /\ \A v \in Workers : At(v, s, DisconnectPCs)' <=> At(v, s, DisconnectPCs)
      /\ io'[s]["disconnect"] = io[s]["disconnect"]
  <2>1. refCount'[s] = refCount[s] + 0
    BY <1>t, <1>3 DEF SessionTypes
  <2>2. \A j \in Kinds : io'[s][j] = IF j = "recv" THEN io[s]["recv"] + 0 ELSE io[s][j]
    BY <1>t, <1>3 DEF SessionTypes
  <2>3. /\ "delete" \notin DisconnectPCs \cup {"accept", "flushPost"}
        /\ pc[w] \in AcceptPCs
    BY <1>1 DEF DisconnectPCs, AcceptPCs
  <2>4. QED
    BY <1>t, <1>s, <1>3, <2>1, <2>2, <2>3, StagesAccepting
<1>6. AcceptStage(s)'
  BY <1>3, <1>5 DEF AcceptStage, Moves, At, AcceptPCs
<1>7. DisconnectStage(s)'
  <2>1. \A v \in Workers : At(v, s, DisconnectPCs) => v # w /\ pc'[v] = pc[v]
    BY <1>1, <1>3 DEF At, DisconnectPCs, Moves
  <2>2. \A v \in Workers : At(v, s, DisconnectPCs) => pc[v] # "relBase"
    BY <1>s, <1>1 DEF Stages, DisconnectStage
  <2>3. \A v \in Workers : At(v, s, DisconnectPCs) => At(v, s, {"accept"} \cup DisconnectPCs)
    BY DEF At
  <2>4. QED
    BY <1>s, <1>3, <1>5, <2>1, <2>2, <2>3 DEF Stages, DisconnectStage
<1>8. ConnectedStage(s)'
  BY <1>5 DEF ConnectedStage
<1>9. QED
  BY <1>t, <1>2, <1>3, <1>5, <1>6, <1>7, <1>8 DEF Stages

\* w drops its context of s, outside the handlers of accept and disconnect.
Drops(w, s) ==
  /\ ctx[w] = s /\ ctx' = [ctx EXCEPT ![w] = None]
  /\ pc[w] \notin AcceptPCs \cup DisconnectPCs
  /\ \A v \in Workers \ {w} : pc'[v] = pc[v]

\* Dropping a context outside those handlers concerns no accept and no disconnect.
LEMMA DropsEffect ==
  ASSUME WorkTypes, NEW w \in Workers, NEW s \in Sessions, Drops(w, s)
  PROVE  /\ ctx'[w] = None /\ \A v \in Workers \ {w} : ctx'[v] = ctx[v]
         /\ \A v \in Workers : ctx'[v] = s <=> v # w /\ ctx[v] = s
         /\ Cardinality(Holders(s)') = Cardinality(Holders(s)) - 1
         /\ \A P \in SUBSET (AcceptPCs \cup DisconnectPCs) :
              \A v \in Workers : At(v, s, P)' <=> At(v, s, P)
         /\ \A v \in Workers : At(v, s, AcceptPCs \cup DisconnectPCs) => pc'[v] = pc[v]
<1>1. s # None /\ ctx'[w] = None /\ \A v \in Workers \ {w} : ctx'[v] = ctx[v]
  BY NamesDistinct DEF Drops, WorkTypes
<1>2. Cardinality(Holders(s)') = Cardinality(Holders(s)) - 1
  BY <1>1, HolderDropped DEF Drops
<1>3. ASSUME NEW P \in SUBSET (AcceptPCs \cup DisconnectPCs), NEW v \in Workers
      PROVE  At(v, s, P)' <=> At(v, s, P)
  BY <1>1, <1>3 DEF Drops, At
<1>4. \A v \in Workers : At(v, s, AcceptPCs \cup DisconnectPCs) => pc'[v] = pc[v]
  BY DEF Drops, At
<1>5. QED
  BY <1>1, <1>2, <1>3, <1>4 DEF Drops

\* The stages that a worker's drop of a context leaves alone.
LEMMA StagesDropped ==
  ASSUME SessionTypes, WorkTypes, NEW w \in Workers, NEW s \in Sessions, Stages(s), Drops(w, s),
         UNCHANGED <<connected, sock, baseRef, freeList, registered>>,
         io'[s]["accept"] = io[s]["accept"], io'[s]["disconnect"] = io[s]["disconnect"]
  PROVE  AcceptStage(s)' /\ ConnectedStage(s)' /\ DisconnectStage(s)' /\ FreeStage(s)' /\ ~Free(s)
<1>1. /\ AcceptPCs \in SUBSET (AcceptPCs \cup DisconnectPCs)
      /\ DisconnectPCs \in SUBSET (AcceptPCs \cup DisconnectPCs)
      /\ {"accept"} \cup DisconnectPCs \in SUBSET (AcceptPCs \cup DisconnectPCs)
  BY DEF AcceptPCs
<1>2. \A v \in Workers :
        /\ At(v, s, AcceptPCs)' <=> At(v, s, AcceptPCs)
        /\ At(v, s, DisconnectPCs)' <=> At(v, s, DisconnectPCs)
        /\ At(v, s, {"accept"} \cup DisconnectPCs)' <=> At(v, s, {"accept"} \cup DisconnectPCs)
        /\ At(v, s, AcceptPCs) \/ At(v, s, DisconnectPCs) => pc'[v] = pc[v]
  <2>1. \A v \in Workers : At(v, s, AcceptPCs) \/ At(v, s, DisconnectPCs)
          => At(v, s, AcceptPCs \cup DisconnectPCs)
    BY DEF At
  <2>2. QED
    BY <1>1, <2>1, DropsEffect
<1>3. AcceptStage(s)'
  BY <1>2 DEF Stages, AcceptStage
<1>4. ~Free(s)
  BY InHand DEF Drops
<1>5. ~Free(s)'
  BY <1>4 DEF Free, InRange
<1>6. ConnectedStage(s)'
  BY <1>4 DEF Stages, ConnectedStage
<1>7. DisconnectStage(s)'
  BY <1>2 DEF Stages, DisconnectStage
<1>8. FreeStage(s)'
  BY <1>5 DEF FreeStage
<1>9. QED
  BY <1>3, <1>4, <1>6, <1>7, <1>8

\* DeleteContext and FlushFailed: the last reference makes w return the session.
LEMMA StagesRelease ==
  ASSUME TypeInv, StageInv, Running, Running', NEW w \in Workers, NEW s \in Sessions,
         Drops(w, s), pc[w] \in {"delete", "flushPost"},
         NEW next \in {"flush", "flushDisc"}, ReleaseRef(w, s, next),
         UNCHANGED <<connected, sock, io, baseRef, sendLock, freeList, registered>>
  PROVE  Stages(s)'
<1>t. SessionTypes /\ WorkTypes /\ Control /\ s # None /\ next \in PCs
  BY NamesDistinct DEF TypeInv, TypeOK, PCs
<1>s. Stages(s) /\ SendLocks
  BY DEF StageInv
<1>1. AcceptStage(s)' /\ ConnectedStage(s)' /\ DisconnectStage(s)' /\ FreeStage(s)' /\ ~Free(s)
  BY <1>t, <1>s, StagesDropped
<1>2. refCount[s] \in Int /\ refCount[s] >= 1
  BY <1>t, ReleaseEffect DEF Running, SessionTypes
<1>3. ~Free(s)'
  BY <1>1 DEF Free, InRange
<1>4. /\ \A v \in Workers : ctx'[v] = s <=> v # w /\ ctx[v] = s
      /\ Cardinality(Holders(s)') = Cardinality(Holders(s)) - 1
  BY <1>t, DropsEffect
<1>5. References(s)' = References(s) - 1 /\ References(s) \in Nat
  <2>1. Outstanding(s)' = Outstanding(s)
    BY DEF Outstanding
  <2>2. Outstanding(s) \in Nat /\ Cardinality(Holders(s)) \in Nat
    BY <1>t, NoReferences, FiniteHolders
  <2>3. QED
    BY <1>t, <1>4, <2>1, <2>2, NoReferences DEF References
<1>6. \A v \in Workers \ {w} : client'[v] = client[v]
  BY <1>t, ReleaseEffect
<1>7. client[w] # s
  BY <1>t, <1>s DEF Control, ControlAt, ContextPCs, ReturnPCs, Drops, Kinds
<1>8. CASE refCount[s] = 1
  <2>1. client'[w] = s /\ refCount'[s] = 0
    BY <1>t, <1>8, ReleaseEffect
  <2>2. CASE Returning(s)
    <3>1. pc[w] = "flushPost" /\ sendLock[s] = w
      BY <1>s, <2>2, InHand DEF Drops, SendLocks
    <3>2. \A v \in Workers : ctx[v] = s => v = w
      <4>1. \A v \in Workers : ctx[v] = s => pc[v] = "flushPost"
        BY <1>s, <2>2 DEF Stages, ReturnStage
      <4>2. QED
        BY <1>s, <3>1, <4>1 DEF SendLocks
    <3>3. \A v \in Workers : ctx'[v] # s
      BY <1>4, <3>2
    <3>4. \A u, v \in Workers :
            client'[u] = s /\ client'[v] = s /\ sendLock'[s] \notin {u, v} => u = v
      BY <1>s, <1>6, <2>2, <3>1 DEF Stages, ReturnStage
    <3>5. ~baseRef'[s] /\ ~connected'[s] /\ \A k \in Kinds : io'[s][k] = 0
      BY <1>s, <2>2 DEF Stages, ReturnStage
    <3>6. ReturnStage(s)'
      BY <1>3, <2>1, <3>3, <3>4, <3>5 DEF ReturnStage
    <3>7. CountStage(s)'
      BY <2>1 DEF CountStage, Returning
    <3>8. QED
      BY <1>1, <3>6, <3>7 DEF Stages
  <2>3. CASE ~Returning(s)
    <3>1. References(s)' = 0
      BY <1>s, <1>5, <1>8, <2>3 DEF Stages, CountStage
    <3>2. /\ ~baseRef[s] /\ \A k \in Kinds : io[s][k] = 0
          /\ \A v \in Workers : ctx[v] = s => v = w
      <4>1. baseRef[s] => References(s) >= 2
        <5>1. ctx[w] = s
          BY DEF Drops
        <5>2. QED
          BY <1>t, <5>1, NoReferences
      <4>2. Outstanding(s) \in Nat /\ Cardinality(Holders(s)) \in Nat
            /\ Cardinality(Holders(s)') \in Nat
        <5>1. Holders(s)' \subseteq Workers
          BY DEF Holders
        <5>2. QED
          BY <1>t, <5>1, NoReferences, FiniteHolders, WorkersFinite, FS_Subset, FS_CardinalityType
      <4>3. References(s) = 1
        BY <1>s, <1>8, <2>3 DEF Stages, CountStage
      <4>4. ~baseRef[s]
        BY <4>1, <4>3
      <4>5. Outstanding(s) = 0 /\ Cardinality(Holders(s)') = 0
        BY <1>4, <4>2, <4>3, <4>4, <1>5 DEF References
      <4>6. \A v \in Workers : ctx'[v] # s
        <5>1. Holders(s)' \subseteq Workers
          BY DEF Holders
        <5>2. Holders(s)' = {}
          BY <4>5, <5>1, WorkersFinite, FS_Subset, FS_EmptySet
        <5>3. QED
          BY <5>2 DEF Holders
      <4>7. \A k \in Kinds : io[s][k] = 0
        BY <1>t, <4>5, NoOperation
      <4>8. QED
        BY <1>4, <4>4, <4>6, <4>7
    <3>3. \A v \in Workers : ctx'[v] # s
      BY <1>4, <3>2
    <3>4. ~connected[s]
      BY <1>s, <3>2 DEF Stages, ConnectedStage
    <3>5. \A v \in Workers : client'[v] = s => v = w
      BY <1>6, <2>3 DEF Returning
    <3>6. ReturnStage(s)'
      BY <1>3, <2>1, <3>2, <3>3, <3>4, <3>5 DEF ReturnStage
    <3>7. CountStage(s)'
      BY <2>1 DEF CountStage, Returning
    <3>8. QED
      BY <1>1, <3>6, <3>7 DEF Stages
  <2>4. QED
    BY <2>2, <2>3
<1>9. CASE refCount[s] > 1
  <2>1. client'[w] = client[w] /\ refCount'[s] = refCount[s] - 1
    BY <1>t, <1>9, ReleaseEffect
  <2>2. ~Returning(s) /\ ~Returning(s)'
    BY <1>s, <1>6, <1>9, <2>1 DEF Stages, ReturnStage, Returning
  <2>3. CountStage(s)'
    BY <1>s, <1>5, <1>9, <2>1, <2>2 DEF Stages, CountStage
  <2>4. QED
    BY <1>1, <2>2, <2>3 DEF Stages, ReturnStage
<1>10. QED
  BY <1>2, <1>8, <1>9

\* UnregisterClient takes the session out of the broadcast set.
LEMMA StagesUnregister ==
  ASSUME TypeInv, StageInv, Running, Running', NEW w \in Workers, NEW s \in Sessions, ctx[w] = s,
         DisconnectUnregister(w)
  PROVE  Stages(s)'
<1>t. SessionTypes /\ WorkTypes
  BY DEF TypeInv, TypeOK
<1>s. Stages(s)
  BY DEF StageInv
<1>1. s \in registered /\ pc[w] = "disconnect"
  BY DEF DisconnectUnregister, CrashAssert, Running
<1>2. /\ Moves(w, s, "relBase") /\ registered' = registered \ {s}
      /\ UNCHANGED <<connected, refCount, sock, io, baseRef, sendLock, sendData, freeList>>
  BY <1>t, <1>1
    DEF DisconnectUnregister, CrashAssert, Erase, Goto, Moves, WorkTypes, sessionVars, sendVars,
        poolVars
<1>3. io[s]["accept"] = 0 /\ \A v \in Workers : ~At(v, s, AcceptPCs)
  BY <1>s, <1>1 DEF Stages, AcceptStage
<1>4. \A v \in Workers : ~At(v, s, AcceptPCs)'
  <2>1. "relBase" \notin AcceptPCs
    BY DEF AcceptPCs
  <2>2. QED
    BY <1>2, <1>3, <2>1, MovesEffect
<1>5. At(w, s, DisconnectPCs) /\ ~Free(s) /\ ~Returning(s)
  BY <1>s, <1>1, InHand DEF At, DisconnectPCs
<1>6. ~Free(s)' /\ ~Returning(s)'
  BY <1>2, <1>5, MovesEffect DEF Free, InRange
<1>7. AcceptStage(s)'
  BY <1>2, <1>3, <1>4 DEF AcceptStage
<1>8. ConnectedStage(s)'
  BY <1>s, <1>2, <1>5 DEF Stages, ConnectedStage, DisconnectStage
<1>9. DisconnectStage(s)'
  <2>1. \A P : \A v \in Workers : At(v, s, P)' => v = w \/ At(v, s, P)
    BY <1>2, MovesEffect
  <2>2. \A v \in Workers : At(v, s, {"accept"} \cup DisconnectPCs)' => v = w
    BY <1>s, <1>5, <2>1 DEF Stages, DisconnectStage
  <2>3. \A v \in Workers : At(v, s, DisconnectPCs)' => v = w
    BY <2>2 DEF At
  <2>4. io[s]["disconnect"] = 0
    BY <1>s, <1>5 DEF Stages, DisconnectStage, At
  <2>5. QED
    BY <1>s, <1>2, <1>3, <1>4, <1>5, <2>2, <2>3, <2>4 DEF Stages, DisconnectStage
<1>10. CountStage(s)'
  <2>1. References(s)' = References(s)
    BY <1>2, ReferencesSame DEF Moves
  <2>2. QED
    BY <1>s, <1>2, <1>5, <2>1 DEF Stages, CountStage
<1>11. QED
  BY <1>6, <1>7, <1>8, <1>9, <1>10 DEF Stages, FreeStage, ReturnStage

\* w's own context still refers to the session, so this ReleaseRef is never the last.
LEMMA StagesReleaseBase ==
  ASSUME TypeInv, StageInv, Running, Running', NEW w \in Workers, NEW s \in Sessions, ctx[w] = s,
         DisconnectReleaseBase(w)
  PROVE  Stages(s)' /\ client'[w] = client[w] /\ pc'[w] = "delete"
<1>t. SessionTypes /\ WorkTypes /\ "delete" \in PCs
  BY DEF TypeInv, TypeOK, PCs
<1>s. Stages(s)
  BY DEF StageInv
<1>1. pc[w] = "relBase" /\ At(w, s, DisconnectPCs)
  BY DEF DisconnectReleaseBase, At, DisconnectPCs
<1>2. /\ baseRef[s] /\ ~connected[s] /\ io[s]["accept"] = 0 /\ sock[s] = "closed"
      /\ s \notin registered /\ \A v \in Workers : ~At(v, s, AcceptPCs)
      /\ \A v \in Workers : At(v, s, {"accept"} \cup DisconnectPCs) => v = w
  BY <1>s, <1>1 DEF Stages, DisconnectStage
<1>3. ~Free(s) /\ ~Returning(s)
  BY <1>s, <1>1, InHand
<1>4. refCount[s] = References(s) /\ References(s) \in Nat /\ References(s) >= 2
  BY <1>t, <1>s, <1>2, <1>3, NoReferences DEF Stages, CountStage
<1>5. /\ pc'[w] = "delete" /\ client'[w] = client[w]
      /\ \A v \in Workers \ {w} : pc'[v] = pc[v] /\ client'[v] = client[v]
      /\ refCount'[s] = refCount[s] - 1
  BY <1>t, <1>4, ReleaseEffect DEF DisconnectReleaseBase
<1>6. /\ ~baseRef'[s]
      /\ UNCHANGED <<connected, sock, io, ctx, sendLock, sendData, freeList, registered>>
  BY <1>t DEF DisconnectReleaseBase, SessionTypes, sendVars, poolVars, castVars
<1>7. ~Free(s)' /\ ~Returning(s)'
  BY <1>3, <1>5, <1>6 DEF Free, InRange, Returning
<1>8. \A v \in Workers : ~At(v, s, AcceptPCs)' /\ ~At(v, s, DisconnectPCs)'
      /\ ~At(v, s, {"accept"} \cup DisconnectPCs)'
  BY <1>2, <1>5, <1>6 DEF At, AcceptPCs, DisconnectPCs
<1>9. io[s]["disconnect"] = 0
  BY <1>s, <1>1 DEF Stages, DisconnectStage, At
<1>10. References(s)' = References(s) - 1
  <2>1. Holders(s)' = Holders(s) /\ Outstanding(s)' = Outstanding(s)
    BY <1>6 DEF Holders, Outstanding
  <2>2. Outstanding(s) \in Nat /\ Cardinality(Holders(s)) \in Nat
    BY <1>t, NoReferences, FiniteHolders
  <2>3. QED
    BY <1>2, <1>6, <2>1, <2>2 DEF References
<1>11. CountStage(s)'
  BY <1>4, <1>5, <1>10 DEF CountStage
<1>12. AcceptStage(s)' /\ ConnectedStage(s)' /\ DisconnectStage(s)'
  BY <1>2, <1>6, <1>8, <1>9 DEF AcceptStage, ConnectedStage, DisconnectStage
<1>13. QED
  BY <1>5, <1>7, <1>11, <1>12 DEF Stages, FreeStage, ReturnStage

\* FlushSend makes a context, perhaps for a session that another worker is returning.
LEMMA StagesFlushStart ==
  ASSUME TypeInv, StageInv, Running, NEW w \in Workers, NEW s \in Sessions, s = Front(w),
         FlushStart(w)
  PROVE  Stages(s)'
<1>t. SessionTypes /\ WorkTypes /\ SendTypes /\ Control /\ s # None /\ w # None
  BY NamesDistinct DEF TypeInv, TypeOK
<1>s. Stages(s) /\ SendLocks
  BY DEF StageInv
<1>c. ctx[w] = None /\ client[w] = None
  BY <1>t DEF Control, ControlAt, FlushStart, ContextPCs, ReturnPCs, Kinds
<1>1. /\ sendLock[s] = None /\ sendLock'[s] = w /\ refCount'[s] = refCount[s] + 1
      /\ sendData[s] > 0
  BY <1>t DEF FlushStart, SendTypes, SessionTypes, MaySend
<1>2. /\ ctx'[w] = s /\ pc'[w] = "flushPost"
      /\ \A v \in Workers \ {w} : ctx'[v] = ctx[v] /\ pc'[v] = pc[v]
      /\ UNCHANGED <<connected, sock, io, baseRef, freeList, registered, client>>
  BY <1>t DEF FlushStart, Goto, WorkTypes, poolVars, castVars
<1>3. ~Free(s)
  BY <1>s, <1>1 DEF Stages, FreeStage
<1>4. ~Free(s)' /\ Returning(s)' = Returning(s)
  BY <1>2, <1>3 DEF Free, InRange, Returning
<1>5. \A P \in SUBSET (AcceptPCs \cup DisconnectPCs) :
        \A v \in Workers : At(v, s, P)' <=> At(v, s, P)
  <2>1. "flushPost" \notin AcceptPCs \cup DisconnectPCs
    BY DEF AcceptPCs, DisconnectPCs
  <2>2. QED
    BY <1>t, <1>c, <1>2, <2>1 DEF At
<1>6. \A v \in Workers : At(v, s, AcceptPCs) \/ At(v, s, DisconnectPCs) => pc'[v] = pc[v]
  BY <1>t, <1>c, <1>2 DEF At
<1>7. /\ AcceptPCs \in SUBSET (AcceptPCs \cup DisconnectPCs)
      /\ DisconnectPCs \in SUBSET (AcceptPCs \cup DisconnectPCs)
      /\ {"accept"} \cup DisconnectPCs \in SUBSET (AcceptPCs \cup DisconnectPCs)
  BY DEF AcceptPCs
<1>8. AcceptStage(s)' /\ ConnectedStage(s)' /\ DisconnectStage(s)'
  <2>1. AcceptStage(s)'
    BY <1>s, <1>2, <1>5, <1>6, <1>7 DEF Stages, AcceptStage
  <2>2. ConnectedStage(s)'
    BY <1>s, <1>2, <1>3 DEF Stages, ConnectedStage
  <2>3. DisconnectStage(s)'
    BY <1>s, <1>2, <1>5, <1>6, <1>7 DEF Stages, DisconnectStage
  <2>4. QED
    BY <2>1, <2>2, <2>3
<1>9. ReturnStage(s)'
  <2>1. SUFFICES ASSUME Returning(s)
                 PROVE  ReturnStage(s)'
    BY <1>4 DEF ReturnStage
  <2>2. \A v \in Workers : ctx[v] = s => pc[v] = "flushPost"
    BY <1>s, <2>1 DEF Stages, ReturnStage
  <2>3. \A v \in Workers : ctx[v] # s
    BY <1>s, <1>t, <1>1, <2>2, NamesDistinct DEF SendLocks
  <2>4. refCount[s] = 0
    BY <1>s, <2>1, <2>3 DEF Stages, ReturnStage
  <2>5. \A u, v \in Workers : client[u] = s /\ client[v] = s => u = v
    BY <1>s, <1>1, <2>1, NamesDistinct DEF Stages, ReturnStage
  <2>6. refCount'[s] = 1
    BY <1>1, <2>4
  <2>7. \A v \in Workers : ctx'[v] = s => pc'[v] = "flushPost"
    BY <1>2, <2>3
  <2>8. ~baseRef[s] /\ ~connected[s] /\ \A k \in Kinds : io[s][k] = 0
    BY <1>s, <2>1 DEF Stages, ReturnStage
  <2>9. QED
    BY <1>2, <1>4, <2>5, <2>6, <2>7, <2>8 DEF ReturnStage
<1>10. CountStage(s)'
  <2>1. References(s)' = References(s) + 1
    <3>1. Cardinality(Holders(s)') = Cardinality(Holders(s)) + 1
      BY <1>t, <1>c, <1>2, HolderAdded
    <3>2. Outstanding(s)' = Outstanding(s)
      BY <1>2 DEF Outstanding
    <3>3. Outstanding(s) \in Nat /\ Cardinality(Holders(s)) \in Nat
      BY <1>t, NoReferences, FiniteHolders
    <3>4. QED
      BY <1>2, <3>1, <3>2, <3>3 DEF References
  <2>2. References(s) \in Nat
    BY <1>t, NoReferences
  <2>3. QED
    BY <1>s, <1>1, <1>4, <2>1, <2>2 DEF Stages, CountStage
<1>11. QED
  BY <1>4, <1>8, <1>9, <1>10 DEF Stages, FreeStage

\* WSASend is accepted only on an open socket, so nobody is returning the session.
LEMMA StagesFlushPosted ==
  ASSUME TypeInv, StageInv, Running, NEW w \in Workers, NEW s \in Sessions, ctx[w] = s,
         FlushPosted(w)
  PROVE  Stages(s)'
<1>t. SessionTypes /\ WorkTypes /\ SendTypes /\ s # None
  BY NamesDistinct DEF TypeInv, TypeOK
<1>s. Stages(s)
  BY DEF StageInv
<1>1. Drops(w, s)
  BY <1>t DEF FlushPosted, Drops, Goto, WorkTypes, AcceptPCs, DisconnectPCs
<1>2. /\ \A j \in Kinds : io'[s][j] = IF j = "send" THEN io[s]["send"] + 1 ELSE io[s][j]
      /\ "send" \in Kinds
  <2>1. "send" \in Kinds
    BY DEF Kinds
  <2>2. QED
    BY <1>t, <2>1, KernelEffect DEF FlushPosted
<1>3. /\ UNCHANGED <<connected, refCount, sock, baseRef, freeList, registered, client>>
      /\ sock[s] = "open"
  BY DEF FlushPosted, poolVars, castVars
<1>4. AcceptStage(s)' /\ ConnectedStage(s)' /\ DisconnectStage(s)' /\ FreeStage(s)' /\ ~Free(s)
  <2>1. io'[s]["accept"] = io[s]["accept"] /\ io'[s]["disconnect"] = io[s]["disconnect"]
    BY <1>2 DEF Kinds
  <2>2. QED
    BY <1>t, <1>s, <1>1, <1>3, <2>1, StagesDropped
<1>5. ~Returning(s)
  BY <1>s, <1>3, <1>4 DEF Stages, ReturnStage, ConnectedStage
<1>6. ~Returning(s)' /\ Free(s)' = Free(s)
  BY <1>3, <1>5 DEF Returning, Free, InRange
<1>7. References(s)' = References(s)
  <2>1. Outstanding(s)' = Outstanding(s) + 1
    BY <1>t, <1>2, OperationCounted
  <2>2. Cardinality(Holders(s)') = Cardinality(Holders(s)) - 1
    BY <1>t, <1>1, DropsEffect
  <2>3. Outstanding(s) \in Nat /\ Cardinality(Holders(s)) \in Nat
    BY <1>t, NoReferences, FiniteHolders
  <2>4. QED
    BY <1>3, <2>1, <2>2, <2>3 DEF References
<1>8. CountStage(s)'
  BY <1>s, <1>3, <1>5, <1>6, <1>7 DEF Stages, CountStage
<1>9. QED
  BY <1>4, <1>6, <1>8 DEF Stages, ReturnStage

\* The free list holds no session twice.
FreeListInjective ==
  \A i, j \in DOMAIN freeList : freeList[i] = freeList[j] => i = j

\* SessionReset finds the session as DisconnectRequest and the last release left it.
LEMMA StagesReset ==
  ASSUME TypeInv, StageInv, Running, NEW w \in Workers, NEW s \in Sessions, client[w] = s,
         ReturnReset(w)
  PROVE  Stages(s)'
<1>t. SessionTypes /\ WorkTypes
  BY DEF TypeInv, TypeOK
<1>s. Stages(s) /\ Returning(s)
  BY DEF StageInv, Returning
<1>1. ~connected[s] /\ ~baseRef[s] /\ ~Free(s)
  BY <1>s DEF Stages, ReturnStage
<1>2. /\ connected'[s] = connected[s] /\ refCount'[s] = 0
      /\ UNCHANGED <<sock, io, baseRef, sendLock, sendData, freeList, registered, ctx, client>>
      /\ pc'[w] = "pushBack" /\ pc[w] = "reset"
      /\ \A v \in Workers \ {w} : pc'[v] = pc[v]
  BY <1>t, <1>1 DEF ReturnReset, SessionTypes, WorkTypes, Goto, sendVars, poolVars, castVars
<1>3. ~Free(s)' /\ Returning(s)'
  BY <1>s, <1>1, <1>2 DEF Free, InRange, Returning
<1>4. ctx[w] # s
  BY <1>s, <1>2 DEF Stages, ReturnStage
<1>5. \A P : \A v \in Workers : At(v, s, P)' <=> At(v, s, P)
  BY <1>2, <1>4 DEF At
<1>6. \A v \in Workers : ctx[v] = s => pc'[v] = pc[v]
  BY <1>2, <1>4
<1>7. AcceptStage(s)' /\ ConnectedStage(s)'
  BY <1>s, <1>1, <1>2, <1>5, <1>6 DEF Stages, AcceptStage, ConnectedStage, At
<1>8. DisconnectStage(s)'
  BY <1>s, <1>1, <1>2, <1>5 DEF Stages, DisconnectStage
<1>9. ReturnStage(s)'
  BY <1>s, <1>2, <1>3, <1>6 DEF Stages, ReturnStage
<1>10. QED
  BY <1>3, <1>7, <1>8, <1>9 DEF Stages, FreeStage, CountStage

\* push_back adds one session to the free list.
LEMMA PushBackList ==
  ASSUME PoolTypes, NEW s \in Sessions, freeList' = Append(freeList, s)
  PROVE  /\ \A t : Free(t)' <=> Free(t) \/ t = s
         /\ FreeListInjective /\ ~Free(s) => FreeListInjective'
<1>1. freeList \in Seq(Sessions)
  BY DEF PoolTypes
<1>2. /\ DOMAIN freeList' = 1..Len(freeList) + 1 /\ DOMAIN freeList = 1..Len(freeList)
      /\ \A i \in 1..Len(freeList) : freeList'[i] = freeList[i]
      /\ freeList'[Len(freeList) + 1] = s /\ Len(freeList) \in Nat
  BY <1>1
<1>3. \A t : Free(t)' <=> Free(t) \/ t = s
  <2>1. SUFFICES ASSUME NEW t
                 PROVE  Free(t)' <=> Free(t) \/ t = s
    OBVIOUS
  <2>2. Free(t)' <=> \E i \in 1..Len(freeList) + 1 : freeList'[i] = t
    BY <1>2 DEF Free, InRange
  <2>3. Free(t) <=> \E i \in 1..Len(freeList) : freeList[i] = t
    BY <1>2 DEF Free, InRange
  <2>4. \A i : i \in 1..Len(freeList) + 1 <=> i \in 1..Len(freeList) \/ i = Len(freeList) + 1
    BY <1>2
  <2>5. QED
    BY <1>2, <2>2, <2>3, <2>4
<1>4. ASSUME FreeListInjective, ~Free(s)
      PROVE  FreeListInjective'
  <2>1. SUFFICES ASSUME NEW i \in 1..Len(freeList) + 1, NEW j \in 1..Len(freeList) + 1,
                        freeList'[i] = freeList'[j]
                 PROVE  i = j
    BY <1>2 DEF FreeListInjective
  <2>2. \A k \in 1..Len(freeList) : freeList[k] # s
    BY <1>2, <1>4 DEF Free, InRange
  <2>3. i \in 1..Len(freeList) \/ i = Len(freeList) + 1
    BY <1>2
  <2>4. j \in 1..Len(freeList) \/ j = Len(freeList) + 1
    BY <1>2
  <2>5. QED
    BY <1>2, <1>4, <2>1, <2>2, <2>3, <2>4 DEF FreeListInjective
<1>5. QED
  BY <1>3, <1>4

\* pop_back takes one session from the free list.
LEMMA PopBackList ==
  ASSUME PoolTypes, PoolCount, MayIssue, FreeListInjective, NEW s, s = freeList[Len(freeList)],
         freeList' = SubSeq(freeList, 1, Len(freeList) - 1)
  PROVE  /\ s \in Sessions /\ Free(s) /\ ~Free(s)'
         /\ \A t : t # s => (Free(t)' <=> Free(t))
         /\ FreeListInjective'
<1> DEFINE n == Len(freeList)
<1>1. /\ freeList \in Seq(Sessions) /\ n \in Nat /\ n \in 1..n /\ s \in Sessions
      /\ freeList' \in Seq(Sessions) /\ Len(freeList') = n - 1
      /\ \A i \in 1..n - 1 : freeList'[i] = freeList[i]
  BY FreeListNonempty DEF PoolTypes
<1>2. DOMAIN freeList = 1..n /\ DOMAIN freeList' = 1..n - 1 /\ 1..n - 1 \subseteq 1..n
  BY <1>1
<1>3. \A t : Free(t)' <=> \E i \in 1..n - 1 : freeList[i] = t
  BY <1>1, <1>2 DEF Free, InRange
<1>4. \A t : Free(t) <=> \E i \in 1..n : freeList[i] = t
  BY <1>2 DEF Free, InRange
<1>5. \A i : i \in 1..n <=> i \in 1..n - 1 \/ i = n
  BY <1>1
<1>6. \A i \in 1..n - 1 : freeList[i] # s
  <2>1. ASSUME NEW i \in 1..n - 1, freeList[i] = freeList[n]
        PROVE  FALSE
    <3>1. i = n
      BY <1>1, <1>2, <2>1 DEF FreeListInjective
    <3>2. QED
      BY <1>1, <3>1
  <2>2. QED
    BY <2>1
<1>7. FreeListInjective'
  BY <1>1, <1>2 DEF FreeListInjective
<1>8. QED
  BY <1>1, <1>3, <1>4, <1>5, <1>6, <1>7

\* The session pushed back is on the free list as FreeStage wants it.
LEMMA StagesPushBack ==
  ASSUME TypeInv, StageInv, Running, NEW w \in Workers, NEW s \in Sessions, client[w] = s,
         ReturnPushBack(w)
  PROVE  Stages(s)'
<1>t. SessionTypes /\ WorkTypes /\ SendTypes /\ PoolTypes /\ s # None
  BY NamesDistinct DEF TypeInv, TypeOK
<1>s. Stages(s) /\ Returning(s) /\ SendLocks
  BY DEF StageInv, Returning
<1>1. /\ sendLock[s] = None /\ sendData'[s] = 0 /\ sock'[s] = "fresh"
      /\ UNCHANGED <<connected, refCount, io, baseRef, sendLock, ctx, registered>>
      /\ freeList' = Append(freeList, s) /\ client'[w] = None
      /\ \A v \in Workers \ {w} : client'[v] = client[v]
  BY <1>t DEF ReturnPushBack, SendTypes, SessionTypes, WorkTypes, BufferReset, castVars
<1>2. Free(s)'
  BY <1>t, <1>1, PushBackList
<1>3. /\ ~connected[s] /\ ~baseRef[s] /\ \A k \in Kinds : io[s][k] = 0
      /\ \A v \in Workers : ctx[v] = s => pc[v] = "flushPost"
      /\ \A u, v \in Workers : client[u] = s /\ client[v] = s => u = v
  BY <1>s, <1>1, NamesDistinct DEF Stages, ReturnStage
<1>4. \A v \in Workers : ctx[v] # s
  BY <1>s, <1>1, <1>3, NamesDistinct DEF SendLocks
<1>5. refCount[s] = 0
  BY <1>s, <1>4 DEF Stages, ReturnStage
<1>6. \A v \in Workers : client'[v] # s
  BY <1>t, <1>1, <1>3
<1>7. \A P : \A v \in Workers : ~At(v, s, P)'
  BY <1>1, <1>4 DEF At
<1>8. FreeStage(s)'
  BY <1>1, <1>3, <1>4, <1>5, <1>6 DEF FreeStage
<1>9. io[s]["accept"] = 0 /\ io[s]["disconnect"] = 0
  BY <1>3 DEF Kinds
<1>10. s \notin registered
  BY <1>s, <1>3 DEF Stages, ConnectedStage
<1>11. AcceptStage(s)' /\ ConnectedStage(s)' /\ DisconnectStage(s)'
  BY <1>1, <1>2, <1>3, <1>7, <1>9, <1>10 DEF AcceptStage, ConnectedStage, DisconnectStage
<1>12. ~Returning(s)'
  BY <1>6 DEF Returning
<1>13. CountStage(s)'
  <2>1. References(s)' = References(s)
    BY <1>1, ReferencesSame
  <2>2. References(s) = 0
    BY <1>t, <1>3, <1>4, NoReferences
  <2>3. QED
    BY <1>1, <1>2, <1>5, <2>1, <2>2 DEF CountStage
<1>14. QED
  BY <1>8, <1>11, <1>12, <1>13 DEF Stages, ReturnStage

\* A session taken from the free list enters its accept; the others stay where they are.
LEMMA StagesIssue ==
  ASSUME TypeInv, StageInv, FreeListInjective, Running, Running', IssueSession
  PROVE  /\ \A t \in Sessions : Stages(t)'
         /\ FreeListInjective'
         /\ \E s \in Sessions : /\ Free(s) /\ ~Free(s)'
                                /\ \A t \in Sessions \ {s} : Free(t)' = Free(t)
<1>t. SessionTypes /\ WorkTypes /\ PoolTypes /\ PoolCount
  BY DEF TypeInv, TypeOK
<1>1. PICK s \in Sessions :
        /\ s = freeList[Len(freeList)] /\ baseRef'[s]
        /\ refCount'[s] = refCount[s] + 2
        /\ \A t \in Sessions \ {s} : refCount'[t] = refCount[t] /\ baseRef'[t] = baseRef[t]
        /\ \A t \in Sessions, j \in Kinds : io'[t][j] =
             IF t = s /\ j = "accept" THEN io[s]["accept"] + 1 ELSE io[t][j]
  <2>1. PICK s \in Sessions, d \in {0, 1} :
           /\ s = freeList[Len(freeList)]
           /\ baseRef' \in [Sessions -> BOOLEAN]
           /\ d = 0 => halt' = "exit" /\ mgrLock' = None
           /\ \A t \in Sessions : baseRef'[t] = (baseRef[t] \/ t = s)
           /\ \A t \in Sessions :
                refCount'[t] = IF t = s THEN refCount[s] + 1 + d ELSE refCount[t]
           /\ \A t \in Sessions, j \in Kinds : io'[t][j] =
                IF t = s /\ j = "accept" THEN io[s]["accept"] + d ELSE io[t][j]
    BY <1>t, IssueEffect
  <2>2. d = 1
    BY <2>1 DEF Running
  <2>3. refCount'[s] = refCount[s] + 2
    BY <1>t, <2>1, <2>2 DEF SessionTypes
  <2>4. baseRef'[s] /\ \A t \in Sessions \ {s} : baseRef'[t] = baseRef[t]
    BY <1>t, <2>1 DEF SessionTypes
  <2>5. QED
    BY <2>1, <2>2, <2>3, <2>4
<1>2. UNCHANGED <<connected, sock, sendLock, sendData, registered, pc, ctx, client>>
  BY DEF IssueSession, sendVars, castVars, workVars
<1>3. /\ Free(s) /\ ~Free(s)' /\ FreeListInjective'
      /\ \A t \in Sessions \ {s} : Free(t)' <=> Free(t)
  BY <1>t, <1>1, PopBackList DEF IssueSession
<1>4. \A t \in Sessions \ {s} : Free(t)' = Free(t)
  BY <1>3 DEF Free
<1>s. Stages(s)
  BY DEF StageInv
<1>5. /\ ~baseRef[s] /\ ~connected[s] /\ refCount[s] = 0
      /\ \A k \in Kinds : io[s][k] = 0
      /\ \A w \in Workers : ctx[w] # s /\ client[w] # s
      /\ sock[s] = "fresh"
  BY <1>s, <1>3 DEF Stages, FreeStage
<1>6. Elsewhere(s)
  BY <1>1, <1>2, <1>4 DEF Elsewhere, SameSession, SameWorkers, SameStagePCs
<1>7. "accept" \in Kinds /\ "disconnect" \in Kinds
  BY DEF Kinds
<1>8. io'[s]["accept"] = 1 /\ io'[s]["disconnect"] = 0
  BY <1>1, <1>5, <1>7
<1>9. s \notin registered
  BY <1>s, <1>5 DEF Stages, ConnectedStage
<1>10. ~Returning(s)'
  BY <1>2, <1>5 DEF Returning
<1>11. \A P : \A v \in Workers : ~At(v, s, P)'
  BY <1>2, <1>5 DEF At
<1>12. AcceptStage(s)' /\ ConnectedStage(s)' /\ DisconnectStage(s)'
  BY <1>1, <1>2, <1>5, <1>8, <1>9, <1>11 DEF AcceptStage, ConnectedStage, DisconnectStage
<1>13. CountStage(s)'
  <2>1. References(s) = 0 /\ Outstanding(s) = 0 /\ Cardinality(Holders(s)) = 0
    <3>1. Holders(s) = {}
      BY <1>5 DEF Holders
    <3>2. QED
      BY <1>t, <1>5, <3>1, NoReferences, NoOperation, FS_EmptySet
  <2>2. Outstanding(s)' = 1
    <3>1. \A j \in Kinds : io'[s][j] = IF j = "accept" THEN io[s]["accept"] + 1 ELSE io[s][j]
      BY <1>1
    <3>2. Outstanding(s)' = Outstanding(s) + 1
      BY <1>t, <1>7, <3>1, OperationCounted
    <3>3. QED
      BY <2>1, <3>2
  <2>3. Holders(s)' = Holders(s)
    BY <1>2 DEF Holders
  <2>4. References(s)' = 2
    BY <1>1, <2>1, <2>2, <2>3 DEF References
  <2>5. QED
    BY <1>1, <1>5, <2>4 DEF CountStage
<1>14. Stages(s)'
  BY <1>3, <1>10, <1>12, <1>13 DEF Stages, FreeStage, ReturnStage
<1>15. QED
  BY <1>3, <1>4, <1>6, <1>14, StagesElsewhere DEF StageInv

\* A receive is posted for a connected session, or not, outside the accept.
LEMMA StagesReceive ==
  ASSUME SessionTypes, NEW s \in Sessions, Stages(s), NEW k \in {"recvZero", "recv"},
         ReceivePosted(s, k) \/ ReceiveRefused, SameWorkers(s), SameStagePCs(s),
         UNCHANGED <<connected, sock, baseRef, sendLock, sendData, freeList, registered>>
  PROVE  Stages(s)'
<1>k. k \in Kinds /\ {"accept", "disconnect"} \subseteq Kinds
  BY DEF Kinds
<1>1. PICK d \in {0, 1} :
        /\ d = 1 => connected[s] /\ ReceivePosted(s, k)
        /\ d = 0 => ReceiveRefused
        /\ refCount'[s] = refCount[s] + d
        /\ \A j \in Kinds : io'[s][j] = IF j = k THEN io[s][k] + d ELSE io[s][j]
  BY <1>k, ReceiveEffect
<1>2. CASE d = 0
  <2>1. SameSession(s)
    BY <1>1, <1>2 DEF ReceiveRefused, SameSession, Free, InRange
  <2>2. QED
    BY <2>1, StagesKept
<1>3. CASE d = 1
  <2>1. connected[s]
    BY <1>1, <1>3
  <2>2. ~Free(s) /\ ~Returning(s)
    BY <2>1 DEF Stages, FreeStage, ReturnStage
  <2>3. ~Free(s)' /\ ~Returning(s)'
    BY <2>2 DEF Free, InRange, Returning, SameWorkers
  <2>4. io'[s]["accept"] = io[s]["accept"] /\ io'[s]["disconnect"] = io[s]["disconnect"]
    BY <1>k, <1>1
  <2>5. \A w \in Workers :
          /\ At(w, s, AcceptPCs)' <=> At(w, s, AcceptPCs)
          /\ At(w, s, DisconnectPCs)' <=> At(w, s, DisconnectPCs)
          /\ At(w, s, {"accept"} \cup DisconnectPCs)' <=> At(w, s, {"accept"} \cup DisconnectPCs)
          /\ At(w, s, AcceptPCs) \/ At(w, s, DisconnectPCs) => pc'[w] = pc[w]
    BY DEF At, SameWorkers, SameStagePCs, StagePCs, AcceptPCs, DisconnectPCs
  <2>6. AcceptStage(s)'
    BY <2>4, <2>5 DEF Stages, AcceptStage
  <2>7. DisconnectStage(s)'
    BY <2>4, <2>5 DEF Stages, DisconnectStage
  <2>8. ConnectedStage(s)'
    BY <2>2 DEF Stages, ConnectedStage
  <2>9. CountStage(s)'
    <3>1. Holders(s)' = Holders(s)
      BY HoldersKept DEF SameWorkers
    <3>2. Outstanding(s)' = Outstanding(s) + d
      BY <1>k, <1>1, OperationCounted
    <3>3. Outstanding(s) \in Nat /\ Cardinality(Holders(s)) \in Nat /\ References(s) \in Nat
      BY NoReferences, FiniteHolders
    <3>4. References(s)' = References(s) + 1
      BY <1>3, <3>1, <3>2, <3>3 DEF References
    <3>5. QED
      BY <1>1, <1>3, <2>2, <3>3, <3>4 DEF Stages, CountStage
  <2>10. QED
    BY <2>3, <2>6, <2>7, <2>8, <2>9 DEF Stages, FreeStage, ReturnStage
<1>4. QED
  BY <1>2, <1>3

\* What a step of worker w must leave alone outside session s.
LEMMA ElsewhereFrom ==
  ASSUME NEW w \in Workers, NEW s \in Sessions, OthersKept(w),
         {ctx[w], ctx'[w]} \subseteq {s, None},
         client'[w] = client[w] \/ {client[w], client'[w]} \subseteq {s, None},
         \A t \in Sessions \ {s} :
           /\ connected'[t] = connected[t] /\ refCount'[t] = refCount[t] /\ sock'[t] = sock[t]
           /\ \A k \in Kinds : io'[t][k] = io[t][k]
           /\ baseRef'[t] = baseRef[t] /\ sendLock'[t] = sendLock[t]
           /\ sendData'[t] = sendData[t]
           /\ Free(t)' <=> Free(t)
           /\ t \in registered' <=> t \in registered
  PROVE  Elsewhere(s)
<1>1. SUFFICES ASSUME NEW t \in Sessions, t # s
               PROVE  /\ SameSession(t) /\ SameWorkers(t) /\ SameStagePCs(t)
                      /\ sendData'[t] = sendData[t]
  BY DEF Elsewhere
<1>2. t # None
  BY NamesDistinct
<1>3. SameSession(t)
  BY <1>1 DEF SameSession, Free
<1>4. SameWorkers(t)
  <2>1. ctx[w] # t /\ ctx'[w] # t /\ (client'[w] = t <=> client[w] = t)
    BY <1>1, <1>2
  <2>2. QED
    BY <2>1 DEF OthersKept, SameWorkers
<1>5. SameStagePCs(t)
  BY <1>1, <1>2 DEF OthersKept, SameStagePCs
<1>6. QED
  BY <1>1, <1>3, <1>4, <1>5

\* A step of worker w that concerns no session's stage.
LEMMA StagesPlain ==
  ASSUME NEW w \in Workers, OthersKept(w), \A t \in Sessions : Stages(t),
         ctx'[w] = ctx[w], client'[w] = client[w],
         ctx[w] = None \/ {pc[w], pc'[w]} \cap StagePCs = {},
         UNCHANGED <<connected, refCount, sock, io, baseRef, sendLock, freeList, registered>>,
         \A t \in Sessions : Free(t) => sendData'[t] = sendData[t]
  PROVE  \A t \in Sessions : Stages(t)'
<1>1. SUFFICES ASSUME NEW t \in Sessions
               PROVE  Stages(t)'
  OBVIOUS
<1>2. SameSession(t)
  BY DEF SameSession, Free, InRange
<1>3. SameWorkers(t)
  BY DEF SameWorkers, OthersKept
<1>4. t # None
  BY NamesDistinct
<1>5. SameStagePCs(t)
  BY <1>4 DEF SameStagePCs, OthersKept
<1>6. QED
  BY <1>2, <1>3, <1>5, StagesKept

\* The steps that concern no session's stage: they move a worker between codes of no stage.
LEMMA StagesPlainStep ==
  ASSUME TypeInv, StageInv, Running, Running', NEW w \in Workers, OthersKept(w),
         \/ DequeueTimeout(w) \/ RecvCompleted(w) \/ OnReadChat(w)
         \/ BroadcastLock(w) \/ BroadcastUnlock(w) \/ SendFailed(w)
         \/ FlushBegin(w) \/ FlushNothing(w) \/ FlushEnd(w) \/ ReturnLock(w)
         \/ \E t \in Sessions : BroadcastSend(w, t)
         \/ \E n \in 1..SendCap : SendCompleted(w, n)
  PROVE  \A t \in Sessions : Stages(t)'
<1>t. SessionTypes /\ SendTypes /\ WorkTypes /\ Control
  BY DEF TypeInv, TypeOK
<1>s. \A t \in Sessions : Stages(t)
  BY DEF StageInv
<1>1. UNCHANGED <<connected, refCount, sock, io, baseRef, sendLock, freeList, registered, ctx, client>>
  BY DEF DequeueTimeout, RecvCompleted, OnReadChat, BroadcastLock, BroadcastUnlock, SendFailed,
         FlushBegin, FlushNothing, FlushEnd, ReturnLock, BroadcastSend, SendCompleted,
         sessionVars, sendVars, poolVars, castVars, workVars
<1>2. {pc[w], pc'[w]} \cap StagePCs = {}
  BY <1>t DEF DequeueTimeout, RecvCompleted, OnReadChat, BroadcastLock, BroadcastUnlock, SendFailed,
         FlushBegin, FlushNothing, FlushEnd, ReturnLock, BroadcastSend, SendCompleted,
         workVars, Goto, CrashAssert, Running, WorkTypes, StagePCs, AcceptPCs, DisconnectPCs
<1>3. \A t \in Sessions : Free(t) => sendData'[t] = sendData[t]
  <2>1. ASSUME NEW u \in Sessions, BroadcastSend(w, u)
        PROVE  \A t \in Sessions : Free(t) => sendData'[t] = sendData[t]
    <3>1. ~Free(u)
      BY <1>s, <2>1 DEF BroadcastSend, Stages, FreeStage
    <3>2. \A t \in Sessions \ {u} : sendData'[t] = sendData[t]
      BY <1>t, <2>1 DEF BroadcastSend, SendTypes
    <3>3. QED
      BY <3>1, <3>2
  <2>2. ASSUME NEW n \in 1..SendCap, SendCompleted(w, n)
        PROVE  \A t \in Sessions : Free(t) => sendData'[t] = sendData[t]
    <3>1. PICK u \in Sessions : u = ctx[w]
      BY <1>t, <2>2 DEF Control, ControlAt, ContextPCs, Kinds, SendCompleted
    <3>2. ~Free(u)
      BY <1>s, <3>1, InHand
    <3>3. \A t \in Sessions \ {u} : sendData'[t] = sendData[t]
      BY <1>t, <2>2, <3>1 DEF SendCompleted, SendTypes
    <3>4. QED
      BY <3>2, <3>3
  <2>3. CASE UNCHANGED sendData
    BY <2>3
  <2>4. QED
    BY <2>1, <2>2, <2>3
      DEF DequeueTimeout, RecvCompleted, OnReadChat, BroadcastLock, BroadcastUnlock, SendFailed,
          FlushBegin, FlushNothing, FlushEnd, ReturnLock, sendVars
<1>4. QED
  BY <1>s, <1>1, <1>2, <1>3, StagesPlain

\* Worker w is at no stage of a session, does not move, or leaves the accept of s for good.
StageLeft(w, s) ==
  \/ {pc[w], pc'[w]} \cap StagePCs = {}
  \/ pc'[w] = pc[w]
  \/ pc[w] = "setup" /\ pc'[w] \notin StagePCs /\ ctx[w] = s

\* Nobody's send lock changes, or w drops that of s.
SendLockLeft(w, s) ==
  \/ UNCHANGED sendLock
  \/ /\ s = Front(w) /\ client[w] = None
     /\ sendLock' = [sendLock EXCEPT ![s] = IF @ = w THEN None ELSE @]

\* A DisconnectRequest for s, whatever the worker that makes it, keeps every stage.
LEMMA StagesDisconnected ==
  ASSUME TypeInv, StageInv, Running, NEW w \in Workers, OthersKept(w),
         NEW s \in Sessions, DisconnectRequest(s), StageLeft(w, s), SendLockLeft(w, s),
         UNCHANGED <<sock, baseRef, registered, freeList, sendData>>,
         ctx'[w] = ctx[w], client'[w] = client[w]
  PROVE  \A t \in Sessions : Stages(t)'
<1>t. SessionTypes /\ SendTypes
  BY DEF TypeInv, TypeOK
<1>s. SendLocks /\ \A t \in Sessions : Stages(t)
  BY DEF StageInv
<1>1. \A t \in Sessions \ {s} :
        /\ connected'[t] = connected[t] /\ refCount'[t] = refCount[t]
        /\ \A k \in Kinds : io'[t][k] = io[t][k]
  <2>1. SUFFICES ASSUME NEW t \in Sessions, t # s
                 PROVE  /\ connected'[t] = connected[t] /\ refCount'[t] = refCount[t]
                        /\ \A k \in Kinds : io'[t][k] = io[t][k]
    OBVIOUS
  <2>2. connected[t] \in BOOLEAN
    BY <1>t DEF SessionTypes
  <2>3. connected'[t] = (connected[t] /\ t # s)
    BY <1>t, DisconnectEffect
  <2>4. connected'[t] = connected[t]
    BY <2>1, <2>2, <2>3
  <2>5. refCount'[t] = refCount[t] /\ \A k \in Kinds : io'[t][k] = io[t][k]
    BY <1>t, <2>1, DisconnectEffect
  <2>6. QED
    BY <2>4, <2>5
<1>2. \A t \in Sessions \ {s} : sendLock'[t] = sendLock[t]
  BY <1>t DEF SendTypes, SendLockLeft
<1>3. \A t \in Sessions : SameWorkers(t)
  BY DEF OthersKept, SameWorkers
<1>4. \A t \in Sessions \ {s} : SameStagePCs(t)
  BY DEF OthersKept, SameStagePCs, StageLeft
<1>5. StagePCsLeft(s)
  BY DEF OthersKept, StagePCsLeft, StageLeft
<1>6. \/ sendLock'[s] = sendLock[s]
      \/ sendLock[s] \in Workers /\ client[sendLock[s]] # s
  BY <1>t, NamesDistinct DEF SendTypes, SendLockLeft
<1>7. Free(s) => sendData'[s] = sendData[s] /\ sendLock'[s] = sendLock[s]
  BY <1>t, <1>s, NamesDistinct DEF SendTypes, SendLockLeft, Stages, FreeStage
<1>8. Stages(s)'
  BY <1>t, <1>s, <1>3, <1>5, <1>6, <1>7, StagesDisconnect
<1>9. Elsewhere(s)
  BY <1>1, <1>2, <1>3, <1>4 DEF Elsewhere, SameSession, Free, InRange
<1>10. QED
  BY <1>s, <1>8, <1>9, StagesElsewhere

\* The steps that make a DisconnectRequest.
LEMMA StagesDisconnectStep ==
  ASSUME TypeInv, StageInv, Running, NEW w \in Workers, OthersKept(w),
         \/ CloseConnection(w) \/ AcceptSetupFailed(w) \/ OnReadBadPacket(w) \/ FlushDisconnect(w)
         \/ \E t \in Sessions : BroadcastAbort(w, t)
  PROVE  \A t \in Sessions : Stages(t)'
<1>t. SessionTypes /\ SendTypes /\ ListTypes /\ WorkTypes /\ Control
  BY DEF TypeInv, TypeOK
<1>s. SendLocks /\ \A t \in Sessions : Stages(t)
  BY DEF StageInv
<1>2. CASE CloseConnection(w)
  <2>1. ctx[w] \in Sessions
    BY <1>t, <1>2 DEF Control, ControlAt, ContextPCs, CloseConnection
  <2>2. {pc[w], pc'[w]} \cap StagePCs = {}
    BY <1>t, <1>2 DEF CloseConnection, Goto, WorkTypes, StagePCs, AcceptPCs, DisconnectPCs
  <2>3. UNCHANGED <<sock, baseRef, registered, freeList, ctx, client, sendData, sendLock>>
    BY <1>2 DEF CloseConnection, sendVars, poolVars, castVars
  <2>4. QED
    BY <1>2, <2>1, <2>2, <2>3, StagesDisconnected DEF CloseConnection, StageLeft, SendLockLeft
<1>3. CASE AcceptSetupFailed(w)
  <2>1. ctx[w] \in Sessions
    BY <1>t, <1>3 DEF Control, ControlAt, ContextPCs, AcceptSetupFailed
  <2>2. pc[w] = "setup" /\ pc'[w] \notin StagePCs
    BY <1>t, <1>3 DEF AcceptSetupFailed, Goto, WorkTypes, StagePCs, AcceptPCs, DisconnectPCs
  <2>3. UNCHANGED <<sock, baseRef, registered, freeList, ctx, client, sendData, sendLock>>
    BY <1>3 DEF AcceptSetupFailed, sendVars, poolVars, castVars
  <2>4. PICK s \in Sessions : s = ctx[w]
    BY <2>1
  <2>5. DisconnectRequest(s)
    BY <1>3, <2>4 DEF AcceptSetupFailed
  <2>6. QED
    BY <2>2, <2>3, <2>4, <2>5, StagesDisconnected DEF StageLeft, SendLockLeft
<1>4. CASE OnReadBadPacket(w)
  <2>1. ctx[w] \in Sessions
    BY <1>t, <1>4 DEF Control, ControlAt, ContextPCs, OnReadBadPacket
  <2>2. /\ UNCHANGED <<sock, baseRef, registered, freeList, sendData, sendLock>>
        /\ ctx'[w] = ctx[w] /\ client'[w] = client[w] /\ pc'[w] = pc[w]
    BY <1>4 DEF OnReadBadPacket, sendVars, poolVars, castVars, workVars
  <2>3. PICK s \in Sessions : s = ctx[w]
    BY <2>1
  <2>4. DisconnectRequest(s)
    BY <1>4, <2>3 DEF OnReadBadPacket
  <2>5. QED
    BY <2>2, <2>4, StagesDisconnected DEF StageLeft, SendLockLeft
<1>5. CASE FlushDisconnect(w)
  <2>1. PICK s \in Sessions : s = Front(w)
    BY <1>t, <1>5, FrontIsSession DEF Control, ControlAt, FlushDisconnect
  <2>2. {pc[w], pc'[w]} \cap StagePCs = {}
    BY <1>t, <1>5 DEF FlushDisconnect, Goto, WorkTypes, StagePCs, AcceptPCs, DisconnectPCs
  <2>3. client[w] = None
    BY <1>t, <1>5 DEF Control, ControlAt, ReturnPCs, FlushDisconnect
  <2>4. /\ UNCHANGED <<sock, baseRef, registered, freeList, sendData>>
        /\ ctx'[w] = ctx[w] /\ client'[w] = client[w]
    BY <1>5 DEF FlushDisconnect, poolVars, castVars
  <2>5. /\ DisconnectRequest(s)
        /\ sendLock' = [sendLock EXCEPT ![s] = IF @ = w THEN None ELSE @]
    BY <1>5, <2>1 DEF FlushDisconnect
  <2>6. QED
    BY <2>1, <2>2, <2>3, <2>4, <2>5, StagesDisconnected DEF StageLeft, SendLockLeft
<1>6. ASSUME NEW t \in Sessions, BroadcastAbort(w, t)
      PROVE  \A u \in Sessions : Stages(u)'
  <2>1. /\ UNCHANGED <<sock, baseRef, registered, freeList, sendData, sendLock>>
        /\ ctx'[w] = ctx[w] /\ client'[w] = client[w] /\ pc'[w] = pc[w]
    BY <1>6 DEF BroadcastAbort, sendVars, poolVars, workVars
  <2>2. DisconnectRequest(t)
    BY <1>6 DEF BroadcastAbort
  <2>3. QED
    BY <2>1, <2>2, StagesDisconnected DEF StageLeft, SendLockLeft
<1>7. QED
  BY <1>2, <1>3, <1>4, <1>5, <1>6

\* The steps that post a receive after data has arrived.
LEMMA StagesReceiveStep ==
  ASSUME TypeInv, StageInv, Running, NEW w \in Workers, OthersKept(w),
         RecvZeroCompleted(w) \/ OnReadDone(w)
  PROVE  \A t \in Sessions : Stages(t)'
<1>t. SessionTypes /\ WorkTypes /\ Control
  BY DEF TypeInv, TypeOK
<1>s. \A t \in Sessions : Stages(t)
  BY DEF StageInv
<1>1. PICK s \in Sessions : s = ctx[w]
  BY <1>t DEF Control, ControlAt, ContextPCs, Kinds, RecvZeroCompleted, OnReadDone
<1>2. PICK k \in {"recvZero", "recv"} : ReceivePosted(s, k) \/ ReceiveRefused
  BY <1>1 DEF RecvZeroCompleted, OnReadDone
<1>3. UNCHANGED <<connected, sock, baseRef, sendLock, sendData, freeList, registered, ctx, client>>
  BY DEF RecvZeroCompleted, OnReadDone, sendVars, poolVars, castVars
<1>4. {pc[w], pc'[w]} \cap StagePCs = {}
  BY <1>t DEF RecvZeroCompleted, OnReadDone, Goto, WorkTypes, StagePCs, AcceptPCs, DisconnectPCs
<1>5. \A t \in Sessions : SameWorkers(t) /\ SameStagePCs(t)
  BY <1>3, <1>4 DEF OthersKept, SameWorkers, SameStagePCs
<1>6. Stages(s)'
  BY <1>t, <1>s, <1>2, <1>3, <1>5, StagesReceive
<1>7. Elsewhere(s)
  <2>1. \A t \in Sessions \ {s} : refCount'[t] = refCount[t] /\ \A j \in Kinds : io'[t][j] = io[t][j]
    <3>1. k \in Kinds
      BY DEF Kinds
    <3>2. QED
      BY <1>t, <1>2, <3>1, ReceiveEffect
  <2>2. QED
    BY <1>3, <1>5, <2>1 DEF Elsewhere, SameSession, Free, InRange
<1>8. QED
  BY <1>s, <1>6, <1>7, StagesElsewhere

\* A worker takes a completion from the port.
LEMMA StagesDequeueStep ==
  ASSUME TypeInv, StageInv, Running, NEW w \in Workers, OthersKept(w),
         NEW s \in Sessions, NEW k \in Kinds, DequeueCompletion(w, s, k)
  PROVE  \A t \in Sessions : Stages(t)'
<1>t. SessionTypes /\ WorkTypes /\ Control
  BY DEF TypeInv, TypeOK
<1>1. ctx[w] = None /\ ctx'[w] = s /\ client'[w] = client[w]
  BY <1>t DEF DequeueCompletion, Control, ControlAt, ContextPCs, ReturnPCs, Kinds, WorkTypes
<1>2. \A t \in Sessions \ {s} : sock'[t] = sock[t] /\ \A j \in Kinds : io'[t][j] = io[t][j]
  BY <1>t DEF DequeueCompletion, SessionTypes
<1>3. UNCHANGED <<connected, refCount, baseRef, sendLock, sendData, freeList, registered>>
  BY DEF DequeueCompletion, sendVars, poolVars, castVars
<1>4. Elsewhere(s)
  BY <1>1, <1>2, <1>3, ElsewhereFrom DEF Free, InRange
<1>5. QED
  BY <1>4, StagesDequeue, StagesElsewhere DEF StageInv

\* The steps of AcceptCompletion and of DisconnectCompletion, but for a failed set-up.
LEMMA StagesHandlerStep ==
  ASSUME TypeInv, StageInv, Running, Running', NEW w \in Workers, OthersKept(w),
         \/ AcceptConnected(w) \/ AcceptSetupDone(w) \/ AcceptPreRecv(w) \/ AcceptRegister(w)
         \/ DisconnectUnregister(w) \/ DisconnectReleaseBase(w)
  PROVE  \A t \in Sessions : Stages(t)'
<1>t. SessionTypes /\ WorkTypes /\ Control
  BY DEF TypeInv, TypeOK
<1>1. PICK s \in Sessions : s = ctx[w]
  BY <1>t DEF Control, ControlAt, ContextPCs, Kinds, AcceptConnected, AcceptSetupDone,
              AcceptPreRecv, AcceptRegister, DisconnectUnregister, DisconnectReleaseBase
<1>2. Stages(s)' /\ client'[w] = client[w]
  <2>1. CASE DisconnectReleaseBase(w)
    BY <1>1, <2>1, StagesReleaseBase
  <2>2. CASE ~DisconnectReleaseBase(w)
    <3>1. client'[w] = client[w]
      BY <2>2 DEF AcceptConnected, AcceptSetupDone, AcceptPreRecv, AcceptRegister,
                  DisconnectUnregister
    <3>2. QED
      BY <1>1, <2>2, <3>1, StagesAcceptConnected, StagesAcceptSetupDone, StagesAcceptPreRecv,
         StagesAcceptRegister, StagesUnregister
  <2>3. QED
    BY <2>1, <2>2
<1>3. ctx' = ctx /\ UNCHANGED <<sendLock, sendData, freeList>>
  BY DEF AcceptConnected, AcceptSetupDone, AcceptPreRecv, AcceptRegister, DisconnectUnregister,
         DisconnectReleaseBase, sendVars, poolVars
<1>4. ASSUME NEW t \in Sessions, t # s
      PROVE  /\ connected'[t] = connected[t] /\ refCount'[t] = refCount[t] /\ sock'[t] = sock[t]
             /\ \A k \in Kinds : io'[t][k] = io[t][k]
             /\ baseRef'[t] = baseRef[t]
             /\ t \in registered' <=> t \in registered
  <2>1. CASE AcceptPreRecv(w)
    <3>1. ReceivePosted(s, "recvZero") \/ ReceiveRefused
      BY <1>1, <2>1 DEF AcceptPreRecv
    <3>2. refCount'[t] = refCount[t] /\ \A k \in Kinds : io'[t][k] = io[t][k]
      <4>1. "recvZero" \in Kinds
        BY DEF Kinds
      <4>2. QED
        BY <1>t, <1>4, <3>1, <4>1, ReceiveEffect
    <3>3. UNCHANGED <<connected, sock, baseRef, registered>>
      BY <2>1 DEF AcceptPreRecv, castVars
    <3>4. QED
      BY <3>2, <3>3
  <2>2. CASE DisconnectReleaseBase(w)
    <3>1. ReleaseRef(w, s, "delete") /\ "delete" \in PCs
      BY <1>1, <2>2 DEF DisconnectReleaseBase, PCs
    <3>2. refCount'[t] = refCount[t]
      BY <1>t, <1>4, <3>1, ReleaseEffect
    <3>3. UNCHANGED <<connected, sock, io, registered>>
      BY <2>2 DEF DisconnectReleaseBase, castVars
    <3>4. baseRef'[t] = baseRef[t]
      BY <1>t, <1>1, <1>4, <2>2 DEF DisconnectReleaseBase, SessionTypes
    <3>5. QED
      BY <3>2, <3>3, <3>4
  <2>3. CASE AcceptConnected(w)
    BY <1>t, <1>1, <1>4, <2>3 DEF AcceptConnected, SessionTypes, castVars
  <2>4. CASE AcceptSetupDone(w)
    BY <1>t, <1>1, <1>4, <2>4 DEF AcceptSetupDone, SessionTypes, castVars
  <2>5. CASE AcceptRegister(w)
    BY <1>1, <1>4, <2>5 DEF AcceptRegister, sessionVars
  <2>6. CASE DisconnectUnregister(w)
    BY <1>1, <1>4, <2>6 DEF DisconnectUnregister, Erase, sessionVars
  <2>7. QED
    BY <2>1, <2>2, <2>3, <2>4, <2>5, <2>6
<1>5. Elsewhere(s)
  BY <1>1, <1>2, <1>3, <1>4, ElsewhereFrom DEF Free, InRange
<1>6. QED
  BY <1>2, <1>5, StagesElsewhere DEF StageInv

\* A worker deletes the context it holds.
LEMMA StagesReleaseStep ==
  ASSUME TypeInv, StageInv, Running, Running', NEW w \in Workers, OthersKept(w),
         DeleteContext(w) \/ FlushFailed(w)
  PROVE  \A t \in Sessions : Stages(t)'
<1>t. SessionTypes /\ WorkTypes /\ Control
  BY DEF TypeInv, TypeOK
<1>1. PICK s \in Sessions : s = ctx[w]
  BY <1>t DEF Control, ControlAt, ContextPCs, DeleteContext, FlushFailed
<1>2. PICK next \in {"flush", "flushDisc"} : ReleaseRef(w, s, next)
  BY <1>1 DEF DeleteContext, FlushFailed
<1>3. UNCHANGED <<connected, sock, io, baseRef, sendLock, sendData, freeList, registered>>
  BY DEF DeleteContext, FlushFailed, sendVars, poolVars, castVars
<1>4. pc[w] \in {"delete", "flushPost"} /\ ctx' = [ctx EXCEPT ![w] = None]
  BY DEF DeleteContext, FlushFailed
<1>5. Drops(w, s)
  BY <1>1, <1>4 DEF Drops, OthersKept, AcceptPCs, DisconnectPCs
<1>6. Stages(s)'
  BY <1>2, <1>3, <1>4, <1>5, StagesRelease
<1>7. /\ client[w] = None /\ client'[w] \in {s, None} /\ ctx'[w] = None
      /\ \A t \in Sessions \ {s} : refCount'[t] = refCount[t]
  <2>1. client[w] = None
    BY <1>t, <1>4 DEF Control, ControlAt, ReturnPCs
  <2>2. ctx'[w] = None
    BY <1>t, <1>4 DEF WorkTypes
  <2>3. next \in PCs
    BY DEF PCs
  <2>4. /\ refCount[s] \in Int
        /\ refCount[s] = 1 \/ refCount[s] > 1 \/ refCount[s] < 1
        /\ refCount[s] < 1 => client' = client
        /\ \A t \in Sessions \ {s} : refCount'[t] = refCount[t]
        /\ refCount[s] = 1 => client'[w] = s
        /\ refCount[s] > 1 => client'[w] = client[w]
    <3>1. refCount[s] \in Int
      BY <1>t DEF SessionTypes
    <3>2. QED
      BY <1>t, <1>2, <2>3, <3>1, ReleaseEffect
  <2>5. QED
    BY <2>1, <2>2, <2>4
<1>8. Elsewhere(s)
  BY <1>1, <1>3, <1>7, ElsewhereFrom DEF Free, InRange
<1>9. QED
  BY <1>6, <1>8, StagesElsewhere DEF StageInv

\* FlushSend makes a context, or hands it to the kernel.
LEMMA StagesFlushStep ==
  ASSUME TypeInv, StageInv, Running, NEW w \in Workers, OthersKept(w),
         FlushStart(w) \/ FlushPosted(w)
  PROVE  \A t \in Sessions : Stages(t)'
<1>t. SessionTypes /\ SendTypes /\ ListTypes /\ WorkTypes /\ Control
  BY DEF TypeInv, TypeOK
<1>1. CASE FlushStart(w)
  <2>1. sendList[w] # <<>> /\ ctx[w] = None
    BY <1>t, <1>1 DEF Control, ControlAt, ContextPCs, ReturnPCs, Kinds, FlushStart
  <2>2. PICK s \in Sessions : s = Front(w)
    BY <1>t, <2>1, FrontIsSession
  <2>3. ctx'[w] = s /\ client'[w] = client[w]
    BY <1>t, <1>1, <2>2 DEF FlushStart, WorkTypes
  <2>4. /\ UNCHANGED <<connected, sock, io, baseRef, sendData, freeList, registered>>
        /\ \A t \in Sessions \ {s} : refCount'[t] = refCount[t] /\ sendLock'[t] = sendLock[t]
    BY <1>t, <1>1, <2>2 DEF FlushStart, SessionTypes, SendTypes, poolVars, castVars
  <2>5. Elsewhere(s)
    BY <2>1, <2>3, <2>4, ElsewhereFrom DEF Free, InRange
  <2>6. QED
    BY <1>1, <2>2, <2>5, StagesFlushStart, StagesElsewhere DEF StageInv
<1>2. CASE FlushPosted(w)
  <2>1. PICK s \in Sessions : s = ctx[w]
    BY <1>t, <1>2 DEF Control, ControlAt, ContextPCs, FlushPosted
  <2>2. ctx'[w] = None /\ client'[w] = client[w]
    BY <1>t, <1>2 DEF FlushPosted, WorkTypes
  <2>3. UNCHANGED <<connected, refCount, sock, baseRef, sendData, freeList, registered>>
    BY <1>2 DEF FlushPosted, poolVars, castVars
  <2>4. \A t \in Sessions \ {s} : sendLock'[t] = sendLock[t] /\ \A k \in Kinds : io'[t][k] = io[t][k]
    <3>1. "send" \in Kinds /\ PostToKernel(s, "send")
      BY <1>2, <2>1 DEF FlushPosted, Kinds
    <3>2. \A t \in Sessions \ {s} : \A k \in Kinds : io'[t][k] = io[t][k]
      BY <1>t, <3>1, KernelEffect
    <3>3. QED
      BY <1>t, <1>2, <2>1, <3>2 DEF FlushPosted, SendTypes
  <2>5. Elsewhere(s)
    BY <2>1, <2>2, <2>3, <2>4, ElsewhereFrom DEF Free, InRange
  <2>6. QED
    BY <1>2, <2>1, <2>5, StagesFlushPosted, StagesElsewhere DEF StageInv
<1>3. QED
  BY <1>1, <1>2

\* SessionReset, and the session goes back to the free list.
LEMMA StagesReturnStep ==
  ASSUME TypeInv, StageInv, Running, NEW w \in Workers, OthersKept(w),
         ReturnReset(w) \/ ReturnPushBack(w)
  PROVE  \A t \in Sessions : Stages(t)'
<1>t. SessionTypes /\ SendTypes /\ PoolTypes /\ WorkTypes /\ Control
  BY DEF TypeInv, TypeOK
<1>1. PICK s \in Sessions : s = client[w]
  BY <1>t DEF Control, ControlAt, ReturnPCs, ReturnReset, ReturnPushBack
<1>2. Stages(s)'
  BY <1>1, StagesReset, StagesPushBack
<1>3. {pc[w], pc'[w]} \cap StagePCs = {} /\ ctx'[w] = ctx[w]
  BY <1>t DEF ReturnReset, ReturnPushBack, Goto, WorkTypes, StagePCs, AcceptPCs, DisconnectPCs
<1>4. client'[w] \in {s, None}
  BY <1>t, <1>1 DEF ReturnReset, ReturnPushBack, WorkTypes
<1>5. ASSUME NEW t \in Sessions, t # s
      PROVE  SameSession(t) /\ SameWorkers(t) /\ SameStagePCs(t) /\ sendData'[t] = sendData[t]
  <2>1. t # None
    BY NamesDistinct
  <2>2. SameWorkers(t) /\ SameStagePCs(t)
    BY <1>1, <1>3, <1>4, <1>5, <2>1 DEF OthersKept, SameWorkers, SameStagePCs
  <2>3. Free(t)' = Free(t)
    <3>1. CASE ReturnReset(w)
      BY <3>1 DEF ReturnReset, poolVars, Free, InRange
    <3>2. CASE ReturnPushBack(w)
      <4>1. freeList' = Append(freeList, s)
        BY <1>1, <3>2 DEF ReturnPushBack
      <4>2. Free(t)' <=> Free(t)
        BY <1>t, <1>5, <4>1, PushBackList
      <4>3. QED
        BY <4>2 DEF Free
    <3>3. QED
      BY <3>1, <3>2
  <2>4. /\ connected'[t] = connected[t] /\ refCount'[t] = refCount[t] /\ sock'[t] = sock[t]
        /\ UNCHANGED <<io, baseRef, sendLock, registered>>
        /\ sendData'[t] = sendData[t]
    BY <1>t, <1>1, <1>5
      DEF ReturnReset, ReturnPushBack, SessionTypes, SendTypes, sendVars, castVars
  <2>5. QED
    BY <2>2, <2>3, <2>4 DEF SameSession
<1>6. QED
  BY <1>2, <1>5, StagesElsewhere DEF Elsewhere, StageInv

\* Every step keeps the stage of every session.
LEMMA StagesStep ==
  ASSUME TypeInv, StageInv, Running, Running', NEW w \in Workers, Step(w) \/ Dequeue(w)
  PROVE  \A t \in Sessions : Stages(t)'
<1>1. OthersKept(w)
  BY StepIsLocal DEF TypeInv
<1>2. ~ReturnLockOrder(w)
  BY DEF ReturnLockOrder, CrashAssert, Running
<1>3. CASE Dequeue(w)
  BY <1>1, <1>3, StagesDequeueStep DEF Dequeue
<1>4. CASE Step(w)
  BY <1>1, <1>2, <1>4, StagesPlainStep, StagesDisconnectStep, StagesReceiveStep,
     StagesHandlerStep, StagesReleaseStep, StagesFlushStep, StagesReturnStep DEF Step
<1>5. QED
  BY <1>3, <1>4

\* The send locks that a step leaves alone, with the worker's own code and list.
LEMMA SendLocksKept ==
  ASSUME NEW w \in Workers, OthersKept(w), SendLocks, UNCHANGED sendLock,
         pc'[w] # "flushPost",
         \/ pc[w] \notin {"flushPost", "flushDisc", "return"}
         \/ /\ pc'[w] \in {"flushPost", "flushDisc", "return"} /\ sendList'[w] = sendList[w]
         \/ \A s \in Sessions : sendLock[s] # w
  PROVE  SendLocks'
<1>1. SUFFICES ASSUME NEW v \in Workers
               PROVE  /\ pc'[v] = "flushPost" => sendLock[ctx'[v]] = v /\ ctx'[v] = Front(v)'
                      /\ \A s \in Sessions : sendLock[s] = v =>
                           /\ pc'[v] \in {"flushPost", "flushDisc", "return"}
                           /\ sendList'[v] # <<>> /\ s = Front(v)'
  BY DEF SendLocks
<1>2. CASE v = w
  BY <1>2 DEF SendLocks, Front
<1>3. CASE v # w
  BY <1>3 DEF SendLocks, Front, OthersKept
<1>4. QED
  BY <1>2, <1>3

\* Every step keeps the send locks within FlushSend.
LEMMA SendLocksStep ==
  ASSUME TypeInv, StageInv, Running, Running', NEW w \in Workers, Step(w) \/ Dequeue(w)
  PROVE  SendLocks'
<1>t. SessionTypes /\ SendTypes /\ ListTypes /\ WorkTypes /\ Control
  BY DEF TypeInv, TypeOK
<1>s. SendLocks
  BY DEF StageInv
<1>o. OthersKept(w)
  BY StepIsLocal DEF TypeInv
<1>n. None \notin Workers /\ w # None
  BY NamesDistinct
<1>1. CASE FlushStart(w)
  <2>1. sendList[w] # <<>> /\ sendList' = sendList
    BY <1>t, <1>1 DEF FlushStart, listVars, Control, ControlAt
  <2>2. PICK s \in Sessions : s = Front(w)
    BY <1>t, <2>1, FrontIsSession
  <2>3. /\ sendLock[s] = None /\ sendLock'[s] = w
        /\ \A t \in Sessions \ {s} : sendLock'[t] = sendLock[t]
        /\ ctx'[w] = s /\ pc'[w] = "flushPost" /\ pc[w] = "flushLock"
    BY <1>t, <1>1, <2>2 DEF FlushStart, Goto, SendTypes, WorkTypes
  <2>4. SUFFICES ASSUME NEW v \in Workers
                 PROVE  /\ pc'[v] = "flushPost" => sendLock'[ctx'[v]] = v /\ ctx'[v] = Front(v)'
                        /\ \A t \in Sessions : sendLock'[t] = v =>
                             /\ pc'[v] \in {"flushPost", "flushDisc", "return"}
                             /\ sendList'[v] # <<>> /\ t = Front(v)'
    BY DEF SendLocks
  <2>5. Front(v)' = Front(v)
    BY <2>1 DEF Front
  <2>6. CASE v = w
    BY <1>s, <2>1, <2>2, <2>3, <2>5, <2>6 DEF SendLocks
  <2>7. CASE v # w
    <3>1. pc[v] = "flushPost" => ctx[v] \in Sessions /\ ctx[v] # s
      BY <1>t, <1>s, <1>n, <2>3 DEF SendLocks, Control, ControlAt, ContextPCs
    <3>2. pc'[v] = pc[v] /\ ctx'[v] = ctx[v]
      BY <1>o, <2>7 DEF OthersKept
    <3>3. \A t \in Sessions : sendLock'[t] = v => sendLock[t] = v
      BY <2>3, <2>7
    <3>4. ASSUME pc'[v] = "flushPost"
          PROVE  sendLock'[ctx'[v]] = v /\ ctx'[v] = Front(v)'
      <4>1. PICK t \in Sessions \ {s} : t = ctx[v]
        BY <3>1, <3>2, <3>4
      <4>2. sendLock[t] = v /\ t = Front(v)
        BY <1>s, <3>2, <3>4, <4>1 DEF SendLocks
      <4>3. ctx'[v] = t /\ sendLock'[t] = v
        BY <2>3, <3>2, <4>1, <4>2
      <4>4. QED
        BY <2>5, <4>2, <4>3
    <3>5. QED
      BY <1>s, <2>1, <2>5, <3>2, <3>3, <3>4 DEF SendLocks
  <2>8. QED
    BY <2>6, <2>7
<1>2. ASSUME NEW s \in Sessions, FlushPosted(w) \/ FlushDisconnect(w), s = Front(w),
             sendLock' = [sendLock EXCEPT ![s] = IF @ = w THEN None ELSE @],
             pc'[w] = "flush"
      PROVE  SendLocks'
  <2>1. \A t \in Sessions : sendLock'[t] # w
    BY <1>t, <1>s, <1>n, <1>2 DEF SendLocks, SendTypes
  <2>2. \A t \in Sessions, v \in Workers \ {w} : sendLock'[t] = v <=> sendLock[t] = v
    BY <1>t, <1>n, <1>2 DEF SendTypes
  <2>3. SUFFICES ASSUME NEW v \in Workers
                 PROVE  /\ pc'[v] = "flushPost" => sendLock'[ctx'[v]] = v /\ ctx'[v] = Front(v)'
                        /\ \A t \in Sessions : sendLock'[t] = v =>
                             /\ pc'[v] \in {"flushPost", "flushDisc", "return"}
                             /\ sendList'[v] # <<>> /\ t = Front(v)'
    BY DEF SendLocks
  <2>4. CASE v = w
    BY <1>2, <2>1, <2>4
  <2>5. CASE v # w
    <3>1. pc'[v] = pc[v] /\ ctx'[v] = ctx[v] /\ sendList'[v] = sendList[v] /\ Front(v)' = Front(v)
      BY <1>o, <2>5 DEF OthersKept, Front
    <3>2. pc[v] = "flushPost" => ctx[v] \in Sessions
      BY <1>t DEF Control, ControlAt, ContextPCs
    <3>3. QED
      BY <1>s, <2>2, <2>5, <3>1, <3>2 DEF SendLocks
  <2>6. QED
    BY <2>4, <2>5
<1>3. CASE FlushPosted(w)
  <2>1. PICK s \in Sessions : s = ctx[w]
    BY <1>t, <1>3 DEF Control, ControlAt, ContextPCs, FlushPosted
  <2>2. s = Front(w) /\ sendLock[s] = w
    BY <1>s, <1>3, <2>1 DEF SendLocks, FlushPosted
  <2>3. sendLock' = [sendLock EXCEPT ![s] = IF @ = w THEN None ELSE @]
    BY <1>t, <1>3, <2>1, <2>2 DEF FlushPosted, SendTypes
  <2>4. pc'[w] = "flush"
    BY <1>t, <1>3 DEF FlushPosted, Goto, WorkTypes
  <2>5. QED
    BY <1>2, <1>3, <2>2, <2>3, <2>4
<1>4. CASE FlushDisconnect(w)
  <2>1. PICK s \in Sessions : s = Front(w)
    BY <1>t, <1>4, FrontIsSession DEF Control, ControlAt, FlushDisconnect
  <2>2. /\ sendLock' = [sendLock EXCEPT ![s] = IF @ = w THEN None ELSE @]
        /\ pc'[w] = "flush"
    BY <1>t, <1>4, <2>1 DEF FlushDisconnect, Goto, WorkTypes
  <2>3. QED
    BY <1>2, <1>4, <2>1, <2>2
<1>5. CASE FlushFailed(w)
  <2>1. PICK s \in Sessions : s = ctx[w]
    BY <1>t, <1>5 DEF Control, ControlAt, ContextPCs, FlushFailed
  <2>2. ReleaseRef(w, s, "flushDisc") /\ "flushDisc" \in PCs
    BY <1>5, <2>1 DEF FlushFailed, PCs
  <2>3. pc'[w] \in {"flushDisc", "return"}
    <3>1. refCount[s] \in Int
      BY <1>t DEF SessionTypes
    <3>2. refCount[s] = 1 \/ refCount[s] > 1 \/ refCount[s] < 1
      BY <3>1
    <3>3. ~(refCount[s] < 1)
      BY <1>t, <2>2, ReleaseEffect DEF Running
    <3>4. QED
      BY <1>t, <2>2, <3>2, <3>3, ReleaseEffect
  <2>4. UNCHANGED <<sendLock, sendList>>
    BY <1>5 DEF FlushFailed, sendVars, listVars
  <2>5. QED
    BY <1>o, <1>s, <2>3, <2>4, SendLocksKept
<1>6. CASE ReturnLock(w)
  <2>1. \A s \in Sessions : sendLock[s] # w
    BY <1>6 DEF ReturnLock, HoldsSendLock
  <2>2. pc'[w] # "flushPost" /\ UNCHANGED sendLock
    BY <1>t, <1>6 DEF ReturnLock, CrashAssert, Goto, Running, WorkTypes, sendVars
  <2>3. QED
    BY <1>o, <1>s, <2>1, <2>2, SendLocksKept
<1>7. CASE DeleteContext(w)
  <2>1. PICK s \in Sessions : s = ctx[w]
    BY <1>t, <1>7 DEF Control, ControlAt, ContextPCs, DeleteContext
  <2>2. pc'[w] # "flushPost"
    BY <1>t, <1>7, <2>1 DEF DeleteContext, ReleaseRef, CrashAssert, Goto, WorkTypes
  <2>3. UNCHANGED sendLock /\ pc[w] = "delete"
    BY <1>7 DEF DeleteContext, sendVars
  <2>4. QED
    BY <1>o, <1>s, <2>2, <2>3, SendLocksKept
<1>8. CASE DisconnectReleaseBase(w)
  <2>1. pc'[w] # "flushPost"
    BY <1>t, <1>8 DEF DisconnectReleaseBase, ReleaseRef, CrashAssert, Goto, WorkTypes
  <2>2. UNCHANGED sendLock /\ pc[w] = "relBase"
    BY <1>8 DEF DisconnectReleaseBase, sendVars
  <2>3. QED
    BY <1>o, <1>s, <2>1, <2>2, SendLocksKept
<1>9. CASE Dequeue(w)
  <2>1. UNCHANGED sendLock /\ pc[w] = "idle" /\ pc'[w] \in Kinds
    BY <1>t, <1>9 DEF Dequeue, DequeueCompletion, Goto, WorkTypes, sendVars
  <2>2. QED
    BY <1>o, <1>s, <2>1, SendLocksKept DEF Kinds
<1>10. ASSUME Step(w), ~FlushStart(w), ~FlushPosted(w), ~FlushDisconnect(w), ~FlushFailed(w),
              ~ReturnLock(w), ~DeleteContext(w), ~DisconnectReleaseBase(w)
       PROVE  SendLocks'
  <2>1. UNCHANGED sendLock
    BY <1>10
      DEF Step, DequeueTimeout, CloseConnection, AcceptConnected, AcceptSetupDone,
          AcceptSetupFailed, AcceptPreRecv, AcceptRegister, RecvZeroCompleted, RecvCompleted,
          OnReadBadPacket, OnReadChat, OnReadDone, BroadcastLock, BroadcastUnlock, BroadcastSend,
          BroadcastAbort, SendCompleted, SendFailed, DisconnectUnregister, FlushBegin,
          FlushNothing, FlushEnd, ReturnLockOrder, ReturnReset, ReturnPushBack, sendVars
  <2>2. pc[w] \notin {"flushPost", "flushDisc", "return"} /\ pc'[w] # "flushPost"
    BY <1>t, <1>10
      DEF Step, DequeueTimeout, CloseConnection, AcceptConnected, AcceptSetupDone,
          AcceptSetupFailed, AcceptPreRecv, AcceptRegister, RecvZeroCompleted, RecvCompleted,
          OnReadBadPacket, OnReadChat, OnReadDone, BroadcastLock, BroadcastUnlock, BroadcastSend,
          BroadcastAbort, SendCompleted, SendFailed, DisconnectUnregister, FlushBegin,
          FlushNothing, FlushEnd, ReturnLockOrder, ReturnReset, ReturnPushBack, CrashAssert,
          Goto, Running, WorkTypes, workVars
  <2>3. QED
    BY <1>o, <1>s, <2>1, <2>2, SendLocksKept
<1>11. QED
  BY <1>1, <1>3, <1>4, <1>5, <1>6, <1>7, <1>8, <1>9, <1>10

\* The free list stays without repetitions: only a session that is not on it is pushed.
LEMMA InjectiveStep ==
  ASSUME TypeInv, StageInv, FreeListInjective, Running, NEW w \in Workers, Step(w) \/ Dequeue(w)
  PROVE  FreeListInjective'
<1>t. PoolTypes /\ Control
  BY DEF TypeInv, TypeOK
<1>1. CASE ReturnPushBack(w)
  <2>1. PICK s \in Sessions : s = client[w]
    BY <1>t, <1>1 DEF Control, ControlAt, ReturnPCs, ReturnPushBack
  <2>2. ~Free(s)
    BY <2>1 DEF StageInv, Stages, ReturnStage, Returning
  <2>3. freeList' = Append(freeList, s)
    BY <1>1, <2>1 DEF ReturnPushBack
  <2>4. QED
    BY <1>t, <2>2, <2>3, PushBackList
<1>2. CASE ~ReturnPushBack(w)
  <2>1. UNCHANGED freeList
    BY <1>2
      DEF Step, DequeueTimeout, CloseConnection, DeleteContext, AcceptConnected,
          AcceptSetupDone, AcceptSetupFailed, AcceptPreRecv, AcceptRegister, RecvZeroCompleted,
          RecvCompleted, OnReadBadPacket, OnReadChat, OnReadDone, BroadcastLock, BroadcastUnlock,
          BroadcastSend, BroadcastAbort, SendCompleted, SendFailed, DisconnectUnregister,
          DisconnectReleaseBase, FlushBegin, FlushNothing, FlushStart, FlushPosted, FlushFailed,
          FlushDisconnect, FlushEnd, ReturnLockOrder, ReturnLock, ReturnReset, Dequeue,
          DequeueCompletion, poolVars
  <2>2. QED
    BY <2>1 DEF FreeListInjective
<1>3. QED
  BY <1>1, <1>2

\* The broadcast lock covers the loop of BroadcastPacket, whose targets stay registered.
BroadcastLocks ==
  \A w \in Workers :
    /\ pc[w] = "chatSend" => bcastLock = w
    /\ targets[w] # {} => pc[w] = "chatSend" /\ targets[w] \subseteq registered

\* Every step keeps the broadcast lock around the loop over the targets.
LEMMA BroadcastStep ==
  ASSUME TypeInv, BroadcastLocks, Running, Running', NEW w \in Workers, Step(w) \/ Dequeue(w)
  PROVE  BroadcastLocks'
<1>t. SessionTypes /\ CastTypes /\ WorkTypes /\ Control
  BY DEF TypeInv, TypeOK
<1>o. OthersKept(w)
  BY StepIsLocal DEF TypeInv
<1>n. \A v \in Workers : v # None
  BY NamesDistinct
<1>1. SUFFICES ASSUME NEW v \in Workers
               PROVE  /\ pc'[v] = "chatSend" => bcastLock' = v
                      /\ targets'[v] # {} => pc'[v] = "chatSend" /\ targets'[v] \subseteq registered'
  BY DEF BroadcastLocks
<1>2. v # w => pc'[v] = pc[v] /\ targets'[v] = targets[v]
  BY <1>o DEF OthersKept
<1>3. CASE BroadcastLock(w)
  BY <1>t, <1>n, <1>2, <1>3
    DEF BroadcastLock, BroadcastLockFree, Goto, WorkTypes, CastTypes, BroadcastLocks
<1>4. CASE BroadcastUnlock(w)
  BY <1>t, <1>n, <1>2, <1>4 DEF BroadcastUnlock, Goto, WorkTypes, CastTypes, BroadcastLocks
<1>5. ASSUME NEW t \in Sessions, BroadcastSend(w, t) \/ BroadcastAbort(w, t)
      PROVE  /\ pc'[v] = "chatSend" => bcastLock' = v
             /\ targets'[v] # {} => pc'[v] = "chatSend" /\ targets'[v] \subseteq registered'
  BY <1>t, <1>2, <1>5 DEF BroadcastSend, BroadcastAbort, CastTypes, BroadcastLocks, workVars
<1>6. CASE AcceptRegister(w) \/ DisconnectUnregister(w)
  <2>1. bcastLock = None /\ targets' = targets
    BY <1>6 DEF AcceptRegister, DisconnectUnregister, BroadcastLockFree
  <2>2. targets'[v] = {}
    BY <1>n, <2>1 DEF BroadcastLocks
  <2>3. pc[v] # "chatSend" /\ pc'[w] # "chatSend"
    BY <1>t, <1>n, <1>6, <2>1
      DEF AcceptRegister, DisconnectUnregister, CrashAssert, Goto, WorkTypes, BroadcastLocks
  <2>4. QED
    BY <1>2, <2>2, <2>3
<1>7. CASE /\ UNCHANGED <<registered, bcastLock, targets>>
           /\ pc[w] # "chatSend" /\ pc'[w] # "chatSend"
  BY <1>2, <1>7 DEF BroadcastLocks
<1>8. CASE DeleteContext(w) \/ DisconnectReleaseBase(w) \/ FlushFailed(w)
  <2>1. pc[w] # "chatSend" /\ pc'[w] # "chatSend"
    BY <1>t, <1>8
      DEF DeleteContext, DisconnectReleaseBase, FlushFailed, ReleaseRef, CrashAssert, Goto, WorkTypes
  <2>2. UNCHANGED <<registered, bcastLock, targets>>
    BY <1>8 DEF DeleteContext, DisconnectReleaseBase, FlushFailed, castVars
  <2>3. QED
    BY <1>7, <2>1, <2>2
<1>9. CASE Dequeue(w)
  <2>1. pc[w] # "chatSend" /\ pc'[w] # "chatSend" /\ UNCHANGED <<registered, bcastLock, targets>>
    BY <1>t, <1>9 DEF Dequeue, DequeueCompletion, Goto, WorkTypes, Kinds, castVars
  <2>2. QED
    BY <1>7, <2>1
<1>10. CASE OnReadBadPacket(w)
  <2>1. pc[w] # "chatSend" /\ pc'[w] # "chatSend" /\ UNCHANGED <<registered, bcastLock, targets>>
    BY <1>10 DEF OnReadBadPacket, castVars, workVars
  <2>2. QED
    BY <1>7, <2>1
<1>11. CASE CloseConnection(w) \/ AcceptSetupFailed(w) \/ RecvZeroCompleted(w) \/ OnReadDone(w)
            \/ AcceptPreRecv(w) \/ FlushDisconnect(w)
  <2>1. pc[w] # "chatSend" /\ pc'[w] # "chatSend"
    BY <1>t, <1>11 DEF CloseConnection, AcceptSetupFailed, RecvZeroCompleted, OnReadDone,
       AcceptPreRecv, FlushDisconnect, Goto, WorkTypes
  <2>2. UNCHANGED <<registered, bcastLock, targets>>
    BY <1>11 DEF CloseConnection, AcceptSetupFailed, RecvZeroCompleted, OnReadDone,
       AcceptPreRecv, FlushDisconnect, castVars
  <2>3. QED
    BY <1>7, <2>1, <2>2
<1>12. CASE DequeueTimeout(w) \/ AcceptConnected(w) \/ AcceptSetupDone(w) \/ RecvCompleted(w)
            \/ OnReadChat(w) \/ SendFailed(w) \/ (\E n \in 1..SendCap : SendCompleted(w, n))
            \/ FlushBegin(w) \/ FlushNothing(w) \/ FlushStart(w) \/ FlushPosted(w) \/ FlushEnd(w)
            \/ ReturnLockOrder(w) \/ ReturnLock(w) \/ ReturnReset(w) \/ ReturnPushBack(w)
  <2>1. pc[w] # "chatSend" /\ pc'[w] # "chatSend"
    BY <1>t, <1>12
      DEF DequeueTimeout, AcceptConnected, AcceptSetupDone, RecvCompleted, OnReadChat, SendFailed,
          SendCompleted, FlushBegin, FlushNothing, FlushStart, FlushPosted, FlushEnd,
          ReturnLockOrder, ReturnLock, ReturnReset, ReturnPushBack, CrashAssert, Running,
          Goto, WorkTypes
  <2>2. UNCHANGED <<registered, bcastLock, targets>>
    BY <1>12
      DEF DequeueTimeout, AcceptConnected, AcceptSetupDone, RecvCompleted, OnReadChat, SendFailed,
          SendCompleted, FlushBegin, FlushNothing, FlushStart, FlushPosted, FlushEnd,
          ReturnLockOrder, ReturnLock, ReturnReset, ReturnPushBack, castVars
  <2>3. QED
    BY <1>7, <2>1, <2>2
<1>13. QED
  BY <1>3, <1>4, <1>5, <1>6, <1>8, <1>9, <1>10, <1>11, <1>12 DEF Step

\* The CRASH_ASSERTs of AcceptCompletion and RegisterClient hold at every step.
LEMMA AssertStep ==
  ASSUME TypeInv, StageInv, Running, NEW w \in Workers, Step(w) \/ Dequeue(w)
  PROVE  AssertsNeverFail'
<1>t. SessionTypes /\ WorkTypes /\ Control
  BY DEF TypeInv, TypeOK
<1>1. CASE AcceptConnected(w) \/ AcceptRegister(w)
  <2>1. PICK s \in Sessions : s = ctx[w]
    BY <1>t, <1>1 DEF Control, ControlAt, ContextPCs, Kinds, AcceptConnected, AcceptRegister
  <2>2. halt' = halt
    BY <1>1, <2>1, StagesAcceptConnected, StagesAcceptRegister
  <2>3. QED
    BY <2>2 DEF AssertsNeverFail, Running
<1>2. CASE ~AcceptConnected(w) /\ ~AcceptRegister(w)
  <2>1. halt' \in {halt, "ReleaseRef", "UnregisterClient", "LockOrder", "ReturnClientSession"}
    BY <1>2
      DEF Step, DequeueTimeout, CloseConnection, DeleteContext,
          AcceptSetupDone, AcceptSetupFailed, AcceptPreRecv, RecvZeroCompleted,
          RecvCompleted, OnReadBadPacket, OnReadChat, OnReadDone, BroadcastLock, BroadcastUnlock,
          BroadcastSend, BroadcastAbort, SendCompleted, SendFailed, DisconnectUnregister,
          DisconnectReleaseBase, FlushBegin, FlushNothing, FlushStart, FlushPosted, FlushFailed,
          FlushDisconnect, FlushEnd, ReturnLockOrder, ReturnLock, ReturnReset, ReturnPushBack,
          Dequeue, DequeueCompletion, ReleaseRef, CrashAssert
  <2>2. QED
    BY <2>1 DEF AssertsNeverFail, Running
<1>3. QED
  BY <1>1, <1>2

-----------------------------------------------------------------------------
(* The inductive invariant, and what follows from it *)

SessionInv ==
  /\ TypeInv /\ StageInv
  /\ Running => FreeListInjective /\ BroadcastLocks
  /\ AssertsNeverFail

\* PrepareClientSessions leaves every session on the free list.
LEMMA SessionInvInit ==
  ASSUME Init
  PROVE  SessionInv
<1>1. TypeInv
  BY TypeInvInit
<1>2. FreeListInjective
  BY DEF Init, FreeListInjective
<1>3. BroadcastLocks /\ AssertsNeverFail
  BY DEF Init, BroadcastLocks, AssertsNeverFail
<1>4. SendLocks
  BY NamesDistinct DEF Init, SendLocks
<1>5. ASSUME NEW s \in Sessions
      PROVE  Stages(s)
  <2>1. /\ ~connected[s] /\ refCount[s] = 0 /\ sock[s] = "fresh" /\ ~baseRef[s]
        /\ \A k \in Kinds : io[s][k] = 0
        /\ sendData[s] = 0 /\ sendLock[s] = None /\ s \notin registered
        /\ \A w \in Workers : ctx[w] = None /\ client[w] = None
        /\ s # None
    BY NamesDistinct DEF Init
  <2>2. Free(s)
    <3>1. IsFiniteSet(Sessions) /\ Cardinality(Sessions) \in Nat
      BY SessionsFinite, FS_CardinalityType
    <3>2. PICK n \in Nat : n = Cardinality(Sessions)
      BY <3>1
    <3>3. freeList \in [1..n -> Sessions] /\ \A i, j \in DOMAIN freeList : freeList[i] = freeList[j] => i = j
      BY <3>2 DEF Init
    <3>4. freeList \in Injection(1..n, Sessions)
      BY <3>3 DEF Injection, IsInjective
    <3>5. IsFiniteSet(1..n) /\ Cardinality(1..n) = n
      <4>1. n = n - 1 + 1 /\ 1 \in Int /\ n \in Int
        OBVIOUS
      <4>2. QED
        BY <4>1, FS_Interval
    <3>6. freeList \in Surjection(1..n, Sessions)
      BY <3>1, <3>2, <3>4, <3>5, FS_Injection
    <3>7. QED
      BY <3>3, <3>6 DEF Surjection, Free, InRange
  <2>3. ~Returning(s) /\ Holders(s) = {}
    BY <2>1 DEF Returning, Holders
  <2>4. References(s) = 0
    <3>1. Cardinality(Holders(s)) = 0
      BY <2>3, FS_EmptySet
    <3>2. QED
      BY <2>1, <3>1 DEF References, Outstanding, Kinds
  <2>5. FreeStage(s) /\ ReturnStage(s) /\ CountStage(s)
    BY <2>1, <2>2, <2>3, <2>4 DEF FreeStage, ReturnStage, CountStage
  <2>6. AcceptStage(s) /\ ConnectedStage(s) /\ DisconnectStage(s)
    BY <2>1, <2>2 DEF AcceptStage, ConnectedStage, DisconnectStage, At, Kinds
  <2>7. QED
    BY <2>5, <2>6 DEF Stages
<1>6. QED
  BY <1>1, <1>2, <1>3, <1>4, <1>5 DEF SessionInv, StageInv

\* The main thread's steps keep the invariant while the program runs.
LEMMA MainThreadStep ==
  ASSUME SessionInv, Running', MainThread
  PROVE  StageInv' /\ FreeListInjective' /\ BroadcastLocks' /\ AssertsNeverFail'
<1>0. TypeInv /\ StageInv /\ Running /\ FreeListInjective /\ BroadcastLocks
  BY DEF SessionInv, MainThread
<1>1. CASE IssueSession
  <2>1. (\A t \in Sessions : Stages(t)') /\ FreeListInjective'
    BY <1>0, <1>1, StagesIssue
  <2>2. UNCHANGED <<sendLock, registered, bcastLock, targets, sendList, pc, ctx>>
    BY <1>1 DEF IssueSession, sendVars, castVars, listVars, workVars
  <2>3. SendLocks' /\ BroadcastLocks'
    BY <1>0, <2>2 DEF StageInv, SendLocks, Front, BroadcastLocks
  <2>4. AssertsNeverFail'
    BY DEF Running, AssertsNeverFail
  <2>5. QED
    BY <2>1, <2>3, <2>4 DEF StageInv
<1>2. CASE AcceptClientSessions \/ StopIssuing
  <2>1. UNCHANGED <<sessionVars, sendVars, freeList, castVars, listVars, workVars>>
    BY <1>2 DEF AcceptClientSessions, StopIssuing
  <2>2. UNCHANGED <<connected, refCount, sock, io, baseRef, sendData, sendLock, freeList,
                    registered, bcastLock, targets, sendList, pc, ctx, client>>
    BY <2>1 DEF sessionVars, sendVars, castVars, listVars, workVars
  <2>3. SendLocks' /\ BroadcastLocks' /\ FreeListInjective'
    BY <1>0, <2>2 DEF StageInv, SendLocks, Front, BroadcastLocks, FreeListInjective
  <2>4. ASSUME NEW t \in Sessions
        PROVE  Stages(t)'
    <3>1. SameSession(t) /\ SameWorkers(t) /\ SameStagePCs(t) /\ sendData'[t] = sendData[t]
      BY <2>2 DEF SameSession, SameWorkers, SameStagePCs, Free, InRange
    <3>2. QED
      BY <1>0, <3>1, StagesKept DEF StageInv
  <2>5. AssertsNeverFail'
    BY DEF Running, AssertsNeverFail
  <2>6. QED
    BY <2>3, <2>4, <2>5 DEF StageInv
<1>3. QED
  BY <1>1, <1>2 DEF MainThread

\* Every step keeps the invariant of the session life cycle.
LEMMA SessionInvStep ==
  ASSUME SessionInv, [Next]_vars
  PROVE  SessionInv'
<1>0. TypeInv'
  BY TypeInvStep DEF SessionInv
<1>1. ASSUME Running, Running', MainThread
      PROVE  SessionInv'
  BY <1>0, <1>1, MainThreadStep DEF SessionInv
<1>2. ASSUME NEW w \in Workers, Running, Step(w) \/ Dequeue(w)
      PROVE  SessionInv'
  <2>1. AssertsNeverFail'
    BY <1>2, AssertStep DEF SessionInv
  <2>2. CASE Running'
    BY <1>0, <1>2, <2>1, <2>2, StagesStep, SendLocksStep, InjectiveStep, BroadcastStep
      DEF SessionInv, StageInv
  <2>3. CASE ~Running'
    BY <1>0, <2>1, <2>3 DEF SessionInv, StageInv
  <2>4. QED
    BY <2>2, <2>3
<1>3. ASSUME Running, ~Running', MainThread
      PROVE  SessionInv'
  <2>1. AssertsNeverFail'
    BY <1>3 DEF MainThread, AcceptClientSessions, IssueSession, StopIssuing, SessionInv,
                AssertsNeverFail
  <2>2. QED
    BY <1>0, <1>3, <2>1 DEF SessionInv, StageInv
<1>4. CASE UNCHANGED vars
  <2>1. UNCHANGED <<connected, refCount, sock, io, baseRef, sendData, sendLock, freeList,
                    registered, bcastLock, targets, sendList, pc, ctx, client, halt>>
    BY <1>4 DEF vars, sessionVars, sendVars, poolVars, castVars, listVars, workVars
  <2>2. (Running => FreeListInjective /\ BroadcastLocks)' /\ AssertsNeverFail'
    BY <2>1 DEF SessionInv, Running, FreeListInjective, BroadcastLocks, AssertsNeverFail
  <2>3. StageInv'
    <3>1. SUFFICES ASSUME Running'
                   PROVE  SendLocks' /\ \A t \in Sessions : Stages(t)'
      BY DEF StageInv
    <3>2. SendLocks /\ \A t \in Sessions : Stages(t)
      BY <2>1, <3>1 DEF SessionInv, StageInv, Running
    <3>3. SendLocks'
      BY <2>1, <3>2 DEF SendLocks, Front
    <3>4. \A t \in Sessions : SameSession(t) /\ SameWorkers(t) /\ SameStagePCs(t)
      BY <2>1 DEF SameSession, SameWorkers, SameStagePCs, Free, InRange
    <3>5. QED
      BY <2>1, <3>2, <3>3, <3>4, StagesKept
  <2>4. QED
    BY <1>0, <2>2, <2>3 DEF SessionInv
<1>5. CASE Halted
  BY <1>4, <1>5 DEF Halted
<1>6. QED
  BY <1>1, <1>2, <1>3, <1>4, <1>5 DEF Next, MainThread, Step, Dequeue

\* What the invariant says of the properties the runs check.
LEMMA SessionInvImplies ==
  ASSUME SessionInv
  PROVE  RefCountExact /\ FreeListExact /\ FreeSessionClean /\ BroadcastTargetsHeld
<1>t. TypeInv /\ PoolTypes /\ PoolCount
  BY DEF SessionInv, TypeInv, TypeOK
<1>1. SUFFICES ASSUME Running
               PROVE  RefCountExact /\ FreeListExact /\ FreeSessionClean /\ BroadcastTargetsHeld
  BY DEF RefCountExact, FreeListExact, FreeSessionClean, BroadcastTargetsHeld
<1>2. FreeListInjective /\ BroadcastLocks /\ \A s \in Sessions : Stages(s)
  BY <1>1 DEF SessionInv, StageInv
<1>3. RefCountExact
  BY <1>2 DEF Stages, CountStage, RefCountExact
<1>4. \A s \in InRange(freeList) : s \in Sessions /\ Free(s)
  BY <1>t DEF PoolTypes, InRange, Free
<1>5. FreeSessionClean
  BY <1>2, <1>4 DEF Stages, FreeStage, ConnectedStage, FreeSessionClean
<1>6. BroadcastTargetsHeld
  <2>1. ASSUME NEW s \in registered
        PROVE  baseRef[s]
    <3>1. s \in Sessions
      BY <1>t DEF TypeInv, TypeOK, CastTypes
    <3>2. QED
      BY <1>2, <3>1 DEF Stages, ConnectedStage
  <2>2. QED
    BY <1>2, <2>1 DEF BroadcastLocks, BroadcastTargetsHeld
<1>7. FreeListExact
  <2>1. ASSUME NEW s \in Sessions
        PROVE  s \in InRange(freeList) <=> References(s) = 0 /\ ~Returning(s)
    <3>1. CASE Free(s)
      <4>1. /\ ~baseRef[s] /\ \A k \in Kinds : io[s][k] = 0
            /\ \A w \in Workers : ctx[w] # s /\ client[w] # s
        BY <1>2, <3>1 DEF Stages, FreeStage
      <4>2. Holders(s) = {} /\ ~Returning(s)
        BY <4>1 DEF Holders, Returning
      <4>3. Cardinality(Holders(s)) = 0
        BY <4>2, FS_EmptySet
      <4>4. References(s) = 0
        BY <4>1, <4>3 DEF References, Outstanding, Kinds
      <4>5. QED
        BY <3>1, <4>2, <4>4 DEF Free
    <3>2. CASE ~Free(s)
      BY <1>2, <3>2 DEF Stages, CountStage, Free
    <3>3. QED
      BY <3>1, <3>2
  <2>2. QED
    BY <1>t, <1>2, <2>1 DEF FreeListExact, FreeListInjective, PoolCount
<1>8. QED
  BY <1>3, <1>5, <1>6, <1>7

\* The whole of the life cycle: the stage of every session, the send locks, the free list and
\* the broadcast lock, and the CRASH_ASSERTs of the accept, hold in every run.
THEOREM SessionInvariant == Spec => []SessionInv
<1>1. Init => SessionInv
  BY SessionInvInit
<1>2. SessionInv /\ [Next]_vars => SessionInv'
  BY SessionInvStep
<1>3. QED
  BY <1>1, <1>2, PTL DEF Spec

\* mRefCount of a session that is not being returned is the number of its references, in every
\* run of the program: no AddRef or ReleaseRef is missing or made twice (Session::AddRef,
\* ReleaseRef, OverlappedIOContext).
THEOREM ReferencesCounted == Spec => []RefCountExact
<1>1. SessionInv => RefCountExact
  BY SessionInvImplies
<1>2. QED
  BY <1>1, SessionInvariant, PTL

\* A session is on the free list, once, exactly when nothing refers to it and no worker is
\* returning it, and the two counters tell its length (AcceptClientSessions,
\* ReturnClientSession).
THEOREM FreeListCorrect == Spec => []FreeListExact
<1>1. SessionInv => FreeListExact
  BY SessionInvImplies
<1>2. QED
  BY <1>1, SessionInvariant, PTL

\* The next client of a pooled session finds nothing of the previous one (SessionReset).
THEOREM FreeSessionsClean == Spec => []FreeSessionClean
<1>1. SessionInv => FreeSessionClean
  BY SessionInvImplies
<1>2. QED
  BY <1>1, SessionInvariant, PTL

\* Every client BroadcastPacket has still to serve keeps the reference taken for issuing while
\* the lock is held, so no worker returns it under the loop.
THEOREM TargetsHeld == Spec => []BroadcastTargetsHeld
<1>1. SessionInv => BroadcastTargetsHeld
  BY SessionInvImplies
<1>2. QED
  BY <1>1, SessionInvariant, PTL

\* The CRASH_ASSERTs of AcceptCompletion and of RegisterClient never fail, for any number of
\* sessions, workers and reuses.
THEOREM AcceptAssertsHold == Spec => []AssertsNeverFail
<1>1. SessionInv => AssertsNeverFail
  BY DEF SessionInv
<1>2. QED
  BY <1>1, SessionInvariant, PTL

-----------------------------------------------------------------------------
(* One receive at a time *)

\* The code in which a worker will, or may, post the next receive of its session.
ReceivePCs == {"accept", "setup", "acceptRecv", "recvZero", "recv", "onRead", "chat", "chatSend"}

\* The right to post a receive: with the kernel, in an accept or a receive it has not
\* completed, or with one worker.
ReceivesPosted(s) == io[s]["accept"] + io[s]["recvZero"] + io[s]["recv"]
ReceiveStage(s) ==
  /\ ReceivesPosted(s) \in {0, 1}
  /\ ReceivesPosted(s) = 1 => \A w \in Workers : ~At(w, s, ReceivePCs)
  /\ \A w, v \in Workers : At(w, s, ReceivePCs) /\ At(v, s, ReceivePCs) => w = v
ReceiveStages == \A s \in Sessions : ReceiveStage(s)

\* The right to post stays where it is when nothing moves towards it.
LEMMA ReceiveKept ==
  ASSUME NEW s \in Sessions, ReceiveStage(s), ReceivesPosted(s)' = ReceivesPosted(s),
         \A w \in Workers : At(w, s, ReceivePCs)' => At(w, s, ReceivePCs)
  PROVE  ReceiveStage(s)'
  BY DEF ReceiveStage

\* A worker hands the right to post to the kernel, or lets it go.
LEMMA ReceiveHanded ==
  ASSUME NEW s \in Sessions, ReceiveStage(s), NEW w \in Workers, At(w, s, ReceivePCs),
         ~At(w, s, ReceivePCs)', \A v \in Workers \ {w} : At(v, s, ReceivePCs)' => At(v, s, ReceivePCs),
         NEW d \in {0, 1}, ReceivesPosted(s)' = ReceivesPosted(s) + d
  PROVE  ReceiveStage(s)'
<1>1. ReceivesPosted(s) = 0
  BY DEF ReceiveStage
<1>2. \A v \in Workers : ~At(v, s, ReceivePCs)'
  BY DEF ReceiveStage
<1>3. QED
  BY <1>1, <1>2 DEF ReceiveStage

\* Only the accept and the two receives count.
LEMMA ReceivesPostedSame ==
  ASSUME NEW s \in Sessions, \A k \in {"accept", "recvZero", "recv"} : io'[s][k] = io[s][k]
  PROVE  ReceivesPosted(s)' = ReceivesPosted(s)
  BY DEF ReceivesPosted

\* Nothing about receives, or the accept before them, changes in the kernel.
SameReceives ==
  \A s \in Sessions : \A k \in {"accept", "recvZero", "recv"} : io'[s][k] = io[s][k]

\* A step of w that posts no receive and gives w no right to post one.
LEMMA ReceiveStagesKept ==
  ASSUME ReceiveStages, NEW w \in Workers, OthersKept(w),
         SameReceives,
         pc'[w] \notin ReceivePCs \/ (pc[w] \in ReceivePCs /\ ctx'[w] = ctx[w])
  PROVE  ReceiveStages'
<1>1. SUFFICES ASSUME NEW s \in Sessions
               PROVE  ReceiveStage(s)'
  BY DEF ReceiveStages
<1>2. \A v \in Workers : At(v, s, ReceivePCs)' => At(v, s, ReceivePCs)
  BY DEF At, OthersKept
<1>3. ReceivesPosted(s)' = ReceivesPosted(s)
  BY ReceivesPostedSame DEF SameReceives
<1>4. QED
  BY <1>2, <1>3, ReceiveKept DEF ReceiveStages

\* The completion of an accept or a receive passes the right to one worker.
LEMMA ReceiveDequeue ==
  ASSUME TypeInv, ReceiveStages, Running, NEW w \in Workers, OthersKept(w),
         NEW s \in Sessions, NEW k \in Kinds, DequeueCompletion(w, s, k)
  PROVE  ReceiveStages'
<1>t. SessionTypes /\ WorkTypes /\ Control
  BY DEF TypeInv, TypeOK
<1>1. /\ \A j \in Kinds : io'[s][j] = IF j = k THEN io[s][k] - 1 ELSE io[s][j]
      /\ \A t \in Sessions \ {s} : \A j \in Kinds : io'[t][j] = io[t][j]
      /\ io[s][k] > 0 /\ \A j \in Kinds : io[s][j] \in Nat
  BY <1>t DEF DequeueCompletion, SessionTypes
<1>2. pc'[w] = k /\ ctx'[w] = s /\ pc[w] = "idle" /\ \A j \in {"accept", "recvZero", "recv"} : j \in Kinds
  BY <1>t DEF DequeueCompletion, Goto, WorkTypes, Kinds
<1>3. SUFFICES ASSUME NEW t \in Sessions
               PROVE  ReceiveStage(t)'
  BY DEF ReceiveStages
<1>4. \A v \in Workers \ {w} : At(v, t, ReceivePCs)' <=> At(v, t, ReceivePCs)
  BY DEF OthersKept, At
<1>5. CASE t # s \/ k \notin {"accept", "recvZero", "recv"}
  <2>1. ~At(w, t, ReceivePCs)'
    BY <1>2, <1>5 DEF At, Kinds, ReceivePCs
  <2>2. ReceivesPosted(t)' = ReceivesPosted(t)
    BY <1>1, <1>2, <1>5 DEF ReceivesPosted
  <2>3. QED
    BY <1>4, <2>1, <2>2, ReceiveKept DEF ReceiveStages
<1>6. CASE t = s /\ k \in {"accept", "recvZero", "recv"}
  <2>1. /\ ReceivesPosted(s)' = ReceivesPosted(s) - 1 /\ ReceivesPosted(s) > 0
        /\ ReceivesPosted(s) \in Nat
    BY <1>1, <1>2, <1>6 DEF ReceivesPosted
  <2>2. ReceivesPosted(s) = 1 /\ \A v \in Workers : ~At(v, s, ReceivePCs)
    BY <2>1 DEF ReceiveStages, ReceiveStage
  <2>3. \A v \in Workers \ {w} : ~At(v, s, ReceivePCs)'
    BY <1>4, <1>6, <2>2
  <2>4. ReceivesPosted(s)' = 0
    BY <2>1, <2>2
  <2>5. QED
    BY <1>6, <2>3, <2>4 DEF ReceiveStage
<1>7. QED
  BY <1>5, <1>6

\* PreRecv and PostRecv pass the right back to the kernel, or give it up.
LEMMA ReceivePost ==
  ASSUME TypeInv, ReceiveStages, Running, NEW w \in Workers, OthersKept(w),
         AcceptPreRecv(w) \/ RecvZeroCompleted(w) \/ OnReadDone(w)
  PROVE  ReceiveStages'
<1>t. SessionTypes /\ WorkTypes /\ Control
  BY DEF TypeInv, TypeOK
<1>1. PICK s \in Sessions : s = ctx[w]
  BY <1>t DEF Control, ControlAt, ContextPCs, Kinds, AcceptPreRecv, RecvZeroCompleted, OnReadDone
<1>2. PICK k \in {"recvZero", "recv"} : ReceivePosted(s, k) \/ ReceiveRefused
  BY <1>1 DEF AcceptPreRecv, RecvZeroCompleted, OnReadDone
<1>3. \A j \in {"accept", "recvZero", "recv"} : j \in Kinds
  BY DEF Kinds
<1>4. PICK d \in {0, 1} :
        /\ d = 1 => connected[s] /\ ReceivePosted(s, k)
        /\ d = 0 => ReceiveRefused
        /\ refCount'[s] = refCount[s] + d
        /\ \A j \in Kinds : io'[s][j] = IF j = k THEN io[s][k] + d ELSE io[s][j]
  BY <1>t, <1>2, <1>3, ReceiveEffect
<1>5. \A t \in Sessions \ {s} : \A j \in Kinds : io'[t][j] = io[t][j]
  BY <1>t, <1>2, <1>3, ReceiveEffect
<1>6. ReceivesPosted(s)' = ReceivesPosted(s) + d
  <2>1. \A j \in {"accept", "recvZero", "recv"} :
          /\ io[s][j] \in Nat
          /\ io'[s][j] = IF j = k THEN io[s][j] + d ELSE io[s][j]
    BY <1>t, <1>3, <1>4 DEF SessionTypes
  <2>2. CASE k = "recvZero"
    BY <2>1, <2>2 DEF ReceivesPosted
  <2>3. CASE k = "recv"
    BY <2>1, <2>3 DEF ReceivesPosted
  <2>4. QED
    BY <2>2, <2>3
<1>7. At(w, s, ReceivePCs) /\ pc'[w] \notin ReceivePCs /\ ctx'[w] = ctx[w]
  BY <1>t, <1>1 DEF At, ReceivePCs, AcceptPreRecv, RecvZeroCompleted, OnReadDone, Goto, WorkTypes
<1>8. \A t \in Sessions, v \in Workers : At(v, t, ReceivePCs)' => At(v, t, ReceivePCs)
  BY <1>7 DEF OthersKept, At
<1>9. ReceiveStage(s)'
  BY <1>6, <1>7, <1>8, ReceiveHanded DEF ReceiveStages, At
<1>10. ASSUME NEW t \in Sessions, t # s
       PROVE  ReceiveStage(t)'
  <2>1. ReceivesPosted(t)' = ReceivesPosted(t)
    BY <1>3, <1>5, <1>10, ReceivesPostedSame
  <2>2. QED
    BY <1>8, <2>1, ReceiveKept DEF ReceiveStages
<1>11. QED
  BY <1>9, <1>10 DEF ReceiveStages

\* A DisconnectRequest posts no receive.
LEMMA ReceiveDisconnect ==
  ASSUME SessionTypes, NEW s \in Sessions, DisconnectRequest(s)
  PROVE  SameReceives
  BY DisconnectEffect DEF Kinds, SameReceives

\* Every step of a worker keeps the receives of each session apart.
LEMMA ReceiveStep ==
  ASSUME TypeInv, ReceiveStages, Running, NEW w \in Workers, Step(w) \/ Dequeue(w)
  PROVE  ReceiveStages'
<1>t. SessionTypes /\ ListTypes /\ WorkTypes /\ Control
  BY DEF TypeInv, TypeOK
<1>o. OthersKept(w)
  BY StepIsLocal DEF TypeInv
<1>1. CASE Dequeue(w)
  BY <1>o, <1>1, ReceiveDequeue DEF Dequeue
<1>2. CASE AcceptPreRecv(w) \/ RecvZeroCompleted(w) \/ OnReadDone(w)
  BY <1>o, <1>2, ReceivePost
<1>3. CASE CloseConnection(w) \/ AcceptSetupFailed(w) \/ FlushDisconnect(w)
  <2>1. pc'[w] \notin ReceivePCs
    BY <1>t, <1>3 DEF CloseConnection, AcceptSetupFailed, FlushDisconnect, Goto, WorkTypes, ReceivePCs
  <2>2. PICK s \in Sessions : DisconnectRequest(s)
    BY <1>t, <1>3, FrontIsSession
      DEF Control, ControlAt, ContextPCs, CloseConnection, AcceptSetupFailed, FlushDisconnect
  <2>3. SameReceives
    BY <1>t, <2>2, ReceiveDisconnect
  <2>4. QED
    BY <1>o, <2>1, <2>3, ReceiveStagesKept
<1>4. CASE OnReadBadPacket(w) \/ \E t \in Sessions : BroadcastAbort(w, t)
  <2>1. pc[w] \in ReceivePCs /\ pc'[w] = pc[w] /\ ctx'[w] = ctx[w]
    BY <1>4 DEF OnReadBadPacket, BroadcastAbort, ReceivePCs, workVars
  <2>2. PICK s \in Sessions : DisconnectRequest(s)
    BY <1>t, <1>4 DEF Control, ControlAt, ContextPCs, OnReadBadPacket, BroadcastAbort
  <2>3. SameReceives
    BY <1>t, <2>2, ReceiveDisconnect
  <2>4. QED
    BY <1>o, <2>1, <2>3, ReceiveStagesKept
<1>5. CASE FlushPosted(w)
  <2>1. pc'[w] \notin ReceivePCs
    BY <1>t, <1>5 DEF FlushPosted, Goto, WorkTypes, ReceivePCs
  <2>2. PICK s \in Sessions : PostToKernel(s, "send")
    BY <1>t, <1>5 DEF Control, ControlAt, ContextPCs, FlushPosted
  <2>3. SameReceives
    BY <1>t, <2>2, KernelEffect DEF Kinds, SameReceives
  <2>4. QED
    BY <1>o, <2>1, <2>3, ReceiveStagesKept
<1>6. CASE DeleteContext(w) \/ FlushFailed(w) \/ DisconnectReleaseBase(w)
  <2>1. pc'[w] \notin ReceivePCs /\ UNCHANGED io
    BY <1>t, <1>6 DEF DeleteContext, FlushFailed, DisconnectReleaseBase, ReleaseRef, CrashAssert,
                      Goto, WorkTypes, ReceivePCs
  <2>2. QED
    BY <1>o, <2>1, ReceiveStagesKept DEF SameReceives
<1>7. CASE \/ DequeueTimeout(w) \/ AcceptConnected(w) \/ AcceptSetupDone(w) \/ AcceptRegister(w)
           \/ RecvCompleted(w) \/ OnReadChat(w) \/ BroadcastLock(w) \/ BroadcastUnlock(w)
           \/ (\E t \in Sessions : BroadcastSend(w, t))
           \/ (\E n \in 1..SendCap : SendCompleted(w, n)) \/ SendFailed(w)
           \/ DisconnectUnregister(w) \/ FlushBegin(w) \/ FlushNothing(w) \/ FlushStart(w)
           \/ FlushEnd(w) \/ ReturnLockOrder(w) \/ ReturnLock(w) \/ ReturnReset(w)
           \/ ReturnPushBack(w)
  <2>1. pc'[w] \notin ReceivePCs \/ (pc[w] \in ReceivePCs /\ ctx'[w] = ctx[w])
    BY <1>t, <1>7
      DEF DequeueTimeout, AcceptConnected, AcceptSetupDone, AcceptRegister, RecvCompleted,
          OnReadChat, BroadcastLock, BroadcastUnlock, BroadcastSend, SendCompleted, SendFailed,
          DisconnectUnregister, FlushBegin, FlushNothing, FlushStart, FlushEnd, ReturnLockOrder,
          ReturnLock, ReturnReset, ReturnPushBack, CrashAssert, Goto, WorkTypes, ReceivePCs,
          workVars
  <2>2. UNCHANGED io
    BY <1>7
      DEF DequeueTimeout, AcceptConnected, AcceptSetupDone, AcceptRegister, RecvCompleted,
          OnReadChat, BroadcastLock, BroadcastUnlock, BroadcastSend, SendCompleted, SendFailed,
          DisconnectUnregister, FlushBegin, FlushNothing, FlushStart, FlushEnd, ReturnLockOrder,
          ReturnLock, ReturnReset, ReturnPushBack, sessionVars
  <2>3. QED
    BY <1>o, <2>1, <2>2, ReceiveStagesKept DEF SameReceives
<1>8. QED
  BY <1>1, <1>2, <1>3, <1>4, <1>5, <1>6, <1>7 DEF Step

\* The AcceptEx of an issued session is its only operation.
LEMMA ReceiveIssue ==
  ASSUME TypeInv, StageInv, ReceiveStages, Running, FreeListInjective, IssueSession
  PROVE  ReceiveStages'
<1>t. SessionTypes /\ WorkTypes /\ PoolTypes /\ PoolCount
  BY DEF TypeInv, TypeOK
<1>1. PICK s \in Sessions, d \in {0, 1} :
        /\ s = freeList[Len(freeList)]
        /\ \A t \in Sessions, j \in Kinds : io'[t][j] =
             IF t = s /\ j = "accept" THEN io[s]["accept"] + d ELSE io[t][j]
  BY <1>t, IssueEffect
<1>2. Free(s)
  BY <1>t, <1>1, FreeListNonempty DEF IssueSession, Free, InRange
<1>3. (\A k \in Kinds : io[s][k] = 0) /\ \A w \in Workers : ctx[w] # s
  BY <1>2 DEF StageInv, Stages, FreeStage
<1>4. \A w \in Workers, t \in Sessions : At(w, t, ReceivePCs)' <=> At(w, t, ReceivePCs)
  BY DEF IssueSession, workVars, At
<1>5. ReceiveStage(s)'
  <2>1. ReceivesPosted(s)' = d
    BY <1>1, <1>3 DEF ReceivesPosted, Kinds
  <2>2. \A w \in Workers : ~At(w, s, ReceivePCs)'
    BY <1>3, <1>4 DEF At
  <2>3. QED
    BY <2>1, <2>2 DEF ReceiveStage
<1>6. ASSUME NEW t \in Sessions, t # s
      PROVE  ReceiveStage(t)'
  <2>1. ReceivesPosted(t)' = ReceivesPosted(t)
    BY <1>1, <1>6 DEF ReceivesPosted, Kinds
  <2>2. QED
    BY <1>4, <2>1, ReceiveKept DEF ReceiveStages
<1>7. QED
  BY <1>5, <1>6 DEF ReceiveStages

-----------------------------------------------------------------------------
(* The send lists *)

\* Where session s stands in the lists q of the workers, and how often.
Positions(q, s) == {p \in Workers \X Nat : p[2] \in DOMAIN q[p[1]] /\ q[p[1]][p[2]] = s}
Count(q, s)     == Cardinality(Positions(q, s))

\* There are finitely many workers, and their lists are finite.
LEMMA PositionsFinite ==
  ASSUME NEW q \in [Workers -> Seq(Sessions)], NEW s
  PROVE  IsFiniteSet(Positions(q, s)) /\ Count(q, s) \in Nat
<1> DEFINE f == [w \in Workers |-> {w} \X DOMAIN q[w]]
           T == {f[w] : w \in Workers}
<1>1. ASSUME NEW w \in Workers
      PROVE  IsFiniteSet(f[w])
  <2>1. PICK n \in Nat : DOMAIN q[w] = 1..n
    <3>1. q[w] \in Seq(Sessions)
      OBVIOUS
    <3>2. DOMAIN q[w] = 1..Len(q[w]) /\ Len(q[w]) \in Nat
      BY <3>1
    <3>3. QED
      BY <3>2
  <2>2. IsFiniteSet(1..n) /\ IsFiniteSet({w})
    <3>1. 1 \in Int /\ n \in Int
      OBVIOUS
    <3>2. QED
      BY <3>1, FS_Interval, FS_Singleton
  <2>3. QED
    BY <2>1, <2>2, FS_Product
<1>2. f \in Surjection(Workers, T)
  BY DEF Surjection
<1>3. IsFiniteSet(T)
  BY <1>2, WorkersFinite, FS_Surjection
<1>4. IsFiniteSet(UNION T)
  BY <1>1, <1>3, FS_UNION
<1>5. Positions(q, s) \subseteq UNION T
  <2>1. SUFFICES ASSUME NEW p \in Positions(q, s)
                 PROVE  p \in UNION T
    OBVIOUS
  <2>2. p \in Workers \X Nat /\ p[2] \in DOMAIN q[p[1]]
    BY <2>1 DEF Positions
  <2>3. p \in f[p[1]] /\ f[p[1]] \in T
    BY <2>2
  <2>4. QED
    BY <2>3
<1>6. IsFiniteSet(Positions(q, s))
  BY <1>4, <1>5, FS_Subset
<1>7. QED
  BY <1>6, FS_CardinalityType DEF Count

\* The lists r are the lists q after one more entry for w; the lists r and g are the lists q
\* and f after w's empty list in q has taken what was in f.
Appended(q, r, w, x) == r[w] = Append(q[w], x) /\ \A v \in Workers \ {w} : r[v] = q[v]
Swapped(q, f, r, g, w) ==
  /\ q \in [Workers -> Seq(Sessions)] /\ f \in [Workers -> Seq(Sessions)]
  /\ q[w] = <<>> /\ r[w] = f[w] /\ g[w] = <<>>
  /\ \A v \in Workers \ {w} : r[v] = q[v] /\ g[v] = f[v]

\* One more entry at the end of a list.
LEMMA AppendCount ==
  ASSUME NEW q \in [Workers -> Seq(Sessions)], NEW w \in Workers, NEW x \in Sessions, NEW s,
         NEW r \in [Workers -> Seq(Sessions)], Appended(q, r, w, x)
  PROVE  Count(r, s) = Count(q, s) + (IF x = s THEN 1 ELSE 0)
<1>1. PICK n \in Nat : n = Len(q[w])
  <2>1. q[w] \in Seq(Sessions)
    OBVIOUS
  <2>2. QED
    BY <2>1
<1>2. /\ DOMAIN q[w] = 1..n /\ DOMAIN r[w] = 1..n + 1
      /\ \A i \in 1..n : r[w][i] = q[w][i]
      /\ r[w][n + 1] = x
      /\ \A v \in Workers \ {w} : r[v] = q[v]
  <2>1. /\ q[w] \in Seq(Sessions) /\ r[w] = Append(q[w], x)
        /\ \A v \in Workers \ {w} : r[v] = q[v]
    BY DEF Appended
  <2>2. QED
    BY <1>1, <2>1
<1>3. <<w, n + 1>> \notin Positions(q, s)
  BY <1>2 DEF Positions
<1>4. \A p \in Workers \X Nat : p \in Positions(r, s) <=>
        p \in Positions(q, s) \/ (x = s /\ p = <<w, n + 1>>)
  <2>0. SUFFICES ASSUME NEW p \in Workers \X Nat
                 PROVE  p \in Positions(r, s) <=>
                          p \in Positions(q, s) \/ (x = s /\ p = <<w, n + 1>>)
    OBVIOUS
  <2>1. PICK v \in Workers, i \in Nat : p = <<v, i>>
    OBVIOUS
  <2>2. /\ <<v, i>> \in Positions(r, s) <=> i \in DOMAIN r[v] /\ r[v][i] = s
        /\ <<v, i>> \in Positions(q, s) <=> i \in DOMAIN q[v] /\ q[v][i] = s
    BY DEF Positions
  <2>3. CASE v # w
    BY <1>2, <2>1, <2>2, <2>3
  <2>4. CASE v = w
    <3>1. i \in 1..n + 1 <=> i \in 1..n \/ i = n + 1
      OBVIOUS
    <3>2. n + 1 \notin 1..n
      OBVIOUS
    <3>3. QED
      BY <1>2, <2>1, <2>2, <2>4, <3>1, <3>2
  <2>5. QED
    BY <2>3, <2>4
<1>5. Positions(q, s) \subseteq Workers \X Nat /\ Positions(r, s) \subseteq Workers \X Nat
  BY DEF Positions
<1>6. Positions(r, s) = IF x = s THEN Positions(q, s) \cup {<<w, n + 1>>} ELSE Positions(q, s)
  <2>1. <<w, n + 1>> \in Workers \X Nat
    OBVIOUS
  <2>2. QED
    BY <1>4, <1>5, <2>1
<1>7. IsFiniteSet(Positions(q, s)) /\ Count(q, s) \in Nat
  BY PositionsFinite
<1>8. Cardinality(Positions(q, s) \cup {<<w, n + 1>>}) = Cardinality(Positions(q, s)) + 1
  BY <1>3, <1>7, FS_AddElement
<1>9. QED
  BY <1>6, <1>7, <1>8 DEF Count

\* One entry less at the front of a list.
LEMMA TailCount ==
  ASSUME NEW q \in [Workers -> Seq(Sessions)], NEW w \in Workers, NEW s, q[w] # <<>>,
         NEW r \in [Workers -> Seq(Sessions)],
         r[w] = Tail(q[w]), \A v \in Workers \ {w} : r[v] = q[v]
  PROVE  Count(r, s) = Count(q, s) - (IF Head(q[w]) = s THEN 1 ELSE 0)
<1> DEFINE rest == Positions(q, s) \ {<<w, 1>>}
           f    == [p \in Positions(r, s) |-> IF p[1] = w THEN <<w, p[2] + 1>> ELSE p]
<1>1. PICK n \in Nat : /\ DOMAIN q[w] = 1..n + 1 /\ Head(q[w]) = q[w][1]
                       /\ DOMAIN r[w] = 1..n /\ \A i \in 1..n : r[w][i] = q[w][i + 1]
  <2>1. q[w] \in Seq(Sessions) /\ r[w] = Tail(q[w])
    OBVIOUS
  <2>2. /\ Len(q[w]) \in Nat /\ Len(q[w]) # 0 /\ DOMAIN q[w] = 1..Len(q[w])
        /\ Head(q[w]) = q[w][1] /\ DOMAIN r[w] = 1..Len(q[w]) - 1
        /\ \A i \in 1..Len(q[w]) - 1 : r[w][i] = q[w][i + 1]
    BY <2>1
  <2>3. Len(q[w]) - 1 \in Nat /\ (Len(q[w]) - 1) + 1 = Len(q[w])
    BY <2>2
  <2>4. QED
    BY <2>2, <2>3
<1>2. \A v \in Workers \ {w} : r[v] = q[v]
  OBVIOUS
<1>3. \A p : p \in rest <=> /\ p \in Workers \X Nat /\ p # <<w, 1>>
                            /\ p[2] \in DOMAIN q[p[1]] /\ q[p[1]][p[2]] = s
  BY DEF Positions
<1>4. ASSUME NEW v \in Workers, NEW i \in Nat
      PROVE  /\ <<v, i>> \in Positions(r, s) <=> i \in DOMAIN r[v] /\ r[v][i] = s
             /\ <<v, i>> \in rest <=> i \in DOMAIN q[v] /\ q[v][i] = s /\ (v # w \/ i # 1)
  BY DEF Positions
<1>5. ASSUME NEW p \in Positions(r, s)
      PROVE  /\ p = <<p[1], p[2]>> /\ p[1] \in Workers /\ p[2] \in Nat
             /\ p[2] \in DOMAIN r[p[1]] /\ r[p[1]][p[2]] = s
  BY <1>5 DEF Positions
<1>6. ASSUME NEW p \in rest
      PROVE  /\ p = <<p[1], p[2]>> /\ p[1] \in Workers /\ p[2] \in Nat
             /\ p[2] \in DOMAIN q[p[1]] /\ q[p[1]][p[2]] = s /\ (p[1] # w \/ p[2] # 1)
  BY <1>6 DEF Positions
<1>7. ASSUME NEW p \in Positions(r, s)
      PROVE  f[p] \in rest
  <2>1. CASE p[1] = w
    <3>1. p[2] \in 1..n /\ q[w][p[2] + 1] = s
      BY <1>1, <1>5, <1>7, <2>1
    <3>2. p[2] + 1 \in 1..n + 1 /\ p[2] + 1 # 1 /\ p[2] + 1 \in Nat
      BY <3>1
    <3>3. <<w, p[2] + 1>> \in rest
      BY <1>1, <1>4, <3>1, <3>2
    <3>4. QED
      BY <2>1, <3>3
  <2>2. CASE p[1] # w
    <3>1. <<p[1], p[2]>> \in rest
      <4> HIDE DEF rest, f
      <4>1. p[1] \in Workers /\ p[2] \in Nat /\ r[p[1]] = q[p[1]]
        BY <1>2, <1>5, <1>7, <2>2
      <4>2. QED
        BY <1>4, <1>5, <1>7, <2>2, <4>1
    <3>2. QED
      BY <1>5, <1>7, <2>2, <3>1
  <2>3. QED
    BY <2>1, <2>2
<1>8. ASSUME NEW p \in Positions(r, s), NEW o \in Positions(r, s), f[p] = f[o]
      PROVE  p = o
  <2>1. /\ p = <<p[1], p[2]>> /\ p[2] \in Nat /\ o = <<o[1], o[2]>> /\ o[2] \in Nat
    BY <1>5
  <2>2. f[p][1] = p[1] /\ f[o][1] = o[1]
    BY <2>1
  <2>3. CASE p[1] = w
    <3>1. <<w, p[2] + 1>> = <<w, o[2] + 1>> /\ o[1] = w
      BY <1>8, <2>2, <2>3
    <3>2. p[2] = o[2]
      BY <2>1, <3>1
    <3>3. QED
      BY <2>1, <2>3, <3>1, <3>2
  <2>4. CASE p[1] # w
    BY <1>8, <2>2, <2>4
  <2>5. QED
    BY <2>3, <2>4
<1>9. ASSUME NEW p \in rest
      PROVE  \E o \in Positions(r, s) : f[o] = p
  <2>1. CASE p[1] = w
    <3>1. p[2] \in 1..n + 1 /\ p[2] # 1 /\ q[w][p[2]] = s /\ p = <<w, p[2]>>
      BY <1>1, <1>6, <1>9, <2>1
    <3>2. p[2] - 1 \in 1..n /\ (p[2] - 1) + 1 = p[2] /\ p[2] - 1 \in Nat
      BY <3>1
    <3>3. r[w][p[2] - 1] = s
      BY <1>1, <3>1, <3>2
    <3>4. <<w, p[2] - 1>> \in Positions(r, s)
      BY <1>1, <1>4, <3>2, <3>3
    <3>5. f[<<w, p[2] - 1>>] = p
      BY <3>1, <3>2, <3>4
    <3>6. QED
      BY <3>4, <3>5
  <2>2. CASE p[1] # w
    <3>1. <<p[1], p[2]>> \in Positions(r, s)
      <4> HIDE DEF rest, f
      <4>1. p[1] \in Workers /\ p[2] \in Nat /\ r[p[1]] = q[p[1]]
        BY <1>2, <1>6, <1>9, <2>2
      <4>2. QED
        BY <1>4, <1>6, <1>9, <2>2, <4>1
    <3>2. QED
      BY <1>6, <1>9, <2>2, <3>1
  <2>3. QED
    BY <2>1, <2>2
<1>10. f \in Bijection(Positions(r, s), rest)
  <2>1. f \in [Positions(r, s) -> rest]
    BY <1>7
  <2> HIDE DEF f, rest
  <2>2. QED
    BY <1>8, <1>9, <2>1 DEF Bijection, Injection, Surjection, IsInjective
<1> HIDE DEF f, rest
<1>11. Count(r, s) = Cardinality(rest)
  BY <1>10, PositionsFinite, FS_Bijection DEF ExistsBijection, Count
<1>12. <<w, 1>> \in Positions(q, s) <=> Head(q[w]) = s
  <2>1. 1 \in 1..n + 1 /\ 1 \in Nat
    OBVIOUS
  <2>2. QED
    BY <1>1, <2>1 DEF Positions
<1>13. IsFiniteSet(Positions(q, s)) /\ Count(q, s) \in Nat
  BY PositionsFinite
<1>14. Cardinality(rest) = IF <<w, 1>> \in Positions(q, s) THEN Cardinality(Positions(q, s)) - 1
                           ELSE Cardinality(Positions(q, s))
  BY <1>13, FS_RemoveElement DEF rest
<1>15. QED
  BY <1>11, <1>12, <1>13, <1>14 DEF Count

\* A list that takes the place of an empty one.
LEMMA SwapCount ==
  ASSUME NEW q, NEW f, NEW r, NEW g, NEW w \in Workers, NEW s, Swapped(q, f, r, g, w)
  PROVE  Count(r, s) + Count(g, s) = Count(q, s) + Count(f, s)
<1> DEFINE moved == {p \in Positions(f, s) : p[1] = w}
<1>0. q \in [Workers -> Seq(Sessions)] /\ f \in [Workers -> Seq(Sessions)]
  BY DEF Swapped
<1>1. IsFiniteSet(Positions(q, s)) /\ IsFiniteSet(Positions(f, s))
  BY <1>0, PositionsFinite
<1>2. DOMAIN q[w] = {} /\ DOMAIN g[w] = {}
  <2>1. DOMAIN <<>> = {}
    OBVIOUS
  <2>2. q[w] = <<>> /\ g[w] = <<>>
    BY DEF Swapped
  <2>3. QED
    BY <2>1, <2>2
<1>3. r[w] = f[w] /\ \A v \in Workers \ {w} : r[v] = q[v] /\ g[v] = f[v]
  BY DEF Swapped
<1>4. Positions(r, s) = Positions(q, s) \cup moved /\ Positions(q, s) \cap moved = {}
  BY <1>2, <1>3 DEF Positions
<1>5. Positions(g, s) = Positions(f, s) \ moved /\ Positions(f, s) \cap moved = moved
  BY <1>2, <1>3 DEF Positions
<1>6. IsFiniteSet(moved)
  BY <1>1, FS_Subset
<1> HIDE DEF moved
<1>7. Count(r, s) = Count(q, s) + Cardinality(moved)
  <2>1. Cardinality(Positions(q, s) \cup moved) =
          Cardinality(Positions(q, s)) + Cardinality(moved) - Cardinality({})
    BY <1>1, <1>4, <1>6, FS_Union
  <2>2. Cardinality({}) = 0 /\ Cardinality(moved) \in Nat /\ Count(q, s) \in Nat
    BY <1>0, <1>6, FS_EmptySet, FS_CardinalityType, PositionsFinite
  <2>3. Count(r, s) = Cardinality(Positions(q, s) \cup moved)
    BY <1>4 DEF Count
  <2>4. QED
    BY <2>1, <2>2, <2>3 DEF Count
<1>8. Count(g, s) = Count(f, s) - Cardinality(moved)
  BY <1>1, <1>5, FS_Difference DEF Count
<1>9. Cardinality(moved) \in Nat /\ Count(q, s) \in Nat /\ Count(f, s) \in Nat
  BY <1>0, <1>6, FS_CardinalityType, PositionsFinite
<1>10. QED
  BY <1>7, <1>8, <1>9

-----------------------------------------------------------------------------
(* One send at a time, and none forgotten *)

InSend(s)   == io[s]["send"] = 1 \/ \E w \in Workers : At(w, s, {"send"})
InAccept(s) == io[s]["accept"] = 1 \/ \E w \in Workers : At(w, s, {"accept"})

\* mSendPendingCount covers the send in flight, whose bytes are still in the buffer.
SendStage(s) ==
  /\ sendPending[s] \in Nat /\ io[s]["send"] \in {0, 1}
  /\ io[s]["send"] = 1 => \A w \in Workers : ~At(w, s, {"send"})
  /\ \A w, v \in Workers : At(w, s, {"send"}) /\ At(v, s, {"send"}) => w = v
  /\ InSend(s) => sendPending[s] >= 1 /\ sendLen[s] \in 1..sendData[s]
  /\ \A w \in Workers : At(w, s, {"flushPost"}) => sendPending[s] = 0 /\ sendData[s] > 0
  /\ InAccept(s) => sendData[s] = 0

\* Each message that is buffered for a client and not in a send has an entry in some list:
\* FlushSend pops one entry, and at least one message goes with it.
Unsent(s)  == sendData[s] - (IF InSend(s) THEN sendLen[s] ELSE 0)
Entries(s) == Count(sendList, s) + Count(failList, s)
ListedStage(s) == connected[s] /\ ~Closing(s) => Unsent(s) <= Entries(s)

SendStages == \A s \in Sessions : SendStage(s) /\ ListedStage(s)

SameSend(s) ==
  /\ sendPending'[s] = sendPending[s] /\ sendData'[s] = sendData[s] /\ sendLen'[s] = sendLen[s]
  /\ io'[s]["send"] = io[s]["send"] /\ io'[s]["accept"] = io[s]["accept"]

\* Where worker w is with regard to the sends of s.
SameSendPCs(w, s) ==
  /\ At(w, s, {"send"})' <=> At(w, s, {"send"})
  /\ At(w, s, {"flushPost"})' => At(w, s, {"flushPost"})
  /\ At(w, s, {"accept"})' => At(w, s, {"accept"})

\* What is not about the sends of s keeps them apart.
LEMMA SendStageKept ==
  ASSUME NEW w \in Workers, OthersKept(w), NEW s \in Sessions, SendStage(s), SameSend(s),
         SameSendPCs(w, s)
  PROVE  SendStage(s)' /\ (InSend(s)' <=> InSend(s))
<1>1. /\ \A v \in Workers : At(v, s, {"send"})' <=> At(v, s, {"send"})
      /\ \A v \in Workers : At(v, s, {"flushPost"})' => At(v, s, {"flushPost"})
      /\ \A v \in Workers : At(v, s, {"accept"})' => At(v, s, {"accept"})
  BY DEF OthersKept, At, SameSendPCs
<1>2. InSend(s)' <=> InSend(s)
  BY <1>1 DEF InSend, SameSend
<1>3. InAccept(s)' => InAccept(s)
  BY <1>1 DEF InAccept, SameSend
<1>4. SendStage(s)'
  BY <1>1, <1>2, <1>3 DEF SendStage, SameSend
<1>5. QED
  BY <1>2, <1>4

\* ... and forgets none, if the lists keep the entries of s and no connection is revived.
LEMMA ListedStageKept ==
  ASSUME NEW w \in Workers, OthersKept(w), NEW s \in Sessions, ListedStage(s), SameSend(s),
         InSend(s)' <=> InSend(s), connected'[s] => connected[s], Entries(s)' = Entries(s),
         connected'[s] /\ At(w, s, {"closing"}) => At(w, s, {"closing"})'
  PROVE  ListedStage(s)'
<1>1. SUFFICES ASSUME connected'[s], ~Closing(s)'
               PROVE  Unsent(s)' <= Entries(s)'
  BY DEF ListedStage
<1>2. ~Closing(s)
  BY <1>1 DEF Closing, Holders, OthersKept, At
<1>3. Unsent(s)' = Unsent(s)
  BY DEF Unsent, SameSend
<1>4. QED
  BY <1>1, <1>2, <1>3 DEF ListedStage

\* The steps that concern no send.
LEMMA SendsPlain ==
  ASSUME NEW w \in Workers, OthersKept(w), SendStages, \A t \in Sessions : SameSend(t),
         UNCHANGED <<sendList, failList>>, \A t \in Sessions : connected'[t] => connected[t],
         pc[w] # "send", pc'[w] \notin {"send", "flushPost", "accept"},
         pc[w] = "closing" => \A t \in Sessions : ctx[w] = t => ~connected'[t]
  PROVE  SendStages'
<1>1. SUFFICES ASSUME NEW s \in Sessions
               PROVE  SendStage(s)' /\ ListedStage(s)'
  BY DEF SendStages
<1>2. SameSendPCs(w, s)
  BY DEF SameSendPCs, At
<1>3. SendStage(s) /\ ListedStage(s) /\ SameSend(s)
  BY DEF SendStages
<1>4. SendStage(s)' /\ (InSend(s)' <=> InSend(s))
  BY <1>2, <1>3, SendStageKept
<1>5. Entries(s)' = Entries(s)
  BY DEF Entries
<1>6. connected'[s] /\ At(w, s, {"closing"}) => At(w, s, {"closing"})'
  BY DEF At
<1>7. QED
  BY <1>3, <1>4, <1>5, <1>6, ListedStageKept

\* A pop takes one entry of the session at the front, a retry adds one.
LEMMA PopEntries ==
  ASSUME ListTypes, NEW w \in Workers, sendList[w] # <<>>, PopFront(w), NEW t \in Sessions
  PROVE  /\ Count(sendList', t) = Count(sendList, t) - (IF t = Front(w) THEN 1 ELSE 0)
         /\ Count(sendList, t) \in Nat /\ Count(failList, t) \in Nat
<1>1. /\ sendList \in [Workers -> Seq(Sessions)] /\ sendList' \in [Workers -> Seq(Sessions)]
      /\ sendList[w] # <<>> /\ sendList'[w] = Tail(sendList[w])
      /\ \A v \in Workers \ {w} : sendList'[v] = sendList[v]
  BY PopEffect DEF ListTypes
<1>2. Count(sendList', t) = Count(sendList, t) - (IF Head(sendList[w]) = t THEN 1 ELSE 0)
  <2>1. ASSUME NEW q \in [Workers -> Seq(Sessions)], NEW r \in [Workers -> Seq(Sessions)],
               q = sendList, r = sendList'
        PROVE  Count(r, t) = Count(q, t) - (IF Head(q[w]) = t THEN 1 ELSE 0)
    <3>1. q[w] # <<>> /\ r[w] = Tail(q[w]) /\ \A v \in Workers \ {w} : r[v] = q[v]
      BY <1>1, <2>1
    <3>2. QED
      BY <3>1, TailCount
  <2>2. QED
    BY <1>1, <2>1
<1>3. Count(sendList, t) \in Nat /\ Count(failList, t) \in Nat
  BY PositionsFinite DEF ListTypes
<1>4. QED
  BY <1>2, <1>3 DEF Front

LEMMA RetryEntries ==
  ASSUME ListTypes, NEW w \in Workers, NEW s \in Sessions, Retry(w, s), NEW t \in Sessions
  PROVE  Count(failList', t) = Count(failList, t) + (IF t = s THEN 1 ELSE 0)
<1>1. failList \in [Workers -> Seq(Sessions)] /\ failList' \in [Workers -> Seq(Sessions)]
  BY RetryEffect DEF ListTypes
<1>2. failList'[w] = Append(failList[w], s) /\ \A v \in Workers \ {w} : failList'[v] = failList[v]
  BY DEF ListTypes, Retry
<1>3. ASSUME NEW q \in [Workers -> Seq(Sessions)], NEW r \in [Workers -> Seq(Sessions)],
             q = failList, r = failList'
      PROVE  Count(r, t) = Count(q, t) + (IF s = t THEN 1 ELSE 0)
  <2>1. Appended(q, r, w, s)
    BY <1>2, <1>3 DEF Appended
  <2>2. QED
    BY <2>1, AppendCount
<1>4. QED
  BY <1>1, <1>3

\* Who has an entry is listed.
LEMMA EntriesListed ==
  ASSUME ListTypes, NEW s \in Sessions, Entries(s) >= 1
  PROVE  Listed(s)
<1>1. \A q : (\E p \in Positions(q, s) : TRUE) => \E w \in Workers : s \in InRange(q[w])
  BY DEF Positions, InRange
<1>2. ASSUME NEW q \in [Workers -> Seq(Sessions)], \A p : p \notin Positions(q, s)
      PROVE  Count(q, s) = 0
  <2>1. Positions(q, s) = {}
    BY <1>2
  <2>2. QED
    BY <2>1, FS_EmptySet DEF Count
<1>3. ~(Count(sendList, s) = 0 /\ Count(failList, s) = 0)
  BY DEF Entries
<1>4. (\E p : p \in Positions(sendList, s)) \/ (\E p : p \in Positions(failList, s))
  BY <1>2, <1>3 DEF ListTypes
<1>5. QED
  BY <1>1, <1>4 DEF Listed

\* A step that is about session s leaves the sends of the others alone.
LEMMA SendsElsewhere ==
  ASSUME NEW w \in Workers, OthersKept(w), SendStages, NEW s \in Sessions,
         SendStage(s)' /\ ListedStage(s)',
         \A t \in Sessions \ {s} :
           /\ SameSend(t) /\ SameSendPCs(w, t)
           /\ connected'[t] => connected[t] /\ (At(w, t, {"closing"}) => At(w, t, {"closing"})')
           /\ Entries(t)' = Entries(t)
  PROVE  SendStages'
<1>1. SUFFICES ASSUME NEW t \in Sessions, t # s
               PROVE  SendStage(t)' /\ ListedStage(t)'
  BY DEF SendStages
<1>2. SendStage(t) /\ ListedStage(t)
  BY DEF SendStages
<1>3. SendStage(t)' /\ (InSend(t)' <=> InSend(t))
  BY <1>1, <1>2, SendStageKept
<1>4. QED
  BY <1>1, <1>2, <1>3, ListedStageKept

\* The completion of a send passes it from the kernel to a worker.
LEMMA SendsDequeue ==
  ASSUME TypeInv, StageInv, Running, SendStages, NEW w \in Workers, OthersKept(w),
         NEW s \in Sessions, NEW k \in Kinds, DequeueCompletion(w, s, k)
  PROVE  SendStages'
<1>t. SessionTypes /\ WorkTypes
  BY DEF TypeInv, TypeOK
<1>1. /\ \A j \in Kinds : io'[s][j] = IF j = k THEN io[s][k] - 1 ELSE io[s][j]
      /\ \A t \in Sessions \ {s} : \A j \in Kinds : io'[t][j] = io[t][j]
      /\ io[s][k] > 0 /\ \A j \in Kinds : io[s][j] \in Nat
  BY <1>t DEF DequeueCompletion, SessionTypes
<1>2. /\ pc[w] = "idle" /\ pc'[w] = k /\ ctx'[w] = s
      /\ UNCHANGED <<sendPending, sendData, sendLen, connected, sendList, failList>>
  BY <1>t DEF DequeueCompletion, Goto, WorkTypes, sendVars, listVars
<1>3. "send" \in Kinds /\ "accept" \in Kinds /\ k # "flushPost" /\ k # "closing"
  BY DEF Kinds
<1>s. SendStage(s) /\ ListedStage(s)
  BY DEF SendStages
<1>4. \A P : \A v \in Workers \ {w} : At(v, s, P)' <=> At(v, s, P)
  BY DEF OthersKept, At
<1>5. \A P : (At(w, s, P)' <=> k \in P) /\ ("idle" \notin P => ~At(w, s, P))
  BY <1>2 DEF At
<1>6. InSend(s)' <=> InSend(s)
  <2>1. CASE k = "send"
    BY <1>1, <1>3, <1>5, <1>s, <2>1 DEF InSend, SendStage
  <2>2. CASE k # "send"
    BY <1>1, <1>3, <1>4, <1>5, <2>2 DEF InSend
  <2>3. QED
    BY <2>1, <2>2
<1>7. InAccept(s)' => InAccept(s)
  <2>1. CASE k = "accept"
    <3>1. io[s]["accept"] = 1
      BY <1>1, <2>1 DEF StageInv, Stages, AcceptStage
    <3>2. QED
      BY <3>1 DEF InAccept
  <2>2. CASE k # "accept"
    BY <1>1, <1>3, <1>4, <1>5, <2>2 DEF InAccept
  <2>3. QED
    BY <2>1, <2>2
<1>8. SendStage(s)'
  <2>1. CASE k = "send"
    <3>1. io'[s]["send"] = 0 /\ \A v \in Workers \ {w} : ~At(v, s, {"send"})'
      BY <1>1, <1>3, <1>4, <1>s, <2>1 DEF SendStage
    <3>2. \A v \in Workers : At(v, s, {"flushPost"})' => At(v, s, {"flushPost"})
      BY <1>3, <1>4, <1>5
    <3>3. QED
      BY <1>2, <1>6, <1>7, <1>s, <3>1, <3>2 DEF SendStage
  <2>2. CASE k # "send"
    <3>1. /\ io'[s]["send"] = io[s]["send"]
          /\ \A v \in Workers : At(v, s, {"send"})' <=> At(v, s, {"send"})
          /\ \A v \in Workers : At(v, s, {"flushPost"})' => At(v, s, {"flushPost"})
      BY <1>1, <1>3, <1>4, <1>5, <2>2
    <3>2. QED
      BY <1>2, <1>6, <1>7, <1>s, <3>1 DEF SendStage
  <2>3. QED
    BY <2>1, <2>2
<1>9. ListedStage(s)'
  <2>1. Closing(s) => Closing(s)'
    BY <1>2 DEF Closing, Holders, OthersKept
  <2>2. Entries(s)' = Entries(s) /\ Unsent(s)' = Unsent(s)
    BY <1>2, <1>6 DEF Entries, Unsent
  <2>3. QED
    BY <1>2, <1>s, <2>1, <2>2 DEF ListedStage
<1>10. ASSUME NEW t \in Sessions, t # s
       PROVE  /\ SameSend(t) /\ SameSendPCs(w, t)
              /\ connected'[t] => connected[t] /\ (At(w, t, {"closing"}) => At(w, t, {"closing"})')
              /\ Entries(t)' = Entries(t)
  <2>1. SameSend(t)
    BY <1>1, <1>2, <1>3, <1>10 DEF SameSend
  <2>2. SameSendPCs(w, t) /\ ~At(w, t, {"closing"})
    BY <1>2, <1>10 DEF SameSendPCs, At
  <2>3. QED
    BY <1>2, <2>1, <2>2 DEF Entries
<1>11. QED
  BY <1>8, <1>9, <1>10, SendsElsewhere

\* A session is connected with an empty send buffer.
LEMMA SendsAcceptConnected ==
  ASSUME TypeInv, SendStages, NEW w \in Workers, OthersKept(w), AcceptConnected(w)
  PROVE  SendStages'
<1>0. SessionTypes /\ WorkTypes /\ ListTypes
  BY DEF TypeInv, TypeOK
<1>1. ASSUME NEW s \in Sessions
      PROVE  /\ SameSend(s) /\ SameSendPCs(w, s)
             /\ ~At(w, s, {"closing"})
             /\ Entries(s)' = Entries(s)
             /\ ctx[w] # s => connected'[s] = connected[s]
  <2>1. pc[w] = "accept" /\ pc'[w] \in {"accept", "setup"} /\ ctx' = ctx
        /\ UNCHANGED <<io, sendVars, listVars>>
    BY <1>0 DEF AcceptConnected, CrashAssert, Goto, WorkTypes
  <2>2. SameSendPCs(w, s) /\ ~At(w, s, {"closing"})
    BY <2>1 DEF SameSendPCs, At
  <2>3. ctx[w] # s => connected'[s] = connected[s]
    BY <1>0 DEF AcceptConnected, SessionTypes
  <2>4. SameSend(s) /\ Entries(s)' = Entries(s)
    BY <2>1 DEF SameSend, sendVars, listVars, Entries
  <2>5. QED
    BY <2>2, <2>3, <2>4
<1>2. SUFFICES ASSUME NEW s \in Sessions
               PROVE  SendStage(s)' /\ ListedStage(s)'
  BY DEF SendStages
<1>3. SendStage(s) /\ ListedStage(s)
  BY DEF SendStages
<1>4. SendStage(s)' /\ (InSend(s)' <=> InSend(s))
  BY <1>1, <1>3, SendStageKept
<1>5. CASE ctx[w] # s
  BY <1>1, <1>3, <1>4, <1>5, ListedStageKept
<1>6. CASE ctx[w] = s
  <2>1. InAccept(s)
    BY <1>6 DEF InAccept, At, AcceptConnected
  <2>2. sendData[s] = 0
    BY <1>3, <2>1 DEF SendStage
  <2>3. ~InSend(s)
    BY <1>3, <2>2 DEF SendStage
  <2>4. sendData'[s] = 0
    BY <1>1, <2>2 DEF SameSend
  <2>5. Unsent(s)' = 0
    BY <1>4, <2>3, <2>4 DEF Unsent
  <2>6. Count(sendList, s) \in Nat /\ Count(failList, s) \in Nat
    BY <1>0, PositionsFinite DEF ListTypes
  <2>7. 0 <= Entries(s)'
    BY <1>1, <2>6 DEF Entries
  <2>8. (Unsent(s) <= Entries(s))'
    BY <2>5, <2>7
  <2>9. QED
    BY <1>4, <2>8 DEF ListedStage
<1>7. QED
  BY <1>5, <1>6

\* SendRequest lists the session whose buffer it fills.
LEMMA SendsBroadcast ==
  ASSUME TypeInv, StageInv, Running, SendStages, NEW w \in Workers, OthersKept(w),
         NEW s \in Sessions, BroadcastSend(w, s)
  PROVE  SendStages'
<1>t. SessionTypes /\ SendTypes /\ ListTypes /\ WorkTypes /\ SendLocks
  BY DEF TypeInv, TypeOK, StageInv
<1>s. SendStage(s) /\ Stages(s) /\ ListedStage(s)
  BY DEF SendStages, StageInv
<1>1. /\ sendData'[s] = sendData[s] + 1 /\ sendData[s] \in Int /\ sendLen[s] \in Int
      /\ \A t \in Sessions \ {s} : sendData'[t] = sendData[t]
      /\ UNCHANGED <<sendPending, sendLen, io, connected, failList, pc, ctx>>
      /\ connected[s] /\ sendLock[s] = None
  BY <1>t DEF BroadcastSend, SendTypes, sessionVars, workVars
<1>2. /\ \A P, t : \A v \in Workers : At(v, t, P)' <=> At(v, t, P)
      /\ InSend(s)' <=> InSend(s)
      /\ InAccept(s)' <=> InAccept(s)
  BY <1>1 DEF At, InSend, InAccept
<1>3. ~InAccept(s)
  <2>1. \A v \in Workers : At(v, s, {"accept"}) => At(v, s, AcceptPCs) /\ pc[v] = "accept"
    BY DEF At, AcceptPCs
  <2>2. QED
    BY <1>1, <1>s, <2>1 DEF InAccept, Stages, AcceptStage
<1>4. \A v \in Workers : ~At(v, s, {"flushPost"})
  BY <1>t, <1>1, NamesDistinct DEF At, SendLocks
<1>5. /\ sendList \in [Workers -> Seq(Sessions)] /\ sendList' \in [Workers -> Seq(Sessions)]
      /\ sendList'[w] = Append(sendList[w], s)
      /\ \A v \in Workers \ {w} : sendList'[v] = sendList[v]
  <2>1. sendList' = [sendList EXCEPT ![w] = Append(@, s)]
    BY DEF BroadcastSend, ListForFlush
  <2>2. sendList \in [Workers -> Seq(Sessions)] /\ Append(sendList[w], s) \in Seq(Sessions)
    BY <1>t DEF ListTypes
  <2>3. QED
    BY <2>1, <2>2
<1>6. /\ \A t \in Sessions : Count(sendList', t) = Count(sendList, t) + (IF t = s THEN 1 ELSE 0)
      /\ \A t \in Sessions : Count(sendList, t) \in Nat /\ Count(failList, t) \in Nat
  <2>1. ASSUME NEW q \in [Workers -> Seq(Sessions)], NEW r \in [Workers -> Seq(Sessions)],
               q = sendList, r = sendList', NEW t \in Sessions
        PROVE  Count(r, t) = Count(q, t) + (IF s = t THEN 1 ELSE 0)
    <3>1. Appended(q, r, w, s)
      BY <1>5, <2>1 DEF Appended
    <3>2. QED
      BY <3>1, AppendCount
  <2>2. failList \in [Workers -> Seq(Sessions)]
    BY <1>t DEF ListTypes
  <2>3. \A t \in Sessions : Count(sendList, t) \in Nat /\ Count(failList, t) \in Nat
    BY <1>5, <2>2, PositionsFinite
  <2>4. QED
    BY <1>5, <2>1, <2>3
<1>7. Entries(s)' = Entries(s) + 1 /\ \A t \in Sessions \ {s} : Entries(t)' = Entries(t)
  BY <1>1, <1>6 DEF Entries
<1>8. SendStage(s)'
  BY <1>1, <1>2, <1>3, <1>4, <1>s DEF SendStage
<1>9. ListedStage(s)'
  <2>1. Unsent(s)' = Unsent(s) + 1 /\ Unsent(s) \in Int
    BY <1>1, <1>2 DEF Unsent
  <2>2. Closing(s)' <=> Closing(s)
    BY <1>1 DEF Closing, Holders
  <2>3. Entries(s) \in Int
    BY <1>6 DEF Entries
  <2>4. QED
    BY <1>1, <1>7, <1>s, <2>1, <2>2, <2>3 DEF ListedStage
<1>10. ASSUME NEW t \in Sessions, t # s
       PROVE  /\ SameSend(t) /\ SameSendPCs(w, t)
              /\ connected'[t] => connected[t] /\ (At(w, t, {"closing"}) => At(w, t, {"closing"})')
              /\ Entries(t)' = Entries(t)
  BY <1>1, <1>2, <1>7, <1>10 DEF SameSend, SameSendPCs
<1>11. QED
  BY <1>8, <1>9, <1>10, SendsElsewhere

\* SendCompletion removes what was sent; a partial or failed send closes the connection.
LEMMA SendsCompleted ==
  ASSUME TypeInv, StageInv, Running, SendStages, NEW w \in Workers, OthersKept(w),
         SendFailed(w) \/ \E n \in 1..SendCap : SendCompleted(w, n)
  PROVE  SendStages'
<1>t. SessionTypes /\ SendTypes /\ WorkTypes /\ Control /\ SendLocks
  BY DEF TypeInv, TypeOK, StageInv
<1>1. PICK s \in Sessions : s = ctx[w]
  BY <1>t DEF Control, ControlAt, ContextPCs, Kinds, SendFailed, SendCompleted
<1>s. SendStage(s) /\ ListedStage(s)
  BY DEF SendStages
<1>2. /\ At(w, s, {"send"}) /\ pc'[w] \in {"delete", "closing"}
      /\ UNCHANGED <<io, connected, sendLen, sendList, failList, ctx>>
  BY <1>t, <1>1
    DEF At, SendFailed, SendCompleted, Goto, WorkTypes, sessionVars, sendVars, listVars
<1>3. InSend(s) /\ io[s]["send"] = 0 /\ sendPending[s] >= 1 /\ sendLen[s] \in 1..sendData[s]
  BY <1>2, <1>s DEF InSend, SendStage
<1>4. ~InSend(s)' /\ \A v \in Workers : ~At(v, s, {"send"})'
  <2>1. ~At(w, s, {"send"})'
    BY <1>2 DEF At
  <2>2. \A v \in Workers \ {w} : ~At(v, s, {"send"})'
    BY <1>2, <1>s DEF SendStage, OthersKept, At
  <2>3. QED
    BY <1>2, <1>3, <2>1, <2>2 DEF InSend
<1>5. ~InAccept(s) /\ ~InAccept(s)'
  <2>1. ~InAccept(s)
    BY <1>3, <1>s DEF SendStage
  <2>2. QED
    BY <1>2, <2>1 DEF InAccept, At, OthersKept
<1>6. \A v \in Workers : At(v, s, {"flushPost"})' => At(v, s, {"flushPost"})
  BY <1>2 DEF At, OthersKept
<1>7. sendData[s] \in Int /\ sendLen[s] \in Int /\ sendPending[s] \in Nat
  BY <1>t, <1>s DEF SendTypes, SendStage
<1>8. \A t \in Sessions : Entries(t)' = Entries(t)
  BY <1>2 DEF Entries
<1>9. CASE SendFailed(w)
  <2>1. UNCHANGED <<sendData, sendPending>> /\ pc'[w] = "closing"
    BY <1>t, <1>9 DEF SendFailed, sendVars, Goto, WorkTypes
  <2>2. SendStage(s)'
    BY <1>2, <1>3, <1>4, <1>5, <1>6, <1>7, <1>s, <2>1 DEF SendStage
  <2>3. Closing(s)'
    BY <1>1, <1>2, <2>1 DEF Closing, Holders
  <2>4. ListedStage(s)'
    BY <2>3 DEF ListedStage
  <2>5. ASSUME NEW t \in Sessions, t # s
        PROVE  /\ SameSend(t) /\ SameSendPCs(w, t)
               /\ connected'[t] => connected[t] /\ (At(w, t, {"closing"}) => At(w, t, {"closing"})')
               /\ Entries(t)' = Entries(t)
    BY <1>1, <1>2, <1>8, <2>1, <2>5 DEF SameSend, SameSendPCs, At
  <2>6. QED
    BY <2>2, <2>4, <2>5, SendsElsewhere
<1>10. ASSUME NEW n \in 1..SendCap, SendCompleted(w, n)
       PROVE  SendStages'
  <2>1. /\ sendLock[s] = None /\ n \in 1..sendLen[s] /\ n \in Nat
        /\ sendData'[s] = sendData[s] - n /\ sendPending'[s] = sendPending[s] - 1
        /\ \A t \in Sessions \ {s} : sendData'[t] = sendData[t] /\ sendPending'[t] = sendPending[t]
        /\ pc'[w] = IF n = sendLen[s] THEN "delete" ELSE "closing"
    BY <1>t, <1>1, <1>10 DEF SendCompleted, SendTypes, Goto, WorkTypes
  <2>2. \A v \in Workers : ~At(v, s, {"flushPost"})
    BY <1>t, <2>1, NamesDistinct DEF At, SendLocks
  <2>3. SendStage(s)'
    BY <1>2, <1>3, <1>4, <1>5, <1>6, <1>7, <2>1, <2>2 DEF SendStage
  <2>4. ListedStage(s)'
    <3>1. CASE n = sendLen[s]
      <4>1. Unsent(s)' = Unsent(s)
        BY <1>2, <1>3, <1>4, <1>7, <2>1, <3>1 DEF Unsent
      <4>2. ~Closing(s)' => ~Closing(s)
        BY <1>2 DEF Closing, Holders, OthersKept, At
      <4>3. QED
        BY <1>2, <1>8, <1>s, <4>1, <4>2 DEF ListedStage
    <3>2. CASE n # sendLen[s]
      <4>1. Closing(s)'
        BY <1>1, <1>2, <2>1, <3>2 DEF Closing, Holders
      <4>2. QED
        BY <4>1 DEF ListedStage
    <3>3. QED
      BY <3>1, <3>2
  <2>5. ASSUME NEW t \in Sessions, t # s
        PROVE  /\ SameSend(t) /\ SameSendPCs(w, t)
               /\ connected'[t] => connected[t] /\ (At(w, t, {"closing"}) => At(w, t, {"closing"})')
               /\ Entries(t)' = Entries(t)
    BY <1>1, <1>2, <1>8, <2>1, <2>5 DEF SameSend, SameSendPCs, At
  <2>6. QED
    BY <2>3, <2>4, <2>5, SendsElsewhere
<1>11. QED
  BY <1>9, <1>10

\* FlushSend makes its context only when no send is in flight.
LEMMA SendsFlushStart ==
  ASSUME TypeInv, StageInv, Running, SendStages, NEW w \in Workers, OthersKept(w), FlushStart(w)
  PROVE  SendStages'
<1>t. SessionTypes /\ SendTypes /\ ListTypes /\ WorkTypes /\ Control
  BY DEF TypeInv, TypeOK
<1>1. sendList[w] # <<>> /\ ctx[w] = None /\ pc[w] = "flushLock"
  BY <1>t DEF Control, ControlAt, ContextPCs, ReturnPCs, Kinds, FlushStart
<1>2. PICK s \in Sessions : s = Front(w)
  BY <1>t, <1>1, FrontIsSession
<1>s. SendStage(s) /\ ListedStage(s)
  BY DEF SendStages
<1>3. /\ sendData[s] > 0 /\ sendPending[s] <= 0 /\ ctx'[w] = s /\ pc'[w] = "flushPost"
      /\ UNCHANGED <<io, connected, sendData, sendLen, sendPending, sendList, failList>>
  BY <1>t, <1>2 DEF FlushStart, MaySend, Goto, WorkTypes, listVars
<1>4. \A P, t : \A v \in Workers \ {w} : At(v, t, P)' <=> At(v, t, P)
  BY DEF At, OthersKept
<1>5. \A t \in Sessions :
        /\ ~At(w, t, {"send"}) /\ ~At(w, t, {"accept"}) /\ ~At(w, t, {"closing"})
        /\ ~At(w, t, {"send"})' /\ ~At(w, t, {"accept"})'
        /\ t # s => ~At(w, t, {"flushPost"})'
  BY <1>1, <1>3 DEF At
<1>6. (InSend(s)' <=> InSend(s)) /\ (InAccept(s)' <=> InAccept(s))
  BY <1>3, <1>4, <1>5 DEF InSend, InAccept
<1>7. sendPending[s] = 0
  BY <1>3, <1>s DEF SendStage
<1>8. SendStage(s)'
  <2>1. \A v \in Workers : At(v, s, {"send"})' <=> At(v, s, {"send"})
    BY <1>4, <1>5
  <2>2. QED
    BY <1>3, <1>6, <1>7, <1>s, <2>1 DEF SendStage
<1>9. ASSUME NEW t \in Sessions
      PROVE  SameSend(t) /\ Entries(t)' = Entries(t)
  BY <1>3 DEF SameSend, Entries
<1>10. ListedStage(s)'
  BY <1>3, <1>5, <1>6, <1>9, <1>s, ListedStageKept
<1>11. ASSUME NEW t \in Sessions, t # s
       PROVE  /\ SameSend(t) /\ SameSendPCs(w, t)
              /\ connected'[t] => connected[t] /\ (At(w, t, {"closing"}) => At(w, t, {"closing"})')
              /\ Entries(t)' = Entries(t)
  BY <1>3, <1>5, <1>9, <1>11 DEF SameSendPCs
<1>12. QED
  BY <1>8, <1>10, <1>11, SendsElsewhere

\* WSASend covers some of what is in the buffer, and one entry is popped for it.
LEMMA SendsFlushPosted ==
  ASSUME TypeInv, StageInv, Running, SendStages, NEW w \in Workers, OthersKept(w), FlushPosted(w)
  PROVE  SendStages'
<1>t. SessionTypes /\ SendTypes /\ ListTypes /\ WorkTypes /\ Control /\ SendLocks
  BY DEF TypeInv, TypeOK, StageInv
<1>1. PICK s \in Sessions : s = ctx[w]
  BY <1>t DEF Control, ControlAt, ContextPCs, FlushPosted
<1>s. SendStage(s) /\ ListedStage(s)
  BY DEF SendStages
<1>2. pc[w] = "flushPost" /\ At(w, s, {"flushPost"}) /\ s = Front(w) /\ sendList[w] # <<>>
  BY <1>t, <1>1 DEF At, FlushPosted, SendLocks, Control, ControlAt
<1>3. sendPending[s] = 0 /\ sendData[s] > 0 /\ sendData[s] \in Int
  BY <1>t, <1>2, <1>s DEF SendStage, SendTypes
<1>4. ~InSend(s) /\ ~InAccept(s) /\ io[s]["send"] = 0
  BY <1>3, <1>s DEF SendStage, InSend
<1>5. /\ \A t \in Sessions, j \in Kinds : io'[t][j] =
           IF t = s /\ j = "send" THEN io[s]["send"] + 1 ELSE io[t][j]
      /\ "send" \in Kinds /\ "accept" \in Kinds
  <2>1. PostToKernel(s, "send") /\ "send" \in Kinds /\ "accept" \in Kinds
    BY <1>1 DEF FlushPosted, Kinds
  <2>2. QED
    BY <1>t, <2>1, KernelEffect
<1>6. /\ sendLen'[s] \in 1..sendData[s] /\ sendPending'[s] = sendPending[s] + 1
      /\ \A t \in Sessions \ {s} : sendLen'[t] = sendLen[t] /\ sendPending'[t] = sendPending[t]
      /\ ctx'[w] = None /\ pc'[w] = "flush" /\ UNCHANGED <<sendData, connected>>
  BY <1>t, <1>1 DEF FlushPosted, SendTypes, Goto, WorkTypes
<1>7. \A P, t : \A v \in Workers \ {w} : At(v, t, P)' <=> At(v, t, P)
  BY DEF At, OthersKept
<1>8. \A t \in Sessions :
        /\ ~At(w, t, {"send"}) /\ ~At(w, t, {"accept"}) /\ ~At(w, t, {"closing"})
        /\ ~At(w, t, {"send"})' /\ ~At(w, t, {"accept"})' /\ ~At(w, t, {"flushPost"})'
  BY <1>2, <1>6 DEF At
<1>9. \A v \in Workers : ~At(v, s, {"send"})' /\ ~At(v, s, {"accept"})'
  BY <1>4, <1>7, <1>8 DEF InSend, InAccept
<1>10. \A v \in Workers : ~At(v, s, {"flushPost"})'
  <2>1. ASSUME NEW v \in Workers, v # w
        PROVE  ~At(v, s, {"flushPost"})
    BY <1>1, <1>2, <1>t, <2>1 DEF At, SendLocks
  <2>2. QED
    BY <1>7, <1>8, <2>1
<1>11. io'[s]["send"] = 1 /\ io'[s]["accept"] = io[s]["accept"] /\ ~InAccept(s)' /\ InSend(s)'
  BY <1>4, <1>5, <1>9 DEF InAccept, InSend
<1>12. SendStage(s)'
  BY <1>3, <1>6, <1>9, <1>10, <1>11 DEF SendStage
<1>13. \A t \in Sessions : /\ Count(failList', t) = Count(failList, t)
                          /\ Count(sendList', t) =
                               Count(sendList, t) - (IF t = s THEN 1 ELSE 0)
                          /\ Count(sendList, t) \in Nat /\ Count(failList, t) \in Nat
  <2>1. PopFront(w) /\ UNCHANGED failList
    BY <1>1, <1>3 DEF FlushPosted
  <2>2. QED
    BY <1>t, <1>2, <2>1, PopEntries
<1>14. ListedStage(s)'
  <2>1. Unsent(s) = sendData[s] /\ Unsent(s)' = sendData[s] - sendLen'[s]
    BY <1>3, <1>4, <1>6, <1>11 DEF Unsent
  <2>2. Entries(s)' = Entries(s) - 1 /\ Entries(s) \in Int
    BY <1>13 DEF Entries
  <2>3. Closing(s) => Closing(s)'
    BY <1>2 DEF Closing, Holders, OthersKept, At
  <2>4. Unsent(s) <= Entries(s) => Unsent(s)' <= Entries(s)'
    BY <1>3, <1>6, <2>1, <2>2
  <2>5. QED
    BY <1>6, <1>s, <2>3, <2>4 DEF ListedStage
<1>15. ASSUME NEW t \in Sessions, t # s
       PROVE  /\ SameSend(t) /\ SameSendPCs(w, t)
              /\ connected'[t] => connected[t] /\ (At(w, t, {"closing"}) => At(w, t, {"closing"})')
              /\ Entries(t)' = Entries(t)
  BY <1>5, <1>6, <1>8, <1>13, <1>15 DEF SameSend, SameSendPCs, Entries
<1>16. QED
  BY <1>12, <1>14, <1>15, SendsElsewhere

\* FlushSend pops a session it need not, or may not, send for.
LEMMA SendsFlushPop ==
  ASSUME TypeInv, StageInv, Running, SendStages, NEW w \in Workers, OthersKept(w),
         FlushNothing(w) \/ FlushDisconnect(w)
  PROVE  SendStages'
<1>t. SessionTypes /\ SendTypes /\ ListTypes /\ WorkTypes /\ Control
  BY DEF TypeInv, TypeOK
<1>1. pc[w] \in {"flushLock", "flushDisc"} /\ sendList[w] # <<>>
  BY <1>t DEF Control, ControlAt, FlushNothing, FlushDisconnect
<1>2. PICK s \in Sessions : s = Front(w)
  BY <1>t, <1>1, FrontIsSession
<1>s. SendStage(s) /\ ListedStage(s)
  BY DEF SendStages
<1>3. /\ pc'[w] = "flush" /\ UNCHANGED <<sendData, sendLen, sendPending>> /\ ctx'[w] = ctx[w]
      /\ PopFront(w)
  BY <1>t DEF FlushNothing, FlushDisconnect, Goto, WorkTypes, sendVars
<1>4. \A t \in Sessions : /\ connected'[t] => connected[t]
                          /\ io'[t]["send"] = io[t]["send"] /\ io'[t]["accept"] = io[t]["accept"]
  <2>1. CASE FlushNothing(w)
    BY <2>1 DEF FlushNothing, sessionVars
  <2>2. CASE FlushDisconnect(w)
    <3>1. DisconnectRequest(s)
      BY <1>2, <2>2 DEF FlushDisconnect
    <3>2. QED
      BY <1>t, <3>1, DisconnectEffect DEF Kinds
  <2>3. QED
    BY <2>1, <2>2
<1>5. \A t \in Sessions : SameSend(t) /\ SameSendPCs(w, t) /\ ~At(w, t, {"closing"})
  BY <1>1, <1>3, <1>4 DEF SameSend, SameSendPCs, At
<1>6. SendStage(s)' /\ (InSend(s)' <=> InSend(s))
  BY <1>5, <1>s, SendStageKept
<1>7. \A t \in Sessions : /\ Count(sendList', t) =
                              Count(sendList, t) - (IF t = s THEN 1 ELSE 0)
                         /\ Count(sendList, t) \in Nat /\ Count(failList, t) \in Nat
  BY <1>t, <1>1, <1>2, <1>3, PopEntries
<1>8. UNCHANGED failList \/ Retry(w, s)
  BY <1>2 DEF FlushNothing, FlushDisconnect
<1>9. ListedStage(s)'
  <2>1. CASE FlushDisconnect(w)
    <3>1. DisconnectRequest(s)
      BY <1>2, <2>1 DEF FlushDisconnect
    <3>2. ~connected'[s]
      BY <1>t, <3>1, DisconnectEffect
    <3>3. QED
      BY <3>2 DEF ListedStage
  <2>2. CASE FlushNothing(w) /\ sendPending[s] = 0
    <3>1. ~(sendData[s] > 0) /\ sendData[s] \in Int /\ UNCHANGED failList
      BY <1>2, <1>s, <1>t, <2>2 DEF FlushNothing, MaySend, SendStage, SendTypes
    <3>2. ~InSend(s)
      BY <1>s, <2>2 DEF SendStage
    <3>3. Unsent(s)' = sendData[s]
      BY <1>3, <1>6, <3>1, <3>2 DEF Unsent
    <3>4. /\ Entries(s)' = Count(sendList', s) + Count(failList', s)
          /\ Count(sendList', s) \in Nat /\ Count(failList', s) \in Nat
      <4>1. sendList' \in [Workers -> Seq(Sessions)] /\ failList' \in [Workers -> Seq(Sessions)]
        BY <1>t, <1>1, <1>3, <3>1, PopEffect DEF ListTypes
      <4>2. QED
        BY <4>1, PositionsFinite DEF Entries
    <3>5. QED
      BY <3>1, <3>3, <3>4 DEF ListedStage
  <2>3. CASE FlushNothing(w) /\ sendPending[s] # 0
    <3>1. Retry(w, s) /\ connected' = connected
      BY <1>2, <2>3 DEF FlushNothing, sessionVars
    <3>2. Count(failList', s) = Count(failList, s) + 1
      BY <1>t, <3>1, RetryEntries
    <3>3. Entries(s)' = Entries(s)
      BY <1>7, <3>2 DEF Entries
    <3>4. connected'[s] => connected[s]
      BY <1>4
    <3>5. QED
      BY <1>5, <1>6, <1>s, <3>3, <3>4, ListedStageKept
  <2>4. QED
    BY <2>1, <2>2, <2>3
<1>10. ASSUME NEW t \in Sessions, t # s
       PROVE  Entries(t)' = Entries(t)
  <2>1. Count(failList', t) = Count(failList, t)
    BY <1>8, <1>10, <1>t, <1>7, RetryEntries
  <2>2. QED
    BY <1>7, <1>10, <2>1 DEF Entries
<1>11. QED
  BY <1>4, <1>5, <1>6, <1>9, <1>10, SendsElsewhere

\* DoSendJob swaps the lists without losing a session.
LEMMA SendsFlushEnd ==
  ASSUME TypeInv, SendStages, NEW w \in Workers, OthersKept(w), FlushEnd(w)
  PROVE  SendStages'
<1>t. ListTypes /\ WorkTypes
  BY DEF TypeInv, TypeOK
<1>1. /\ UNCHANGED <<sendData, sendLen, sendPending, io, connected, ctx>>
      /\ pc[w] = "flush" /\ pc'[w] = "idle"
  BY <1>t DEF FlushEnd, sessionVars, sendVars, Goto, WorkTypes
<1>2. \A t \in Sessions : SameSend(t) /\ SameSendPCs(w, t) /\ ~At(w, t, {"closing"})
  BY <1>1 DEF SameSend, SameSendPCs, At
<1>3. ASSUME NEW t \in Sessions
      PROVE  Entries(t)' = Entries(t)
  <2>1. /\ sendList[w] = <<>> /\ sendList'[w] = failList[w] /\ failList'[w] = <<>>
        /\ \A v \in Workers \ {w} : sendList'[v] = sendList[v] /\ failList'[v] = failList[v]
    BY <1>t DEF FlushEnd, ListTypes
  <2>2. Swapped(sendList, failList, sendList', failList', w)
    BY <1>t, <2>1, Zenon DEF Swapped, ListTypes
  <2>3. Count(sendList', t) + Count(failList', t) = Count(sendList, t) + Count(failList, t)
    BY <2>2, SwapCount
  <2>4. QED
    BY <2>3 DEF Entries
<1>4. SUFFICES ASSUME NEW t \in Sessions
               PROVE  SendStage(t)' /\ ListedStage(t)'
  BY DEF SendStages
<1>5. SendStage(t) /\ ListedStage(t)
  BY DEF SendStages
<1>6. SendStage(t)' /\ (InSend(t)' <=> InSend(t))
  BY <1>2, <1>5, SendStageKept
<1>7. QED
  BY <1>1, <1>2, <1>3, <1>5, <1>6, ListedStageKept

\* The buffer is cleared only once nobody is sending.
LEMMA SendsPushBack ==
  ASSUME TypeInv, StageInv, Running, SendStages, NEW w \in Workers, OthersKept(w), ReturnPushBack(w)
  PROVE  SendStages'
<1>t. SessionTypes /\ SendTypes /\ WorkTypes /\ Control /\ SendLocks
  BY DEF TypeInv, TypeOK, StageInv
<1>1. PICK s \in Sessions : s = client[w]
  BY <1>t DEF Control, ControlAt, ReturnPCs, ReturnPushBack
<1>s. SendStage(s)
  BY DEF SendStages
<1>2. /\ sendLock[s] = None /\ sendData'[s] = 0
      /\ \A t \in Sessions \ {s} : sendData'[t] = sendData[t]
      /\ UNCHANGED <<sendLen, sendPending, io, connected, ctx, sendList, failList>>
      /\ pc[w] = "pushBack" /\ pc'[w] \in {"flush", "delete"}
  BY <1>t, <1>1 DEF ReturnPushBack, BufferReset, SendTypes, Goto, WorkTypes, listVars
<1>3. /\ ~connected[s] /\ \A k \in Kinds : io[s][k] = 0
      /\ \A v \in Workers : ctx[v] = s => pc[v] = "flushPost"
  BY <1>1 DEF StageInv, Stages, ReturnStage, Returning
<1>4. \A v \in Workers : ctx[v] # s
  BY <1>t, <1>2, <1>3, NamesDistinct DEF SendLocks
<1>5. \A P : \A v \in Workers : ~At(v, s, P)'
  BY <1>2, <1>4 DEF At
<1>6. "send" \in Kinds /\ "accept" \in Kinds
  BY DEF Kinds
<1>7. ~InSend(s)' /\ ~InAccept(s)'
  BY <1>2, <1>3, <1>5, <1>6 DEF InSend, InAccept
<1>8. SendStage(s)'
  BY <1>2, <1>3, <1>5, <1>6, <1>7, <1>s DEF SendStage
<1>9. ListedStage(s)'
  BY <1>2, <1>3 DEF ListedStage
<1>10. ASSUME NEW t \in Sessions, t # s
       PROVE  /\ SameSend(t) /\ SameSendPCs(w, t)
              /\ connected'[t] => connected[t] /\ (At(w, t, {"closing"}) => At(w, t, {"closing"})')
              /\ Entries(t)' = Entries(t)
  BY <1>2, <1>10 DEF SameSend, SameSendPCs, At, Entries
<1>11. QED
  BY <1>8, <1>9, <1>10, SendsElsewhere

\* An issued session has nothing to send.
LEMMA SendsIssue ==
  ASSUME TypeInv, StageInv, Running, SendStages, IssueSession
  PROVE  SendStages'
<1>t. SessionTypes /\ PoolTypes /\ PoolCount
  BY DEF TypeInv, TypeOK
<1>1. PICK s \in Sessions, d \in {0, 1} :
        /\ s = freeList[Len(freeList)]
        /\ \A t \in Sessions, j \in Kinds : io'[t][j] =
             IF t = s /\ j = "accept" THEN io[s]["accept"] + d ELSE io[t][j]
  BY <1>t, IssueEffect
<1>2. Free(s)
  BY <1>t, <1>1, FreeListNonempty DEF IssueSession, Free, InRange
<1>3. /\ \A k \in Kinds : io[s][k] = 0
      /\ \A v \in Workers : ctx[v] # s
      /\ sendData[s] = 0 /\ ~connected[s]
  BY <1>2 DEF StageInv, Stages, FreeStage
<1>4. UNCHANGED <<sendData, sendLen, sendPending, connected, pc, ctx, sendList, failList>>
  BY DEF IssueSession, sendVars, workVars, listVars
<1>5. "send" \in Kinds /\ "accept" \in Kinds
  BY DEF Kinds
<1>6. SUFFICES ASSUME NEW t \in Sessions
               PROVE  SendStage(t)' /\ ListedStage(t)'
  BY DEF SendStages
<1>7. SendStage(t) /\ ListedStage(t)
  BY DEF SendStages
<1>8. \A P : \A v \in Workers : At(v, t, P)' <=> At(v, t, P)
  BY <1>4 DEF At
<1>9. io'[t]["send"] = io[t]["send"] /\ (t # s => io'[t]["accept"] = io[t]["accept"])
  BY <1>1, <1>5
<1>10. InSend(t)' <=> InSend(t)
  BY <1>8, <1>9 DEF InSend
<1>11. InAccept(t)' => sendData'[t] = 0
  <2>1. CASE t = s
    BY <1>3, <1>4, <2>1
  <2>2. CASE t # s
    BY <1>4, <1>7, <1>8, <1>9, <2>2 DEF InAccept, SendStage
  <2>3. QED
    BY <2>1, <2>2
<1>12. SendStage(t)'
  BY <1>4, <1>7, <1>8, <1>9, <1>10, <1>11 DEF SendStage
<1>13. ListedStage(t)'
  BY <1>4, <1>7, <1>10 DEF ListedStage, Unsent, Entries, Closing, Holders
<1>14. QED
  BY <1>12, <1>13

\* A DisconnectRequest changes no send, and ends the connection.
LEMMA SendsDisconnect ==
  ASSUME SessionTypes, NEW s \in Sessions, DisconnectRequest(s),
         UNCHANGED <<sendData, sendLen, sendPending>>
  PROVE  /\ \A t \in Sessions : SameSend(t) /\ (connected'[t] => connected[t])
         /\ ~connected'[s]
  BY DisconnectEffect DEF Kinds, SameSend

\* Every step of a worker keeps the sends of each session apart and forgets none.
LEMMA SendsStep ==
  ASSUME TypeInv, StageInv, SendStages, Running, NEW w \in Workers, Step(w) \/ Dequeue(w)
  PROVE  SendStages'
<1>t. SessionTypes /\ ListTypes /\ WorkTypes /\ Control
  BY DEF TypeInv, TypeOK
<1>o. OthersKept(w)
  BY StepIsLocal DEF TypeInv
<1>1. CASE Dequeue(w)
  BY <1>o, <1>1, SendsDequeue DEF Dequeue
<1>2. CASE AcceptConnected(w)
  BY <1>o, <1>2, SendsAcceptConnected
<1>3. ASSUME NEW t \in Sessions, BroadcastSend(w, t)
      PROVE  SendStages'
  BY <1>o, <1>3, SendsBroadcast
<1>4. CASE SendFailed(w) \/ \E n \in 1..SendCap : SendCompleted(w, n)
  BY <1>o, <1>4, SendsCompleted
<1>5. CASE FlushStart(w)
  BY <1>o, <1>5, SendsFlushStart
<1>6. CASE FlushPosted(w)
  BY <1>o, <1>6, SendsFlushPosted
<1>7. CASE FlushNothing(w) \/ FlushDisconnect(w)
  BY <1>o, <1>7, SendsFlushPop
<1>8. CASE FlushEnd(w)
  BY <1>o, <1>8, SendsFlushEnd
<1>9. CASE ReturnPushBack(w)
  BY <1>o, <1>9, SendsPushBack
<1>10. CASE CloseConnection(w) \/ AcceptSetupFailed(w) \/ OnReadBadPacket(w)
  <2>1. PICK s \in Sessions : s = ctx[w]
    BY <1>t, <1>10 DEF Control, ControlAt, ContextPCs, CloseConnection, AcceptSetupFailed,
                       OnReadBadPacket
  <2>2. DisconnectRequest(s)
    BY <1>10, <2>1 DEF CloseConnection, AcceptSetupFailed, OnReadBadPacket
  <2>3. UNCHANGED <<sendData, sendLen, sendPending, sendList, failList>>
    BY <1>10 DEF CloseConnection, AcceptSetupFailed, OnReadBadPacket, sendVars, listVars
  <2>4. pc[w] # "send" /\ pc'[w] \notin {"send", "flushPost", "accept"}
    BY <1>t, <1>10
      DEF CloseConnection, AcceptSetupFailed, OnReadBadPacket, Goto, WorkTypes, workVars
  <2>5. /\ \A t \in Sessions : SameSend(t) /\ (connected'[t] => connected[t])
        /\ ~connected'[s]
    BY <1>t, <2>2, <2>3, SendsDisconnect
  <2>6. QED
    BY <1>o, <2>1, <2>3, <2>4, <2>5, SendsPlain
<1>11. ASSUME NEW s \in Sessions, BroadcastAbort(w, s)
       PROVE  SendStages'
  <2>1. DisconnectRequest(s) /\ UNCHANGED <<sendData, sendLen, sendPending, sendList, failList>>
    BY <1>11 DEF BroadcastAbort, sendVars, listVars
  <2>2. \A t \in Sessions : SameSend(t) /\ (connected'[t] => connected[t])
    BY <1>t, <2>1, SendsDisconnect
  <2>3. pc[w] = "chatSend" /\ pc'[w] = pc[w]
    BY <1>11 DEF BroadcastAbort, workVars
  <2>4. QED
    BY <1>o, <2>1, <2>2, <2>3, SendsPlain
<1>12. CASE AcceptPreRecv(w) \/ RecvZeroCompleted(w) \/ OnReadDone(w)
  <2>1. PICK s \in Sessions : s = ctx[w]
    BY <1>t, <1>12 DEF Control, ControlAt, ContextPCs, Kinds, AcceptPreRecv, RecvZeroCompleted,
                       OnReadDone
  <2>2. PICK k \in {"recvZero", "recv"} : ReceivePosted(s, k) \/ ReceiveRefused
    BY <1>12, <2>1 DEF AcceptPreRecv, RecvZeroCompleted, OnReadDone
  <2>3. \A t \in Sessions : io'[t]["send"] = io[t]["send"] /\ io'[t]["accept"] = io[t]["accept"]
    <3>1. CASE ReceiveRefused
      BY <3>1 DEF ReceiveRefused
    <3>2. CASE ReceivePosted(s, k)
      <4>1. PostOverlapped(s, k) /\ k \in Kinds /\ "send" \in Kinds /\ "accept" \in Kinds
        BY <3>2 DEF ReceivePosted, Kinds
      <4>2. \A t \in Sessions, j \in Kinds : io'[t][j] =
              IF t = s /\ j = k THEN io[s][k] + 1 ELSE io[t][j]
        BY <1>t, <4>1, PostEffect
      <4>3. QED
        BY <4>1, <4>2
    <3>3. QED
      BY <2>2, <3>1, <3>2
  <2>4. UNCHANGED <<connected, sendData, sendLen, sendPending, sendList, failList>>
    BY <1>12 DEF AcceptPreRecv, RecvZeroCompleted, OnReadDone, sendVars, listVars
  <2>5. /\ pc[w] \notin {"send", "closing"}
        /\ pc'[w] \notin {"send", "flushPost", "accept"}
    BY <1>t, <1>12 DEF AcceptPreRecv, RecvZeroCompleted, OnReadDone, Goto, WorkTypes
  <2>6. QED
    BY <1>o, <2>3, <2>4, <2>5, SendsPlain DEF SameSend
<1>13. CASE DeleteContext(w) \/ FlushFailed(w) \/ DisconnectReleaseBase(w)
  <2>1. UNCHANGED <<connected, io, sendData, sendLen, sendPending, sendList, failList>>
    BY <1>13 DEF DeleteContext, FlushFailed, DisconnectReleaseBase, sendVars, listVars
  <2>2. PICK next \in {"flush", "flushDisc", "delete"}, s \in Sessions : ReleaseRef(w, s, next)
    BY <1>t, <1>13 DEF DeleteContext, FlushFailed, DisconnectReleaseBase, Control, ControlAt,
                       ContextPCs
  <2>3. pc[w] \notin {"send", "closing"}
    BY <1>13 DEF DeleteContext, FlushFailed, DisconnectReleaseBase
  <2>4. CASE pc' = pc /\ ctx'[w] = None
    <3>1. \A t \in Sessions : SameSend(t) /\ SameSendPCs(w, t) /\ ~At(w, t, {"closing"})
      BY <2>1, <2>3, <2>4, NamesDistinct DEF SameSend, SameSendPCs, At
    <3>2. SUFFICES ASSUME NEW t \in Sessions
                   PROVE  SendStage(t)' /\ ListedStage(t)'
      BY DEF SendStages
    <3>3. SendStage(t) /\ ListedStage(t)
      BY DEF SendStages
    <3>4. SendStage(t)' /\ (InSend(t)' <=> InSend(t))
      BY <1>o, <3>1, <3>3, SendStageKept
    <3>5. QED
      BY <1>o, <2>1, <3>1, <3>3, <3>4, ListedStageKept DEF Entries
  <2>5. CASE pc'[w] \notin {"send", "flushPost", "accept"}
    BY <1>o, <2>1, <2>3, <2>5, SendsPlain DEF SameSend
  <2>6. pc' = pc \/ pc'[w] \notin {"send", "flushPost", "accept"}
    BY <1>t, <2>2 DEF ReleaseRef, CrashAssert, Goto, WorkTypes
  <2>7. pc[w] = "flushPost" => ctx'[w] = None
    BY <1>t, <1>13 DEF DeleteContext, FlushFailed, DisconnectReleaseBase, WorkTypes
  <2>8. pc[w] \in {"delete", "flushPost", "relBase"}
    BY <1>13 DEF DeleteContext, FlushFailed, DisconnectReleaseBase
  <2>9. QED
    BY <2>4, <2>5, <2>6, <2>7, <2>8
<1>14. CASE \/ DequeueTimeout(w) \/ AcceptSetupDone(w) \/ AcceptRegister(w)
            \/ RecvCompleted(w) \/ OnReadChat(w) \/ BroadcastLock(w) \/ BroadcastUnlock(w)
            \/ DisconnectUnregister(w) \/ FlushBegin(w)
            \/ ReturnLockOrder(w) \/ ReturnLock(w) \/ ReturnReset(w)
  <2>1. UNCHANGED <<io, sendData, sendLen, sendPending, sendList, failList>>
    BY <1>14
      DEF DequeueTimeout, AcceptSetupDone, AcceptRegister, RecvCompleted, OnReadChat,
          BroadcastLock, BroadcastUnlock, DisconnectUnregister, FlushBegin, ReturnLockOrder,
          ReturnLock, ReturnReset, sessionVars, sendVars, listVars
  <2>2. pc[w] \notin {"send", "closing"} /\ pc'[w] \notin {"send", "flushPost", "accept"}
    BY <1>t, <1>14
      DEF DequeueTimeout, AcceptSetupDone, AcceptRegister, RecvCompleted, OnReadChat,
          BroadcastLock, BroadcastUnlock, DisconnectUnregister, FlushBegin, ReturnLockOrder,
          ReturnLock, ReturnReset, CrashAssert, Goto, WorkTypes
  <2>3. \A t \in Sessions : connected'[t] => connected[t]
    BY <1>t, <1>14
      DEF DequeueTimeout, AcceptSetupDone, AcceptRegister, RecvCompleted, OnReadChat,
          BroadcastLock, BroadcastUnlock, DisconnectUnregister, FlushBegin, ReturnLockOrder,
          ReturnLock, ReturnReset, sessionVars, SessionTypes
  <2>4. QED
    BY <1>o, <2>1, <2>2, <2>3, SendsPlain DEF SameSend
<1>15. QED
  BY <1>1, <1>2, <1>3, <1>4, <1>5, <1>6, <1>7, <1>8, <1>9, <1>10, <1>11, <1>12, <1>13, <1>14
    DEF Step

-----------------------------------------------------------------------------
(* The invariant of the operations in flight *)

FlightInv == SessionInv /\ (Running => ReceiveStages /\ SendStages)

\* No operation is outstanding at the start.
LEMMA FlightInvInit ==
  ASSUME Init
  PROVE  FlightInv
<1>1. /\ \A s \in Sessions : /\ \A k \in Kinds : io[s][k] = 0
                             /\ sendPending[s] = 0 /\ sendData[s] = 0 /\ ~connected[s]
                             /\ s # None
      /\ \A w \in Workers : ctx[w] = None
  BY NamesDistinct DEF Init
<1>2. \A s \in Sessions : ReceiveStage(s)
  BY <1>1 DEF ReceiveStage, ReceivesPosted, At, Kinds
<1>3. \A s \in Sessions : SendStage(s) /\ ListedStage(s)
  BY <1>1 DEF SendStage, ListedStage, InSend, InAccept, At, Kinds
<1>4. QED
  BY <1>2, <1>3, SessionInvInit DEF FlightInv, ReceiveStages, SendStages

\* Every step keeps the invariant of the operations in flight.
LEMMA FlightInvStep ==
  ASSUME FlightInv, [Next]_vars
  PROVE  FlightInv'
<1>0. SessionInv /\ SessionInv' /\ TypeInv /\ StageInv
  BY SessionInvStep DEF FlightInv, SessionInv
<1>1. ASSUME NEW w \in Workers, Running, Step(w) \/ Dequeue(w)
      PROVE  FlightInv'
  BY <1>0, <1>1, ReceiveStep, SendsStep DEF FlightInv
<1>2. CASE Running /\ IssueSession
  BY <1>0, <1>2, ReceiveIssue, SendsIssue DEF FlightInv, SessionInv
<1>3. CASE UNCHANGED <<connected, io, sendData, sendLen, sendPending, pc, ctx, sendList,
                       failList, halt>>
  <2>1. \A P : \A s, w : At(w, s, P)' <=> At(w, s, P)
    BY <1>3 DEF At
  <2>2. ReceiveStages => ReceiveStages'
    BY <1>3, <2>1 DEF ReceiveStages, ReceiveStage, ReceivesPosted
  <2>3. ASSUME NEW s \in Sessions, SendStage(s), ListedStage(s)
        PROVE  SendStage(s)' /\ ListedStage(s)'
    <3>1. (InSend(s)' <=> InSend(s)) /\ (InAccept(s)' <=> InAccept(s))
      BY <1>3, <2>1 DEF InSend, InAccept
    <3>2. SendStage(s)'
      BY <1>3, <2>1, <2>3, <3>1 DEF SendStage
    <3>3. ListedStage(s)'
      BY <1>3, <2>3, <3>1 DEF ListedStage, Unsent, Entries, Closing, Holders
    <3>4. QED
      BY <3>2, <3>3
  <2>4. SendStages => SendStages'
    BY <2>3 DEF SendStages
  <2>5. QED
    BY <1>0, <1>3, <2>2, <2>4 DEF FlightInv, Running
<1>4. CASE AcceptClientSessions \/ StopIssuing
  BY <1>3, <1>4 DEF AcceptClientSessions, StopIssuing, sessionVars, sendVars, listVars, workVars
<1>5. CASE UNCHANGED vars
  BY <1>3, <1>5 DEF vars, sessionVars, sendVars, listVars, workVars
<1>6. CASE Halted
  BY <1>5, <1>6 DEF Halted
<1>7. QED
  BY <1>1, <1>2, <1>4, <1>5, <1>6 DEF Next, MainThread, Step, Dequeue

\* The cardinality of a set with at most one element.
LEMMA AtMostOne ==
  ASSUME NEW S \in SUBSET Workers, \A v, w \in S : v = w
  PROVE  /\ Cardinality(S) \in {0, 1}
         /\ Cardinality(S) = 1 <=> \E w \in Workers : w \in S
<1>1. CASE S = {}
  BY <1>1, FS_EmptySet
<1>2. CASE S # {}
  <2>1. PICK w \in S : TRUE
    BY <1>2
  <2>2. S = {w}
    BY <2>1
  <2>3. Cardinality(S) = 1
    BY <2>2, FS_Singleton
  <2>4. QED
    BY <2>1, <2>3
<1>3. QED
  BY <1>1, <1>2

\* What the invariant says of the properties the runs check.
LEMMA FlightInvImplies ==
  ASSUME FlightInv
  PROVE  OneReceiveInFlight /\ OneSendInFlight /\ FlushScheduled
<1>1. SUFFICES ASSUME Running
               PROVE  OneReceiveInFlight /\ OneSendInFlight /\ FlushScheduled
  BY DEF OneReceiveInFlight, OneSendInFlight, FlushScheduled
<1>2. ReceiveStages /\ SendStages
  BY <1>1 DEF FlightInv
<1>t. SessionTypes
  BY DEF FlightInv, SessionInv, TypeInv, TypeOK
<1>3. ASSUME NEW s \in Sessions
      PROVE  io[s]["recvZero"] + io[s]["recv"] + Cardinality(Receiving(s)) <= 1
  <2>1. ReceiveStage(s)
    BY <1>2 DEF ReceiveStages
  <2>2. \A w \in Receiving(s) : w \in Workers /\ At(w, s, ReceivePCs)
    BY DEF Receiving, Holders, At, ReceivePCs
  <2>3. /\ Cardinality(Receiving(s)) \in {0, 1}
        /\ Cardinality(Receiving(s)) = 1 <=> \E w \in Workers : w \in Receiving(s)
    BY <2>1, <2>2, AtMostOne DEF ReceiveStage
  <2>4. io[s]["accept"] \in Nat /\ io[s]["recvZero"] \in Nat /\ io[s]["recv"] \in Nat
    BY <1>t DEF SessionTypes, Kinds
  <2>5. Cardinality(Receiving(s)) = 1 => ReceivesPosted(s) = 0
    BY <2>1, <2>2, <2>3 DEF ReceiveStage
  <2>6. QED
    BY <2>1, <2>3, <2>4, <2>5 DEF ReceiveStage, ReceivesPosted
<1>4. ASSUME NEW s \in Sessions
      PROVE  /\ SendInFlight(s) \in {0, 1}
             /\ SendInFlight(s) = 1 <=> InSend(s)
             /\ SendStage(s) /\ ListedStage(s)
  <2>1. SendStage(s) /\ ListedStage(s)
    BY <1>2 DEF SendStages
  <2>2. \A w \in Workers : w \in Sending(s) <=> At(w, s, {"send"})
    BY DEF Sending, Holders, At
  <2>3. /\ Cardinality(Sending(s)) \in {0, 1}
        /\ Cardinality(Sending(s)) = 1 <=> \E w \in Workers : w \in Sending(s)
    <3>1. Sending(s) \in SUBSET Workers
      BY DEF Sending, Holders
    <3>2. QED
      BY <2>1, <2>2, <3>1, AtMostOne DEF SendStage
  <2>4. io[s]["send"] = 1 => Cardinality(Sending(s)) = 0
    BY <2>1, <2>2, <2>3 DEF SendStage
  <2>5. InSend(s) <=> io[s]["send"] = 1 \/ Cardinality(Sending(s)) = 1
    BY <2>2, <2>3 DEF InSend
  <2>6. QED
    BY <2>1, <2>3, <2>4, <2>5 DEF SendInFlight, SendStage
<1>5. OneReceiveInFlight
  BY <1>3 DEF OneReceiveInFlight
<1>6. OneSendInFlight
  BY <1>4 DEF OneSendInFlight, SendStage
<1>7. FlushScheduled
  <2>1. SUFFICES ASSUME NEW s \in Sessions, connected[s], ~Closing(s),
                        sendData[s] > (IF SendInFlight(s) > 0 THEN sendLen[s] ELSE 0)
                 PROVE  Listed(s)
    BY DEF FlushScheduled
  <2>2. SendTypes /\ ListTypes
    BY DEF FlightInv, SessionInv, TypeInv, TypeOK
  <2>3. SendInFlight(s) > 0 <=> InSend(s)
    BY <1>4
  <2>4. sendData[s] \in Int /\ sendLen[s] \in Int
    BY <2>2 DEF SendTypes
  <2>5. Unsent(s) >= 1 /\ Unsent(s) \in Int
    BY <2>1, <2>3, <2>4 DEF Unsent
  <2>6. Unsent(s) <= Entries(s)
    BY <1>4, <2>1 DEF ListedStage
  <2>7. Entries(s) \in Int
    <3>1. Count(sendList, s) \in Nat /\ Count(failList, s) \in Nat
      BY <2>2, PositionsFinite DEF ListTypes
    <3>2. QED
      BY <3>1 DEF Entries
  <2>8. QED
    BY <2>2, <2>5, <2>6, <2>7, EntriesListed
<1>8. QED
  BY <1>5, <1>6, <1>7

\* With the life cycle, the receives and the sends of every session are one at a time and no
\* buffered message is forgotten, in every run.
THEOREM FlightInvariant == Spec => []FlightInv
<1>1. Init => FlightInv
  BY FlightInvInit
<1>2. FlightInv /\ [Next]_vars => FlightInv'
  BY FlightInvStep
<1>3. QED
  BY <1>1, <1>2, PTL DEF Spec

\* The receive buffer needs no lock: at most one receive of a session is outstanding or being
\* handled (PreRecv, PostRecv, OnRead).
THEOREM ReceivesAlone == Spec => []OneReceiveInFlight
<1>1. FlightInv => OneReceiveInFlight
  BY FlightInvImplies
<1>2. QED
  BY <1>1, FlightInvariant, PTL

\* At most one send of a session is outstanding, mSendPendingCount covers it and the bytes
\* handed to WSASend are still in the buffer (FlushSend, SendCompletion, SessionReset).
THEOREM SendsAlone == Spec => []OneSendInFlight
<1>1. FlightInv => OneSendInFlight
  BY FlightInvImplies
<1>2. QED
  BY <1>1, FlightInvariant, PTL

\* Buffered data of a connected client that is not in a send, what WSASend was not given
\* included, is always on some worker's list, unless that connection is being closed
\* (SendRequest, DoSendJob, FlushSend).
THEOREM NoSendForgotten == Spec => []FlushScheduled
<1>1. FlightInv => FlushScheduled
  BY FlightInvImplies
<1>2. QED
  BY <1>1, FlightInvariant, PTL
=============================================================================
