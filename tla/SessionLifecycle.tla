-------------------------- MODULE SessionLifecycle --------------------------
(***************************************************************************)
(* The life of the pooled client sessions of the IOCP server: issue from   *)
(* the free list, AcceptEx, receive, chat broadcast, gathered sends,       *)
(* disconnect, and the return to the free list when the last reference     *)
(* goes.  The actors are the main thread (which issues sessions), the I/O  *)
(* workers (which take completions from one completion port and then flush *)
(* their thread-local send lists) and the kernel (which holds the          *)
(* outstanding overlapped operations).                                     *)
(*                                                                         *)
(* A worker runs from one shared access to the next; pc[w] names the code  *)
(* it is about to execute.  A CRASH_ASSERT that fails stops the program:   *)
(* halt then names it and only Halted is left.                             *)
(***************************************************************************)
EXTENDS Integers, Sequences, FiniteSets

CONSTANTS
  Sessions,   \* the MAX_CONNECTION pooled ClientSession objects
  Workers,    \* the MAX_IO_THREAD threads running IOThread::Run
  Main,       \* the main thread, as a holder of the manager's lock
  None,       \* no session, or no lock holder
  Faults,     \* operating-system calls that may fail at once
  SendCap,    \* messages that fit into mSendBuffer
  MaxIssue,   \* bound on mCurrentIssueCount
  MaxChats    \* bound on the number of chat packets handled

FaultKinds == {"acceptEx", "setup", "disconnectEx"}

ASSUME WorkersFinite  == IsFiniteSet(Workers)
ASSUME SessionsFinite == IsFiniteSet(Sessions)
ASSUME NamesDistinct  == /\ None \notin Sessions \cup Workers \cup {Main}
                         /\ Main \notin Workers
ASSUME FaultsKnown    == Faults \subseteq FaultKinds
ASSUME BoundsNatural  == SendCap \in Nat \ {0} /\ MaxIssue \in Nat /\ MaxChats \in Nat

\* IOType of the overlapped operations of a client session.
Kinds == {"accept", "recvZero", "recv", "send", "disconnect"}

\* The CRASH_ASSERTs of this part of the code, by the function that holds it;
\* "exit" is the ordinary end of the program when StartAccept gives up.
Asserts == {"AcceptCompletion", "RegisterClient", "UnregisterClient", "ReleaseRef",
            "ReturnClientSession", "LockOrder"}
Halts == {"none", "exit"} \cup Asserts

PCs == Kinds \cup {"idle", "setup", "acceptRecv", "register", "onRead", "chat",
                   "chatSend", "relBase", "closing", "delete", "flush", "flushLock",
                   "flushPost", "flushDisc", "return", "reset", "pushBack"}

VARIABLES
  connected,    \* mConnected of each session
  refCount,     \* mRefCount of each session
  sock,         \* "fresh" | "accepted" (not on the port yet) | "open" | "closed"
  io,           \* outstanding operations of each session the kernel holds, by kind
  sendData,     \* messages stored in mSendBuffer
  sendLen,      \* messages covered by the last WSASend
  sendPending,  \* mSendPendingCount
  sendLock,     \* holder of mSendBufferLock
  freeList,     \* mFreeSessionList
  issueCount,   \* mCurrentIssueCount
  returnCount,  \* mCurrentReturnCount
  mgrLock,      \* holder of ClientSessionManager::mLock
  registered,   \* mConnectedClientSet
  bcastLock,    \* holder of BroadcastManager::mLock
  pc,           \* what each worker does next
  ctx,          \* session of the OverlappedIOContext a worker must delete
  client,       \* session a worker is returning to the free list
  targets,      \* clients a worker's BroadcastPacket has still to serve
  sendList,     \* LSendRequestSessionList of each worker
  failList,     \* LSendRequestSessionFailureList of each worker
  chats,        \* chat packets handled so far (bounded by MaxChats)
  baseRef,      \* auxiliary: the reference taken "for issuing" is not released
  halt          \* "none", or why the program has stopped

sessionVars == <<connected, refCount, sock, io, baseRef>>
sendVars    == <<sendData, sendLen, sendPending, sendLock>>
poolVars    == <<freeList, issueCount, returnCount, mgrLock>>
castVars    == <<registered, bcastLock, targets, chats>>
listVars    == <<sendList, failList>>
workVars    == <<pc, ctx, client>>
vars == <<sessionVars, sendVars, poolVars, castVars, listVars, workVars, halt>>

Running == halt = "none"

Goto(w, l) == pc' = [pc EXCEPT ![w] = l]

\* A CRASH_ASSERT(ok) of function why: w goes on at next, or the program stops.
CrashAssert(w, ok, why, next) ==
  IF ok THEN Goto(w, next) /\ UNCHANGED halt
        ELSE halt' = why /\ UNCHANGED pc

SessionTypes ==
  /\ connected \in [Sessions -> BOOLEAN]
  /\ refCount \in [Sessions -> Int]
  /\ sock \in [Sessions -> {"fresh", "accepted", "open", "closed"}]
  /\ io \in [Sessions -> [Kinds -> Nat]]
  /\ baseRef \in [Sessions -> BOOLEAN]
SendTypes ==
  /\ sendData \in [Sessions -> {n \in Int : n <= SendCap}]
  /\ sendLen \in [Sessions -> {n \in Int : n <= SendCap}]
  /\ sendPending \in [Sessions -> Int]
  /\ sendLock \in [Sessions -> Workers \cup {None}]
PoolTypes ==
  /\ freeList \in Seq(Sessions)
  /\ issueCount \in 0..MaxIssue
  /\ returnCount \in Nat
  /\ mgrLock \in Workers \cup {Main, None}
CastTypes ==
  /\ registered \in SUBSET Sessions
  /\ bcastLock \in Workers \cup {None}
  /\ targets \in [Workers -> SUBSET Sessions]
  /\ chats \in 0..MaxChats
ListTypes ==
  /\ sendList \in [Workers -> Seq(Sessions)]
  /\ failList \in [Workers -> Seq(Sessions)]
WorkTypes ==
  /\ pc \in [Workers -> PCs]
  /\ ctx \in [Workers -> Sessions \cup {None}]
  /\ client \in [Workers -> Sessions \cup {None}]

TypeOK ==
  /\ SessionTypes /\ SendTypes /\ PoolTypes /\ CastTypes /\ ListTypes /\ WorkTypes
  /\ halt \in Halts

\* PrepareClientSessions has filled the free list and the I/O threads are waiting.
Init ==
  /\ connected = [s \in Sessions |-> FALSE]
  /\ refCount = [s \in Sessions |-> 0]
  /\ sock = [s \in Sessions |-> "fresh"]
  /\ io = [s \in Sessions |-> [k \in Kinds |-> 0]]
  /\ baseRef = [s \in Sessions |-> FALSE]
  /\ sendData = [s \in Sessions |-> 0]
  /\ sendLen = [s \in Sessions |-> 0]
  /\ sendPending = [s \in Sessions |-> 0]
  /\ sendLock = [s \in Sessions |-> None]
  /\ freeList \in {q \in [1..Cardinality(Sessions) -> Sessions] :
                     \A i, j \in DOMAIN q : q[i] = q[j] => i = j}
  /\ issueCount = 0
  /\ returnCount = 0
  /\ mgrLock = None
  /\ registered = {}
  /\ bcastLock = None
  /\ targets = [w \in Workers |-> {}]
  /\ chats = 0
  /\ sendList = [w \in Workers |-> <<>>]
  /\ failList = [w \in Workers |-> <<>>]
  /\ pc = [w \in Workers |-> "idle"]
  /\ ctx = [w \in Workers |-> None]
  /\ client = [w \in Workers |-> None]
  /\ halt = "none"

-----------------------------------------------------------------------------
(* Session: references, disconnect, receive *)

\* Session::ReleaseRef by w, which goes on at `next` unless the session is now free
\* to return: OnRelease then calls ReturnClientSession.
ReleaseRef(w, s, next) ==
  LET ret == refCount[s] - 1 IN
  /\ refCount' = [refCount EXCEPT ![s] = ret]
  /\ client' = IF ret = 0 THEN [client EXCEPT ![w] = s] ELSE client
  /\ CrashAssert(w, ret >= 0, "ReleaseRef", IF ret = 0 THEN "return" ELSE next)

\* The kernel accepts an overlapped operation of kind k.
PostToKernel(s, k) == io' = [io EXCEPT ![s][k] = @ + 1]

\* Mutant of PostOverlapped: the constructor does not AddRef.
PostOverlappedNoAddRef(s, k) ==
  /\ PostToKernel(s, k)
  /\ UNCHANGED refCount

\* A new OverlappedIOContext handed to the kernel: AddRef in its constructor.
PostOverlapped(s, k) ==
  /\ refCount' = [refCount EXCEPT ![s] = @ + 1]
  /\ PostToKernel(s, k)

\* Session::DisconnectRequest: whoever takes mConnected from 1 to 0 posts DisconnectEx.
DisconnectRequest(s) ==
  /\ connected' = [connected EXCEPT ![s] = FALSE]
  /\ \/ connected[s] /\ PostOverlapped(s, "disconnect")
     \/ /\ ~connected[s] \/ "disconnectEx" \in Faults
        /\ UNCHANGED <<refCount, io>>

\* Session::PreRecv / PostRecv: WSARecv accepted by the kernel, or not posted because
\* the session is not connected, the buffer is full or WSARecv fails at once.
ReceivePosted(s, k) ==
  /\ connected[s]
  /\ PostOverlapped(s, k)
ReceiveRefused == UNCHANGED <<refCount, io>>

-----------------------------------------------------------------------------
(* Main thread: ClientSessionManager::AcceptClientSessions *)

AcceptClientSessions ==
  /\ mgrLock = None
  /\ mgrLock' = Main
  /\ UNCHANGED <<sessionVars, sendVars, freeList, issueCount, returnCount, castVars,
                 listVars, workVars, halt>>

\* The loop's condition.
MayIssue == issueCount - returnCount < Cardinality(Sessions)

\* One turn of the loop: pop_back, AddRef for issuing, PostAccept (AddRef of its context).
IssueSession ==
  /\ mgrLock = Main
  /\ MayIssue /\ issueCount < MaxIssue
  /\ LET s == freeList[Len(freeList)] IN
     /\ freeList' = SubSeq(freeList, 1, Len(freeList) - 1)
     /\ issueCount' = issueCount + 1
     /\ baseRef' = [baseRef EXCEPT ![s] = TRUE]
     /\ \/ /\ refCount' = [refCount EXCEPT ![s] = @ + 2]
           /\ PostToKernel(s, "accept")
           /\ UNCHANGED <<mgrLock, halt>>
        \/ /\ "acceptEx" \in Faults
           /\ refCount' = [refCount EXCEPT ![s] = @ + 1]
           /\ mgrLock' = None
           /\ halt' = "exit"
           /\ UNCHANGED io
  /\ UNCHANGED <<connected, sock, sendVars, returnCount, castVars, listVars, workVars>>

StopIssuing ==
  /\ mgrLock = Main
  /\ ~MayIssue \/ issueCount = MaxIssue
  /\ mgrLock' = None
  /\ UNCHANGED <<sessionVars, sendVars, freeList, issueCount, returnCount, castVars,
                 listVars, workVars, halt>>

-----------------------------------------------------------------------------
(* IOThread::DoIocpJob: GetQueuedCompletionStatus *)

\* The kernel completes an operation and the worker dequeues it.  The completion of a
\* DisconnectEx reaches the port only if the socket was associated with it.
DequeueCompletion(w, s, k) ==
  /\ pc[w] = "idle"
  /\ io[s][k] > 0
  /\ k = "disconnect" => sock[s] = "open"
  /\ io' = [io EXCEPT ![s][k] = @ - 1]
  /\ sock' = [sock EXCEPT ![s] = CASE k = "accept"     -> "accepted"
                                   [] k = "disconnect" -> "closed"
                                   [] OTHER            -> @]
  /\ ctx' = [ctx EXCEPT ![w] = s]
  /\ Goto(w, k)
  /\ UNCHANGED <<connected, refCount, baseRef, sendVars, poolVars, castVars, listVars,
                 client, halt>>

\* WAIT_TIMEOUT: nothing to do but the send job.
DequeueTimeout(w) ==
  /\ pc[w] = "idle"
  /\ Goto(w, "flush")
  /\ UNCHANGED <<sessionVars, sendVars, poolVars, castVars, listVars, ctx, client, halt>>

\* !completionOk, or a failed IO_RECV / IO_SEND: disconnect, then delete the context.
CloseConnection(w) ==
  /\ pc[w] = "closing"
  /\ DisconnectRequest(ctx[w])
  /\ Goto(w, "delete")
  /\ UNCHANGED <<sock, baseRef, sendVars, poolVars, castVars, listVars, ctx, client, halt>>

\* DeleteIoContext at the end of DoIocpJob; DoSendJob is next.
DeleteContext(w) ==
  /\ pc[w] = "delete"
  /\ ReleaseRef(w, ctx[w], "flush")
  /\ ctx' = [ctx EXCEPT ![w] = None]
  /\ UNCHANGED <<connected, sock, io, baseRef, sendVars, poolVars, castVars, listVars>>

-----------------------------------------------------------------------------
(* ClientSession::AcceptCompletion *)

\* Mutant of BroadcastLockFree: BroadcastManager does not lock.
BroadcastNeverLocked == TRUE

BroadcastLockFree == bcastLock = None

AcceptConnected(w) ==
  /\ pc[w] = "accept"
  /\ connected' = [connected EXCEPT ![ctx[w]] = TRUE]
  /\ CrashAssert(w, ~connected[ctx[w]], "AcceptCompletion", "setup")
  /\ UNCHANGED <<refCount, sock, io, baseRef, sendVars, poolVars, castVars, listVars, ctx,
                 client>>

\* Socket options, getpeername and CreateIoCompletionPort all succeed.
AcceptSetupDone(w) ==
  /\ pc[w] = "setup"
  /\ sock' = [sock EXCEPT ![ctx[w]] = "open"]
  /\ Goto(w, "acceptRecv")
  /\ UNCHANGED <<connected, refCount, io, baseRef, sendVars, poolVars, castVars, listVars,
                 ctx, client, halt>>

\* One of them fails (a failed AcceptEx completion ends here too): !resultOk.
AcceptSetupFailed(w) ==
  /\ pc[w] = "setup"
  /\ "setup" \in Faults
  /\ DisconnectRequest(ctx[w])
  /\ Goto(w, "delete")
  /\ UNCHANGED <<sock, baseRef, sendVars, poolVars, castVars, listVars, ctx, client, halt>>

\* The first PreRecv; its failure is only printed.
AcceptPreRecv(w) ==
  /\ pc[w] = "acceptRecv"
  /\ ReceivePosted(ctx[w], "recvZero") \/ ReceiveRefused
  /\ Goto(w, "register")
  /\ UNCHANGED <<connected, sock, baseRef, sendVars, poolVars, castVars, listVars, ctx,
                 client, halt>>

\* BroadcastManager::RegisterClient.
AcceptRegister(w) ==
  /\ pc[w] = "register"
  /\ BroadcastLockFree
  /\ registered' = registered \cup {ctx[w]}
  /\ CrashAssert(w, ctx[w] \notin registered, "RegisterClient", "delete")
  /\ UNCHANGED <<sessionVars, sendVars, poolVars, bcastLock, targets, chats, listVars, ctx,
                 client>>

-----------------------------------------------------------------------------
(* Receive completions *)

\* IO_RECV_ZERO: the real receive is posted, or the connection is closed.
RecvZeroCompleted(w) ==
  /\ pc[w] = "recvZero"
  /\ \/ ReceivePosted(ctx[w], "recv") /\ Goto(w, "delete")
     \/ ReceiveRefused /\ Goto(w, "closing")
  /\ UNCHANGED <<connected, sock, baseRef, sendVars, poolVars, castVars, listVars, ctx,
                 client, halt>>

\* IO_RECV: data arrived (RecvCompletion, OnRead), or the completion reports an error.
RecvCompleted(w) ==
  /\ pc[w] = "recv"
  /\ Goto(w, "onRead") \/ Goto(w, "closing")
  /\ UNCHANGED <<sessionVars, sendVars, poolVars, castVars, listVars, ctx, client, halt>>

\* ClientSession::OnRead meets a packet of an unknown type: DefaultHandler.
OnReadBadPacket(w) ==
  /\ pc[w] = "onRead"
  /\ connected[ctx[w]]
  /\ DisconnectRequest(ctx[w])
  /\ UNCHANGED <<sock, baseRef, sendVars, poolVars, castVars, listVars, workVars, halt>>

\* Mutant of OnReadChat: the next receive is armed before the packet is handled.
OnReadChatRearmed(w) ==
  /\ pc[w] = "onRead"
  /\ chats < MaxChats
  /\ chats' = chats + 1
  /\ ReceivePosted(ctx[w], "recvZero")
  /\ Goto(w, "chat")
  /\ UNCHANGED <<connected, sock, baseRef, sendVars, poolVars, registered, bcastLock, targets,
                 listVars, ctx, client, halt>>

\* OnRead meets a chat packet: BroadcastPacket is called.
OnReadChat(w) ==
  /\ pc[w] = "onRead"
  /\ chats < MaxChats
  /\ chats' = chats + 1
  /\ Goto(w, "chat")
  /\ UNCHANGED <<sessionVars, sendVars, poolVars, registered, bcastLock, targets, listVars,
                 ctx, client, halt>>

\* OnRead has no whole packet left; the next zero-byte receive is posted.
OnReadDone(w) ==
  /\ pc[w] = "onRead"
  /\ \/ ReceivePosted(ctx[w], "recvZero") /\ Goto(w, "delete")
     \/ ReceiveRefused /\ Goto(w, "closing")
  /\ UNCHANGED <<connected, sock, baseRef, sendVars, poolVars, castVars, listVars, ctx,
                 client, halt>>

-----------------------------------------------------------------------------
(* BroadcastManager::BroadcastPacket and ClientSession::SendRequest *)

\* Mutant of HasRoom: the free space of the send buffer is not looked at.
AlwaysRoom(t) == TRUE

\* mSendBuffer.GetFreeSpaceSize() against the size of one message.
HasRoom(t) == sendData[t] < SendCap

BroadcastLock(w) ==
  /\ pc[w] = "chat"
  /\ BroadcastLockFree
  /\ bcastLock' = w
  /\ targets' = [targets EXCEPT ![w] = registered]
  /\ Goto(w, "chatSend")
  /\ UNCHANGED <<sessionVars, sendVars, poolVars, registered, chats, listVars, ctx, client,
                 halt>>

\* Mutant of ListForFlush: a session is listed once for w's next flush.
ListOnce(w, t) ==
  sendList' = IF \E i \in DOMAIN sendList[w] : sendList[w][i] = t THEN sendList
              ELSE [sendList EXCEPT ![w] = Append(@, t)]

\* LSendRequestSessionList->push_back: an entry for every message.
ListForFlush(w, t) == sendList' = [sendList EXCEPT ![w] = Append(@, t)]

\* SendRequest(t) succeeds: the message is buffered and t is listed for w's next flush.
BroadcastSend(w, t) ==
  /\ pc[w] = "chatSend"
  /\ t \in targets[w]
  /\ connected[t]
  /\ sendLock[t] = None
  /\ HasRoom(t)
  /\ sendData' = [sendData EXCEPT ![t] = @ + 1]
  /\ ListForFlush(w, t)
  /\ targets' = [targets EXCEPT ![w] = @ \ {t}]
  /\ UNCHANGED <<sessionVars, sendLen, sendPending, sendLock, poolVars, registered,
                 bcastLock, chats, failList, workVars, halt>>

\* SendRequest(t) returns false: t is disconnected and the broadcast is abandoned.
BroadcastAbort(w, t) ==
  /\ pc[w] = "chatSend"
  /\ t \in targets[w]
  /\ connected[t] => sendLock[t] = None /\ ~HasRoom(t)
  /\ DisconnectRequest(t)
  /\ targets' = [targets EXCEPT ![w] = {}]
  /\ UNCHANGED <<sock, baseRef, sendVars, poolVars, registered, bcastLock, chats, listVars,
                 workVars, halt>>

BroadcastUnlock(w) ==
  /\ pc[w] = "chatSend"
  /\ targets[w] = {}
  /\ bcastLock' = None
  /\ Goto(w, "onRead")
  /\ UNCHANGED <<sessionVars, sendVars, poolVars, registered, targets, chats, listVars, ctx,
                 client, halt>>

-----------------------------------------------------------------------------
(* Send and disconnect completions *)

\* IO_SEND: n of the sendLen messages went out; a partial send closes the connection.
SendCompleted(w, n) ==
  LET s == ctx[w] IN
  /\ pc[w] = "send"
  /\ sendLock[s] = None
  /\ n \in 1..sendLen[s]
  /\ sendData' = [sendData EXCEPT ![s] = @ - n]
  /\ sendPending' = [sendPending EXCEPT ![s] = @ - 1]
  /\ Goto(w, IF n = sendLen[s] THEN "delete" ELSE "closing")
  /\ UNCHANGED <<sessionVars, sendLen, sendLock, poolVars, castVars, listVars, ctx, client,
                 halt>>

\* A send that completes with an error or with no byte: SendCompletion is not called.
SendFailed(w) ==
  /\ pc[w] = "send"
  /\ Goto(w, "closing")
  /\ UNCHANGED <<sessionVars, sendVars, poolVars, castVars, listVars, ctx, client, halt>>

\* Mutant of Erase: the client stays in the set.
EraseNothing(s) == UNCHANGED registered

\* mConnectedClientSet.erase.
Erase(s) == registered' = registered \ {s}

\* IO_DISCONNECT: OnDisconnect calls BroadcastManager::UnregisterClient.
DisconnectUnregister(w) ==
  /\ pc[w] = "disconnect"
  /\ BroadcastLockFree
  /\ Erase(ctx[w])
  /\ CrashAssert(w, ctx[w] \in registered, "UnregisterClient", "relBase")
  /\ UNCHANGED <<sessionVars, sendVars, poolVars, bcastLock, targets, chats, listVars, ctx,
                 client>>

\* Mutant of DisconnectReleaseBase: the reference taken for issuing is never given back.
DisconnectKeepsBase(w) ==
  /\ pc[w] = "relBase"
  /\ Goto(w, "delete")
  /\ UNCHANGED <<sessionVars, sendVars, poolVars, castVars, listVars, ctx, client, halt>>

\* DisconnectCompletion then releases the reference taken for issuing.
DisconnectReleaseBase(w) ==
  /\ pc[w] = "relBase"
  /\ ReleaseRef(w, ctx[w], "delete")
  /\ baseRef' = [baseRef EXCEPT ![ctx[w]] = FALSE]
  /\ UNCHANGED <<connected, sock, io, sendVars, poolVars, castVars, listVars, ctx>>

-----------------------------------------------------------------------------
(* IOThread::DoSendJob and Session::FlushSend on the front of the list *)

Front(w) == Head(sendList[w])
PopFront(w) == sendList' = [sendList EXCEPT ![w] = Tail(@)]

\* FlushSend returned false.
Retry(w, s) == failList' = [failList EXCEPT ![w] = Append(@, s)]

\* Mutant of MaySend: mSendPendingCount is not looked at.
MaySendAgain(s) == sendData[s] > 0

\* There is data and no send is pending.
MaySend(s) == sendData[s] > 0 /\ sendPending[s] <= 0

\* The first test of FlushSend, made without the lock.
FlushBegin(w) ==
  /\ pc[w] = "flush"
  /\ sendList[w] # <<>>
  /\ Goto(w, IF connected[Front(w)] THEN "flushLock" ELSE "flushDisc")
  /\ UNCHANGED <<sessionVars, sendVars, poolVars, castVars, listVars, ctx, client, halt>>

\* Under the lock: nothing to do, or the previous send is still pending.
FlushNothing(w) ==
  LET s == Front(w) IN
  /\ pc[w] = "flushLock"
  /\ sendLock[s] = None
  /\ ~MaySend(s)
  /\ PopFront(w)
  /\ IF sendPending[s] = 0 THEN UNCHANGED failList ELSE Retry(w, s)
  /\ Goto(w, "flush")
  /\ UNCHANGED <<sessionVars, sendVars, poolVars, castVars, ctx, client, halt>>

\* Under the lock: a send context is made for the data in the buffer.
FlushStart(w) ==
  LET s == Front(w) IN
  /\ pc[w] = "flushLock"
  /\ sendLock[s] = None
  /\ MaySend(s)
  /\ sendLock' = [sendLock EXCEPT ![s] = w]
  /\ refCount' = [refCount EXCEPT ![s] = @ + 1]
  /\ ctx' = [ctx EXCEPT ![w] = s]
  /\ Goto(w, "flushPost")
  /\ UNCHANGED <<connected, sock, io, baseRef, sendData, sendLen, sendPending, poolVars,
                 castVars, listVars, client, halt>>

\* WSASend is accepted for the first region of the buffer; what the second holds is left
\* for another entry.  FlushSend returns mSendPendingCount == 1.
FlushPosted(w) ==
  LET s == ctx[w] IN
  /\ pc[w] = "flushPost"
  /\ sock[s] = "open"
  /\ PostToKernel(s, "send")
  /\ ctx' = [ctx EXCEPT ![w] = None]
  /\ \E n \in 1..sendData[s] : sendLen' = [sendLen EXCEPT ![s] = n]
  /\ sendPending' = [sendPending EXCEPT ![s] = @ + 1]
  /\ sendLock' = [sendLock EXCEPT ![s] = None]
  /\ PopFront(w)
  /\ IF sendPending[s] = 0 THEN UNCHANGED failList ELSE Retry(w, s)
  /\ Goto(w, "flush")
  /\ UNCHANGED <<connected, refCount, sock, baseRef, sendData, poolVars, castVars, client,
                 halt>>

\* WSASend fails: the context is deleted while mSendBufferLock is held.
FlushFailed(w) ==
  /\ pc[w] = "flushPost"
  /\ ReleaseRef(w, ctx[w], "flushDisc")
  /\ ctx' = [ctx EXCEPT ![w] = None]
  /\ UNCHANGED <<connected, sock, io, baseRef, sendVars, poolVars, castVars, listVars>>

\* DisconnectRequest(DR_SENDFLUSH_ERROR); the lock is dropped if this call took it.
FlushDisconnect(w) ==
  LET s == Front(w) IN
  /\ pc[w] = "flushDisc"
  /\ DisconnectRequest(s)
  /\ sendLock' = [sendLock EXCEPT ![s] = IF @ = w THEN None ELSE @]
  /\ PopFront(w)
  /\ Goto(w, "flush")
  /\ UNCHANGED <<sock, baseRef, sendData, sendLen, sendPending, poolVars, castVars, failList,
                 ctx, client, halt>>

\* The list is empty: the failures become the next list, and DoIocpJob is next.
FlushEnd(w) ==
  /\ pc[w] = "flush"
  /\ sendList[w] = <<>>
  /\ sendList' = [sendList EXCEPT ![w] = failList[w]]
  /\ failList' = [failList EXCEPT ![w] = <<>>]
  /\ Goto(w, "idle")
  /\ UNCHANGED <<sessionVars, sendVars, poolVars, castVars, ctx, client, halt>>

-----------------------------------------------------------------------------
(* ClientSessionManager::ReturnClientSession, called from the last ReleaseRef *)

HoldsSendLock(w) == \E s \in Sessions : sendLock[s] = w

\* LockOrderChecker::Push: mLock (LO_FIRST_CLASS) may not be taken under mSendBufferLock
\* (LO_LUGGAGE_CLASS).
ReturnLockOrder(w) ==
  /\ pc[w] = "return"
  /\ HoldsSendLock(w)
  /\ CrashAssert(w, FALSE, "LockOrder", "reset")
  /\ UNCHANGED <<sessionVars, sendVars, poolVars, castVars, listVars, ctx, client>>

\* The lock, then the CRASH_ASSERT on mConnected and mRefCount.
ReturnLock(w) ==
  LET s == client[w] IN
  /\ pc[w] = "return"
  /\ ~HoldsSendLock(w)
  /\ mgrLock = None
  /\ mgrLock' = w
  /\ CrashAssert(w, ~connected[s] /\ refCount[s] = 0, "ReturnClientSession", "reset")
  /\ UNCHANGED <<sessionVars, sendVars, freeList, issueCount, returnCount, castVars, listVars,
                 ctx, client>>

\* SessionReset clears mConnected and mRefCount ...
ReturnReset(w) ==
  /\ pc[w] = "reset"
  /\ connected' = [connected EXCEPT ![client[w]] = FALSE]
  /\ refCount' = [refCount EXCEPT ![client[w]] = 0]
  /\ Goto(w, "pushBack")
  /\ UNCHANGED <<sock, io, baseRef, sendVars, poolVars, castVars, listVars, ctx, client, halt>>

\* Mutant of BufferReset: the send buffer keeps the previous client's data.
BufferKept(s) == sendData[s]

BufferReset(s) == 0

\* Mutants of IncReturnCount: the return is not counted, or counted down.
SameReturnCount == returnCount
DecReturnCount == returnCount - 1

IncReturnCount == returnCount + 1

\* ... the send buffer under its lock, and makes a new socket; the session is pushed back.
ReturnPushBack(w) ==
  LET s == client[w] IN
  /\ pc[w] = "pushBack"
  /\ sendLock[s] = None
  /\ sendData' = [sendData EXCEPT ![s] = BufferReset(s)]
  /\ sock' = [sock EXCEPT ![s] = "fresh"]
  /\ freeList' = Append(freeList, s)
  /\ returnCount' = IncReturnCount
  /\ mgrLock' = None
  /\ client' = [client EXCEPT ![w] = None]
  /\ Goto(w, IF ctx[w] = None THEN "flush" ELSE "delete")
  /\ UNCHANGED <<connected, refCount, io, baseRef, sendLen, sendPending, sendLock, issueCount,
                 castVars, listVars, ctx, halt>>

-----------------------------------------------------------------------------

MainThread == Running /\ (AcceptClientSessions \/ IssueSession \/ StopIssuing)

\* Everything worker w does on its own, once it has something to do.
Step(w) ==
  /\ Running
  /\ \/ DequeueTimeout(w) \/ CloseConnection(w) \/ DeleteContext(w)
     \/ AcceptConnected(w) \/ AcceptSetupDone(w) \/ AcceptSetupFailed(w) \/ AcceptPreRecv(w)
     \/ AcceptRegister(w) \/ RecvZeroCompleted(w) \/ RecvCompleted(w) \/ OnReadBadPacket(w)
     \/ OnReadChat(w) \/ OnReadDone(w) \/ BroadcastLock(w) \/ BroadcastUnlock(w)
     \/ \E t \in Sessions : BroadcastSend(w, t) \/ BroadcastAbort(w, t)
     \/ \E n \in 1..SendCap : SendCompleted(w, n)
     \/ SendFailed(w) \/ DisconnectUnregister(w) \/ DisconnectReleaseBase(w)
     \/ FlushBegin(w) \/ FlushNothing(w) \/ FlushStart(w) \/ FlushPosted(w) \/ FlushFailed(w)
     \/ FlushDisconnect(w) \/ FlushEnd(w)
     \/ ReturnLockOrder(w) \/ ReturnLock(w) \/ ReturnReset(w) \/ ReturnPushBack(w)

Dequeue(w) == Running /\ \E s \in Sessions, k \in Kinds : DequeueCompletion(w, s, k)

\* After a failed CRASH_ASSERT, or the end of main, nothing moves.
Halted == ~Running /\ UNCHANGED vars

Next == MainThread \/ (\E w \in Workers : Step(w) \/ Dequeue(w)) \/ Halted

Spec == Init /\ [][Next]_vars

-----------------------------------------------------------------------------
(* Correctness *)

InRange(q) == {q[i] : i \in DOMAIN q}

Returning(s) == \E w \in Workers : client[w] = s

\* The workers that hold a context of s, and everything that must be counted in mRefCount.
Holders(s) == {w \in Workers : ctx[w] = s}
Outstanding(s) ==
  io[s]["accept"] + io[s]["recvZero"] + io[s]["recv"] + io[s]["send"] + io[s]["disconnect"]
References(s) == (IF baseRef[s] THEN 1 ELSE 0) + Outstanding(s) + Cardinality(Holders(s))

\* Until a session is being reset its mRefCount is exactly the number of references to it:
\* the one taken for issuing, one for each operation in the kernel and one for each context
\* a worker still has to delete (Session::AddRef, ReleaseRef, OverlappedIOContext).
RefCountExact ==
  Running => \A s \in Sessions : ~Returning(s) => refCount[s] = References(s)

\* The free list holds no session twice, and a session is on it exactly when nothing refers
\* to it and no worker is returning it; the two counters differ by what is missing from the
\* list (AcceptClientSessions, ReturnClientSession).
FreeListExact ==
  Running =>
    /\ \A i, j \in DOMAIN freeList : freeList[i] = freeList[j] => i = j
    /\ \A s \in Sessions :
         s \in InRange(freeList) <=> References(s) = 0 /\ ~Returning(s)
    /\ issueCount - returnCount = Cardinality(Sessions) - Len(freeList)

\* A session on the free list is as good as new for its next client: not connected, not in
\* the broadcast set, an empty send buffer, a socket nobody used (SessionReset).
FreeSessionClean ==
  Running => \A s \in InRange(freeList) :
    /\ ~connected[s] /\ s \notin registered
    /\ sendData[s] = 0 /\ sock[s] = "fresh" /\ sendLock[s] = None

\* mRecvBuffer has no lock: at any time at most one receive of a session is in the kernel or
\* being handled by a worker that has not posted the next one (PreRecv, PostRecv, OnRead).
Receiving(s) ==
  {w \in Holders(s) : pc[w] \in {"recvZero", "recv", "onRead", "chat", "chatSend"}}
OneReceiveInFlight ==
  Running => \A s \in Sessions :
    io[s]["recvZero"] + io[s]["recv"] + Cardinality(Receiving(s)) <= 1

\* At most one send of a session is outstanding, mSendPendingCount accounts for it, and the
\* bytes handed to WSASend stay in the send buffer until it completes (FlushSend,
\* SendCompletion, SessionReset).
Sending(s) == {w \in Holders(s) : pc[w] = "send"}
SendInFlight(s) == io[s]["send"] + Cardinality(Sending(s))
OneSendInFlight ==
  Running => \A s \in Sessions :
    /\ SendInFlight(s) <= 1
    /\ SendInFlight(s) <= sendPending[s]
    /\ SendInFlight(s) = 1 => sendLen[s] \in 1..sendData[s]

\* Data buffered for a connected client and not yet handed to the kernel is known to some
\* worker's send list: no SendRequest is forgotten, unless a worker is closing the connection.
\* That includes what stays in the second region after FlushSend has returned true and its
\* entry is gone (SendRequest, DoSendJob, FlushSend).
Closing(s) == \E w \in Holders(s) : pc[w] = "closing"
Listed(s) == \E w \in Workers : s \in InRange(sendList[w]) \cup InRange(failList[w])
FlushScheduled ==
  Running => \A s \in Sessions :
    /\ connected[s] /\ ~Closing(s)
    /\ sendData[s] > (IF SendInFlight(s) > 0 THEN sendLen[s] ELSE 0)
    => Listed(s)

\* BroadcastPacket walks raw pointers: while it holds the lock every client in the set, and
\* every client it has still to serve, keeps the reference taken for issuing, so none of them
\* can be returned under it (BroadcastPacket, UnregisterClient, DisconnectCompletion).
BroadcastTargetsHeld ==
  Running =>
    /\ \A s \in registered : baseRef[s]
    /\ \A w \in Workers : targets[w] # {} =>
         bcastLock = w /\ targets[w] \subseteq registered

\* These CRASH_ASSERTs never fail: a second accept completion (AcceptCompletion), a second
\* registration (RegisterClient), whatever the interleaving of workers and reused sessions.
AssertsNeverFail == halt \notin {"AcceptCompletion", "RegisterClient"}

\* The CRASH_ASSERT of UnregisterClient: registration and removal come in pairs.
UnregisterFindsClient == halt # "UnregisterClient"

-----------------------------------------------------------------------------
(* Progress *)

\* What the kernel owes: the completion of a DisconnectEx, and of everything outstanding on
\* a socket that is disconnected.
Drain(s, k) ==
  /\ k = "disconnect" \/ sock[s] = "closed"
  /\ \E w \in Workers : Running /\ DequeueCompletion(w, s, k)

\* The main thread sleeps 100 ms between two holds of the manager's lock, so a worker that
\* spins on it gets it in the end: strong fairness for that one acquisition.
Fairness ==
  /\ WF_vars(MainThread)
  /\ \A w \in Workers : WF_vars(Step(w)) /\ SF_vars(Running /\ ReturnLock(w))
  /\ \A s \in Sessions, k \in Kinds : SF_vars(Drain(s, k))

FairSpec == Spec /\ Fairness

\* mConnected was set by AcceptCompletion and has been cleared again.
Disconnecting(s) ==
  /\ baseRef[s] /\ ~connected[s] /\ io[s]["accept"] = 0
  /\ \A w \in Holders(s) : pc[w] # "accept"

\* Once a connection is being closed its session gets back to the free list, or the program
\* stops (DisconnectRequest to ReturnClientSession).
DisconnectReturnsSession ==
  \A s \in Sessions : Disconnecting(s) ~> (s \in InRange(freeList) \/ ~Running)
=============================================================================
