----------------------------- MODULE PlayerLogin -----------------------------
(***************************************************************************)
(* A client's player over pooled sessions: the delayed login (DoSyncAfter  *)
(* and the timer of each I/O worker), the database jobs and their answers, *)
(* and the ticks.  A session is pinned by its reference count: by the      *)
(* issue, by its receive and disconnect contexts and by every database     *)
(* job, but not by a delayed task of its player.                           *)
(*                                                                         *)
(* What SessionLifecycle shows of sessions (sends, broadcast, set-up) is   *)
(* left out here.  A body run under the player's lock (DoSync, DoTimerJob) *)
(* is one step: FastSpinlock shows that the lock excludes.                 *)
(***************************************************************************)
EXTENDS Integers, Sequences, FiniteSets

CONSTANTS
  Sessions,    \* the pooled ClientSession objects, each with its Player
  Workers,     \* the I/O worker threads, each with its timer
  Players,     \* player ids stored in the database
  Positions,   \* what a player's mPosX, mPosY, mPosZ can be
  Contexts,    \* DatabaseJobContext objects, bounding how many are alive at once
  Origin,      \* the position PlayerReset writes
  None,        \* no session, no player
  HeartBeat,   \* HEART_BEAT
  LoginDelay,  \* the 10 ms of the login handler
  MaxIssue,    \* bound on mCurrentIssueCount
  MaxPackets,  \* bound on the number of login and move packets handled
  MaxTime      \* bound on the clock

\* Where a DatabaseJobContext that no worker has can be.
Places == {"pool", "request", "result"}

ASSUME SessionsAssumption == IsFiniteSet(Sessions) /\ None \notin Sessions
ASSUME WorkersAssumption  == IsFiniteSet(Workers) /\ Workers \cap Places = {}
ASSUME ContextsAssumption == IsFiniteSet(Contexts)
ASSUME PlayersAssumption  == None \notin Players
ASSUME OriginAssumption   == Origin \in Positions
ASSUME BoundsAssumption   == {HeartBeat, LoginDelay, MaxIssue, MaxPackets, MaxTime} \subseteq Nat

VARIABLES
  connected,   \* mConnected of each session
  refCount,    \* mRefCount of each session
  hold,        \* who else holds a reference: the issue, the receive, the disconnect context
  playerId,    \* mPlayerId of each session's player (None: -1)
  pos,         \* mPosX, mPosY, mPosZ of each session's player
  free,        \* how often each session is in mFreeSessionList
  issueCount,  \* mCurrentIssueCount
  returnCount, \* mCurrentReturnCount
  job,         \* what each DatabaseJobContext asks for and is answered
  place,       \* where it is: in its object pool, posted to the database threads, posted
               \* back, or with an I/O worker
  dbPos,       \* the database: the position of each player
  timer,       \* mTimerJobQueue of each worker, the top first
  lTick,       \* LTickCount of each worker
  now,         \* GetTickCount64
  pc,          \* what each worker does next
  ctx,         \* session whose receive context a worker handles
  client,      \* session a worker is returning to the free list
  packets,     \* login and move packets handled so far (bounded by MaxPackets)
  conn,        \* auxiliary: number of the session's connection
  asked,       \* auxiliary: the players this connection has asked to load
  held,        \* auxiliary: every position the database has held for a player
  ran,         \* auxiliary: the timer job a worker has just run
  stale,       \* auxiliary: a login has been loaded after its connection was over
  halt         \* "none", or why the program has stopped

sessionVars == <<connected, refCount, hold, conn, asked>>
playerVars  == <<playerId, pos>>
poolVars    == <<free, issueCount, returnCount>>
dbVars      == <<job, place, dbPos, held>>
timerVars   == <<timer, lTick, ran>>
workVars    == <<pc, ctx, client>>
vars == <<sessionVars, playerVars, poolVars, dbVars, timerVars, workVars, now, packets,
          stale, halt>>

Holders == {"issue", "recv", "disconnect"}
Halts   == {"none", "exit", "AcceptCompletion", "ReleaseRef", "ReturnClientSession"}
PCs     == {"iocp", "move", "recvDone", "answer", "delJob", "timer", "timerLoop",
            "timerPop", "return", "reset", "playerReset"}

\* A DatabaseJobContext: a LoadPlayerDataContext or an UpdatePlayerPositionContext, with
\* the connection it serves; ok and at are the outcome the database thread writes into it.
Job == [kind : {"none", "load", "move"}, s : Sessions \cup {None}, pid : Players \cup {None},
        at : Positions, conn : Nat, ok : BOOLEAN]
NoJob == [kind |-> "none", s |-> None, pid |-> None, at |-> Origin, conn |-> 0, ok |-> FALSE]

\* A TimerJobElement: RequestLoad(pid) or OnTick of the player of session s.
TimerJob == [task : {"load", "tick"}, s : Sessions, pid : Players \cup {None}, conn : Nat,
             due : Nat]
NoTimerJob == [task |-> "none"]

Running == halt = "none"

Goto(w, l) == pc' = [pc EXCEPT ![w] = l]

\* A CRASH_ASSERT(ok) of function why: w goes on at next, or the program stops.
CrashAssert(w, ok, why, next) ==
  IF ok THEN Goto(w, next) /\ UNCHANGED halt
        ELSE halt' = why /\ UNCHANGED pc

SessionTypes ==
  /\ connected \in [Sessions -> BOOLEAN]
  /\ refCount \in [Sessions -> Int]
  /\ hold \in [Sessions -> SUBSET Holders]
  /\ conn \in [Sessions -> Nat]
  /\ asked \in [Sessions -> SUBSET Players]
PlayerTypes ==
  /\ playerId \in [Sessions -> Players \cup {None}]
  /\ pos \in [Sessions -> Positions]
PoolTypes ==
  /\ free \in [Sessions -> Nat]
  /\ issueCount \in 0..MaxIssue /\ returnCount \in Nat
DbTypes ==
  /\ job \in [Contexts -> Job]
  /\ place \in [Contexts -> Places \cup Workers]
  /\ dbPos \in [Players -> Positions]
  /\ held \in [Players -> SUBSET Positions]
TimerTypes ==
  /\ timer \in [Workers -> Seq(TimerJob)]
  /\ lTick \in [Workers -> 0..MaxTime] /\ now \in 0..MaxTime
  /\ ran \in [Workers -> TimerJob \cup {NoTimerJob}]
WorkTypes ==
  /\ pc \in [Workers -> PCs]
  /\ ctx \in [Workers -> Sessions \cup {None}]
  /\ client \in [Workers -> Sessions \cup {None}]
  /\ packets \in 0..MaxPackets /\ stale \in BOOLEAN /\ halt \in Halts
TypeOK == SessionTypes /\ PlayerTypes /\ PoolTypes /\ DbTypes /\ TimerTypes /\ WorkTypes

Init ==
  /\ connected = [s \in Sessions |-> FALSE]
  /\ refCount = [s \in Sessions |-> 0]
  /\ hold = [s \in Sessions |-> {}]
  /\ playerId = [s \in Sessions |-> None]
  /\ pos = [s \in Sessions |-> Origin]
  /\ free = [s \in Sessions |-> 1]
  /\ issueCount = 0 /\ returnCount = 0
  /\ job = [c \in Contexts |-> NoJob]
  /\ place = [c \in Contexts |-> "pool"]
  /\ dbPos \in [Players -> Positions]
  /\ held = [p \in Players |-> {dbPos[p]}]
  /\ timer = [w \in Workers |-> <<>>]
  /\ lTick = [w \in Workers |-> 0] /\ now = 0
  /\ pc = [w \in Workers |-> "iocp"]
  /\ ctx = [w \in Workers |-> None]
  /\ client = [w \in Workers |-> None]
  /\ packets = 0
  /\ conn = [s \in Sessions |-> 0]
  /\ asked = [s \in Sessions |-> {}]
  /\ ran = [w \in Workers |-> NoTimerJob]
  /\ stale = FALSE
  /\ halt = "none"

-----------------------------------------------------------------------------
(* References and connections *)

\* Session::ReleaseRef by w, n times; w goes on at `next` unless the session is now free to
\* return: OnRelease then calls ReturnClientSession.
ReleaseRef(w, s, n, next) ==
  LET ret == refCount[s] - n IN
  /\ refCount' = [refCount EXCEPT ![s] = ret]
  /\ client' = IF ret = 0 THEN [client EXCEPT ![w] = s] ELSE client
  /\ CrashAssert(w, ret >= 0, "ReleaseRef", IF ret = 0 THEN "return" ELSE next)

\* The main thread issues a session (AddRef for issuing) and a client is accepted on it: the
\* first receive context is made.  AcceptEx fails on a socket that is still in use.
Issue(s) ==
  /\ free[s] > 0 /\ issueCount < MaxIssue
  /\ issueCount - returnCount < Cardinality(Sessions)
  /\ free' = [free EXCEPT ![s] = @ - 1]
  /\ issueCount' = issueCount + 1
  /\ IF hold[s] = {}
       THEN /\ hold' = [hold EXCEPT ![s] = {"issue", "recv"}]
            /\ refCount' = [refCount EXCEPT ![s] = @ + 2]
            /\ connected' = [connected EXCEPT ![s] = TRUE]
            /\ conn' = [conn EXCEPT ![s] = @ + 1]
            /\ asked' = [asked EXCEPT ![s] = {}]
            /\ halt' = IF connected[s] THEN "AcceptCompletion" ELSE halt
       ELSE halt' = "exit" /\ UNCHANGED sessionVars
  /\ UNCHANGED <<playerVars, returnCount, dbVars, timerVars, workVars, now, packets, stale>>

\* Session::DisconnectRequest from anywhere (a send that fails, a full send buffer):
\* whoever takes mConnected from 1 to 0 posts DisconnectEx.
DisconnectRequest(s) ==
  /\ connected[s]
  /\ connected' = [connected EXCEPT ![s] = FALSE]
  /\ hold' = [hold EXCEPT ![s] = @ \cup {"disconnect"}]
  /\ refCount' = [refCount EXCEPT ![s] = @ + 1]
  /\ UNCHANGED <<conn, asked, playerVars, poolVars, dbVars, timerVars, workVars, now, packets,
                 stale, halt>>

\* The completion of DisconnectEx: DisconnectCompletion gives the issue's reference back,
\* and the context is deleted.
DisconnectCompletion(w, s) ==
  /\ pc[w] = "iocp"
  /\ "disconnect" \in hold[s]
  /\ ReleaseRef(w, s, 2, "timer")
  /\ hold' = [hold EXCEPT ![s] = @ \ {"issue", "disconnect"}]
  /\ UNCHANGED <<connected, conn, asked, playerVars, poolVars, dbVars, timerVars, ctx,
                 now, packets, stale>>

-----------------------------------------------------------------------------
(* Timer: a priority queue of each worker, earliest due first *)

\* Mutant of DueTime: the wrong sign.
DueBefore(after, tick) == tick - after

\* PushTimerJob: due `after` ms from the tick the thread has seen last.
DueTime(after, tick) == after + tick

\* Mutant of Push: TimerJobComparator the other way round.
PushLatest(q, e) == IF q # <<>> /\ e.due > q[1].due THEN <<e>> \o q ELSE Append(q, e)

\* priority_queue::push: the new element becomes the top only if it is due earlier.
Push(q, e) == IF q # <<>> /\ e.due < q[1].due THEN <<e>> \o q ELSE Append(q, e)

\* The rest of a queue without its element i, and the indices that may become the top.
Without(q, i) == SubSeq(q, 1, i - 1) \o SubSeq(q, i + 1, Len(q))
Earliest(q) == {i \in DOMAIN q : \A k \in DOMAIN q : q[i].due <= q[k].due}

\* priority_queue::pop: any of the earliest of the rest is the next top.
Popped(q) ==
  LET rest == Tail(q) IN
  IF rest = <<>> THEN {<<>>} ELSE {<<rest[i]>> \o Without(rest, i) : i \in Earliest(rest)}

-----------------------------------------------------------------------------
(* IOThread::DoIocpJob: packets *)

\* The receive of s is in the kernel, not with a worker.
Receivable(s) == "recv" \in hold[s] /\ \A w \in Workers : ctx[w] # s

\* PKT_CS_LOGIN: RequestLoad is to run later.  Nothing keeps a client from logging in again,
\* as another player too.
RecvLogin(w, s, p) ==
  /\ pc[w] = "iocp"
  /\ Receivable(s) /\ packets < MaxPackets
  /\ packets' = packets + 1
  /\ asked' = [asked EXCEPT ![s] = @ \cup {p}]
  /\ timer' = [timer EXCEPT ![w] = Push(@, [task |-> "load", s |-> s, pid |-> p,
                                            conn |-> conn[s],
                                            due |-> DueTime(LoginDelay, lTick[w])])]
  /\ ctx' = [ctx EXCEPT ![w] = s]
  /\ Goto(w, "recvDone")
  /\ UNCHANGED <<connected, refCount, hold, conn, playerVars, poolVars, dbVars, lTick, ran,
                 client, now, stale, halt>>

\* PKT_CS_MOVE: the player id in the packet is the player's, read without its lock.
RecvMove(w, s, p) ==
  /\ pc[w] = "iocp"
  /\ Receivable(s) /\ packets < MaxPackets
  /\ p = playerId[s]
  /\ packets' = packets + 1
  /\ ctx' = [ctx EXCEPT ![w] = s]
  /\ Goto(w, "move")
  /\ UNCHANGED <<sessionVars, playerVars, poolVars, dbVars, timerVars, client, now,
                 stale, halt>>

\* The receive ends with an error or no data: DisconnectRequest, and the context is deleted.
RecvClosed(w, s) ==
  /\ pc[w] = "iocp"
  /\ Receivable(s)
  /\ connected' = [connected EXCEPT ![s] = FALSE]
  /\ IF connected[s]
       THEN /\ hold' = [hold EXCEPT ![s] = (@ \ {"recv"}) \cup {"disconnect"}]
            /\ Goto(w, "timer")
            /\ UNCHANGED <<refCount, client, halt>>
       ELSE /\ hold' = [hold EXCEPT ![s] = @ \ {"recv"}]
            /\ ReleaseRef(w, s, 1, "timer")
  /\ UNCHANGED <<conn, asked, playerVars, poolVars, dbVars, timerVars, ctx, now,
                 packets, stale>>

\* Mutant of NewJob: the constructor of DatabaseJobContext does not AddRef.
NewJobNoAddRef(c, kind, s, pid, at, n) ==
  /\ place[c] = "pool"
  /\ place' = [place EXCEPT ![c] = "request"]
  /\ job' = [job EXCEPT ![c] = [kind |-> kind, s |-> s, pid |-> pid, at |-> at, conn |-> n,
                               ok |-> FALSE]]
  /\ UNCHANGED refCount

\* A new DatabaseJobContext c (AddRef), made for connection n, given to PostDatabsaseRequest.
NewJob(c, kind, s, pid, at, n) ==
  /\ place[c] = "pool"
  /\ place' = [place EXCEPT ![c] = "request"]
  /\ job' = [job EXCEPT ![c] = [kind |-> kind, s |-> s, pid |-> pid, at |-> at, conn |-> n,
                               ok |-> FALSE]]
  /\ refCount' = [refCount EXCEPT ![s] = @ + 1]

\* The move handler's DoSync(RequestUpdatePosition) with the packet's position x: the job is
\* for the player's id of now.
RequestUpdatePosition(w, c, x) ==
  LET s == ctx[w] IN
  /\ pc[w] = "move"
  /\ NewJob(c, "move", s, playerId[s], x, conn[s])
  /\ Goto(w, "recvDone")
  /\ UNCHANGED <<connected, hold, conn, asked, playerVars, poolVars, dbPos, held,
                 timerVars, ctx, client, now, packets, stale, halt>>

\* PreRecv makes the next receive context if the session is still connected; the old one is
\* deleted.
RecvDone(w) ==
  LET s == ctx[w] IN
  /\ pc[w] = "recvDone"
  /\ ctx' = [ctx EXCEPT ![w] = None]
  /\ IF connected[s]
       THEN Goto(w, "timer") /\ UNCHANGED <<refCount, hold, client, halt>>
       ELSE /\ hold' = [hold EXCEPT ![s] = @ \ {"recv"}]
            /\ ReleaseRef(w, s, 1, "timer")
  /\ UNCHANGED <<connected, conn, asked, playerVars, poolVars, dbVars, timerVars, job,
                 now, packets, stale>>

-----------------------------------------------------------------------------
(* Database threads and their answers *)

\* Mutant of Store: the answer is posted although nothing was stored.
StoreNothing(p, x) == UNCHANGED <<dbPos, held>>

\* SQL_UpdatePlayerPosition.
Store(p, x) ==
  /\ dbPos' = [dbPos EXCEPT ![p] = x]
  /\ held' = [held EXCEPT ![p] = @ \cup {x}]

\* DBThread::DoDatabaseJob: SQLExecute, then PostDatabaseResult.  There are as many database
\* threads as I/O workers, so jobs may be executed in any order.
Answered(c, ok, x) ==
  /\ job' = [job EXCEPT ![c].ok = ok, ![c].at = x]
  /\ place' = [place EXCEPT ![c] = "result"]

DbLoads(c) ==
  /\ place[c] = "request" /\ job[c].kind = "load"
  /\ Answered(c, TRUE, dbPos[job[c].pid])
  /\ UNCHANGED <<sessionVars, playerVars, poolVars, dbPos, held, timerVars, workVars, now, packets,
                 stale, halt>>

DbUpdates(c) ==
  /\ place[c] = "request" /\ job[c].kind = "move" /\ job[c].pid # None
  /\ Answered(c, TRUE, job[c].at)
  /\ Store(job[c].pid, job[c].at)
  /\ UNCHANGED <<sessionVars, playerVars, poolVars, timerVars, workVars, now, packets, stale, halt>>

\* No row, or ODBC reports an error; an update may have been stored all the same.
DbFails(c) ==
  /\ place[c] = "request"
  /\ Answered(c, FALSE, job[c].at)
  /\ \/ UNCHANGED <<dbPos, held>>
     \/ job[c].kind = "move" /\ job[c].pid # None /\ Store(job[c].pid, job[c].at)
  /\ UNCHANGED <<sessionVars, playerVars, poolVars, timerVars, workVars, now, packets, stale,
                 halt>>

\* DoIocpJob dequeues CK_DB_RESULT.
TakeResult(w, c) ==
  /\ pc[w] = "iocp"
  /\ place[c] = "result"
  /\ place' = [place EXCEPT ![c] = w]
  /\ Goto(w, "answer")
  /\ UNCHANGED <<sessionVars, playerVars, poolVars, job, dbPos, held, timerVars, ctx, client, now,
                 packets, stale, halt>>

Answering(w, c) == pc[w] = "answer" /\ place[c] = w

\* OnSuccess of a load: ResponseLoad under the player's lock starts the ticks.
ResponseLoad(w, c) ==
  LET j == job[c] IN
  /\ Answering(w, c) /\ j.kind = "load" /\ j.ok
  /\ playerId' = [playerId EXCEPT ![j.s] = j.pid]
  /\ pos' = [pos EXCEPT ![j.s] = j.at]
  /\ timer' = [timer EXCEPT ![w] = Push(@, [task |-> "tick", s |-> j.s, pid |-> None,
                                            conn |-> j.conn,
                                            due |-> DueTime(HeartBeat, lTick[w])])]
  /\ Goto(w, "delJob")
  /\ UNCHANGED <<sessionVars, poolVars, dbVars, lTick, ran, ctx, client, now, packets, stale, halt>>

\* OnSuccess of an update: ResponseUpdatePosition under the player's lock; the client is told.
ResponseUpdatePosition(w, c) ==
  LET j == job[c] IN
  /\ Answering(w, c) /\ j.kind = "move" /\ j.ok
  /\ pos' = [pos EXCEPT ![j.s] = j.at]
  /\ Goto(w, "delJob")
  /\ UNCHANGED <<sessionVars, playerId, poolVars, dbVars, timerVars, ctx, client, now, packets,
                 stale, halt>>

\* OnFail only logs: the client gets no answer.
OnFail(w, c) ==
  /\ Answering(w, c) /\ ~job[c].ok
  /\ Goto(w, "delJob")
  /\ UNCHANGED <<sessionVars, playerVars, poolVars, dbVars, timerVars, ctx, client, now, packets,
                 stale, halt>>

\* delete dbContext: its destructor releases the session.
DeleteJob(w, c) ==
  /\ pc[w] = "delJob" /\ place[c] = w
  /\ ReleaseRef(w, job[c].s, 1, "timer")
  /\ job' = [job EXCEPT ![c] = NoJob]
  /\ place' = [place EXCEPT ![c] = "pool"]
  /\ UNCHANGED <<connected, hold, conn, asked, playerVars, poolVars, dbPos, held, timerVars, ctx,
                 now, packets, stale>>

\* WAIT_TIMEOUT: no completion is queued.
WaitTimeout(w) ==
  /\ pc[w] = "iocp"
  /\ \A c \in Contexts : place[c] # "result"
  /\ Goto(w, "timer")
  /\ UNCHANGED <<sessionVars, playerVars, poolVars, dbVars, timerVars, ctx, client,
                 now, packets, stale, halt>>

-----------------------------------------------------------------------------
(* Timer::DoTimerJob *)

TimerStart(w) ==
  /\ pc[w] = "timer"
  /\ lTick' = [lTick EXCEPT ![w] = now]
  /\ Goto(w, "timerLoop")
  /\ UNCHANGED <<sessionVars, playerVars, poolVars, dbVars, timer, ran, ctx, client,
                 now, packets, stale, halt>>

Due(w) == timer[w] # <<>> /\ timer[w][1].due <= lTick[w]

\* The task of the top is RequestLoad: a database job for whoever has the session now.
RunLoad(w, c) ==
  LET e == timer[w][1] IN
  /\ pc[w] = "timerLoop" /\ Due(w) /\ e.task = "load"
  /\ NewJob(c, "load", e.s, e.pid, Origin, e.conn)
  /\ stale' = (stale \/ refCount[e.s] = 0 \/ e.conn # conn[e.s])
  /\ ran' = [ran EXCEPT ![w] = e]
  /\ Goto(w, "timerPop")
  /\ UNCHANGED <<connected, hold, conn, asked, playerVars, poolVars, dbPos, held, timer,
                 lTick, ctx, client, now, packets, halt>>

\* The task of the top is OnTick: it puts itself back while the player is valid.
RunTick(w) ==
  LET e == timer[w][1] IN
  /\ pc[w] = "timerLoop" /\ Due(w) /\ e.task = "tick"
  /\ timer' = IF playerId[e.s] = None THEN timer
              ELSE [timer EXCEPT ![w] = Push(@, [e EXCEPT !.due = DueTime(HeartBeat, lTick[w])])]
  /\ ran' = [ran EXCEPT ![w] = e]
  /\ Goto(w, "timerPop")
  /\ UNCHANGED <<sessionVars, playerVars, poolVars, dbVars, lTick, ctx, client, now,
                 packets, stale, halt>>

TimerPop(w) ==
  /\ pc[w] = "timerPop"
  /\ \E q \in Popped(timer[w]) : timer' = [timer EXCEPT ![w] = q]
  /\ ran' = [ran EXCEPT ![w] = NoTimerJob]
  /\ Goto(w, "timerLoop")
  /\ UNCHANGED <<sessionVars, playerVars, poolVars, dbVars, lTick, ctx, client, now,
                 packets, stale, halt>>

\* DoSendJob is next, then DoIocpJob.
TimerStop(w) ==
  /\ pc[w] = "timerLoop" /\ ~Due(w)
  /\ Goto(w, "iocp")
  /\ UNCHANGED <<sessionVars, playerVars, poolVars, dbVars, timerVars, ctx, client,
                 now, packets, stale, halt>>

-----------------------------------------------------------------------------
(* ClientSessionManager::ReturnClientSession *)

ReturnAssert(w) ==
  LET s == client[w] IN
  /\ pc[w] = "return"
  /\ CrashAssert(w, ~connected[s] /\ refCount[s] = 0, "ReturnClientSession", "reset")
  /\ UNCHANGED <<sessionVars, playerVars, poolVars, dbVars, timerVars, ctx, client,
                 now, packets, stale>>

\* SessionReset begins with mConnected and mRefCount ...
ReturnReset(w) ==
  LET s == client[w] IN
  /\ pc[w] = "reset"
  /\ connected' = [connected EXCEPT ![s] = FALSE]
  /\ refCount' = [refCount EXCEPT ![s] = 0]
  /\ Goto(w, "playerReset")
  /\ UNCHANGED <<hold, conn, asked, playerVars, poolVars, dbVars, timerVars, ctx,
                 client, now, packets, stale, halt>>

\* Mutant of PlayerReset: the player of the last client stays.
PlayerKept(s) == UNCHANGED <<playerId, pos>>

PlayerReset(s) ==
  /\ playerId' = [playerId EXCEPT ![s] = None]
  /\ pos' = [pos EXCEPT ![s] = Origin]

\* ... and ends with PlayerReset under the player's lock; the session is pushed back.
ReturnPush(w) ==
  LET s == client[w] IN
  /\ pc[w] = "playerReset"
  /\ PlayerReset(s)
  /\ free' = [free EXCEPT ![s] = @ + 1]
  /\ returnCount' = returnCount + 1
  /\ client' = [client EXCEPT ![w] = None]
  /\ Goto(w, "timer")
  /\ UNCHANGED <<sessionVars, issueCount, dbVars, timerVars, ctx, now, packets, stale,
                 halt>>

-----------------------------------------------------------------------------

Tick ==
  /\ now < MaxTime
  /\ now' = now + 1
  /\ UNCHANGED <<sessionVars, playerVars, poolVars, dbVars, timerVars, workVars, packets, stale,
                 halt>>

\* What worker w does once it has something to do.
Step(w) ==
  /\ Running
  /\ \/ \E c \in Contexts :
          \/ TakeResult(w, c) \/ ResponseLoad(w, c) \/ ResponseUpdatePosition(w, c)
          \/ OnFail(w, c) \/ DeleteJob(w, c) \/ RunLoad(w, c)
          \/ \E x \in Positions : RequestUpdatePosition(w, c, x)
     \/ RecvDone(w) \/ WaitTimeout(w)
     \/ TimerStart(w) \/ RunTick(w) \/ TimerPop(w) \/ TimerStop(w)
     \/ ReturnAssert(w) \/ ReturnReset(w) \/ ReturnPush(w)

Receive(w) ==
  /\ Running
  /\ \E s \in Sessions :
       \/ \E p \in Players : RecvLogin(w, s, p)
       \/ \E p \in Players \cup {None} : RecvMove(w, s, p)
       \/ RecvClosed(w, s)

Disconnected(s) == Running /\ \E w \in Workers : DisconnectCompletion(w, s)

Database == Running /\ \E c \in Contexts : DbLoads(c) \/ DbUpdates(c) \/ DbFails(c)

Environment == Running /\ (Tick \/ \E s \in Sessions : Issue(s) \/ DisconnectRequest(s))

\* After a failed CRASH_ASSERT nothing moves.
Next ==
  \/ \E w \in Workers : Step(w) \/ Receive(w)
  \/ \E s \in Sessions : Disconnected(s)
  \/ Database \/ Environment

Spec == Init /\ [][Next]_vars

-----------------------------------------------------------------------------
(* Correctness *)

JobsOf(s) == {c \in Contexts : job[c].s = s}
Returning(s) == \E w \in Workers : client[w] = s

\* As long as no login has outlived its connection, mRefCount is exactly what still refers to
\* the session: the issue, the two kinds of contexts, and every database job that is queued,
\* executed or answered (DatabaseJobContext, OverlappedIOContext, AddRef, ReleaseRef).
RefCountExact ==
  Running /\ ~stale => \A s \in Sessions :
    refCount[s] = Cardinality(hold[s]) + Cardinality(JobsOf(s))

\* ... and a database job keeps its session from the free list and from the next client: its
\* answer can only reach the connection that asked (LoadPlayerDataContext::OnSuccess,
\* UpdatePlayerPositionContext::OnSuccess use mSessionObject as it is when they run).
AnswersReachAsker ==
  Running /\ ~stale => \A s \in Sessions : \A c \in JobsOf(s) :
    job[c].conn = conn[s] /\ free[s] = 0 /\ ~Returning(s)

\* ... and the player in memory is one that this connection asked for, none on a free session
\* (ResponseLoad, PlayerReset).
PlayerIsAsked ==
  Running /\ ~stale => \A s \in Sessions :
    /\ playerId[s] # None => playerId[s] \in asked[s] /\ free[s] = 0
    /\ free[s] <= 1

\* ... and the position in memory, which the client is told, is one the database has held for
\* a player that this connection asked for, also when queries fail and answers overtake each
\* other; after a second login it need not be the same player (ResponseUpdatePosition runs
\* after UpdatePlayerPositionContext::OnSQLExecute, for whoever is loaded then).
ToldWhatIsStored ==
  Running /\ ~stale => \A s \in Sessions :
    playerId[s] # None => \E p \in asked[s] : pos[s] \in held[p]

\* DoTimerJob pops the job it has run, whatever the task has pushed meanwhile: no job is lost,
\* none runs twice (top() before the task, pop() after it).
TimerTopIsRun == \A w \in Workers :
  pc[w] = "timerPop" => timer[w] # <<>> /\ timer[w][1] = ran[w]

\* The CRASH_ASSERTs of ReturnClientSession, ReleaseRef and AcceptCompletion.
AssertsNeverFail == halt \in {"none", "exit"}
=============================================================================
