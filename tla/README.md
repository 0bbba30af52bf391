# Verification of the EduServer IOCP game server

This directory holds TLA+ modules, TLC configurations and TLAPS proofs about the game server
of this repository. The repository contains seven successive snapshots of one Windows server
(`src/Homework1` .. `src/Homework7`), each of which adds a component. The models follow the
last one, `src/Homework7/EduServer_IOCP/EduServer_IOCP/`, called `S/` below.

`PROJECT.json` lists, for tools, what this file says in prose: the components, the runs, the
hazards of the code, the findings, the theorems, and for each definition that models code the
lines it models.

    tlc -config SessionLifecycle.cfg MCSessionLifecycle     # a run: a .cfg with its MC module
    tlapm MemoryPool_proofs.tla                             # a proof module

## 1. Inventory

The server accepts game clients with `AcceptEx`, receives packets through one I/O completion
port, lets players log in, move and chat, and keeps them in a database. Threads:

* the **main thread**: start-up, then `StartAccept`, which every 100 ms issues free sessions;
* **I/O workers** (`MAX_IO_THREAD` = 4): each loops over `DoIocpJob` (one completion, at most
  10 ms of waiting), `DoTimerJob` (its own timer queue), `DoSendJob` (its own list of sessions
  that have something to send);
* **database threads** (`MAX_DB_THREAD` = 4): take jobs from a second completion port and post
  the results back to the first.

| Component (files under `S/`) | State | Operations | Interacts with | What is hard | What makes it correct |
|---|---|---|---|---|---|
| Session and its life cycle (`Session`, `ClientSession`, `OverlappedIOContext`) | `mConnected`, `mRefCount`, socket, both buffers, `mSendPendingCount` | PostAccept, AcceptCompletion, PreRecv/PostRecv, SendRequest, FlushSend, the four completions, DisconnectRequest, AddRef/ReleaseRef, SessionReset | every worker, the manager, the broadcast set, the kernel | several workers handle one session at once; the session is pooled and reused | references counted exactly; one receive and one send in flight; a returned session is unused and clean; a closed connection gives its session back |
| Session pool and acceptor (`ClientSessionManager`, `IocpManager`) | `mFreeSessionList`, `mCurrentIssueCount`, `mCurrentReturnCount`, `mLock` | PrepareClientSessions, AcceptClientSessions, ReturnClientSession | main thread issues, any worker returns | the loop trusts two counters instead of the list it pops | list and counters agree; no session twice on the list |
| I/O worker (`IOThread`) | two thread-local send lists, timer | Run: DoIocpJob, DoTimerJob, DoSendJob | completion port, sessions, timer, DB results | raw session pointers in thread-local lists | buffered data is always on somebody's list |
| Chat broadcast (`BroadcastManager`) | `mConnectedClientSet`, `mLock` | RegisterClient, UnregisterClient, BroadcastPacket | AcceptCompletion, OnDisconnect, chat handler | walks raw pointers of clients that disconnect | whoever is in the set keeps a reference |
| Spin lock (`FastSpinlock`) | one 32-bit flag | EnterWrite/Read, LeaveWrite/Read | every shared component | two counters in one word, test-add-test with back-off | mutual exclusion, no overtaking of a waiting writer, somebody gets in |
| Lock order checker (`LockOrderChecker`) | a stack of locks per thread | Push, Pop | every lock | nested locks of manager, players, broadcast, buffers | no deadlock; the stack is the truth |
| Circular buffer (`CircularBuffer`) | memory, regions A and B | Write, Commit, Peek, Read, Remove, GetFreeSpaceSize, GetBuffer, BufferReset | the kernel reads and writes the memory directly | two regions that replace each other while a send is outstanding | it is a queue of bytes; the kernel's region stays as it is |
| Packet framing (`PacketHandler`, `PacketType.h`) | receive buffer | OnRead, handlers for login, move, chat | protobuf streams, broadcast, players | packets split over completions and regions | every packet handled once, whole, in order |
| Serial execution (`GrandCentralExecuter`, `SyncExecutable.h`) | task queue, count of remaining tasks | DoDispatch, DoSync, DoSyncAfter | players, timer | lock-free hand-over of the executing role; tasks counted before they are pushed | one task at a time, each once, those of a thread in order, none forgotten |
| Timer (`Timer`) | priority queue per thread | PushTimerJob, DoTimerJob | DoSyncAfter | jobs add jobs while the queue is walked | each job at its time, on its thread |
| Player (`Player`, `PlayerDBContext`) | id, position, name, validity, heartbeat | RequestLoad, ResponseLoad, RequestUpdatePosition, OnTick, PlayerReset | session, timer, database | answers come after the session was reused | an answer reaches the player that asked |
| Database threads (`DBContext`, `DBManager`, `DBThread`) | contexts in two ports | PostDatabaseRequest, Run, PostDatabaseResult, OnResult | session references | answers in any order, failures | each request answered once |
| ODBC access (`DBHelper`) | connection per thread | connect, bind, execute, fetch | database threads | driver errors | outside of what is modelled |
| Outgoing session (`ServerSession`) | Session's state | ConnectRequest, ConnectCompletion | completion port | never issued, so no reference "for issuing" | references balance |
| Pools (`MemoryPool`, `ObjectPool.h`, `XTL.h`) | interlocked lists, table of sizes | Allocate, Deallocate, new, delete | every allocation | table boundaries, lock-free lists | block at least as large as asked; no block given twice |
| Log (`Log`) | rings of events and calls | EventLog, call history | all threads | slots reserved and filled in two steps | no torn entry is read |
| Load generator (`src/Homework7/DummyClients`) | connecting sessions, workers | connect, move, chat, stop | its own port | stopping the workers | every worker stops |

Also present: thread-local variables and program start, the crash dump, generated protobuf
messages, vendored protobuf, the earlier snapshots, and buffs and player-wide events that only
`src/Homework4` has. `PROJECT.json` ("components") gives the status of each.

How the parts interact. A completion names an `OverlappedIOContext`, which holds a counted
reference to its session; the worker dispatches on its kind, calls into the session and then
deletes the context. Deleting the last reference calls `ReturnClientSession`, so any deletion
can take the manager's lock and reset the session. A chat packet makes the worker walk all
clients of the broadcast set under its lock and append to each client's send buffer under that
buffer's lock; the client is then on the send list of *this* worker, as a raw pointer. The lock
classes are: manager 1, player 2, broadcast 3, send buffer 4; the pools' lock is unchecked.

## 2. Plan

Modules in the order of their importance for the server; those marked * are written.

1. * `SessionLifecycle`: sessions, pool, acceptor, workers and broadcast in one module, because
   their hazards are all interleavings of these five. `SessionLifecycle_proofs`: its types and
   every safety invariant of it that the passing runs check.
2. * `FastSpinlock` implementing the abstract `RWLock`, proved; * `LockOrder` over `RWLock`, proved.
3. * `CircularBuffer` and `SendBuffer`, implementing the abstract `ByteQueue`, proved.
4. * `PacketStream`: the receive buffer (EXTENDS CircularBuffer) with PostRecv, RecvCompletion and
   OnRead, against the stream of packets the client sends, proved.
5. * `GrandCentralExecuter`, implementing the abstract `SerialExecuter`, proved.
6. * `PlayerLogin`: player (`DoSync`, `DoSyncAfter`), timers and database threads over reusable
   sessions, with its proofs.
7. * `MemoryPool`, implementing the abstract `Allocator`, with the size table against its definition,
   proved.

Abstract specifications: `RWLock`, `ByteQueue`, `SerialExecuter` and `Allocator`. What was
considered and left out is in section 7.

## 3. The modules

### SessionLifecycle

One action per code segment between two accesses to shared state; `pc[w]` names what worker `w`
executes next. `MainThread` is `AcceptClientSessions` (lock, the loop's turns, unlock), `Dequeue`
is `GetQueuedCompletionStatus` returning a completion, `Step` everything else of a worker.

| State | Code |
|---|---|
| `connected`, `refCount`, `sendPending`, `sendLock` | `mConnected`, `mRefCount`, `mSendPendingCount`, `mSendBufferLock` |
| `sendData`, `sendLen` | messages in `mSendBuffer`; messages covered by the outstanding `WSASend` |
| `io` | how many overlapped operations of each kind the kernel holds |
| `sock` | the socket: new, accepted, on the completion port, closed |
| `freeList`, `issueCount`, `returnCount`, `mgrLock` | `ClientSessionManager` |
| `registered`, `bcastLock`, `targets` | `BroadcastManager`, and where each BroadcastPacket is |
| `sendList`, `failList` | the two thread-local send lists |
| `ctx`, `client` | the context a worker must delete; the session it is returning |
| `baseRef` (auxiliary) | the reference taken for issuing has not been released |
| `halt` | which `CRASH_ASSERT` has stopped the program |

Messages are counted, not spelled (SendBuffer has their bytes). A packet is a chat or one no
handler knows: these are the two effects a handler can have on sessions, a broadcast or a
disconnect. A receive may fail to be posted for any of its reasons, a partial send is one that
takes fewer messages than were handed over. `FlushSend` hands over the first region only, with
messages that may be any first part of the buffer (`FlushPosted`); it says that it has sent and its
list entry is popped although the second region still waits. That data is sent because
`SendRequest` appends an entry for every message (`ListForFlush`), also for a session listed already.
The kernel may complete any outstanding operation at any time, with success or with an error; a
`DisconnectEx` completes only if its socket was associated with the port. `Faults` says which calls
may fail *at once*: `AcceptEx`, the set-up of an accepted socket, `DisconnectEx`. Failing `WSARecv`
and `WSASend` are always possible. A failed `CRASH_ASSERT` stops the program: `halt` names it and only `Halted` remains, so that a
property of the rest of the model is one of runs in which no assert has failed.

### FastSpinlock and RWLock

`FastSpinlock` has every read and every interlocked operation of `mLockFlag` as one step, with
the flag as the number it is and `WriteBits`, `ReadBits` as the masks. `RWLock` is what a user of
the lock relies on. The mapping hides the flag and the four places inside a waiting Enter.
`LF_WRITE_MASK` has eleven bits: with fewer than 2048 threads neither field overflows
(`ThreadsFit`; the server has nine).

### LockOrder

Threads take and leave any locks in any order; `Enter` is `LockOrderChecker::Push` followed by
waiting, `Leave` clears the lock and then pops, as `FastSpinlock` does. `Enter` has no guard about
locks the thread is already inside: a checked one is refused by the assert alone (`InOrder`). A lock
with `LO_DONT_CARE` skips the checker. The guard of `Enter` records what the code does with such
locks, `ObjectPool`'s: inside one no other lock is taken.

`Mode(l)` is what `RWLock` would call each thread's dealings with lock `l`; a thread inside that
enters once more goes from `"writes"` or `"reads"` back to wanting, a step `RWLock` does not have. `LocksAreRWLocks` says that there is none: every lock alone is used as
an `RWLock`, however the others are nested, and the checker is what makes it so (its mutant, a
checker that lets locks of one class be nested, violates it). `Acquire` takes from `RWLock` when a
lock may be had, and only a holder leaves; that part of the correspondence holds by construction.
So what `FastSpinlock` is shown to promise holds of each lock of the server.

### CircularBuffer, SendBuffer and ByteQueue

`CircularBuffer` holds the memory, both regions and every operation, with the memory's contents.
`GetFreeSpaceSize` returns a number *and* may allocate region B: the number is
`GetFreeSpaceSize`, the effect `OpenB`. `SendBuffer` uses it as a session does: `SendRequest`
appends, or is refused; `FlushSend` lends the first region to the kernel when no send is
pending; the completion removes what was transferred, a failed one gives nothing back and leaves
`mSendPendingCount`; `SessionReset` clears (`SendBufferReset`). `mSendBufferLock` makes each of these atomic, and
`SessionLifecycle` shows that at most one send is outstanding. A send covers one region only, so
`Remove` never takes bytes of A and B at once here; in the receive buffer it does, and the lemmas
about `Remove` hold for both.

### PacketStream

What `IO_RECV_ZERO`, `IO_RECV` and `OnRead` do with the receive buffer, from `PostRecv` to the next
`PreRecv`, by the one worker that `SessionLifecycle` shows to be there. A byte is its position in
the client's stream, so lost, repeated and overwritten bytes are told apart; `start[k]` is where
packet `k` begins. A packet's header is `HEADER_SIZE` bytes whose contents are `Size(k)` and
`type[k]`; whatever else lies where OnRead expects a header is read as any size and any type
(`ReadHeader`), up to one that can never be there, which also stands for a negative `mSize` (the
comparison with `size_t` makes it huge). A handler is known (`"handled"`), `DefaultHandler`, which
disconnects and lets the loop go on, or outside of the table, which disconnects and returns.

| State | Code |
|---|---|
| `mBuffer`, regions | `mRecvBuffer` |
| `connected` | `mConnected`; `Disconnect` by anybody at any time |
| `recv` | the `WSABUF` given to `WSARecv` |
| `input` | what `codedInputStream`, made of the first region, has not read |
| `start`, `type` | the stream of the session's present client |
| `got`, `handled`, `intact` (auxiliary) | bytes received; packets handled; each of them was there in full, and its handler could read it |

`SessionReset` begins the stream of the next client.

### GrandCentralExecuter and SerialExecuter

`DoDispatch` with each interlocked operation, `push` and `try_pop` as a step: `DoDispatch` counts the
task, `Push` leaves it to the thread that is at work, `PushFirst`, `TryPop` and `EndTask` are the
branch of the thread that came first. A task is `<<t, k>>`, the k-th that thread `t` posted. Tasks
may dispatch tasks: `DoDispatch` is then called by the thread that runs one (`current[t]`), and
`Push` returns to it. The server itself dispatches nothing at this commit: the one call of
`GCEDispatch` is commented out (`S/Player.cpp:186`), and the model is of any program that uses it.
`SerialExecuter` is what callers rely on: a task posted is started once, when
nothing else runs, and after those its thread posted before. The mapping hides the queue, the count
and who executes; `Running` is the task of whichever thread has one.

### PlayerLogin

What a login starts: the packet handlers, the timers, the database jobs and the return of the
session, over the sessions of `SessionLifecycle` reduced to what these touch (sends, chats and the
accept's set-up are left out, and so are their references).

| State | Code |
|---|---|
| `connected`, `refCount`, `free`, `issueCount`, `returnCount` | as in SessionLifecycle; the free list as the number of times a session is on it |
| `hold` | the issue and the kernel's contexts, each holding one reference |
| `playerId`, `pos` | `mPlayerId` (`None`: -1), `mPosX`, `mPosY`, `mPosZ` |
| `job`, `place` | each `DatabaseJobContext`, and where it is: in its pool, posted to the database threads, posted back, or with a worker |
| `dbPos` | the table of players |
| `timer`, `lTick`, `now` | `mTimerJobQueue`, `LTickCount` of each worker, the clock |
| `conn`, `asked`, `held`, `ran`, `stale` (auxiliary) | number of the connection; the players it asked for; positions the database has held; the timer job just run; a login was loaded after its connection was over |

A body that runs under the player's lock is one step. `DoTimerJob` is four: the clock is read, the
top is run, then popped, until no job is due; `Push` keeps the order of a binary heap as far as it
is determined (the new element is the top only if it is due earlier, `Popped` takes any of the
earliest of the rest). Database threads answer in any order, with success or failure; `DbUpdates`
stores before the answer is posted, and an update that is answered as failed may have been stored
(`DbFails`). A `MOVE` is compared with the player's id without the lock (`RecvMove`) and makes its job
with the id of a later step (`RequestUpdatePosition`). A client may log in as often as it likes, as
any player (`RecvLogin`; the handler asks nothing). The elements of a timer's queue are values:
`DoTimerJob` keeps a reference to the top (`S/Timer.cpp:32`) while it runs the task, and reads it
afterwards (`:39`), when a push of the task may have moved the vector's elements; what such a read
returns is not modelled. The server does not tie a delayed login to the
session's reference count: `RunLoad` records in `stale` that it came too late.

### MemoryPool and Allocator

`Allocate` and `Deallocate` with every interlocked operation a step of its own; the pools are named by
their block size. `Table` is what the constructor's three loops leave in
`mSmallSizeMemoryPoolTable`; `TightPool` is its purpose. A failed `CRASH_ASSERT` ends the thread in
the exception filter, the others run on until it has suspended them. `_aligned_malloc` always finds a
block (`Left`): the code does not look for `NULL`. `Allocator` is what callers rely on: nobody is given
a block that somebody has. The mapping hides lists, counts, headers and threads.

## 4. The runs

Passing runs:

| Run | Instance | Question |
|---|---|---|
| `session_pool` | 2 sessions, 2 workers, all faults, 3 issues, 1 chat, buffers of 1 message | are references exact, one receive in flight, can the pool hold or hand out a session that is in use or not clean, can a broadcast touch a returned one |
| `session_return` | 1 session, 2 workers, no faults at once, 2 issues, 2 chats, buffers of 2, fair | one send in flight, is buffered data never forgotten whatever part each send takes, does each closed connection give its session back |
| `spinlock` | 4 threads, fair | exclusion, exact flag, writers not overtaken, the refinement of `RWLock` with its progress |
| `lock_order` | 3 threads; the manager's lock, two player locks, a send buffer lock, a pool lock | no deadlock, an exact stack, no lock entered again from inside |
| `send_buffer` | 6 bytes, messages of 1 to 3, bytes from a set of two | the byte queue, intact regions, space that is usable |
| `packet_stream` | 8 bytes, headers of 2, three packets with payloads of 1 or 3, received in pieces of any length | memory given to the kernel is free, the stream has no gap, whole packets are handled in order and once |
| `serial_execution` | 3 threads, 2 tasks of each, fair | one task at a time, an exact count, none left behind, the refinement of `SerialExecuter` with its progress |
| `player_login` | 1 session issued twice, 2 workers, 2 players, 2 database jobs at once, 3 packets (logins and moves) on the first connection or 2 on both, a clock of 0 and 1 | exact references with database jobs, answers that reach the connection and a player it asked for, positions that were stored for such a player, timers that pop what they ran |
| `memory_pool` | 2 threads, 4 blocks, sizes of 32, 33, 64, 4096 and 4097 bytes with the header | blocks that fit and return to their own pool, an exact count, the refinement of `Allocator` |

Runs that show a disagreement of the code with what it says of itself, each one property:

| Run | Disagreement |
|---|---|
| `unregister_race` | `AcceptCompletion` posts the first receive before it registers the client; another worker can finish the whole disconnect in between, and `UnregisterClient`'s assert ("nothing to erase: the pair does not match") stops the server |
| `packet_complete` | OnRead compares the stored size, header included, with `mSize`, header excluded ("is the packet complete?"): a packet is handled and removed while up to four of its bytes are still to come, and the stream is read at the wrong place from then on |
| `login_after_leave` | the login handler posts `RequestLoad` for 10 ms later without a reference; when the client has left, the job it makes revives a session that another worker is returning, and `ReturnClientSession`'s assert (no connection, no reference) stops the server |

Seven more are in the models without a run of their own; the hazards of these lines carry a note:

* `FlushSend` deletes the context of a failed `WSASend` under `mSendBufferLock`; if it was the last
  reference, `ReturnClientSession` takes a lock of the first class under one of the fourth
  (`halt = "LockOrder"`, `ReturnLockOrder`).
* A send list holds sessions without a reference: `FlushSend` can add one to a session whose last
  reference is just gone, and the assert of `ReturnClientSession` fails
  (`halt = "ReturnClientSession"`, `FlushStart`).
* A session whose accept set-up fails is disconnected on a socket that is not on the port: no
  completion, and the session is lost to the pool (`AcceptSetupFailed`, fault `"setup"`).
* The payload is read from the first region, also when the packet goes on in region B
  (`Payload`, `intact`).
* A packet whose header lies in both regions is not handled when it has arrived, nor later, unless
  the buffer fills up and the connection is closed (`ReadRawOk`, `OnReadDone`).
* A failed send leaves `mSendPendingCount` at one, `SessionReset` does not clear it, and the next
  client of the session is never sent anything (`SendFailed`, `sendPending`).
* The comment at `S/Player.h:29` has `OnTick` called once a second after the login. A session returned
  and used again within a heartbeat has two chains of ticks: the first client's tick finds the
  second one's player valid and puts itself back (`RunTick`). A second login of one connection
  starts a second chain likewise (`ResponseLoad`).

Two more executions are against nothing the code says of itself, but the properties of `player_login`
are worded so that they hold of them, and the run reaches them:

* A client that logs in a second time, as another player, while a move of the first is under way:
  when the answer to the login comes before the one to the move, the second player gets the position
  that was stored for the first (`RecvLogin`, `ResponseUpdatePosition`, which does not look whose
  position it is). `ToldWhatIsStored` therefore says that the position has been held for a player
  this connection asked for, not for the one in memory.
* Two moves are answered in any order: an older position may be applied after a newer one, and stay
  although the database has the newer (`DbUpdates`, `TakeResult`).

Because such executions exist, the safety properties of `SessionLifecycle` are about executions
in which no assert has failed (`Running`), and `session_return` assumes no set-up failures. Those of
`PlayerLogin` are about executions in which no login has outlived its connection (`~stale`), the
most the code can promise; `player_login` stops where one has (`BeforeStale`).
`FramesInOrder` likewise speaks of streams in which no packet has been handled too early or across
regions yet (`intact`); the other properties of `packet_stream` hold whatever OnRead made of it.

Why the bounds are enough. One session is enough for properties of one session: a worker touches
a second session only in a broadcast and in the pool, and `session_pool` has two for these. Two
workers give every pairwise interleaving; the hazards listed need two actors, or a worker and
the main thread. Three issues mean that each session can be used, reused and used again with
what an earlier use left behind (stale list entries, counts). Buffers of one message make a full
buffer common and buffers of two a partial send possible. Four threads let two writers and two
readers be between any two steps of the lock at once. With five locks of four classes there are
two of one class and one that is not checked. Six bytes with messages of up to three are enough
for B to be opened, filled and turned into A with data in both, and for refusals in each case.
Eight bytes hold one long packet and most of the next: with three packets headers and payloads
end at every place of both regions, a packet straddles them and another follows it; two packets
with payloads of nothing to three bytes are enough for the two disagreements. Three threads with two
tasks each let a task be counted and not pushed, one be popped and one be dispatched by it, while
the executing role is given up and taken again. Two database jobs let a load and a move, or two
moves, overtake each other; three packets are a login and two moves, or a move between two logins;
two issues let a job of the first connection meet the second, for which two packets are enough
(`PacketsOrReuse` does without three packets and two connections at once); and a heartbeat
and a delay of one let a login and a tick be due at once and a push come before or behind the top. Four
blocks let two threads work on one pool while each finds its list empty or not, and a block be reused
for another size of its pool; the table itself is compared with `TightPool` at all 4096 indices.

`MaxIssue`, `MaxChats`, `MaxPackets` bound the number of accepts, of chats and of login and move
packets, `MaxTime` the clock,
`MaxTasks` the tasks of a thread, `Contexts` and `Blocks` what can be allocated at once; `SendCap` is the
buffer's size in messages; `MaxChunk` the largest message in bytes. `CHECK_DEADLOCK` stays on: a worker can
always time out, and `Halted` stutters in `SessionLifecycle`. Only in `serial_execution` it is off, where all stop when
every thread has posted its `MaxTasks`; that no task waits then is part of `SerialExecuter`'s
fairness.

Symmetry is used only in runs of safety properties: of sessions and workers in `session_pool`,
of threads and of the two player locks in `lock_order`, of workers, players and database jobs in
`player_login`, of threads and blocks in `memory_pool`.

Every property has a mutant in `PROJECT.json`: a definition of the model changed the way a
plausible bug would change the code, under which the run finds the property violated. The mutated
forms are beside the definitions, marked "Mutant of".

## 5. Fairness

* A thread that can run runs: weak fairness of each worker's `Step` and of `MainThread`. Threads
  are scheduled by the operating system and no step waits for one particular thread.
* The kernel completes a `DisconnectEx`, and everything outstanding on a disconnected socket, and
  some worker dequeues it: `Drain`. It is strong because a worker that takes other completions
  in between disables it for a moment. Nothing is assumed of receives on a live connection: a
  client may stay silent forever.
* `ReturnLock` is strong: the main thread holds `mLock` for microseconds and sleeps for 100 ms, so
  a worker that spins finds it free in the end.
* In `FastSpinlock`, weak fairness of each `Step`: every thread is scheduled and leaves the lock
  it holds. Nobody is obliged to enter it. The result is that *somebody* who may have the lock
  gets it; single threads can starve, as the code allows.
* In `GrandCentralExecuter`, weak fairness of each thread's `Step`: threads go on and tasks return.
  With it every task runs (`SerialExecuter`'s strong fairness of `Start`), since the queue is first
  in, first out.

## 6. The proofs

All proofs are for any values of the constants that satisfy the named assumptions. The type
invariants of the spin lock, the send buffer, the executer and the pools are only proved: the other
invariants of their runs already fix the values they bound.

**FastSpinlock_proofs** (assumption `ThreadsFit`). The invariant is `FlagCounts`: the flag is
`LF_WRITE_FLAG` times the threads that have added it plus the readers that have incremented it.
From it and `ThreadsFit` the two masks read exactly the two counts, since neither overflows.
`MutualExclusion` is not inductive: it also needs that a thread past `SoleWriter` is the only one
there, and that while a thread writes no reader is inside. `NotOvertaken` follows from the same
invariant, and `RefinesRWLock` maps each step to one of `RWLock` or to nothing.

**LockOrder_proofs** (assumptions `OrdersKnown`, `NoneIsNoLock`). `StackExact` together with
types is inductive while no assert has failed; what survives a failed one is that whoever waits
for a checked lock holds only checked locks of lower order. A set of threads that wait for each
other would contain one whose awaited lock has the highest order; the thread that holds it waits
for one of still higher order. An unchecked lock is held only by threads that wait for nothing.
The set of threads may be infinite: orders are bounded, so the maximum exists.
`LocksImplementRWLock` maps every step, for each lock, to one of `RWLock` or to nothing. The case that
matters is `Enter` of a lock the thread is inside: for a checked lock the exact stack has it already,
in rising order, so the top is at least of its order and the assert of `Push` stops the program; an
unchecked one is excluded by what is recorded of the code that holds it. `WriterAlone` does the rest.

**CircularBuffer_proofs** states what each operation does to the bytes stored
(`WriteEffect`, `RemoveEffect`) for any buffer that has the invariant `Shape`: types, regions
apart, and when B is open, more was free before A than behind it (`BWasLarger`). The last part
is what makes `RefusedOnlyWhenHalfFull` hold, and is not implied by the others. The module goes on
with the theorems about `SendBuffer` (assumptions `CapacityPositive`, `ZeroIsByte`). Its invariant
`SendInv` adds `LentFromA`: a send is outstanding only while the pending count is positive, and what it was lent
is the front of region A, byte for byte. `SendRequest` never moves A, `Remove` is only called
when the send is over; so the kernel's region is intact, a completion removes exactly what went
out, and every step is one of `ByteQueue`.

**PacketStream_proofs** (assumptions `CapacityPositive`, `HeaderInside`, `PacketsNatural`,
`StreamsAreCut`). Beside `Shape` the invariant has `RecvGiven`: the memory given to the kernel is
the free space the buffer would give again, since nothing touches the buffer until the completion;
`Received`: what is stored is the last part of what was received; and `Aligned`: while every
packet was whole, what is stored begins where the next packet does. A completion is then a `Write`
of the next bytes of the stream (`RecvAppends`), and taking a packet a drop of its bytes
(`PacketTaken`), also when `Remove` is asked for more than there is. `NextPacket` shows that a
header in its right place tells the size of the next packet and of no other, because every packet
of a stream has a header and so starts at a place of its own.

**GrandCentralExecuter_proofs** (assumption `MaxTasksNatural`). `Roles`: somebody executes just when
the count is positive; so whoever raises it from zero is alone, and whoever brings it back to zero
leaves nobody behind. `Order`: for each thread the queue holds exactly the tasks after those taken,
up to those pushed, in rising order, so the head is always the next of its thread. `CountExact`
relates the count to the set of tasks that remain, so `NoneForgotten` follows from `Roles`. The
refinement maps `TryPop` to `Start`, `EndTask` to `Finish` and `DoDispatch` to `Post`.

**SessionLifecycle_proofs** (assumptions of the module) proves in three layers.

1. `TypeInv` adds to the types what the code relies on without testing it: the free list never is
   popped empty, because the two counters account for what is missing from it (`PoolCount`, with
   the worker that is just returning a session), and each worker's context, client and list front
   name a session whenever the code at its `pc` uses one (`Control`).
2. `SessionInv` says for each session what its stage allows (`Stages`). On the free list it is as
   `SessionReset` left it and nothing refers to it (`FreeStage`). It has one accept per issue, and
   until that is handled it is neither connected nor registered (`AcceptStage`), so the asserts of
   the accept hold. Only an issued session is connected or registered (`ConnectedStage`); a
   `DisconnectEx` is posted once per issue and its completion is the only one that gives the issuing
   reference back (`DisconnectStage`). A session that is being returned has nothing in the kernel;
   the one reference that can still be made is that of a `FlushSend` which found the session in its
   list, and it cannot post its send (`ReturnStage`, with `SendLocks`: the send lock is only held
   inside `FlushSend`). `RefCountExact` is a part of it (`CountStage`) and is not inductive alone:
   that a count of zero means the free list needs the other stages. `BroadcastTargetsHeld` follows
   from `BroadcastLocks`: the targets are a part of the registered clients while the lock is held.
3. `FlightInv` adds the operations in flight. `ReceiveStages`: the right to post the next receive is in
   one place, the kernel's accept or receive or one worker at `ReceivePCs`; posting hands it over,
   closing lets it go. `SendStages`: a send in flight is counted in `mSendPendingCount` and its
   bytes are in the buffer; a worker about to post one finds no other, because it holds the send
   lock since it looked (`SendStage`). That a session is on a list as long as something is buffered
   for it beyond the send is not inductive: a pop would have to know that no data stays. `ListedStage`
   therefore counts: the session has at least as many entries in all lists as messages that are in
   no send (`Entries`, `Unsent`). `SendRequest` adds one to both, and a flush that pops an entry has
   handed at least one message to the kernel, found none, or puts the entry back. `Entries` is the
   size of a set of places in the lists (`Positions`), and the lemmas of "The send lists" say what
   an append, a pop and the swap of the two lists do to it.
   A session must be connected with an empty buffer for that, which the accept's stage gives.

A step is about one session, and `Elsewhere` and `SendsElsewhere` say that it leaves the other ones'
stages alone; one lemma per action then shows the stage it reaches.

**PlayerLogin_proofs** (assumptions of the module). Everything but types and timers is about
executions without a stale login. `RefInv` is inductive: each session's references are counted
by the issue, the kernel's contexts and the database jobs (`Balanced`); while one of them is left,
nobody returns the session and it is not free, so each job was made for the present connection; and a
session at zero has exactly one worker returning it. `AskInv` builds on it: every load that is queued in
a timer for this connection, or under way, asks for a player in `asked[s]`, and so does every move,
whose job has the id the session had when it was made; every position that an answer carries has been
held by the database for the player of its job (`Store` comes before the answer is posted), so the
position in memory was held for one of `asked[s]`, whatever overtakes what. `TimerTopIsRun`
is inductive with the types (`TypeInv`): what the running task pushes is due no earlier than the tick
the thread has seen, and the top was due by then, so `Push` leaves it where it is. `TypeInv` also says
which worker has which job (`Placed`) and that a load always names a player (`LoadsNamed`).

**MemoryPool_proofs** (assumptions `SizesAssumption`, `NoneAssumption`; any threads, any memory, any
sizes).
The table comes first: the three loops of the constructor make `PoolAt(k)` bytes the k-th size
(`PoolSizesAre`), the sizes rise (`PoolsRise`) and some pool is the first that is large enough
(`PoolExists`), so the table holds the smallest sufficient pool for each of its 4096 sizes
(`TableHoldsTightPools`). The invariant then says where a block may be. `HeldAt` and `Alone`: one in a
thread's hands is in nobody else's, with no owner, on no list, and its header is cleared except
before the exchange; `ListAt`: one on a list is there once, of the list's size, and cleared;
`BlockAt`: one the program has is marked with its size and has the room. None of these is inductive
alone: `AssertsNeverFail` at `check` needs `ListAt`, which the push preserves only because of `HeldAt`,
which the exchange takes over from `BlockAt`. In each, the room is what `Room` gives for the size in
the header, so the size kept there leads back to the pool the block came from (`BlocksComeHome`).
`CountAt` is `CountExact` with finite sets: although the memory need not be finite, only finitely
many blocks are ever out. `mAllocCount` never is negative because each thread that has yet to count
its block has a different one that is out (`UncountedOut`, an injection).
Each action moves one block for one thread (`Touches`); its lemma shows that thread, that block, the
lists and the counts, and `Together` adds everybody else. The refinement maps `Attach` to `Give` and
`Deallocate` to `TakeBack`. The guard `Left` (malloc finds a block) is a bound for TLC; the proofs
never use it.

**Only model-checked**: liveness (`DisconnectReturnsSession`, the progress parts of
`ImplementsRWLock` and `ImplementsSerialExecuter`), which TLAPS does not prove. Every other property
that a passing run checks is a theorem; for the two refinements with progress, their safety parts are
(`RefinesRWLock`, `RefinesSerialExecuter`).

## 7. Not modelled

Protobuf (vendored and generated), the stack walker, ODBC, logging text and program start have no
behaviour of the server's own that a property could be about. What `DBHelper` does for the database
threads is an input of `PlayerLogin`: a query returns a row, stores one or fails. The earlier
snapshots are superseded by Homework7, among them Homework4's buffs and player-wide events, which
no later snapshot has.

* The outgoing session (`ServerSession`) is made once by start-up for a connection test. It runs the
  operations of `Session` modelled here, without the reference for issuing.
* The object pools are a linked list under a class lock; `FastSpinlock` and `LockOrder` cover the lock.
* The rings of events and calls are read by the crash dump only.
* Of the player's operations those that nothing calls (comment, validity, creation, deletion) are
  left out; they are the position update with other data.
* The load generator is a test tool and appears as the environment of the server.

In `SessionLifecycle` a player's jobs hold no reference of a session, so they are left out there
without effect on its reference counts; a database context does, and is in `PlayerLogin`.
