------------------------- MODULE PlayerLogin_proofs -------------------------
(***************************************************************************)
(* Proofs about PlayerLogin, for any number of sessions, workers, players, *)
(* positions and database jobs, and any bounds.                            *)
(*                                                                         *)
(* The inductive invariant is built in layers.  TypeInv: types, and what a *)
(* worker's program counter says of its local variables.  RefInv: the      *)
(* references; it holds until a login outlives its connection (stale),     *)
(* for then RunLoad adds a reference to a session that may be on its way   *)
(* back to the pool.  AskInv: whose player a job, a timer job or a session *)
(* has.                                                                    *)
(***************************************************************************)
EXTENDS PlayerLogin, FiniteSetTheorems, SequenceTheorems, TLAPS

ReturnPCs == {"return", "reset", "playerReset"}

\* A worker's variables agree with the code it is about to run.
ControlAt(w) ==
  /\ pc[w] \in {"move", "recvDone"} <=> ctx[w] # None
  /\ pc[w] \in ReturnPCs <=> client[w] # None
  /\ \A c \in Contexts : place[c] = w => pc[w] \in {"answer", "delJob"}
Control == Running => \A w \in Workers : ControlAt(w)

\* A context outside its pool serves a session, and a worker has at most one.
PlacedAt(c) ==
  /\ place[c] = "pool" <=> job[c].s = None
  /\ job[c].s # None => job[c].kind \in {"load", "move"}
  /\ job[c].kind = "load" => job[c].pid # None
  /\ \A d \in Contexts : place[c] = place[d] /\ place[c] \in Workers => c = d
Placed == \A c \in Contexts : PlacedAt(c)

\* Every load in a worker's queue is for a player.
LoadsNamed == \A w \in Workers : \A e \in Range(timer[w]) : e.task = "load" => e.pid # None

TypeInv == TypeOK /\ Control /\ Placed /\ LoadsNamed /\ TimerTopIsRun

-----------------------------------------------------------------------------
(* The timer's queue *)

LEMMA OneElement ==
  ASSUME NEW E, NEW e \in E
  PROVE  <<e>> \in Seq(E) /\ Len(<<e>>) = 1 /\ <<e>>[1] = e
  OBVIOUS

\* push adds the element, and the top gives way only to one that is due earlier.
LEMMA PushEffect ==
  ASSUME NEW E, NEW q \in Seq(E), NEW e \in E
  PROVE  /\ Push(q, e) \in Seq(E)
         /\ q # <<>> /\ ~(e.due < q[1].due) => Push(q, e) # <<>> /\ Push(q, e)[1] = q[1]
<1>1. CASE q # <<>> /\ e.due < q[1].due
  <2>1. Push(q, e) = <<e>> \o q
    BY <1>1 DEF Push
  <2>2. <<e>> \o q \in Seq(E)
    BY OneElement, ConcatProperties
  <2>3. QED
    BY <1>1, <2>1, <2>2
<1>2. CASE ~(q # <<>> /\ e.due < q[1].due)
  <2>1. Push(q, e) = Append(q, e)
    BY <1>2 DEF Push
  <2>2. q # <<>> => 1 \in 1..Len(q)
    BY EmptySeq, LenProperties
  <2>3. QED
    BY <1>2, <2>1, <2>2, AppendProperties
<1>3. QED
  BY <1>1, <1>2

\* pop leaves elements of the queue.
LEMMA PopEffect ==
  ASSUME NEW E, NEW q \in Seq(E), q # <<>>, NEW r \in Popped(q)
  PROVE  r \in Seq(E)
<1> DEFINE rest == Tail(q)
<1>1. rest \in Seq(E)
  BY HeadTailProperties
<1>2. CASE rest = <<>>
  BY <1>2, EmptySeq DEF Popped
<1>3. CASE rest # <<>>
  <2>1. PICK i \in DOMAIN rest : r = <<rest[i]>> \o Without(rest, i)
    BY <1>3 DEF Popped, Earliest
  <2> HIDE DEF rest
  <2>2. i \in 1..Len(rest) /\ \A k \in 1..Len(rest) : rest[k] \in E
    BY <1>1, <2>1, LenProperties, ElementOfSeq
  <2>3. Len(rest) \in Nat
    BY <1>1, LenProperties
  <2>4. /\ SubSeq(rest, 1, i - 1) \in Seq(E)
        /\ SubSeq(rest, i + 1, Len(rest)) \in Seq(E)
    BY <2>2, <2>3, SubSeqProperties
  <2>5. Without(rest, i) \in Seq(E)
    BY <2>4, ConcatProperties DEF Without
  <2>6. QED
    BY <2>1, <2>2, <2>5, OneElement, ConcatProperties
<1>4. QED
  BY <1>2, <1>3

-----------------------------------------------------------------------------
(* Types and control *)

LEMMA TypesUnchanged ==
  /\ SessionTypes /\ UNCHANGED sessionVars => SessionTypes'
  /\ PlayerTypes /\ UNCHANGED playerVars => PlayerTypes'
  /\ PoolTypes /\ UNCHANGED poolVars => PoolTypes'
  /\ DbTypes /\ UNCHANGED dbVars => DbTypes'
  /\ TimerTypes /\ UNCHANGED <<timerVars, now>> => TimerTypes'
  /\ WorkTypes /\ UNCHANGED <<workVars, packets, stale, halt>> => WorkTypes'
  BY DEF SessionTypes, PlayerTypes, PoolTypes, DbTypes, TimerTypes, WorkTypes,
         sessionVars, playerVars, poolVars, dbVars, timerVars, workVars

LEMMA ReleaseEffect ==
  ASSUME SessionTypes, WorkTypes, NEW w \in Workers, NEW s \in Sessions, NEW n \in {1, 2},
         NEW next \in PCs, ReleaseRef(w, s, n, next)
  PROVE  /\ refCount' \in [Sessions -> Int]
         /\ pc' \in [Workers -> PCs]
         /\ client' \in [Workers -> Sessions \cup {None}]
         /\ halt' \in {halt, "ReleaseRef"}
         /\ \A t \in Sessions : refCount'[t] = IF t = s THEN refCount[s] - n ELSE refCount[t]
         /\ \A v \in Workers \ {w} : pc'[v] = pc[v] /\ client'[v] = client[v]
         /\ refCount[s] = n => pc'[w] = "return" /\ client'[w] = s /\ halt' = halt
         /\ refCount[s] > n => pc'[w] = next /\ client'[w] = client[w] /\ halt' = halt
         /\ refCount[s] < n => pc' = pc /\ client' = client /\ halt' = "ReleaseRef"
<1> DEFINE ret == refCount[s] - n
<1>1. ret \in Int /\ refCount' = [refCount EXCEPT ![s] = ret]
  BY DEF ReleaseRef, SessionTypes
<1>2. /\ refCount' \in [Sessions -> Int]
      /\ \A t \in Sessions : refCount'[t] = IF t = s THEN refCount[s] - n ELSE refCount[t]
  BY <1>1 DEF SessionTypes
<1>3. /\ ret = 0 <=> refCount[s] = n
      /\ ret > 0 <=> refCount[s] > n
      /\ ret < 0 <=> refCount[s] < n
  BY DEF SessionTypes
<1>4. CASE ret = 0
  <2>1. /\ pc' = [pc EXCEPT ![w] = "return"]
        /\ client' = [client EXCEPT ![w] = s] /\ halt' = halt
    BY <1>4 DEF ReleaseRef, CrashAssert, Goto
  <2>2. QED
    BY <1>1, <1>2, <1>3, <1>4, <2>1 DEF WorkTypes, PCs
<1>5. CASE ret > 0
  <2>1. pc' = [pc EXCEPT ![w] = next] /\ client' = client /\ halt' = halt
    BY <1>1, <1>5 DEF ReleaseRef, CrashAssert, Goto
  <2>2. QED
    BY <1>1, <1>2, <1>3, <1>5, <2>1 DEF WorkTypes, PCs
<1>6. CASE ret < 0
  <2>1. pc' = pc /\ client' = client /\ halt' = "ReleaseRef"
    BY <1>1, <1>6 DEF ReleaseRef, CrashAssert
  <2>2. QED
    BY <1>1, <1>2, <1>3, <1>6, <2>1 DEF WorkTypes
<1>7. QED
  BY <1>1, <1>4, <1>5, <1>6

LEMMA NewJobEffect ==
  ASSUME SessionTypes, DbTypes, NEW c \in Contexts, NEW s \in Sessions,
         NEW kind \in {"load", "move"}, NEW p \in Players \cup {None}, NEW at \in Positions,
         NEW n \in Nat, NewJob(c, kind, s, p, at, n)
  PROVE  /\ refCount' \in [Sessions -> Int]
         /\ \A t \in Sessions : refCount'[t] = IF t = s THEN refCount[s] + 1 ELSE refCount[t]
         /\ place' \in [Contexts -> Places \cup Workers] /\ job' \in [Contexts -> Job]
         /\ place[c] = "pool" /\ place'[c] = "request"
         /\ job'[c] = [kind |-> kind, s |-> s, pid |-> p, at |-> at, conn |-> n, ok |-> FALSE]
         /\ \A d \in Contexts \ {c} : place'[d] = place[d] /\ job'[d] = job[d]
<1>1. [kind |-> kind, s |-> s, pid |-> p, at |-> at, conn |-> n, ok |-> FALSE] \in Job
  BY DEF Job
<1>2. QED
  BY <1>1 DEF NewJob, SessionTypes, DbTypes, Places

LEMMA ControlStep ==
  ASSUME Control, Running, NEW w \in Workers,
         \A v \in Workers \ {w} : pc'[v] = pc[v] /\ ctx'[v] = ctx[v] /\ client'[v] = client[v],
         \A c \in Contexts : place'[c] \in Workers \ {w} => place'[c] = place[c],
         Running' => ControlAt(w)'
  PROVE  Control'
  BY DEF Control, ControlAt

LEMMA RestUnchanged ==
  /\ Placed /\ UNCHANGED <<job, place>> => Placed'
  /\ LoadsNamed /\ UNCHANGED timer => LoadsNamed'
  /\ TimerTopIsRun /\ UNCHANGED <<pc, timer, ran>> => TimerTopIsRun'
  /\ Control /\ UNCHANGED <<pc, ctx, client, place, halt>> => Control'
  BY DEF Placed, PlacedAt, LoadsNamed, TimerTopIsRun, Control, ControlAt, Running

LEMMA PlacedStep ==
  ASSUME Placed, NEW c \in Contexts,
         \A d \in Contexts \ {c} : /\ place'[d] = place[d] /\ job'[d] = job[d]
                                   /\ place'[c] \in Workers => place[d] # place'[c],
         place'[c] = "pool" <=> job'[c].s = None,
         job'[c].s # None => job'[c].kind \in {"load", "move"},
         job'[c].kind = "load" => job'[c].pid # None
  PROVE  Placed'
  BY DEF Placed, PlacedAt

LEMMA TopStep ==
  ASSUME TimerTopIsRun, NEW w \in Workers,
         \A v \in Workers \ {w} : pc'[v] = pc[v] /\ timer'[v] = timer[v] /\ ran'[v] = ran[v],
         pc'[w] = "timerPop" => timer'[w] # <<>> /\ timer'[w][1] = ran'[w]
  PROVE  TimerTopIsRun'
  BY DEF TimerTopIsRun

\* What the handlers dereference is there.
LEMMA InHand ==
  ASSUME TypeInv, Running
  PROVE  /\ \A w \in Workers : pc[w] \in {"move", "recvDone"} => ctx[w] \in Sessions
         /\ \A w \in Workers : pc[w] \in ReturnPCs => client[w] \in Sessions
         /\ \A w \in Workers : pc[w] \notin ReturnPCs => client[w] = None
         /\ \A w \in Workers : pc[w] \notin {"move", "recvDone"} => ctx[w] = None
  BY DEF TypeInv, TypeOK, WorkTypes, Control, ControlAt

LEMMA JobInHand ==
  ASSUME TypeInv, NEW c \in Contexts
  PROVE  /\ job[c].pid \in Players \cup {None} /\ job[c].conn \in Nat
         /\ job[c].at \in Positions /\ job[c].kind \in {"none", "load", "move"}
         /\ job[c].s \in Sessions \cup {None} /\ job[c].ok \in BOOLEAN
         /\ place[c] # "pool" => job[c].s \in Sessions /\ job[c].kind \in {"load", "move"}
         /\ place[c] \in Workers => place[c] # "pool"
         /\ job[c].kind = "load" => job[c].pid \in Players
<1>1. job[c] \in Job
  BY DEF TypeInv, TypeOK, DbTypes
<1>2. PlacedAt(c)
  BY DEF TypeInv, Placed
<1>3. QED
  BY <1>1, <1>2, WorkersAssumption DEF Job, PlacedAt, Places

LEMMA AnsweredEffect ==
  ASSUME DbTypes, NEW c \in Contexts, NEW ok \in BOOLEAN, NEW x \in Positions,
         Answered(c, ok, x)
  PROVE  /\ job' \in [Contexts -> Job] /\ place' \in [Contexts -> Places \cup Workers]
         /\ place'[c] = "result" /\ job'[c].ok = ok /\ job'[c].at = x
         /\ job'[c].s = job[c].s /\ job'[c].kind = job[c].kind
         /\ job'[c].pid = job[c].pid /\ job'[c].conn = job[c].conn
         /\ \A d \in Contexts \ {c} : place'[d] = place[d] /\ job'[d] = job[d]
<1> DEFINE j == [job[c] EXCEPT !.ok = ok, !.at = x]
<1>1. job[c] \in Job
  BY DEF DbTypes
<1>2. /\ j \in Job /\ j.ok = ok /\ j.at = x /\ j.s = job[c].s
      /\ j.kind = job[c].kind /\ j.pid = job[c].pid /\ j.conn = job[c].conn
  BY <1>1 DEF Job
<1>3. job' = [job EXCEPT ![c] = j]
  BY DEF Answered
<1> HIDE DEF j
<1>4. /\ job' \in [Contexts -> Job] /\ job'[c] = j
      /\ \A d \in Contexts \ {c} : job'[d] = job[d]
  BY <1>2, <1>3 DEF DbTypes
<1>5. /\ place' \in [Contexts -> Places \cup Workers] /\ place'[c] = "result"
      /\ \A d \in Contexts \ {c} : place'[d] = place[d]
  BY DEF Answered, DbTypes, Places
<1>6. QED
  BY <1>2, <1>4, <1>5

\* An answer changes neither what a worker does nor whose job it is.
LEMMA TypeAnswered ==
  ASSUME TypeInv, Running, NEW c \in Contexts, place[c] = "request",
         NEW ok \in BOOLEAN, NEW x \in Positions, Answered(c, ok, x),
         dbPos' \in [Players -> Positions], held' \in [Players -> SUBSET Positions],
         UNCHANGED <<sessionVars, playerVars, poolVars, timerVars, workVars, now, packets, stale,
                     halt>>
  PROVE  TypeInv'
<1>1. DbTypes
  BY DEF TypeInv, TypeOK
<1>2. DbTypes'
  BY <1>1, AnsweredEffect DEF DbTypes
<1>3. TypeOK'
  BY <1>2, TypesUnchanged DEF TypeInv, TypeOK
<1>4. Control'
  BY <1>1, AnsweredEffect, WorkersAssumption
     DEF TypeInv, Control, ControlAt, Running, Places, workVars
<1>5. Placed'
  <2>1. PlacedAt(c) /\ job[c].s # None /\ place'[c] = "result" /\ "result" \notin Workers
    BY <1>1, AnsweredEffect, WorkersAssumption DEF TypeInv, Placed, PlacedAt, Places
  <2>2. QED
    BY <1>1, <2>1, AnsweredEffect, PlacedStep DEF TypeInv, PlacedAt
<1>6. QED
  BY <1>3, <1>4, <1>5, RestUnchanged DEF TypeInv, timerVars, workVars

\* A job more does not touch the other jobs.
LEMMA TypeNewJob ==
  ASSUME TypeInv, NEW c \in Contexts, NEW s \in Sessions, NEW kind \in {"load", "move"},
         NEW p \in Players \cup {None}, NEW at \in Positions, kind = "load" => p # None,
         NEW n \in Nat, NewJob(c, kind, s, p, at, n),
         UNCHANGED <<connected, hold, conn, asked, dbPos, held>>
  PROVE  SessionTypes' /\ DbTypes' /\ Placed' /\ \A d \in Contexts : place'[d] \in Workers => place'[d] = place[d]
<1>1. SessionTypes /\ DbTypes
  BY DEF TypeInv, TypeOK
<1>2. /\ place'[c] = "request"
      /\ job'[c] = [kind |-> kind, s |-> s, pid |-> p, at |-> at, conn |-> n, ok |-> FALSE]
      /\ \A d \in Contexts \ {c} : place'[d] = place[d] /\ job'[d] = job[d]
  BY <1>1, NewJobEffect
<1>3. SessionTypes' /\ DbTypes'
  BY <1>1, NewJobEffect DEF SessionTypes, DbTypes
<1>4. job'[c].s = s /\ job'[c].kind = kind /\ job'[c].pid = p
  BY <1>2
<1>5. "request" \notin Workers /\ s # None
  BY WorkersAssumption, SessionsAssumption DEF Places
<1>6. Placed'
  BY <1>2, <1>4, <1>5, PlacedStep DEF TypeInv
<1>7. QED
  BY <1>2, <1>3, <1>5, <1>6

\* A timer job more at worker w.
LEMMA TypePush ==
  ASSUME TypeInv, NEW w \in Workers, NEW e \in TimerJob, e.task = "load" => e.pid # None,
         timer' = [timer EXCEPT ![w] = Push(@, e)],
         UNCHANGED <<lTick, now>>, ran' \in [Workers -> TimerJob \cup {NoTimerJob}]
  PROVE  /\ TimerTypes' /\ LoadsNamed'
         /\ \A v \in Workers \ {w} : timer'[v] = timer[v]
         /\ timer'[w] = Push(timer[w], e)
<1> DEFINE Named == {f \in TimerJob : f.task = "load" => f.pid # None}
<1>1. timer \in [Workers -> Seq(TimerJob)]
  BY DEF TypeInv, TypeOK, TimerTypes
<1>2. /\ \A v \in Workers \ {w} : timer'[v] = timer[v]
      /\ timer'[w] = Push(timer[w], e)
  BY <1>1
<1>3. Push(timer[w], e) \in Seq(TimerJob)
  BY <1>1, PushEffect
<1>4. TimerTypes'
  BY <1>1, <1>3 DEF TypeInv, TypeOK, TimerTypes
<1>5. LoadsNamed'
  <2>1. timer[w] \in Seq(Named)
    <3>1. timer[w] \in Seq(Range(timer[w])) /\ Range(timer[w]) \in SUBSET TimerJob
      BY <1>1, SeqOfRange, RangeOfSeq
    <3>2. Range(timer[w]) \subseteq Named
      BY <3>1 DEF TypeInv, LoadsNamed
    <3>3. QED
      BY <3>1, <3>2, SeqMonotonic
  <2>2. e \in Named
    OBVIOUS
  <2> HIDE DEF Named
  <2>3. timer'[w] \in Seq(Named)
    BY <1>2, <2>1, <2>2, PushEffect
  <2>4. Range(timer'[w]) \in SUBSET Named
    BY <2>3, RangeOfSeq
  <2>5. \A f \in Range(timer'[w]) : f.task = "load" => f.pid # None
    BY <2>4 DEF Named
  <2>6. QED
    BY <1>2, <2>5 DEF TypeInv, LoadsNamed
<1>6. QED
  BY <1>2, <1>4, <1>5


LEMMA GotoEffect ==
  ASSUME WorkTypes, NEW w \in Workers, NEW l \in PCs, Goto(w, l)
  PROVE  /\ pc' \in [Workers -> PCs] /\ pc'[w] = l
         /\ \A v \in Workers \ {w} : pc'[v] = pc[v]
  BY DEF WorkTypes, Goto

LEMMA TypeIssue ==
  ASSUME TypeInv, Running, NEW s \in Sessions, Issue(s)
  PROVE  TypeInv'
<1>1. SessionTypes'
  <2>1. CASE hold[s] = {}
    <3>1. {"issue", "recv"} \in SUBSET Holders
      BY DEF Holders
    <3>2. refCount[s] + 2 \in Int /\ conn[s] + 1 \in Nat
      BY DEF TypeInv, TypeOK, SessionTypes
    <3>3. QED
      BY <2>1, <3>1, <3>2 DEF TypeInv, TypeOK, SessionTypes, Issue
  <2>2. CASE hold[s] # {}
    BY <2>2, TypesUnchanged DEF TypeInv, TypeOK, Issue
  <2>3. QED
    BY <2>1, <2>2
<1>2. PoolTypes'
  <2>1. issueCount + 1 \in 0..MaxIssue
    BY BoundsAssumption DEF TypeInv, TypeOK, PoolTypes, Issue
  <2>2. free[s] - 1 \in Nat
    BY DEF TypeInv, TypeOK, PoolTypes, Issue
  <2>3. QED
    BY <2>1, <2>2 DEF TypeInv, TypeOK, PoolTypes, Issue
<1>3. WorkTypes'
  BY DEF TypeInv, TypeOK, Issue, WorkTypes, Halts, workVars
<1>4. TypeOK'
  BY <1>1, <1>2, <1>3, TypesUnchanged DEF TypeInv, TypeOK, Issue
<1>5. Control'
  BY DEF TypeInv, Control, ControlAt, Running, Issue, dbVars, workVars
<1>6. QED
  BY <1>4, <1>5, RestUnchanged DEF TypeInv, Issue, dbVars, timerVars, workVars

LEMMA TypeDisconnectRequest ==
  ASSUME TypeInv, Running, NEW s \in Sessions, DisconnectRequest(s)
  PROVE  TypeInv'
<1>1. SessionTypes'
  BY DEF TypeInv, TypeOK, DisconnectRequest, SessionTypes, Holders
<1>2. TypeOK'
  BY <1>1, TypesUnchanged DEF TypeInv, TypeOK, DisconnectRequest
<1>3. QED
  BY <1>2, RestUnchanged DEF TypeInv, DisconnectRequest, dbVars, timerVars, workVars

\* ReleaseRef by a worker that was not in ReturnClientSession, nor at a timer job.
LEMMA TypeRelease ==
  ASSUME TypeInv, Running, NEW w \in Workers, NEW s \in Sessions, NEW n \in {1, 2},
         ReleaseRef(w, s, n, "timer"), pc[w] \in {"iocp", "recvDone", "delJob"},
         ctx' = [ctx EXCEPT ![w] = None] \/ (ctx' = ctx /\ pc[w] # "recvDone"),
         \A c \in Contexts : place'[c] \in Workers \ {w} => place'[c] = place[c],
         \A c \in Contexts : place'[c] # w,
         UNCHANGED <<packets, stale>>
  PROVE  /\ refCount' \in [Sessions -> Int] /\ WorkTypes' /\ Control'
         /\ UNCHANGED timerVars => TimerTopIsRun'
<1>1. SessionTypes /\ WorkTypes /\ "timer" \in PCs /\ s # None
  BY SessionsAssumption DEF TypeInv, TypeOK, PCs
<1>2. /\ refCount' \in [Sessions -> Int]
      /\ pc' \in [Workers -> PCs] /\ client' \in [Workers -> Sessions \cup {None}]
      /\ halt' \in {halt, "ReleaseRef"}
      /\ \A v \in Workers \ {w} : pc'[v] = pc[v] /\ client'[v] = client[v]
      /\ \/ pc'[w] = "return" /\ client'[w] = s
         \/ pc'[w] = "timer" /\ client'[w] = client[w]
         \/ pc' = pc /\ client' = client /\ halt' = "ReleaseRef"
  <2>1. refCount[s] \in Int
    BY <1>1 DEF SessionTypes
  <2>2. refCount[s] = n \/ refCount[s] > n \/ refCount[s] < n
    BY <2>1
  <2>3. QED
    BY <1>1, <2>2, ReleaseEffect
<1>3. /\ ctx' \in [Workers -> Sessions \cup {None}]
      /\ \A v \in Workers \ {w} : ctx'[v] = ctx[v]
      /\ ctx'[w] = None
  BY <1>1, InHand DEF WorkTypes
<1>4. WorkTypes'
  BY <1>1, <1>2, <1>3 DEF WorkTypes, Halts
<1>5. client[w] = None
  BY InHand DEF ReturnPCs
<1>6. Running' => ControlAt(w)'
  <2>1. SUFFICES ASSUME Running'
                 PROVE  ControlAt(w)'
    OBVIOUS
  <2>2. \/ pc'[w] = "return" /\ client'[w] = s
        \/ pc'[w] = "timer" /\ client'[w] = None
    BY <1>2, <1>5, <2>1 DEF Running
  <2>3. QED
    BY <1>1, <1>3, <2>2 DEF ControlAt, ReturnPCs
<1>7. Control'
  BY <1>2, <1>3, <1>6, ControlStep DEF TypeInv
<1>8. UNCHANGED timerVars => TimerTopIsRun'
  BY <1>2, TopStep DEF TypeInv, timerVars
<1>9. QED
  BY <1>2, <1>4, <1>7, <1>8

LEMMA PlaceOfIdle ==
  ASSUME TypeInv, Running, NEW w \in Workers, pc[w] \notin {"answer", "delJob"}
  PROVE  \A c \in Contexts : place[c] # w
  BY DEF TypeInv, Control, ControlAt

LEMMA TypeDisconnectCompletion ==
  ASSUME TypeInv, Running, NEW w \in Workers, NEW s \in Sessions, DisconnectCompletion(w, s)
  PROVE  TypeInv'
<1>1. /\ refCount' \in [Sessions -> Int] /\ WorkTypes' /\ Control'
      /\ UNCHANGED timerVars => TimerTopIsRun'
  BY TypeRelease, PlaceOfIdle, InHand DEF DisconnectCompletion, dbVars
<1>2. SessionTypes'
  BY <1>1 DEF TypeInv, TypeOK, DisconnectCompletion, SessionTypes
<1>3. TypeOK'
  BY <1>1, <1>2, TypesUnchanged DEF TypeInv, TypeOK, DisconnectCompletion
<1>4. QED
  BY <1>1, <1>3, RestUnchanged DEF TypeInv, DisconnectCompletion, dbVars, timerVars

LEMMA TypeRecvLogin ==
  ASSUME TypeInv, Running, NEW w \in Workers, NEW s \in Sessions, NEW p \in Players,
         RecvLogin(w, s, p)
  PROVE  TypeInv'
<1> DEFINE e == [task |-> "load", s |-> s, pid |-> p, conn |-> conn[s],
                 due |-> DueTime(LoginDelay, lTick[w])]
<1>1. conn[s] \in Nat /\ lTick[w] \in Nat /\ p # None /\ s # None
  BY PlayersAssumption, SessionsAssumption, BoundsAssumption
     DEF TypeInv, TypeOK, SessionTypes, TimerTypes
<1>2. DueTime(LoginDelay, lTick[w]) \in Nat
  BY <1>1, BoundsAssumption DEF DueTime
<1>3. e \in TimerJob /\ e.pid # None
  BY <1>1, <1>2 DEF TimerJob
<1>4. timer' = [timer EXCEPT ![w] = Push(@, e)] /\ UNCHANGED <<lTick, now, ran>>
  BY DEF RecvLogin
<1>5. ran' \in [Workers -> TimerJob \cup {NoTimerJob}]
  BY <1>4 DEF TypeInv, TypeOK, TimerTypes
<1> HIDE DEF e
<1>6. TimerTypes' /\ LoadsNamed' /\ \A v \in Workers \ {w} : timer'[v] = timer[v]
  BY <1>3, <1>4, <1>5, TypePush
<1>7. WorkTypes' /\ ctx'[w] = s /\ pc'[w] = "recvDone"
  <2>1. packets + 1 \in 0..MaxPackets
    BY BoundsAssumption DEF TypeInv, TypeOK, WorkTypes, RecvLogin
  <2>2. QED
    BY <2>1 DEF TypeInv, TypeOK, WorkTypes, PCs, RecvLogin, Goto
<1>8. SessionTypes'
  BY DEF TypeInv, TypeOK, SessionTypes, RecvLogin
<1>9. TypeOK'
  BY <1>6, <1>7, <1>8, TypesUnchanged DEF TypeInv, TypeOK, RecvLogin
<1>10. Control'
  <2>1. \A v \in Workers \ {w} : pc'[v] = pc[v] /\ ctx'[v] = ctx[v] /\ client'[v] = client[v]
    BY DEF TypeInv, TypeOK, WorkTypes, RecvLogin, Goto
  <2>2. ControlAt(w)'
    BY <1>1, <1>7, InHand, PlaceOfIdle DEF ControlAt, ReturnPCs, RecvLogin, dbVars
  <2>3. QED
    BY <2>1, <2>2, ControlStep DEF TypeInv, RecvLogin, dbVars
<1>11. TimerTopIsRun'
  <2>1. \A v \in Workers \ {w} : pc'[v] = pc[v] /\ timer'[v] = timer[v] /\ ran'[v] = ran[v]
    BY <1>4, <1>6 DEF TypeInv, TypeOK, WorkTypes, RecvLogin, Goto
  <2>2. QED
    BY <1>7, <2>1, TopStep DEF TypeInv
<1>12. QED
  BY <1>6, <1>9, <1>10, <1>11, RestUnchanged DEF TypeInv, RecvLogin, dbVars

LEMMA TypeRecvMove ==
  ASSUME TypeInv, Running, NEW w \in Workers, NEW s \in Sessions, NEW p \in Players \cup {None},
         RecvMove(w, s, p)
  PROVE  TypeInv'
<1>1. packets + 1 \in 0..MaxPackets /\ s # None
  BY SessionsAssumption, BoundsAssumption DEF TypeInv, TypeOK, WorkTypes, RecvMove
<1>2. WorkTypes' /\ ctx'[w] = s /\ pc'[w] = "move"
  BY <1>1 DEF TypeInv, TypeOK, WorkTypes, PCs, RecvMove, Goto
<1>3. TypeOK'
  BY <1>2, TypesUnchanged DEF TypeInv, TypeOK, RecvMove, timerVars
<1>4. \A v \in Workers \ {w} : pc'[v] = pc[v] /\ ctx'[v] = ctx[v] /\ client'[v] = client[v]
  BY DEF TypeInv, TypeOK, WorkTypes, RecvMove, Goto
<1>5. Control'
  <2>1. ControlAt(w)'
    BY <1>1, <1>2, InHand, PlaceOfIdle DEF ControlAt, ReturnPCs, RecvMove, dbVars
  <2>2. QED
    BY <1>4, <2>1, ControlStep DEF TypeInv, RecvMove, dbVars
<1>6. TimerTopIsRun'
  BY <1>2, <1>4, TopStep DEF TypeInv, RecvMove, timerVars
<1>7. QED
  BY <1>3, <1>5, <1>6, RestUnchanged DEF TypeInv, RecvMove, dbVars, timerVars

LEMMA TypeRecvClosed ==
  ASSUME TypeInv, Running, NEW w \in Workers, NEW s \in Sessions, RecvClosed(w, s)
  PROVE  TypeInv'
<1>1. CASE connected[s]
  <2>1. SessionTypes'
    BY <1>1 DEF TypeInv, TypeOK, SessionTypes, RecvClosed, Holders
  <2>2. /\ WorkTypes' /\ pc'[w] = "timer" /\ UNCHANGED <<ctx, client>>
        /\ \A v \in Workers \ {w} : pc'[v] = pc[v]
    BY <1>1 DEF TypeInv, TypeOK, WorkTypes, PCs, RecvClosed, Goto
  <2>3. TypeOK'
    BY <2>1, <2>2, TypesUnchanged DEF TypeInv, TypeOK, RecvClosed
  <2>4. Control'
    <3>1. ControlAt(w)'
      BY <2>2, InHand, PlaceOfIdle DEF ControlAt, ReturnPCs, RecvClosed, dbVars
    <3>2. QED
      BY <2>2, <3>1, ControlStep DEF TypeInv, RecvClosed, dbVars
  <2>5. TimerTopIsRun'
    BY <2>2, TopStep DEF TypeInv, RecvClosed, timerVars
  <2>6. QED
    BY <2>3, <2>4, <2>5, RestUnchanged DEF TypeInv, RecvClosed, dbVars, timerVars
<1>2. CASE ~connected[s]
  <2>1. /\ refCount' \in [Sessions -> Int] /\ WorkTypes' /\ Control'
        /\ UNCHANGED timerVars => TimerTopIsRun'
    BY <1>2, TypeRelease, PlaceOfIdle, InHand DEF RecvClosed, dbVars
  <2>2. SessionTypes'
    BY <1>2, <2>1 DEF TypeInv, TypeOK, RecvClosed, SessionTypes
  <2>3. TypeOK'
    BY <2>1, <2>2, TypesUnchanged DEF TypeInv, TypeOK, RecvClosed
  <2>4. QED
    BY <2>1, <2>3, RestUnchanged DEF TypeInv, RecvClosed, dbVars, timerVars
<1>3. QED
  BY <1>1, <1>2

LEMMA TypeRecvDone ==
  ASSUME TypeInv, Running, NEW w \in Workers, RecvDone(w)
  PROVE  TypeInv'
<1> DEFINE s == ctx[w]
<1>0. s \in Sessions
  BY InHand DEF RecvDone
<1>1. CASE connected[s]
  <2>1. /\ WorkTypes' /\ pc'[w] = "timer" /\ ctx'[w] = None /\ client' = client
        /\ \A v \in Workers \ {w} : pc'[v] = pc[v] /\ ctx'[v] = ctx[v]
    BY <1>1 DEF TypeInv, TypeOK, WorkTypes, PCs, RecvDone, Goto
  <2>2. UNCHANGED sessionVars
    BY <1>1 DEF RecvDone, sessionVars
  <2>3. TypeOK'
    BY <2>1, <2>2, TypesUnchanged DEF TypeInv, TypeOK, RecvDone
  <2>4. Control'
    <3>1. ControlAt(w)'
      BY <2>1, InHand, PlaceOfIdle DEF ControlAt, ReturnPCs, RecvDone, dbVars
    <3>2. QED
      BY <2>1, <3>1, ControlStep DEF TypeInv, RecvDone, dbVars
  <2>5. TimerTopIsRun'
    BY <2>1, TopStep DEF TypeInv, RecvDone, timerVars
  <2>6. QED
    BY <2>3, <2>4, <2>5, RestUnchanged DEF TypeInv, RecvDone, dbVars, timerVars
<1>2. CASE ~connected[s]
  <2>1. /\ refCount' \in [Sessions -> Int] /\ WorkTypes' /\ Control'
        /\ UNCHANGED timerVars => TimerTopIsRun'
    BY <1>0, <1>2, TypeRelease, PlaceOfIdle DEF RecvDone, dbVars
  <2>2. SessionTypes'
    BY <1>0, <1>2, <2>1 DEF TypeInv, TypeOK, RecvDone, SessionTypes
  <2>3. TypeOK'
    BY <2>1, <2>2, TypesUnchanged DEF TypeInv, TypeOK, RecvDone
  <2>4. QED
    BY <2>1, <2>3, RestUnchanged DEF TypeInv, RecvDone, dbVars, timerVars
<1>3. QED
  BY <1>1, <1>2


LEMMA TypeRequestUpdatePosition ==
  ASSUME TypeInv, Running, NEW w \in Workers, NEW c \in Contexts, NEW x \in Positions,
         RequestUpdatePosition(w, c, x)
  PROVE  TypeInv'
<1> DEFINE s == ctx[w]
<1>1. /\ s \in Sessions /\ playerId[s] \in Players \cup {None} /\ conn[s] \in Nat
      /\ s # None /\ client[w] = None
  BY InHand, SessionsAssumption
     DEF RequestUpdatePosition, TypeInv, TypeOK, PlayerTypes, SessionTypes, ReturnPCs
<1>2. /\ SessionTypes' /\ DbTypes' /\ Placed'
      /\ \A d \in Contexts : place'[d] \in Workers => place'[d] = place[d]
  BY <1>1, TypeNewJob DEF RequestUpdatePosition
<1>3. /\ WorkTypes' /\ pc'[w] = "recvDone" /\ UNCHANGED <<ctx, client>>
      /\ \A v \in Workers \ {w} : pc'[v] = pc[v]
  BY DEF TypeInv, TypeOK, WorkTypes, PCs, RequestUpdatePosition, Goto
<1>4. TypeOK'
  BY <1>2, <1>3, TypesUnchanged DEF TypeInv, TypeOK, RequestUpdatePosition
<1>5. Control'
  <2>1. ControlAt(w)'
    BY <1>1, <1>2, <1>3, PlaceOfIdle DEF ControlAt, ReturnPCs, RequestUpdatePosition
  <2>2. QED
    BY <1>2, <1>3, <2>1, ControlStep DEF TypeInv, RequestUpdatePosition
<1>6. TimerTopIsRun'
  BY <1>3, TopStep DEF TypeInv, RequestUpdatePosition, timerVars
<1>7. QED
  BY <1>2, <1>4, <1>5, <1>6, RestUnchanged DEF TypeInv, RequestUpdatePosition, timerVars

LEMMA TypeDatabase ==
  ASSUME TypeInv, Running, NEW c \in Contexts, DbLoads(c) \/ DbUpdates(c) \/ DbFails(c)
  PROVE  TypeInv'
<1>1. dbPos \in [Players -> Positions] /\ held \in [Players -> SUBSET Positions]
  BY DEF TypeInv, TypeOK, DbTypes
<1>2. CASE DbLoads(c)
  <2>1. dbPos[job[c].pid] \in Positions
    BY <1>1, <1>2, JobInHand DEF DbLoads
  <2>2. QED
    BY <1>1, <1>2, <2>1, TypeAnswered DEF DbLoads
<1>3. CASE DbUpdates(c)
  <2>1. job[c].at \in Positions /\ job[c].pid \in Players
    BY <1>3, JobInHand DEF DbUpdates
  <2>2. dbPos' \in [Players -> Positions] /\ held' \in [Players -> SUBSET Positions]
    BY <1>1, <1>3, <2>1 DEF DbUpdates, Store
  <2>3. QED
    BY <1>3, <2>1, <2>2, TypeAnswered DEF DbUpdates
<1>4. CASE DbFails(c)
  <2>1. job[c].at \in Positions
    BY JobInHand
  <2>2. dbPos' \in [Players -> Positions] /\ held' \in [Players -> SUBSET Positions]
    <3>1. CASE UNCHANGED <<dbPos, held>>
      BY <1>1, <3>1
    <3>2. CASE job[c].pid # None /\ Store(job[c].pid, job[c].at)
      <4>1. job[c].pid \in Players
        BY <1>4, <3>2, JobInHand DEF DbFails
      <4>2. QED
        BY <1>1, <2>1, <3>2, <4>1 DEF Store
    <3>3. QED
      BY <1>4, <3>1, <3>2 DEF DbFails
  <2>3. QED
    BY <1>4, <2>1, <2>2, TypeAnswered DEF DbFails
<1>5. QED
  BY <1>2, <1>3, <1>4

LEMMA TypeTakeResult ==
  ASSUME TypeInv, Running, NEW w \in Workers, NEW c \in Contexts, TakeResult(w, c)
  PROVE  TypeInv'
<1>1. /\ WorkTypes' /\ pc'[w] = "answer" /\ UNCHANGED <<ctx, client, job>>
      /\ \A v \in Workers \ {w} : pc'[v] = pc[v]
  BY DEF TypeInv, TypeOK, WorkTypes, PCs, TakeResult, Goto
<1>2. /\ DbTypes' /\ place'[c] = w
      /\ \A d \in Contexts \ {c} : place'[d] = place[d]
  BY DEF TypeInv, TypeOK, DbTypes, TakeResult
<1>3. TypeOK'
  BY <1>1, <1>2, TypesUnchanged DEF TypeInv, TypeOK, TakeResult
<1>4. Control'
  <2>1. ControlAt(w)'
    BY <1>1, InHand DEF ControlAt, ReturnPCs, TakeResult
  <2>2. QED
    BY <1>1, <1>2, <2>1, ControlStep DEF TypeInv
<1>5. Placed'
  <2>1. PlacedAt(c) /\ w # "pool" /\ place[c] = "result"
    BY WorkersAssumption DEF TypeInv, Placed, Places, TakeResult
  <2>2. \A d \in Contexts : place[d] # w
    BY PlaceOfIdle DEF TakeResult
  <2>3. QED
    BY <1>1, <1>2, <2>1, <2>2, PlacedStep DEF TypeInv, PlacedAt
<1>6. TimerTopIsRun'
  BY <1>1, TopStep DEF TypeInv, TakeResult, timerVars
<1>7. QED
  BY <1>3, <1>4, <1>5, <1>6, RestUnchanged DEF TypeInv, TakeResult, timerVars

\* A step of w that changes neither places nor the session it is at, and does not enter or
\* leave a handler.
LEMMA TypeLocal ==
  ASSUME TypeInv, Running, NEW w \in Workers, NEW l \in PCs, Goto(w, l),
         UNCHANGED <<ctx, client, place, halt>>,
         l \in {"move", "recvDone"} <=> pc[w] \in {"move", "recvDone"},
         l \in ReturnPCs <=> pc[w] \in ReturnPCs,
         pc[w] \in {"answer", "delJob"} => l \in {"answer", "delJob"}
  PROVE  Control'
<1>1. pc'[w] = l /\ \A v \in Workers \ {w} : pc'[v] = pc[v]
  BY GotoEffect DEF TypeInv, TypeOK
<1>2. ControlAt(w)'
  BY <1>1 DEF TypeInv, Control, ControlAt
<1>3. QED
  BY <1>1, <1>2, ControlStep DEF TypeInv

LEMMA TypeResponseLoad ==
  ASSUME TypeInv, Running, NEW w \in Workers, NEW c \in Contexts, ResponseLoad(w, c)
  PROVE  TypeInv'
<1> DEFINE j == job[c]
           e == [task |-> "tick", s |-> j.s, pid |-> None, conn |-> j.conn,
                 due |-> DueTime(HeartBeat, lTick[w])]
<1>1. /\ j.s \in Sessions /\ j.conn \in Nat /\ j.pid \in Players /\ j.at \in Positions
      /\ lTick[w] \in Nat
  BY JobInHand, BoundsAssumption DEF ResponseLoad, Answering, TypeInv, TypeOK, TimerTypes
<1>2. DueTime(HeartBeat, lTick[w]) \in Nat
  BY <1>1, BoundsAssumption DEF DueTime
<1>3. e \in TimerJob /\ e.task # "load"
  BY <1>1, <1>2 DEF TimerJob
<1>4. /\ playerId' = [playerId EXCEPT ![j.s] = j.pid] /\ pos' = [pos EXCEPT ![j.s] = j.at]
      /\ timer' = [timer EXCEPT ![w] = Push(@, e)] /\ UNCHANGED <<lTick, now, ran>>
  BY DEF ResponseLoad
<1>5. PlayerTypes' /\ ran' \in [Workers -> TimerJob \cup {NoTimerJob}]
  BY <1>1, <1>4 DEF TypeInv, TypeOK, PlayerTypes, TimerTypes
<1> HIDE DEF e, j
<1>6. TimerTypes' /\ LoadsNamed' /\ \A v \in Workers \ {w} : timer'[v] = timer[v]
  BY <1>3, <1>4, <1>5, TypePush
<1>7. /\ Goto(w, "delJob") /\ "delJob" \in PCs /\ WorkTypes /\ pc[w] = "answer"
      /\ UNCHANGED <<ctx, client, place, job, halt, packets, stale>>
  BY DEF ResponseLoad, Answering, PCs, TypeInv, TypeOK, dbVars
<1>8. WorkTypes' /\ pc'[w] = "delJob" /\ \A v \in Workers \ {w} : pc'[v] = pc[v]
  BY <1>7, GotoEffect DEF WorkTypes
<1>9. TypeOK'
  BY <1>5, <1>6, <1>8, TypesUnchanged DEF TypeInv, TypeOK, ResponseLoad
<1>10. Control'
  BY <1>7, TypeLocal DEF ReturnPCs
<1>11. TimerTopIsRun'
  BY <1>4, <1>6, <1>8, TopStep DEF TypeInv
<1>12. QED
  BY <1>6, <1>7, <1>9, <1>10, <1>11, RestUnchanged DEF TypeInv

LEMMA TypeResponseUpdatePosition ==
  ASSUME TypeInv, Running, NEW w \in Workers, NEW c \in Contexts,
         ResponseUpdatePosition(w, c) \/ OnFail(w, c)
  PROVE  TypeInv'
<1>1. /\ Goto(w, "delJob") /\ "delJob" \in PCs /\ WorkTypes /\ pc[w] = "answer"
      /\ UNCHANGED <<sessionVars, poolVars, dbVars, timerVars, ctx, client, place, job, halt,
                     packets, stale, now>>
  BY DEF ResponseUpdatePosition, OnFail, Answering, PCs, TypeInv, TypeOK, dbVars
<1>2. WorkTypes' /\ pc'[w] = "delJob" /\ \A v \in Workers \ {w} : pc'[v] = pc[v]
  BY <1>1, GotoEffect DEF WorkTypes
<1>3. PlayerTypes'
  <2>1. job[c].at \in Positions
    BY JobInHand
  <2>2. QED
    BY <2>1 DEF ResponseUpdatePosition, OnFail, TypeInv, TypeOK, PlayerTypes, playerVars
<1>4. TypeOK'
  BY <1>1, <1>2, <1>3, TypesUnchanged DEF TypeInv, TypeOK
<1>5. Control'
  BY <1>1, TypeLocal DEF ReturnPCs
<1>6. TimerTopIsRun'
  BY <1>1, <1>2, TopStep DEF TypeInv, timerVars
<1>7. QED
  BY <1>1, <1>4, <1>5, <1>6, RestUnchanged DEF TypeInv, timerVars

LEMMA TypeDeleteJob ==
  ASSUME TypeInv, Running, NEW w \in Workers, NEW c \in Contexts, DeleteJob(w, c)
  PROVE  TypeInv'
<1>1. job[c].s \in Sessions /\ place[c] = w /\ NoJob \in Job /\ NoJob.s = None /\ NoJob.kind = "none"
  BY JobInHand, OriginAssumption DEF DeleteJob, NoJob, Job
<1>2. /\ DbTypes' /\ place'[c] = "pool" /\ job'[c] = NoJob /\ "pool" \notin Workers
      /\ \A d \in Contexts \ {c} : place'[d] = place[d] /\ job'[d] = job[d]
  BY <1>1, WorkersAssumption DEF TypeInv, TypeOK, DbTypes, DeleteJob, Places
<1>3. \A d \in Contexts : place'[d] # w
  BY <1>1, <1>2 DEF TypeInv, Placed, PlacedAt
<1>4. /\ refCount' \in [Sessions -> Int] /\ WorkTypes' /\ Control'
      /\ UNCHANGED timerVars => TimerTopIsRun'
  BY <1>1, <1>2, <1>3, TypeRelease DEF DeleteJob
<1>5. SessionTypes'
  BY <1>4 DEF TypeInv, TypeOK, DeleteJob, SessionTypes
<1>6. TypeOK'
  BY <1>2, <1>4, <1>5, TypesUnchanged DEF TypeInv, TypeOK, DeleteJob
<1>7. Placed'
  BY <1>1, <1>2, PlacedStep DEF TypeInv
<1>8. QED
  BY <1>4, <1>6, <1>7, RestUnchanged DEF TypeInv, DeleteJob, timerVars

LEMMA TypeTimer ==
  ASSUME TypeInv, Running, NEW w \in Workers, WaitTimeout(w) \/ TimerStart(w) \/ TimerStop(w)
  PROVE  TypeInv'
<1>1. /\ \E l \in {"timer", "timerLoop", "iocp"} :
           Goto(w, l) /\ pc[w] \in {"iocp", "timer", "timerLoop"} /\ pc[w] # "timerPop"
      /\ UNCHANGED <<sessionVars, playerVars, poolVars, dbVars, timer, ran, ctx, client, place, job, halt,
                     packets, stale, now>>
  BY DEF WaitTimeout, TimerStart, TimerStop, timerVars, dbVars
<1>2. PICK l \in {"timer", "timerLoop", "iocp"} :
        Goto(w, l) /\ pc[w] \in {"iocp", "timer", "timerLoop"}
  BY <1>1
<1>3. l \in PCs /\ WorkTypes
  BY DEF PCs, TypeInv, TypeOK
<1>4. WorkTypes' /\ pc'[w] = l /\ \A v \in Workers \ {w} : pc'[v] = pc[v]
  BY <1>1, <1>2, <1>3, GotoEffect DEF WorkTypes
<1>5. TimerTypes'
  BY DEF TypeInv, TypeOK, TimerTypes, WaitTimeout, TimerStart, TimerStop, timerVars
<1>6. TypeOK'
  BY <1>1, <1>4, <1>5, TypesUnchanged DEF TypeInv, TypeOK
<1>7. Control'
  BY <1>1, <1>2, <1>3, TypeLocal DEF ReturnPCs
<1>8. TimerTopIsRun'
  BY <1>1, <1>4, TopStep DEF TypeInv
<1>9. QED
  BY <1>1, <1>6, <1>7, <1>8, RestUnchanged DEF TypeInv

\* The top of a queue of timer jobs is a timer job.
LEMMA TopIsJob ==
  ASSUME TypeInv, NEW w \in Workers, timer[w] # <<>>
  PROVE  /\ timer[w] \in Seq(TimerJob) /\ timer[w][1] \in TimerJob
         /\ timer[w][1] \in Range(timer[w])
         /\ timer[w][1].task = "load" => timer[w][1].pid \in Players
<1>1. timer[w] \in Seq(TimerJob)
  BY DEF TypeInv, TypeOK, TimerTypes
<1>2. 1 \in 1..Len(timer[w]) /\ DOMAIN timer[w] = 1..Len(timer[w])
  BY <1>1, EmptySeq, LenProperties
<1>3. timer[w][1] \in TimerJob /\ timer[w][1] \in Range(timer[w])
  BY <1>1, <1>2, ElementOfSeq DEF Range
<1>4. QED
  BY <1>1, <1>3 DEF TypeInv, LoadsNamed, TimerJob

LEMMA TypeRunLoad ==
  ASSUME TypeInv, Running, NEW w \in Workers, NEW c \in Contexts, RunLoad(w, c)
  PROVE  TypeInv'
<1> DEFINE e == timer[w][1]
<1>1. /\ e \in TimerJob /\ e.s \in Sessions /\ e.pid \in Players /\ e.conn \in Nat
      /\ e.pid # None
  BY TopIsJob, PlayersAssumption DEF RunLoad, Due, TimerJob
<1>2. /\ SessionTypes' /\ DbTypes' /\ Placed'
      /\ \A d \in Contexts : place'[d] \in Workers => place'[d] = place[d]
  BY <1>1, TypeNewJob, OriginAssumption DEF RunLoad
<1>3. /\ WorkTypes' /\ pc'[w] = "timerPop" /\ UNCHANGED <<ctx, client, timer, halt>>
      /\ \A v \in Workers \ {w} : pc'[v] = pc[v]
  BY DEF TypeInv, TypeOK, WorkTypes, PCs, RunLoad, Goto
<1>4. TimerTypes' /\ ran'[w] = e /\ \A v \in Workers \ {w} : ran'[v] = ran[v]
  BY <1>1 DEF TypeInv, TypeOK, TimerTypes, RunLoad
<1>5. TypeOK'
  BY <1>2, <1>3, <1>4, TypesUnchanged DEF TypeInv, TypeOK, RunLoad
<1>6. Control'
  <2>1. ControlAt(w)'
    BY <1>2, <1>3, InHand, PlaceOfIdle DEF ControlAt, ReturnPCs, RunLoad
  <2>2. QED
    BY <1>2, <1>3, <2>1, ControlStep DEF TypeInv
<1>7. TimerTopIsRun'
  <2>1. timer'[w] # <<>> /\ timer'[w][1] = ran'[w]
    BY <1>3, <1>4 DEF RunLoad, Due
  <2>2. QED
    BY <1>3, <1>4, <2>1, TopStep DEF TypeInv
<1>8. QED
  BY <1>2, <1>3, <1>5, <1>6, <1>7, RestUnchanged DEF TypeInv

LEMMA TypeRunTick ==
  ASSUME TypeInv, Running, NEW w \in Workers, RunTick(w)
  PROVE  TypeInv'
<1> DEFINE e == timer[w][1]
           next == [e EXCEPT !.due = DueTime(HeartBeat, lTick[w])]
<1>1. /\ e \in TimerJob /\ e.task = "tick" /\ lTick[w] \in Nat /\ e.due <= lTick[w]
      /\ timer[w] # <<>> /\ timer[w] \in Seq(TimerJob)
  BY TopIsJob, BoundsAssumption DEF RunTick, Due, TypeInv, TypeOK, TimerTypes
<1>2. DueTime(HeartBeat, lTick[w]) \in Nat /\ lTick[w] <= DueTime(HeartBeat, lTick[w])
  BY <1>1, BoundsAssumption DEF DueTime
<1>3. next \in TimerJob /\ next.task = "tick" /\ ~(next.due < e.due)
  <2> DEFINE d == DueTime(HeartBeat, lTick[w])
  <2>1. d \in Nat /\ lTick[w] <= d /\ e.due \in Nat
    BY <1>1, <1>2 DEF TimerJob
  <2>2. ~(d < e.due)
    BY <1>1, <2>1
  <2> HIDE DEF d
  <2>3. [e EXCEPT !.due = d] \in TimerJob /\ [e EXCEPT !.due = d].due = d
        /\ [e EXCEPT !.due = d].task = e.task
    BY <1>1, <2>1 DEF TimerJob
  <2>4. QED
    BY <1>1, <2>2, <2>3 DEF d
<1>4. ran' = [ran EXCEPT ![w] = e] /\ UNCHANGED <<lTick, now>>
  BY DEF RunTick
<1>5. /\ ran' \in [Workers -> TimerJob \cup {NoTimerJob}] /\ ran'[w] = e
      /\ \A v \in Workers \ {w} : ran'[v] = ran[v]
  BY <1>1, <1>4 DEF TypeInv, TypeOK, TimerTypes
<1>6. /\ TimerTypes' /\ LoadsNamed' /\ \A v \in Workers \ {w} : timer'[v] = timer[v]
      /\ timer'[w] # <<>> /\ timer'[w][1] = e
  <2>1. CASE UNCHANGED timer
    BY <1>1, <1>4, <1>5, <2>1 DEF TypeInv, TypeOK, TimerTypes, LoadsNamed
  <2>2. CASE timer' = [timer EXCEPT ![w] = Push(@, next)]
    <3> HIDE DEF next
    <3>1. /\ TimerTypes' /\ LoadsNamed' /\ \A v \in Workers \ {w} : timer'[v] = timer[v]
          /\ timer'[w] = Push(timer[w], next)
      BY <1>3, <1>4, <1>5, <2>2, TypePush
    <3>2. Push(timer[w], next) # <<>> /\ Push(timer[w], next)[1] = e
      BY <1>1, <1>3, PushEffect
    <3>3. QED
      BY <3>1, <3>2
  <2>3. QED
    BY <2>1, <2>2 DEF RunTick
<1>7. /\ WorkTypes' /\ pc'[w] = "timerPop" /\ UNCHANGED <<ctx, client, halt>>
      /\ \A v \in Workers \ {w} : pc'[v] = pc[v]
  BY DEF TypeInv, TypeOK, WorkTypes, PCs, RunTick, Goto
<1>8. TypeOK'
  BY <1>6, <1>7, TypesUnchanged DEF TypeInv, TypeOK, RunTick
<1>9. Control'
  <2>1. Goto(w, "timerPop") /\ "timerPop" \in PCs /\ UNCHANGED place /\ pc[w] = "timerLoop"
    BY DEF RunTick, PCs, dbVars
  <2>2. QED
    BY <1>7, <2>1, TypeLocal DEF ReturnPCs
<1>10. TimerTopIsRun'
  BY <1>5, <1>6, <1>7, TopStep DEF TypeInv
<1>11. QED
  BY <1>6, <1>8, <1>9, <1>10, RestUnchanged DEF TypeInv, RunTick, dbVars

LEMMA TypeTimerPop ==
  ASSUME TypeInv, Running, NEW w \in Workers, TimerPop(w)
  PROVE  TypeInv'
<1> DEFINE Named == {f \in TimerJob : f.task = "load" => f.pid # None}
<1>1. timer[w] # <<>> /\ timer[w] \in Seq(TimerJob)
  BY TopIsJob DEF TimerPop, TypeInv, TimerTopIsRun
<1>2. PICK r \in Popped(timer[w]) : timer' = [timer EXCEPT ![w] = r]
  BY DEF TimerPop
<1>3. timer[w] \in Seq(Named)
  <2>1. timer[w] \in Seq(Range(timer[w])) /\ Range(timer[w]) \in SUBSET TimerJob
    BY <1>1, SeqOfRange, RangeOfSeq
  <2>2. Range(timer[w]) \subseteq Named
    BY <2>1 DEF TypeInv, LoadsNamed
  <2>3. QED
    BY <2>1, <2>2, SeqMonotonic
<1> HIDE DEF Named
<1>4. r \in Seq(Named) /\ r \in Seq(TimerJob)
  BY <1>1, <1>2, <1>3, PopEffect
<1>5. LoadsNamed' /\ \A v \in Workers \ {w} : timer'[v] = timer[v]
  <2>1. Range(r) \in SUBSET Named
    BY <1>4, RangeOfSeq
  <2>2. \A f \in Range(r) : f.task = "load" => f.pid # None
    BY <2>1 DEF Named
  <2>3. QED
    BY <1>2, <2>2 DEF TypeInv, TypeOK, TimerTypes, LoadsNamed
<1>6. TimerTypes' /\ \A v \in Workers \ {w} : ran'[v] = ran[v]
  BY <1>2, <1>4 DEF TypeInv, TypeOK, TimerTypes, TimerPop
<1>7. /\ WorkTypes' /\ pc'[w] = "timerLoop" /\ UNCHANGED <<ctx, client, halt>>
      /\ \A v \in Workers \ {w} : pc'[v] = pc[v]
  BY DEF TypeInv, TypeOK, WorkTypes, PCs, TimerPop, Goto
<1>8. TypeOK'
  BY <1>6, <1>7, TypesUnchanged DEF TypeInv, TypeOK, TimerPop
<1>9. Control'
  <2>1. Goto(w, "timerLoop") /\ "timerLoop" \in PCs /\ UNCHANGED place /\ pc[w] = "timerPop"
    BY DEF TimerPop, PCs, dbVars
  <2>2. QED
    BY <1>7, <2>1, TypeLocal DEF ReturnPCs
<1>10. TimerTopIsRun'
  BY <1>5, <1>6, <1>7, TopStep DEF TypeInv
<1>11. QED
  BY <1>5, <1>8, <1>9, <1>10, RestUnchanged DEF TypeInv, TimerPop, dbVars

LEMMA TypeReturn ==
  ASSUME TypeInv, Running, NEW w \in Workers, ReturnAssert(w) \/ ReturnReset(w)
  PROVE  TypeInv'
<1>1. client[w] \in Sessions
  BY InHand DEF ReturnAssert, ReturnReset, ReturnPCs
<1>2. SessionTypes'
  <2>1. CASE ReturnAssert(w)
    BY <2>1, TypesUnchanged DEF TypeInv, TypeOK, ReturnAssert
  <2>2. CASE ReturnReset(w)
    BY <1>1, <2>2 DEF TypeInv, TypeOK, SessionTypes, ReturnReset
  <2>3. QED
    BY <2>1, <2>2
<1>3. /\ WorkTypes'
      /\ \A v \in Workers \ {w} : pc'[v] = pc[v]
      /\ pc'[w] \in ReturnPCs /\ pc[w] \in ReturnPCs
  BY DEF TypeInv, TypeOK, WorkTypes, PCs, Halts, ReturnPCs, ReturnAssert, ReturnReset, Goto,
         CrashAssert
<1>4. UNCHANGED <<playerVars, poolVars, dbVars, timerVars, ctx, client, now, job, place, timer, ran>>
  BY DEF ReturnAssert, ReturnReset, dbVars, timerVars
<1>5. TypeOK'
  BY <1>2, <1>3, <1>4, TypesUnchanged DEF TypeInv, TypeOK
<1>6. Control'
  <2>1. ControlAt(w)'
    BY <1>1, <1>3, <1>4, InHand, PlaceOfIdle, SessionsAssumption DEF ControlAt, ReturnPCs
  <2>2. QED
    BY <1>3, <1>4, <2>1, ControlStep DEF TypeInv
<1>7. TimerTopIsRun'
  BY <1>3, <1>4, TopStep DEF TypeInv, ReturnPCs
<1>8. QED
  BY <1>4, <1>5, <1>6, <1>7, RestUnchanged DEF TypeInv

LEMMA TypeReturnPush ==
  ASSUME TypeInv, Running, NEW w \in Workers, ReturnPush(w)
  PROVE  TypeInv'
<1>1. client[w] \in Sessions
  BY InHand DEF ReturnPush, ReturnPCs
<1>2. PlayerTypes'
  BY <1>1, OriginAssumption DEF TypeInv, TypeOK, PlayerTypes, ReturnPush, PlayerReset
<1>3. PoolTypes'
  <2>1. free[client[w]] + 1 \in Nat /\ returnCount + 1 \in Nat
    BY <1>1 DEF TypeInv, TypeOK, PoolTypes
  <2>2. QED
    BY <1>1, <2>1 DEF TypeInv, TypeOK, PoolTypes, ReturnPush
<1>4. /\ WorkTypes' /\ pc'[w] = "timer" /\ client'[w] = None /\ UNCHANGED <<ctx, halt>>
      /\ \A v \in Workers \ {w} : pc'[v] = pc[v] /\ client'[v] = client[v]
  BY DEF TypeInv, TypeOK, WorkTypes, PCs, ReturnPush, Goto
<1>5. UNCHANGED <<sessionVars, dbVars, timerVars, now, job, place, timer, ran>>
  BY DEF ReturnPush, dbVars, timerVars
<1>6. TypeOK'
  BY <1>2, <1>3, <1>4, <1>5, TypesUnchanged DEF TypeInv, TypeOK
<1>7. Control'
  <2>1. ControlAt(w)'
    BY <1>4, <1>5, InHand, PlaceOfIdle DEF ControlAt, ReturnPCs, ReturnPush
  <2>2. QED
    BY <1>4, <1>5, <2>1, ControlStep DEF TypeInv
<1>8. TimerTopIsRun'
  BY <1>4, <1>5, TopStep DEF TypeInv
<1>9. QED
  BY <1>5, <1>6, <1>7, <1>8, RestUnchanged DEF TypeInv

LEMMA TypeTick ==
  ASSUME TypeInv, Tick
  PROVE  TypeInv'
<1>1. TimerTypes'
  BY BoundsAssumption DEF TypeInv, TypeOK, TimerTypes, Tick, timerVars
<1>2. TypeOK'
  BY <1>1, TypesUnchanged DEF TypeInv, TypeOK, Tick
<1>3. QED
  BY <1>2, RestUnchanged DEF TypeInv, Tick, dbVars, timerVars, workVars

LEMMA TypeInit == Init => TypeInv
<1> SUFFICES ASSUME Init
             PROVE  TypeInv
  OBVIOUS
<1>1. NoJob \in Job /\ NoJob.s = None /\ NoJob.kind = "none"
  BY OriginAssumption DEF NoJob, Job
<1>2. SessionTypes /\ PlayerTypes
  BY OriginAssumption DEF Init, SessionTypes, PlayerTypes, Holders
<1>3. PoolTypes /\ 0 \in 0..MaxTime /\ 0 \in 0..MaxPackets
  BY BoundsAssumption DEF Init, PoolTypes
<1>4. DbTypes
  BY <1>1 DEF Init, DbTypes, Places
<1>5. TimerTypes
  BY <1>3, EmptySeq DEF Init, TimerTypes
<1>6. WorkTypes
  BY <1>3 DEF Init, WorkTypes, PCs, Halts
<1>7. Control
  BY WorkersAssumption DEF Init, Control, ControlAt, ReturnPCs, Places
<1>8. Placed
  BY <1>1, WorkersAssumption DEF Init, Placed, PlacedAt, Places
<1>9. LoadsNamed /\ TimerTopIsRun
  <2>1. \A w \in Workers : timer[w] = <<>> /\ pc[w] = "iocp"
    BY DEF Init
  <2>2. Range(<<>>) = {}
    BY DEF Range
  <2>3. QED
    BY <2>1, <2>2 DEF LoadsNamed, TimerTopIsRun
<1>10. QED
  BY <1>2, <1>3, <1>4, <1>5, <1>6, <1>7, <1>8, <1>9 DEF TypeInv, TypeOK

LEMMA TypeStep == TypeInv /\ [Next]_vars => TypeInv'
<1> SUFFICES ASSUME TypeInv, [Next]_vars
             PROVE  TypeInv'
  OBVIOUS
<1>1. ASSUME NEW w \in Workers, Step(w)
      PROVE  TypeInv'
  BY <1>1, TypeTakeResult, TypeResponseLoad, TypeResponseUpdatePosition, TypeDeleteJob, TypeRunLoad,
     TypeRequestUpdatePosition, TypeRecvDone, TypeTimer, TypeRunTick, TypeTimerPop, TypeReturn,
     TypeReturnPush DEF Step
<1>2. ASSUME NEW w \in Workers, Receive(w)
      PROVE  TypeInv'
  BY <1>2, TypeRecvLogin, TypeRecvMove, TypeRecvClosed DEF Receive
<1>3. ASSUME NEW s \in Sessions, Disconnected(s)
      PROVE  TypeInv'
  BY <1>3, TypeDisconnectCompletion DEF Disconnected
<1>4. CASE Database
  BY <1>4, TypeDatabase DEF Database
<1>5. CASE Environment
  BY <1>5, TypeTick, TypeIssue, TypeDisconnectRequest DEF Environment
<1>6. CASE UNCHANGED vars
  BY <1>6, TypesUnchanged, RestUnchanged
     DEF vars, TypeInv, TypeOK, dbVars, timerVars, workVars
<1>7. QED
  BY <1>1, <1>2, <1>3, <1>4, <1>5, <1>6 DEF Next

LEMMA TypeInvariant == Spec => []TypeInv
<1>1. QED
  BY TypeInit, TypeStep, PTL DEF Spec

\* The program's variables keep their types: a worker has a session, a job or a timer job
\* wherever it uses one, and the shared counters stay in their ranges.
THEOREM TypeCorrect == Spec => []TypeOK
<1>1. TypeInv => TypeOK
  BY DEF TypeInv
<1>2. QED
  BY <1>1, TypeInvariant, PTL

\* DoTimerJob pops the job it has run, whatever the task has pushed into the queue meanwhile.
THEOREM TimerPopsWhatItRan == Spec => []TimerTopIsRun
<1>1. TypeInv => TimerTopIsRun
  BY DEF TypeInv
<1>2. QED
  BY <1>1, TypeInvariant, PTL

-----------------------------------------------------------------------------
(* References *)

Balanced(n, H, J) == n = Cardinality(H) + Cardinality(J)

\* What a session's reference count, holders, jobs and place in the pool say of each other.
SessionRefs(s) ==
  /\ Balanced(refCount[s], hold[s], JobsOf(s))
  /\ connected[s] => "issue" \in hold[s] /\ "disconnect" \notin hold[s]
  /\ "disconnect" \in hold[s] => "issue" \in hold[s]
  /\ \A w \in Workers : ctx[w] = s => "recv" \in hold[s]
  /\ \A v, w \in Workers : ctx[v] = s /\ ctx[w] = s => v = w
  /\ free[s] > 0 \/ Returning(s) => hold[s] = {} /\ JobsOf(s) = {}
  /\ free[s] \in {0, 1}
  /\ free[s] = 1 => ~Returning(s)
  /\ \A v, w \in Workers : client[v] = s /\ client[w] = s => v = w
  /\ \A c \in JobsOf(s) : job[c].conn = conn[s]
RefInv == Running /\ ~stale => \A s \in Sessions : SessionRefs(s)

LEMMA FiniteHolders ==
  /\ IsFiniteSet(Holders)
  /\ \A H \in SUBSET Holders : IsFiniteSet(H) /\ Cardinality(H) \in Nat
<1>1. IsFiniteSet({}) /\ IsFiniteSet({"issue"} \cup {})
  BY FS_EmptySet, FS_AddElement
<1>2. IsFiniteSet({"issue", "recv"})
  <2>1. {"issue", "recv"} = ({"issue"} \cup {}) \cup {"recv"}
    OBVIOUS
  <2>2. QED
    BY <1>1, <2>1, FS_AddElement
<1>3. IsFiniteSet(Holders)
  <2>1. Holders = {"issue", "recv"} \cup {"disconnect"}
    BY DEF Holders
  <2>2. QED
    BY <1>2, <2>1, FS_AddElement
<1>4. QED
  BY <1>3, FS_Subset, FS_CardinalityType

LEMMA FiniteJobs ==
  \A s \in Sessions : IsFiniteSet(JobsOf(s)) /\ Cardinality(JobsOf(s)) \in Nat
<1>1. \A s \in Sessions : JobsOf(s) \subseteq Contexts
  BY DEF JobsOf
<1>2. QED
  BY <1>1, ContextsAssumption, FS_Subset, FS_CardinalityType

LEMMA Balance ==
  ASSUME NEW n \in Int, NEW H, NEW J, IsFiniteSet(H), IsFiniteSet(J), Balanced(n, H, J)
  PROVE  /\ n >= 0
         /\ n = 0 => H = {} /\ J = {}
         /\ H = {} /\ J = {} => n = 0
         /\ \A x : x \notin H => Balanced(n + 1, H \cup {x}, J)
         /\ \A x : x \in H => Balanced(n - 1, H \ {x}, J) /\ n >= 1
         /\ \A x : x \notin J => Balanced(n + 1, H, J \cup {x})
         /\ \A x : x \in J => Balanced(n - 1, H, J \ {x}) /\ n >= 1
<1>1. Cardinality(H) \in Nat /\ Cardinality(J) \in Nat
  BY FS_CardinalityType
<1>2. /\ Cardinality(H) = 0 => H = {}
      /\ Cardinality(J) = 0 => J = {}
      /\ Cardinality({}) = 0
  BY FS_EmptySet
<1>3. \A x : /\ x \notin H => Cardinality(H \cup {x}) = Cardinality(H) + 1
             /\ x \notin J => Cardinality(J \cup {x}) = Cardinality(J) + 1
  BY FS_AddElement
<1>4. \A x : /\ x \in H => Cardinality(H \ {x}) = Cardinality(H) - 1
             /\ x \in J => Cardinality(J \ {x}) = Cardinality(J) - 1
  BY FS_RemoveElement
<1>5. \A x : /\ x \in H => Cardinality(H) # 0
             /\ x \in J => Cardinality(J) # 0
  BY <1>2
<1>6. n >= 0 /\ (n = 0 => H = {} /\ J = {}) /\ (H = {} /\ J = {} => n = 0)
  BY <1>1, <1>2 DEF Balanced
<1>7. ASSUME NEW x, x \notin H
      PROVE  Balanced(n + 1, H \cup {x}, J)
  <2>1. Cardinality(H \cup {x}) = Cardinality(H) + 1
    BY <1>3, <1>4, <1>5, <1>7
  <2>2. QED
    BY <1>1, <2>1 DEF Balanced
<1>8. ASSUME NEW x, x \notin J
      PROVE  Balanced(n + 1, H, J \cup {x})
  <2>1. Cardinality(J \cup {x}) = Cardinality(J) + 1
    BY <1>3, <1>4, <1>5, <1>8
  <2>2. QED
    BY <1>1, <2>1 DEF Balanced
<1>9. ASSUME NEW x, x \in H
      PROVE  Balanced(n - 1, H \ {x}, J) /\ n >= 1
  <2>1. Cardinality(H \ {x}) = Cardinality(H) - 1 /\ Cardinality(H) # 0
    BY <1>3, <1>4, <1>5, <1>9
  <2>2. QED
    BY <1>1, <2>1 DEF Balanced
<1>10. ASSUME NEW x, x \in J
      PROVE  Balanced(n - 1, H, J \ {x}) /\ n >= 1
  <2>1. Cardinality(J \ {x}) = Cardinality(J) - 1 /\ Cardinality(J) # 0
    BY <1>3, <1>4, <1>5, <1>10
  <2>2. QED
    BY <1>1, <2>1 DEF Balanced
<1>11. QED
  BY <1>6, <1>7, <1>8, <1>9, <1>10

\* The same facts of a session.
LEMMA SessionBalance ==
  ASSUME TypeInv, NEW s \in Sessions, SessionRefs(s)
  PROVE  /\ refCount[s] \in Int /\ refCount[s] >= 0 /\ hold[s] \in SUBSET Holders
         /\ refCount[s] = 0 <=> hold[s] = {} /\ JobsOf(s) = {}
         /\ \A x : x \notin hold[s] => Balanced(refCount[s] + 1, hold[s] \cup {x}, JobsOf(s))
         /\ \A x : x \in hold[s] =>
              Balanced(refCount[s] - 1, hold[s] \ {x}, JobsOf(s)) /\ refCount[s] >= 1
         /\ \A x : x \notin JobsOf(s) => Balanced(refCount[s] + 1, hold[s], JobsOf(s) \cup {x})
         /\ \A x : x \in JobsOf(s) =>
              Balanced(refCount[s] - 1, hold[s], JobsOf(s) \ {x}) /\ refCount[s] >= 1
<1>1. refCount[s] \in Int /\ hold[s] \in SUBSET Holders
  BY DEF TypeInv, TypeOK, SessionTypes
<1>2. IsFiniteSet(hold[s]) /\ IsFiniteSet(JobsOf(s)) /\ Balanced(refCount[s], hold[s], JobsOf(s))
  BY <1>1, FiniteHolders, FiniteJobs DEF SessionRefs
<1>3. QED
  BY <1>1, <1>2, Balance

\* A step that concerns session s only.
LEMMA RefStep ==
  ASSUME RefInv, Running, ~stale, NEW s \in Sessions,
         \A t \in Sessions \ {s} :
           /\ refCount'[t] = refCount[t] /\ hold'[t] = hold[t] /\ connected'[t] = connected[t]
           /\ conn'[t] = conn[t] /\ free'[t] = free[t]
           /\ \A w \in Workers : ctx'[w] = t <=> ctx[w] = t
           /\ \A w \in Workers : client'[w] = t <=> client[w] = t
           /\ \A c \in Contexts : job'[c].s = t <=> job[c].s = t
           /\ \A c \in Contexts : job[c].s = t => job'[c].conn = job[c].conn,
         Running' /\ ~stale' => SessionRefs(s)'
  PROVE  RefInv'
<1>1. SUFFICES ASSUME Running', ~stale', NEW t \in Sessions \ {s}
               PROVE  SessionRefs(t)'
  BY DEF RefInv
<1>2. SessionRefs(t)
  BY DEF RefInv
<1>3. JobsOf(t)' = JobsOf(t)
  BY DEF JobsOf
<1>4. Returning(t)' <=> Returning(t)
  BY DEF Returning
<1>5. \A c \in JobsOf(t)' : job'[c].conn = conn'[t]
  BY <1>2 DEF SessionRefs, JobsOf
<1>6. QED
  BY <1>2, <1>3, <1>4, <1>5 DEF SessionRefs

LEMMA RefUnchanged ==
  ASSUME RefInv, UNCHANGED <<connected, refCount, hold, conn, free, ctx, client>>,
         \A c \in Contexts : job'[c].s = job[c].s /\ job'[c].conn = job[c].conn,
         Running' /\ ~stale' => Running /\ ~stale
  PROVE  RefInv'
<1>1. SUFFICES ASSUME Running', ~stale', NEW t \in Sessions
               PROVE  SessionRefs(t)'
  BY DEF RefInv
<1>2. SessionRefs(t)
  BY <1>1 DEF RefInv
<1>3. JobsOf(t)' = JobsOf(t)
  BY DEF JobsOf
<1>4. Returning(t)' <=> Returning(t)
  BY DEF Returning
<1>5. \A c \in JobsOf(t)' : job'[c].conn = conn'[t]
  BY <1>2 DEF SessionRefs, JobsOf
<1>6. QED
  BY <1>2, <1>3, <1>4, <1>5 DEF SessionRefs


\* ReleaseRef of one reference, by a worker outside ReturnClientSession: at zero nobody
\* refers to the session any more, and w alone returns it.
LEMMA RefRelease ==
  ASSUME TypeInv, RefInv, Running, ~stale, NEW w \in Workers, NEW s \in Sessions,
         NEW n \in {1, 2}, ReleaseRef(w, s, n, "timer"), pc[w] \notin ReturnPCs,
         hold[s] # {} \/ JobsOf(s) # {},
         Balanced(refCount[s] - n, hold'[s], JobsOf(s)'), hold'[s] \in SUBSET Holders,
         \A t \in Sessions \ {s} :
           /\ hold'[t] = hold[t] /\ connected'[t] = connected[t]
           /\ conn'[t] = conn[t] /\ free'[t] = free[t]
           /\ \A v \in Workers : ctx'[v] = t <=> ctx[v] = t
           /\ \A c \in Contexts : job'[c].s = t <=> job[c].s = t
           /\ \A c \in Contexts : job[c].s = t => job'[c].conn = job[c].conn,
         connected'[s] => "issue" \in hold'[s] /\ "disconnect" \notin hold'[s],
         "disconnect" \in hold'[s] => "issue" \in hold'[s],
         \A v \in Workers : ctx'[v] = s => "recv" \in hold'[s] /\ ctx[v] = s,
         free'[s] = free[s] /\ conn'[s] = conn[s],
         \A c \in Contexts : job'[c].s = s => job[c].s = s /\ job'[c].conn = job[c].conn
  PROVE  RefInv'
<1>1. SessionRefs(s) /\ SessionTypes /\ WorkTypes /\ "timer" \in PCs
  BY DEF RefInv, TypeInv, TypeOK, PCs
<1>2. free[s] = 0 /\ ~Returning(s) /\ client[w] = None
  BY <1>1, InHand DEF SessionRefs
<1>3. refCount[s] \in Int
  BY <1>1 DEF SessionTypes
<1>4. IsFiniteSet(hold'[s]) /\ IsFiniteSet(JobsOf(s)')
  <2>1. JobsOf(s)' \subseteq JobsOf(s)
    BY DEF JobsOf
  <2>2. QED
    BY <2>1, FiniteHolders, FiniteJobs, FS_Subset
<1>5. /\ refCount[s] - n >= 0
      /\ refCount[s] - n = 0 => hold'[s] = {} /\ JobsOf(s)' = {}
  BY <1>3, <1>4, Balance
<1>6. CASE refCount[s] = n
  <2>1. /\ client'[w] = s /\ \A v \in Workers \ {w} : client'[v] = client[v]
        /\ \A t \in Sessions : refCount'[t] = IF t = s THEN refCount[s] - n ELSE refCount[t]
    BY <1>1, <1>6, ReleaseEffect
  <2>2. \A v \in Workers : client'[v] = s <=> v = w
    BY <1>2, <2>1 DEF Returning
  <2>3. \A t \in Sessions \ {s}, v \in Workers : client'[v] = t <=> client[v] = t
    BY <1>2, <2>1, SessionsAssumption
  <2>4. hold'[s] = {} /\ JobsOf(s)' = {}
    BY <1>3, <1>5, <1>6
  <2>5. SessionRefs(s)'
    <3>1. Balanced(refCount[s], hold[s], JobsOf(s))'
      BY <2>1
    <3>2. \A v \in Workers : ctx'[v] # s
      BY <2>4
    <3>3. QED
      BY <1>2, <2>2, <2>4, <3>1, <3>2 DEF SessionRefs
  <2>6. \A t \in Sessions \ {s} : refCount'[t] = refCount[t]
    BY <2>1
  <2>7. QED
    BY <2>3, <2>5, <2>6, RefStep
<1>7. CASE refCount[s] > n
  <2>1. /\ client'[w] = client[w] /\ \A v \in Workers \ {w} : client'[v] = client[v]
        /\ \A t \in Sessions : refCount'[t] = IF t = s THEN refCount[s] - n ELSE refCount[t]
    BY <1>1, <1>7, ReleaseEffect
  <2>2. \A v \in Workers : client'[v] = client[v]
    BY <2>1
  <2>3. ~Returning(s)'
    BY <1>2, <2>2 DEF Returning
  <2>4. SessionRefs(s)'
    <3>1. Balanced(refCount[s], hold[s], JobsOf(s))'
      BY <2>1
    <3>2. \A u, v \in Workers : ctx'[u] = s /\ ctx'[v] = s => u = v
      BY <1>1 DEF SessionRefs
    <3>3. \A u, v \in Workers : client'[u] = s /\ client'[v] = s => u = v
      BY <1>2, <2>2 DEF Returning
    <3>4. \A c \in JobsOf(s)' : job'[c].conn = conn'[s]
      BY <1>1 DEF SessionRefs, JobsOf
    <3>5. QED
      BY <1>2, <2>3, <3>1, <3>2, <3>3, <3>4 DEF SessionRefs
  <2>5. \A t \in Sessions \ {s} : refCount'[t] = refCount[t]
    BY <2>1
  <2>6. QED
    BY <2>2, <2>4, <2>5, RefStep
<1>8. QED
  BY <1>3, <1>5, <1>6, <1>7

LEMMA RefIssue ==
  ASSUME TypeInv, RefInv, Running, NEW s \in Sessions, Issue(s)
  PROVE  RefInv'
<1>1. CASE stale
  BY <1>1 DEF Issue, RefInv
<1>2. CASE ~stale
  <2>1. /\ SessionRefs(s) /\ hold[s] = {} /\ JobsOf(s) = {} /\ free[s] = 1 /\ ~Returning(s)
        /\ ~connected[s]
    BY <1>2 DEF Issue, RefInv, SessionRefs
  <2>2. refCount[s] = 0
    BY <2>1, SessionBalance
  <2>3. /\ hold' = [hold EXCEPT ![s] = {"issue", "recv"}]
        /\ refCount' = [refCount EXCEPT ![s] = @ + 2]
        /\ connected' = [connected EXCEPT ![s] = TRUE]
        /\ conn' = [conn EXCEPT ![s] = @ + 1]
        /\ free' = [free EXCEPT ![s] = @ - 1]
        /\ UNCHANGED <<job, ctx, client>>
    BY <2>1 DEF Issue, dbVars, workVars
  <2>4. /\ hold'[s] = {"issue", "recv"} /\ refCount'[s] = 2 /\ free'[s] = 0
        /\ \A t \in Sessions \ {s} :
             /\ refCount'[t] = refCount[t] /\ hold'[t] = hold[t] /\ connected'[t] = connected[t]
             /\ conn'[t] = conn[t] /\ free'[t] = free[t]
    BY <2>1, <2>2, <2>3 DEF TypeInv, TypeOK, SessionTypes, PoolTypes
  <2>5. JobsOf(s)' = {} /\ ~Returning(s)'
    BY <2>1, <2>3 DEF JobsOf, Returning
  <2>6. Balanced(2, {"issue", "recv"}, {})
    <3>1. IsFiniteSet({}) /\ Balanced(0, {}, {})
      BY FS_EmptySet DEF Balanced
    <3>2. Balanced(1, {"issue"}, {}) /\ IsFiniteSet({"issue"})
      <4>1. Balanced(0 + 1, {} \cup {"issue"}, {})
        BY <3>1, Balance
      <4>2. {} \cup {"issue"} = {"issue"} /\ IsFiniteSet({} \cup {"issue"}) /\ 0 + 1 = 1
        BY <3>1, FS_AddElement
      <4>3. QED
        BY <4>1, <4>2
    <3>3. Balanced(1 + 1, {"issue"} \cup {"recv"}, {})
      BY <3>1, <3>2, Balance
    <3>4. {"issue"} \cup {"recv"} = {"issue", "recv"}
      OBVIOUS
    <3>5. QED
      BY <3>3, <3>4
  <2>7. SessionRefs(s)'
    <3>1. Balanced(refCount[s], hold[s], JobsOf(s))'
      BY <2>4, <2>5, <2>6
    <3>2. \A v, w \in Workers : /\ ctx'[v] = s /\ ctx'[w] = s => v = w
                                /\ client'[v] = s /\ client'[w] = s => v = w
      BY <2>1, <2>3 DEF SessionRefs
    <3>3. QED
      BY <2>4, <2>5, <3>1, <3>2 DEF SessionRefs
  <2>8. QED
    BY <1>2, <2>3, <2>4, <2>7, RefStep
<1>3. QED
  BY <1>1, <1>2

LEMMA RefDisconnectRequest ==
  ASSUME TypeInv, RefInv, Running, NEW s \in Sessions, DisconnectRequest(s)
  PROVE  RefInv'
<1>1. CASE stale
  BY <1>1 DEF DisconnectRequest, RefInv
<1>2. CASE ~stale
  <2>1. SessionRefs(s) /\ "issue" \in hold[s] /\ "disconnect" \notin hold[s]
    BY <1>2 DEF DisconnectRequest, RefInv, SessionRefs
  <2>2. UNCHANGED <<conn, free, job, ctx, client>>
    BY DEF DisconnectRequest, poolVars, dbVars, workVars
  <2>3. /\ hold'[s] = hold[s] \cup {"disconnect"} /\ refCount'[s] = refCount[s] + 1
        /\ connected'[s] = FALSE
        /\ \A t \in Sessions \ {s} :
             refCount'[t] = refCount[t] /\ hold'[t] = hold[t] /\ connected'[t] = connected[t]
    BY DEF DisconnectRequest, TypeInv, TypeOK, SessionTypes
  <2>4. JobsOf(s)' = JobsOf(s) /\ (Returning(s)' <=> Returning(s))
    BY <2>2 DEF JobsOf, Returning
  <2>5. SessionRefs(s)'
    <3>1. Balanced(refCount[s], hold[s], JobsOf(s))'
      BY <2>1, <2>3, <2>4, SessionBalance
    <3>2. QED
      BY <2>1, <2>2, <2>3, <2>4, <3>1 DEF SessionRefs
  <2>6. QED
    BY <1>2, <2>2, <2>3, <2>5, RefStep
<1>3. QED
  BY <1>1, <1>2

LEMMA RefDisconnectCompletion ==
  ASSUME TypeInv, RefInv, Running, NEW w \in Workers, NEW s \in Sessions,
         DisconnectCompletion(w, s)
  PROVE  RefInv'
<1>1. CASE stale
  BY <1>1 DEF DisconnectCompletion, RefInv
<1>2. CASE ~stale
  <2>1. /\ SessionRefs(s) /\ "issue" \in hold[s] /\ "disconnect" \in hold[s] /\ ~connected[s]
        /\ hold[s] \in SUBSET Holders /\ refCount[s] \in Int
    BY <1>2 DEF DisconnectCompletion, RefInv, SessionRefs, TypeInv, TypeOK, SessionTypes
  <2>2. UNCHANGED <<connected, conn, free, job, ctx>>
    BY DEF DisconnectCompletion, poolVars, dbVars
  <2>3. /\ hold'[s] = hold[s] \ {"issue", "disconnect"}
        /\ \A t \in Sessions \ {s} : hold'[t] = hold[t]
    BY DEF DisconnectCompletion, TypeInv, TypeOK, SessionTypes
  <2>4. JobsOf(s)' = JobsOf(s)
    BY <2>2 DEF JobsOf
  <2>5. Balanced(refCount[s] - 2, hold'[s], JobsOf(s)')
    <3>1. IsFiniteSet(hold[s]) /\ IsFiniteSet(JobsOf(s)) /\ IsFiniteSet(hold[s] \ {"issue"})
      BY <2>1, FiniteHolders, FiniteJobs
    <3>2. Balanced(refCount[s] - 1, hold[s] \ {"issue"}, JobsOf(s))
      BY <2>1, SessionBalance
    <3>3. Balanced((refCount[s] - 1) - 1, (hold[s] \ {"issue"}) \ {"disconnect"}, JobsOf(s))
      <4>1. refCount[s] - 1 \in Int /\ "disconnect" \in hold[s] \ {"issue"}
        BY <2>1
      <4>2. QED
        BY <3>1, <3>2, <4>1, Balance
    <3>4. /\ (refCount[s] - 1) - 1 = refCount[s] - 2
          /\ (hold[s] \ {"issue"}) \ {"disconnect"} = hold'[s]
      BY <2>1, <2>3
    <3>5. QED
      BY <2>4, <3>3, <3>4
  <2>6. \A v \in Workers : ctx[v] = s => "recv" \in hold'[s]
    BY <2>1, <2>3 DEF SessionRefs
  <2>7. pc[w] \notin ReturnPCs /\ ReleaseRef(w, s, 2, "timer") /\ hold[s] # {}
    BY <2>1 DEF DisconnectCompletion, ReturnPCs
  <2>8. QED
    BY <1>2, <2>1, <2>2, <2>3, <2>4, <2>5, <2>6, <2>7, RefRelease
<1>3. QED
  BY <1>1, <1>2

\* A worker takes the receive of s out of the port.
LEMMA RefReceive ==
  ASSUME TypeInv, RefInv, Running, NEW w \in Workers, NEW s \in Sessions, Receivable(s),
         ctx' = [ctx EXCEPT ![w] = s], pc[w] = "iocp",
         UNCHANGED <<connected, refCount, hold, conn, free, job, client, stale>>
  PROVE  RefInv'
<1>1. CASE stale
  BY <1>1 DEF RefInv
<1>2. CASE ~stale
  <2>1. SessionRefs(s) /\ ctx[w] = None /\ s # None
    BY <1>2, InHand, SessionsAssumption DEF RefInv
  <2>2. ctx'[w] = s /\ \A v \in Workers \ {w} : ctx'[v] = ctx[v] /\ ctx[v] # s
    BY DEF Receivable, TypeInv, TypeOK, WorkTypes
  <2>3. JobsOf(s)' = JobsOf(s) /\ (Returning(s)' <=> Returning(s))
    BY DEF JobsOf, Returning
  <2>4. SessionRefs(s)'
    BY <2>1, <2>2, <2>3 DEF SessionRefs, Receivable
  <2>5. \A t \in Sessions \ {s}, v \in Workers : ctx'[v] = t <=> ctx[v] = t
    BY <2>1, <2>2, SessionsAssumption
  <2>6. QED
    BY <1>2, <2>4, <2>5, RefStep
<1>3. QED
  BY <1>1, <1>2

LEMMA RefRecvClosed ==
  ASSUME TypeInv, RefInv, Running, NEW w \in Workers, NEW s \in Sessions, RecvClosed(w, s)
  PROVE  RefInv'
<1>1. CASE stale
  BY <1>1 DEF RecvClosed, RefInv
<1>2. CASE ~stale
  <2>1. /\ SessionRefs(s) /\ "recv" \in hold[s] /\ \A v \in Workers : ctx[v] # s
        /\ hold[s] \in SUBSET Holders /\ refCount[s] \in Int
    BY <1>2 DEF RecvClosed, Receivable, RefInv, SessionRefs, TypeInv, TypeOK, SessionTypes
  <2>2. UNCHANGED <<conn, free, job, ctx>> /\ JobsOf(s)' = JobsOf(s)
    BY DEF RecvClosed, poolVars, dbVars, JobsOf
  <2>3. connected'[s] = FALSE /\ \A t \in Sessions \ {s} : connected'[t] = connected[t]
    BY DEF RecvClosed, TypeInv, TypeOK, SessionTypes
  <2>4. CASE connected[s]
    <3>1. "issue" \in hold[s] /\ "disconnect" \notin hold[s]
      BY <2>1, <2>4 DEF SessionRefs
    <3>2. /\ hold'[s] = (hold[s] \ {"recv"}) \cup {"disconnect"}
          /\ \A t \in Sessions \ {s} : hold'[t] = hold[t]
          /\ UNCHANGED <<refCount, client>>
      BY <2>4 DEF RecvClosed, TypeInv, TypeOK, SessionTypes
    <3>3. Balanced(refCount[s], hold[s], JobsOf(s))'
      <4>1. IsFiniteSet(hold[s] \ {"recv"}) /\ IsFiniteSet(JobsOf(s))
        BY <2>1, FiniteHolders, FiniteJobs
      <4>2. Balanced(refCount[s] - 1, hold[s] \ {"recv"}, JobsOf(s)) /\ refCount[s] - 1 \in Int
        BY <2>1, SessionBalance
      <4>3. Balanced((refCount[s] - 1) + 1, (hold[s] \ {"recv"}) \cup {"disconnect"}, JobsOf(s))
        BY <3>1, <4>1, <4>2, Balance
      <4>4. (refCount[s] - 1) + 1 = refCount[s]
        BY <2>1
      <4>5. QED
        BY <2>2, <3>2, <4>3, <4>4
    <3>4. Returning(s)' <=> Returning(s)
      BY <3>2 DEF Returning
    <3>5. SessionRefs(s)'
      BY <2>1, <2>2, <2>3, <3>1, <3>2, <3>3, <3>4 DEF SessionRefs
    <3>6. QED
      BY <1>2, <2>2, <2>3, <3>2, <3>5, RefStep
  <2>5. CASE ~connected[s]
    <3>1. /\ hold'[s] = hold[s] \ {"recv"} /\ ReleaseRef(w, s, 1, "timer")
          /\ \A t \in Sessions \ {s} : hold'[t] = hold[t]
      BY <2>5 DEF RecvClosed, TypeInv, TypeOK, SessionTypes
    <3>2. Balanced(refCount[s] - 1, hold'[s], JobsOf(s)')
      BY <2>1, <2>2, <3>1, SessionBalance
    <3>3. "disconnect" \in hold'[s] => "issue" \in hold'[s]
      BY <2>1, <3>1 DEF SessionRefs
    <3>4. pc[w] \notin ReturnPCs /\ hold[s] # {} /\ hold'[s] \in SUBSET Holders
      BY <2>1, <3>1 DEF RecvClosed, ReturnPCs
    <3>5. \A t \in Sessions \ {s} :
            /\ hold'[t] = hold[t] /\ connected'[t] = connected[t]
            /\ conn'[t] = conn[t] /\ free'[t] = free[t]
            /\ \A v \in Workers : ctx'[v] = t <=> ctx[v] = t
            /\ \A c \in Contexts : job'[c].s = t <=> job[c].s = t
            /\ \A c \in Contexts : job[c].s = t => job'[c].conn = job[c].conn
      BY <2>2, <2>3, <3>1
    <3>6. /\ hold[s] # {} \/ JobsOf(s) # {}
          /\ connected'[s] => "issue" \in hold'[s] /\ "disconnect" \notin hold'[s]
          /\ free'[s] = free[s] /\ conn'[s] = conn[s]
          /\ \A v \in Workers : ctx'[v] = s => "recv" \in hold'[s] /\ ctx[v] = s
          /\ \A c \in Contexts : job'[c].s = s => job[c].s = s /\ job'[c].conn = job[c].conn
      BY <2>1, <2>2, <2>3, <3>4
    <3>7. ReleaseRef(w, s, 1, "timer") /\ pc[w] \notin ReturnPCs /\ hold'[s] \in SUBSET Holders
      BY <3>1, <3>4
    <3>8. QED
      BY <1>2, <3>2, <3>3, <3>5, <3>6, <3>7, RefRelease
  <2>6. QED
    BY <2>4, <2>5
<1>3. QED
  BY <1>1, <1>2

LEMMA RefRecvDone ==
  ASSUME TypeInv, RefInv, Running, NEW w \in Workers, RecvDone(w)
  PROVE  RefInv'
<1>0. SUFFICES ASSUME NEW s \in Sessions, s = ctx[w]
               PROVE  RefInv'
  BY InHand DEF RecvDone
<1>1. CASE stale
  BY <1>1 DEF RecvDone, RefInv
<1>2. CASE ~stale
  <2>1. /\ SessionRefs(s) /\ "recv" \in hold[s] /\ \A v \in Workers \ {w} : ctx[v] # s
        /\ hold[s] \in SUBSET Holders /\ refCount[s] \in Int
    BY <1>2, <1>0 DEF RefInv, SessionRefs, TypeInv, TypeOK, SessionTypes
  <2>2. UNCHANGED <<connected, conn, free, job>> /\ JobsOf(s)' = JobsOf(s)
    BY DEF RecvDone, poolVars, dbVars, JobsOf
  <2>3. /\ ctx'[w] = None /\ \A v \in Workers \ {w} : ctx'[v] = ctx[v]
    BY DEF RecvDone, TypeInv, TypeOK, WorkTypes
  <2>4. /\ \A v \in Workers : ctx'[v] # s
        /\ \A t \in Sessions \ {s}, v \in Workers : ctx'[v] = t <=> ctx[v] = t
    BY <1>0, <2>1, <2>3, SessionsAssumption
  <2>5. CASE connected[s]
    <3>1. UNCHANGED <<refCount, hold, client>>
      BY <1>0, <2>5 DEF RecvDone
    <3>2. Returning(s)' <=> Returning(s)
      BY <3>1 DEF Returning
    <3>3. SessionRefs(s)'
      BY <2>1, <2>2, <2>4, <3>1, <3>2 DEF SessionRefs
    <3>4. QED
      BY <1>2, <1>0, <2>2, <2>4, <3>1, <3>3, RefStep
  <2>6. CASE ~connected[s]
    <3>1. /\ hold'[s] = hold[s] \ {"recv"} /\ ReleaseRef(w, s, 1, "timer")
          /\ \A t \in Sessions \ {s} : hold'[t] = hold[t]
      BY <1>0, <2>6 DEF RecvDone, TypeInv, TypeOK, SessionTypes
    <3>2. Balanced(refCount[s] - 1, hold'[s], JobsOf(s)')
      BY <2>1, <2>2, <3>1, SessionBalance
    <3>3. "disconnect" \in hold'[s] => "issue" \in hold'[s]
      BY <2>1, <3>1 DEF SessionRefs
    <3>4. pc[w] \notin ReturnPCs /\ hold[s] # {} /\ hold'[s] \in SUBSET Holders
      BY <2>1, <3>1 DEF RecvDone, ReturnPCs
    <3>5. \A t \in Sessions \ {s} :
            /\ hold'[t] = hold[t] /\ connected'[t] = connected[t]
            /\ conn'[t] = conn[t] /\ free'[t] = free[t]
            /\ \A v \in Workers : ctx'[v] = t <=> ctx[v] = t
            /\ \A c \in Contexts : job'[c].s = t <=> job[c].s = t
            /\ \A c \in Contexts : job[c].s = t => job'[c].conn = job[c].conn
      BY <2>2, <2>4, <3>1
    <3>6. /\ hold[s] # {} \/ JobsOf(s) # {}
          /\ connected'[s] => "issue" \in hold'[s] /\ "disconnect" \notin hold'[s]
          /\ free'[s] = free[s] /\ conn'[s] = conn[s]
          /\ \A v \in Workers : ctx'[v] = s => "recv" \in hold'[s] /\ ctx[v] = s
          /\ \A c \in Contexts : job'[c].s = s => job[c].s = s /\ job'[c].conn = job[c].conn
      BY <2>2, <2>4, <2>6, <3>4
    <3>7. ReleaseRef(w, s, 1, "timer") /\ pc[w] \notin ReturnPCs /\ hold'[s] \in SUBSET Holders
      BY <3>1, <3>4
    <3>8. QED
      BY <1>2, <3>2, <3>3, <3>5, <3>6, <3>7, RefRelease
  <2>7. QED
    BY <2>5, <2>6
<1>3. QED
  BY <1>1, <1>2


\* A new job for the connection that has s, while something else refers to s.
LEMMA RefNewJob ==
  ASSUME TypeInv, RefInv, Running, ~stale, NEW c \in Contexts, NEW s \in Sessions,
         NEW kind \in {"load", "move"}, NEW p \in Players \cup {None}, NEW at \in Positions,
         NEW n \in Nat, NewJob(c, kind, s, p, at, n), n = conn[s], refCount[s] # 0,
         UNCHANGED <<connected, hold, conn, free, ctx, client>>
  PROVE  RefInv'
<1>1. SessionRefs(s) /\ SessionTypes /\ DbTypes
  BY DEF RefInv, TypeInv, TypeOK
<1>2. /\ place[c] = "pool"
      /\ job'[c] = [kind |-> kind, s |-> s, pid |-> p, at |-> at, conn |-> n, ok |-> FALSE]
      /\ \A d \in Contexts \ {c} : job'[d] = job[d]
      /\ \A t \in Sessions : refCount'[t] = IF t = s THEN refCount[s] + 1 ELSE refCount[t]
  BY <1>1, NewJobEffect
<1>3. job[c].s = None /\ job'[c].s = s /\ job'[c].conn = n
  BY <1>2 DEF TypeInv, Placed, PlacedAt
<1>4. JobsOf(s)' = JobsOf(s) \cup {c} /\ c \notin JobsOf(s)
  BY <1>2, <1>3, SessionsAssumption DEF JobsOf
<1>5. free[s] = 0 /\ ~Returning(s) /\ ~Returning(s)'
  <2>1. hold[s] # {} \/ JobsOf(s) # {}
    BY <1>1, SessionBalance
  <2>2. QED
    BY <1>1, <2>1 DEF SessionRefs, Returning
<1>6. SessionRefs(s)'
  <2>1. Balanced(refCount[s], hold[s], JobsOf(s))'
    <3>1. Balanced(refCount[s] + 1, hold[s], JobsOf(s) \cup {c})
      BY <1>1, <1>4, SessionBalance
    <3>2. refCount'[s] = refCount[s] + 1 /\ hold'[s] = hold[s]
      BY <1>2
    <3>3. QED
      BY <1>4, <3>1, <3>2
  <2>2. \A d \in JobsOf(s)' : job'[d].conn = conn'[s]
    <3>1. \A d \in JobsOf(s) : job'[d].conn = conn[s]
      BY <1>1, <1>2, <1>4 DEF SessionRefs, JobsOf
    <3>2. job'[c].conn = conn[s] /\ conn'[s] = conn[s]
      BY <1>3
    <3>3. QED
      BY <1>4, <3>1, <3>2
  <2>3. QED
    BY <1>1, <1>5, <2>1, <2>2 DEF SessionRefs
<1>7. \A t \in Sessions \ {s} :
        /\ refCount'[t] = refCount[t]
        /\ \A d \in Contexts : job'[d].s = t <=> job[d].s = t
        /\ \A d \in Contexts : job[d].s = t => job'[d].conn = job[d].conn
  BY <1>2, <1>3, SessionsAssumption
<1>8. QED
  BY <1>6, <1>7, RefStep

LEMMA RefRequestUpdatePosition ==
  ASSUME TypeInv, RefInv, Running, NEW w \in Workers, NEW c \in Contexts, NEW x \in Positions,
         RequestUpdatePosition(w, c, x)
  PROVE  RefInv'
<1>1. CASE stale
  BY <1>1 DEF RequestUpdatePosition, RefInv
<1>2. CASE ~stale
  <2>0. SUFFICES ASSUME NEW s \in Sessions, s = ctx[w]
                 PROVE  RefInv'
    BY InHand DEF RequestUpdatePosition
  <2>1. SessionRefs(s) /\ "recv" \in hold[s]
    BY <1>2, <2>0 DEF RefInv, SessionRefs
  <2>2. refCount[s] # 0
    BY <2>1, SessionBalance
  <2>3. playerId[s] \in Players \cup {None} /\ conn[s] \in Nat
    BY DEF TypeInv, TypeOK, PlayerTypes, SessionTypes
  <2>4. /\ NewJob(c, "move", s, playerId[s], x, conn[s])
        /\ UNCHANGED <<connected, hold, conn, free, ctx, client>>
    BY <2>0 DEF RequestUpdatePosition, poolVars
  <2>5. QED
    BY <1>2, <2>2, <2>3, <2>4, RefNewJob
<1>3. QED
  BY <1>1, <1>2

\* RunLoad keeps the invariant because stale is set when it would not.
LEMMA RefRunLoad ==
  ASSUME TypeInv, RefInv, Running, NEW w \in Workers, NEW c \in Contexts, RunLoad(w, c)
  PROVE  RefInv'
<1>1. CASE stale'
  BY <1>1 DEF RefInv
<1>2. CASE ~stale'
  <2>0. SUFFICES ASSUME NEW e \in TimerJob, e = timer[w][1], e.pid \in Players
                 PROVE  RefInv'
    BY TopIsJob DEF RunLoad, Due
  <2>1. e.s \in Sessions /\ e.conn \in Nat /\ ~stale /\ refCount[e.s] # 0 /\ e.conn = conn[e.s]
    BY <1>2, <2>0 DEF RunLoad, TimerJob
  <2>2. /\ NewJob(c, "load", e.s, e.pid, Origin, e.conn)
        /\ UNCHANGED <<connected, hold, conn, free, ctx, client>>
    BY <2>0 DEF RunLoad, poolVars
  <2>3. QED
    BY <2>0, <2>1, <2>2, RefNewJob, OriginAssumption
<1>3. QED
  BY <1>1, <1>2

LEMMA RefDeleteJob ==
  ASSUME TypeInv, RefInv, Running, NEW w \in Workers, NEW c \in Contexts, DeleteJob(w, c)
  PROVE  RefInv'
<1>1. CASE stale
  BY <1>1 DEF DeleteJob, RefInv
<1>2. CASE ~stale
  <2>0. SUFFICES ASSUME NEW s \in Sessions, s = job[c].s
                 PROVE  RefInv'
    BY JobInHand DEF DeleteJob
  <2>1. SessionRefs(s) /\ c \in JobsOf(s) /\ refCount[s] \in Int /\ hold[s] \in SUBSET Holders
    BY <1>2, <2>0 DEF RefInv, JobsOf, TypeInv, TypeOK, SessionTypes
  <2>2. /\ job' = [job EXCEPT ![c] = NoJob] /\ ReleaseRef(w, s, 1, "timer")
        /\ pc[w] \notin ReturnPCs
        /\ UNCHANGED <<connected, hold, conn, free, ctx>>
    BY <2>0 DEF DeleteJob, ReturnPCs, poolVars
  <2>3. job'[c].s = None /\ \A d \in Contexts \ {c} : job'[d] = job[d]
    BY <2>2 DEF TypeInv, TypeOK, DbTypes, NoJob
  <2>4. JobsOf(s)' = JobsOf(s) \ {c}
    BY <2>3, SessionsAssumption DEF JobsOf
  <2>5. Balanced(refCount[s] - 1, hold'[s], JobsOf(s)')
    BY <2>1, <2>2, <2>4, SessionBalance
  <2>6. /\ \A t \in Sessions \ {s}, d \in Contexts : job'[d].s = t <=> job[d].s = t
        /\ \A t \in Sessions \ {s}, d \in Contexts : job[d].s = t => job'[d].conn = job[d].conn
        /\ \A d \in Contexts : job'[d].s = s => job[d].s = s /\ job'[d].conn = job[d].conn
    BY <2>0, <2>3, SessionsAssumption
  <2>7. /\ connected[s] => "issue" \in hold[s] /\ "disconnect" \notin hold[s]
        /\ "disconnect" \in hold[s] => "issue" \in hold[s]
        /\ \A v \in Workers : ctx[v] = s => "recv" \in hold[s]
        /\ JobsOf(s) # {}
    BY <2>1 DEF SessionRefs
  <2>8. QED
    BY <1>2, <2>1, <2>2, <2>5, <2>6, <2>7, RefRelease
<1>3. QED
  BY <1>1, <1>2

LEMMA RefAnswered ==
  ASSUME TypeInv, RefInv, Running, NEW c \in Contexts, NEW ok \in BOOLEAN, NEW x \in Positions,
         Answered(c, ok, x), UNCHANGED <<sessionVars, poolVars, workVars, stale, halt>>
  PROVE  RefInv'
<1>1. \A d \in Contexts : job'[d].s = job[d].s /\ job'[d].conn = job[d].conn
  BY AnsweredEffect DEF TypeInv, TypeOK
<1>2. QED
  BY <1>1, RefUnchanged DEF sessionVars, poolVars, workVars, Running

LEMMA RefDatabase ==
  ASSUME TypeInv, RefInv, Running, NEW c \in Contexts, DbLoads(c) \/ DbUpdates(c) \/ DbFails(c)
  PROVE  RefInv'
<1>1. CASE DbLoads(c)
  <2>1. dbPos[job[c].pid] \in Positions
    BY <1>1, JobInHand DEF DbLoads, TypeInv, TypeOK, DbTypes
  <2>2. QED
    BY <1>1, <2>1, RefAnswered DEF DbLoads
<1>2. CASE DbUpdates(c) \/ DbFails(c)
  <2>1. job[c].at \in Positions
    BY JobInHand
  <2>2. QED
    BY <1>2, <2>1, RefAnswered DEF DbUpdates, DbFails
<1>3. QED
  BY <1>1, <1>2

LEMMA RefReturnReset ==
  ASSUME TypeInv, RefInv, Running, NEW w \in Workers, ReturnReset(w)
  PROVE  RefInv'
<1>1. CASE stale
  BY <1>1 DEF ReturnReset, RefInv
<1>2. CASE ~stale
  <2>0. SUFFICES ASSUME NEW s \in Sessions, s = client[w]
                 PROVE  RefInv'
    BY InHand DEF ReturnReset, ReturnPCs
  <2>1. SessionRefs(s) /\ Returning(s)
    BY <1>2, <2>0 DEF RefInv, Returning
  <2>2. refCount[s] = 0 /\ ~connected[s]
    BY <2>1, SessionBalance DEF SessionRefs
  <2>3. UNCHANGED <<connected, refCount>>
    BY <2>0, <2>2 DEF ReturnReset, TypeInv, TypeOK, SessionTypes
  <2>4. QED
    BY <1>2, <2>3, RefUnchanged DEF ReturnReset, poolVars, dbVars, Running
<1>3. QED
  BY <1>1, <1>2

LEMMA RefReturnPush ==
  ASSUME TypeInv, RefInv, Running, NEW w \in Workers, ReturnPush(w)
  PROVE  RefInv'
<1>1. CASE stale
  BY <1>1 DEF ReturnPush, RefInv
<1>2. CASE ~stale
  <2>0. SUFFICES ASSUME NEW s \in Sessions, s = client[w]
                 PROVE  RefInv'
    BY InHand DEF ReturnPush, ReturnPCs
  <2>1. SessionRefs(s) /\ Returning(s) /\ s # None
    BY <1>2, <2>0, SessionsAssumption DEF RefInv, Returning
  <2>2. free[s] = 0
    BY <2>1 DEF SessionRefs
  <2>3. /\ free'[s] = 1 /\ \A t \in Sessions \ {s} : free'[t] = free[t]
        /\ client'[w] = None /\ \A v \in Workers \ {w} : client'[v] = client[v]
        /\ UNCHANGED <<connected, refCount, hold, conn, job, ctx>>
    BY <2>0, <2>2 DEF ReturnPush, TypeInv, TypeOK, PoolTypes, WorkTypes, sessionVars, dbVars
  <2>4. \A v \in Workers : client'[v] # s
    BY <2>0, <2>1, <2>3 DEF SessionRefs
  <2>5. JobsOf(s)' = JobsOf(s) /\ ~Returning(s)'
    BY <2>3, <2>4 DEF JobsOf, Returning
  <2>6. SessionRefs(s)'
    BY <2>1, <2>3, <2>4, <2>5 DEF SessionRefs
  <2>7. \A t \in Sessions \ {s}, v \in Workers : client'[v] = t <=> client[v] = t
    BY <2>0, <2>3, SessionsAssumption
  <2>8. QED
    BY <1>2, <2>3, <2>6, <2>7, RefStep
<1>3. QED
  BY <1>1, <1>2

LEMMA RefInit == Init => RefInv
<1> SUFFICES ASSUME Init, NEW s \in Sessions
             PROVE  SessionRefs(s)
  BY DEF RefInv
<1>1. JobsOf(s) = {} /\ ~Returning(s)
  BY SessionsAssumption DEF Init, JobsOf, NoJob, Returning
<1>2. Balanced(refCount[s], hold[s], JobsOf(s))
  BY <1>1, FS_EmptySet DEF Init, Balanced
<1>3. \A w \in Workers : ctx[w] # s /\ client[w] # s
  BY SessionsAssumption DEF Init
<1>4. QED
  BY <1>1, <1>2, <1>3 DEF Init, SessionRefs

LEMMA RefNext == TypeInv /\ RefInv /\ [Next]_vars => RefInv'
<1> SUFFICES ASSUME TypeInv, RefInv, [Next]_vars
             PROVE  RefInv'
  OBVIOUS
<1>1. ASSUME Running, NEW w \in Workers,
             \/ \E c \in Contexts : TakeResult(w, c) \/ ResponseLoad(w, c)
                                      \/ ResponseUpdatePosition(w, c) \/ OnFail(w, c)
             \/ WaitTimeout(w) \/ TimerStart(w) \/ RunTick(w) \/ TimerPop(w) \/ TimerStop(w)
             \/ ReturnAssert(w)
      PROVE  RefInv'
  <2>1. /\ UNCHANGED <<connected, refCount, hold, conn, free, ctx, client, stale>>
        /\ UNCHANGED job
    BY <1>1 DEF TakeResult, ResponseLoad, ResponseUpdatePosition, OnFail, WaitTimeout, TimerStart,
         RunTick, TimerPop, TimerStop, ReturnAssert, sessionVars, poolVars, dbVars
  <2>2. QED
    BY <1>1, <2>1, RefUnchanged
<1>2. ASSUME NEW w \in Workers, Step(w)
      PROVE  RefInv'
  BY <1>1, <1>2, RefDeleteJob, RefRunLoad, RefRequestUpdatePosition, RefRecvDone, RefReturnReset,
     RefReturnPush DEF Step
<1>3. ASSUME NEW w \in Workers, Receive(w)
      PROVE  RefInv'
  <2>1. ASSUME Running, NEW s \in Sessions, NEW p \in Players \cup {None},
               (p \in Players /\ RecvLogin(w, s, p)) \/ RecvMove(w, s, p)
        PROVE  RefInv'
    BY <2>1, RefReceive DEF RecvLogin, RecvMove, sessionVars, poolVars, dbVars
  <2>2. QED
    BY <1>3, <2>1, RefRecvClosed DEF Receive
<1>4. ASSUME NEW s \in Sessions, Disconnected(s)
      PROVE  RefInv'
  BY <1>4, RefDisconnectCompletion DEF Disconnected
<1>5. CASE Database
  BY <1>5, RefDatabase DEF Database
<1>6. CASE Environment
  <2>1. CASE Tick
    BY <1>6, <2>1, RefUnchanged DEF Environment, Tick, sessionVars, poolVars, dbVars, workVars
  <2>2. QED
    BY <1>6, <2>1, RefIssue, RefDisconnectRequest DEF Environment
<1>7. CASE UNCHANGED vars
  BY <1>7, RefUnchanged DEF vars, sessionVars, poolVars, dbVars, workVars, Running
<1>8. QED
  BY <1>2, <1>3, <1>4, <1>5, <1>6, <1>7 DEF Next

LEMMA RefInvariant == Spec => []RefInv
<1>1. QED
  BY RefInit, RefNext, TypeInvariant, PTL DEF Spec

\* mRefCount is exactly what still refers to the session, whatever the I/O workers, the
\* database threads and the timers do in whatever order, until a login outlives its
\* connection.
THEOREM ReferencesExact == Spec => []RefCountExact
<1>1. RefInv => RefCountExact
  BY DEF RefInv, SessionRefs, Balanced, RefCountExact
<1>2. QED
  BY <1>1, RefInvariant, PTL

\* A database job keeps its session from the free list and from the next client.
THEOREM AnswersForAsker == Spec => []AnswersReachAsker
<1>1. RefInv => AnswersReachAsker
  BY DEF RefInv, SessionRefs, AnswersReachAsker
<1>2. QED
  BY <1>1, RefInvariant, PTL

-----------------------------------------------------------------------------
(* Whose player it is *)

\* A delayed login that is still for the connection that has the session loads a player that
\* this connection asked for.
LoadsAsked == \A w \in Workers : \A e \in Range(timer[w]) : e.task = "load" =>
  /\ e.conn <= conn[e.s]
  /\ e.conn = conn[e.s] => e.pid \in asked[e.s]

\* So do the jobs of a session, with a position the database has held for that player if they
\* succeed, and its player, with a position held for one of those this connection asked for.
SessionPlayer(s) ==
  /\ playerId[s] \in {None} \cup asked[s]
  /\ free[s] > 0 => playerId[s] = None
  /\ playerId[s] # None => \E p \in asked[s] : pos[s] \in held[p]
  /\ \A c \in Contexts : job[c].s = s =>
       /\ job[c].pid \in {None} \cup asked[s]
       /\ job[c].ok => job[c].pid # None /\ job[c].at \in held[job[c].pid]
AskInv == Running /\ ~stale => \A s \in Sessions : SessionPlayer(s)
HeldNow == \A p \in Players : dbPos[p] \in held[p]

LEMMA PushRange ==
  ASSUME TypeInv, NEW w \in Workers, NEW e \in TimerJob,
         timer' = [timer EXCEPT ![w] = Push(@, e)]
  PROVE  /\ Range(timer'[w]) \subseteq Range(timer[w]) \cup {e}
         /\ \A v \in Workers \ {w} : timer'[v] = timer[v]
<1> DEFINE E == Range(timer[w]) \cup {e}
<1>1. timer \in [Workers -> Seq(TimerJob)]
  BY DEF TypeInv, TypeOK, TimerTypes
<1>2. timer[w] \in Seq(E) /\ e \in E
  BY <1>1, SeqOfRange, SeqMonotonic
<1> HIDE DEF E
<1>3. Range(Push(timer[w], e)) \in SUBSET E
  BY <1>2, PushEffect, RangeOfSeq
<1>4. QED
  BY <1>1, <1>3 DEF E

LEMMA PopRange ==
  ASSUME TypeInv, NEW w \in Workers, TimerPop(w)
  PROVE  /\ Range(timer'[w]) \subseteq Range(timer[w])
         /\ \A v \in Workers \ {w} : timer'[v] = timer[v]
<1>1. timer \in [Workers -> Seq(TimerJob)] /\ timer[w] # <<>>
  BY DEF TypeInv, TypeOK, TimerTypes, TimerTopIsRun, TimerPop
<1>2. PICK r \in Popped(timer[w]) : timer' = [timer EXCEPT ![w] = r]
  BY DEF TimerPop
<1>3. timer[w] \in Seq(Range(timer[w]))
  BY <1>1, SeqOfRange
<1>4. Range(r) \in SUBSET Range(timer[w])
  BY <1>1, <1>2, <1>3, PopEffect, RangeOfSeq
<1>5. QED
  BY <1>1, <1>2, <1>4

LEMMA LoadsUnchanged == LoadsAsked /\ UNCHANGED <<timer, conn, asked>> => LoadsAsked'
  BY DEF LoadsAsked

LEMMA LoadsInit == Init => LoadsAsked
<1>1. Range(<<>>) = {}
  BY DEF Range
<1>2. QED
  BY <1>1 DEF Init, LoadsAsked

LEMMA LoadsIssue ==
  ASSUME TypeInv, LoadsAsked, NEW s \in Sessions, Issue(s)
  PROVE  LoadsAsked'
<1>1. UNCHANGED timer
  BY DEF Issue, timerVars
<1>2. CASE hold[s] = {}
  <2>1. /\ conn' = [conn EXCEPT ![s] = @ + 1] /\ asked' = [asked EXCEPT ![s] = {}]
        /\ conn \in [Sessions -> Nat] /\ asked \in [Sessions -> SUBSET Players]
    BY <1>2 DEF Issue, TypeInv, TypeOK, SessionTypes
  <2>2. SUFFICES ASSUME NEW w \in Workers, NEW e \in Range(timer[w]), e.task = "load"
                 PROVE  e.conn <= conn'[e.s] /\ (e.conn = conn'[e.s] => e.pid \in asked'[e.s])
    BY <1>1 DEF LoadsAsked
  <2>3. e.conn <= conn[e.s] /\ (e.conn = conn[e.s] => e.pid \in asked[e.s])
    BY <2>2 DEF LoadsAsked
  <2>4. e \in TimerJob
    <3>1. Range(timer[w]) \in SUBSET TimerJob
      BY RangeOfSeq DEF TypeInv, TypeOK, TimerTypes
    <3>2. QED
      BY <3>1
  <2>5. e.s \in Sessions /\ e.conn \in Nat
    BY <2>4 DEF TimerJob
  <2>6. CASE e.s = s
    BY <2>1, <2>3, <2>5, <2>6
  <2>7. CASE e.s # s
    BY <2>1, <2>3, <2>5, <2>7
  <2>8. QED
    BY <2>6, <2>7
<1>3. CASE hold[s] # {}
  BY <1>1, <1>3, LoadsUnchanged DEF Issue, sessionVars
<1>4. QED
  BY <1>2, <1>3

LEMMA LoadsRecvLogin ==
  ASSUME TypeInv, LoadsAsked, NEW w \in Workers, NEW s \in Sessions, NEW p \in Players,
         RecvLogin(w, s, p)
  PROVE  LoadsAsked'
<1> DEFINE e == [task |-> "load", s |-> s, pid |-> p, conn |-> conn[s],
                 due |-> DueTime(LoginDelay, lTick[w])]
<1>1. /\ conn[s] \in Nat /\ asked \in [Sessions -> SUBSET Players]
      /\ lTick[w] \in Nat /\ LoginDelay \in Nat
  BY BoundsAssumption DEF TypeInv, TypeOK, SessionTypes, TimerTypes
<1>2. e \in TimerJob
  BY <1>1 DEF TimerJob, DueTime
<1>3. /\ timer' = [timer EXCEPT ![w] = Push(@, e)] /\ conn' = conn
      /\ asked' = [asked EXCEPT ![s] = @ \cup {p}]
  BY DEF RecvLogin
<1>4. e.task = "load" /\ e.s = s /\ e.conn = conn[s] /\ e.pid = p
  OBVIOUS
<1> HIDE DEF e
<1>5. \A v \in Workers : Range(timer'[v]) \subseteq Range(timer[v]) \cup {e}
  BY <1>2, <1>3, PushRange
<1>6. SUFFICES ASSUME NEW v \in Workers, NEW f \in Range(timer'[v]), f.task = "load"
               PROVE  f.conn <= conn[f.s] /\ (f.conn = conn[f.s] => f.pid \in asked'[f.s])
  BY <1>3 DEF LoadsAsked
<1>7. CASE f = e
  BY <1>1, <1>3, <1>4, <1>7
<1>8. CASE f \in Range(timer[v])
  <2>1. f.conn <= conn[f.s] /\ (f.conn = conn[f.s] => f.pid \in asked[f.s])
    BY <1>6, <1>8 DEF LoadsAsked
  <2>2. \A t \in Sessions : asked[t] \subseteq asked'[t]
    BY <1>1, <1>3
  <2>3. f.s \in Sessions
    <3>1. Range(timer[v]) \in SUBSET TimerJob
      BY RangeOfSeq DEF TypeInv, TypeOK, TimerTypes
    <3>2. QED
      BY <1>8, <3>1 DEF TimerJob
  <2>4. QED
    BY <2>1, <2>2, <2>3
<1>9. QED
  BY <1>5, <1>7, <1>8

\* A tick more, or a job less, changes no load.
LEMMA LoadsTick ==
  ASSUME TypeInv, LoadsAsked, NEW w \in Workers,
         \/ \E c \in Contexts : ResponseLoad(w, c)
         \/ RunTick(w) \/ TimerPop(w)
  PROVE  LoadsAsked'
<1>1. UNCHANGED <<conn, asked>>
  BY DEF ResponseLoad, RunTick, TimerPop, sessionVars
<1>2. \A v \in Workers : \A e \in Range(timer'[v]) :
        e \in Range(timer[v]) \/ e.task = "tick"
  <2>1. ASSUME NEW c \in Contexts, ResponseLoad(w, c)
        PROVE  \A v \in Workers : \A e \in Range(timer'[v]) :
                 e \in Range(timer[v]) \/ e.task = "tick"
    <3>1. /\ job[c].s \in Sessions /\ job[c].conn \in Nat
          /\ lTick[w] \in Nat /\ HeartBeat \in Nat
      BY <2>1, JobInHand, BoundsAssumption
         DEF ResponseLoad, Answering, TypeInv, TypeOK, TimerTypes
    <3> DEFINE e == [task |-> "tick", s |-> job[c].s, pid |-> None, conn |-> job[c].conn,
                     due |-> DueTime(HeartBeat, lTick[w])]
    <3>2. e \in TimerJob /\ e.task = "tick"
      BY <3>1 DEF TimerJob, DueTime
    <3>3. timer' = [timer EXCEPT ![w] = Push(@, e)]
      BY <2>1 DEF ResponseLoad
    <3> HIDE DEF e
    <3>4. QED
      BY <3>2, <3>3, PushRange
  <2>2. CASE RunTick(w)
    <3> DEFINE d == DueTime(HeartBeat, lTick[w])
               e == [timer[w][1] EXCEPT !.due = d]
    <3>1. timer[w][1] \in TimerJob /\ timer[w][1].task = "tick" /\ d \in Nat
      BY <2>2, TopIsJob, BoundsAssumption
         DEF RunTick, Due, TypeInv, TypeOK, TimerTypes, DueTime
    <3> HIDE DEF d
    <3>2. e \in TimerJob /\ e.task = "tick"
      BY <3>1 DEF TimerJob
    <3>3. CASE UNCHANGED timer
      BY <3>3
    <3>4. CASE timer' = [timer EXCEPT ![w] = Push(@, e)]
      <4> HIDE DEF e
      <4>1. QED
        BY <3>2, <3>4, PushRange
    <3>5. QED
      BY <2>2, <3>3, <3>4 DEF RunTick, d
  <2>3. CASE TimerPop(w)
    BY <2>3, PopRange
  <2>4. QED
    BY <2>1, <2>2, <2>3
<1>3. \A e : e.task = "tick" => e.task # "load"
  OBVIOUS
<1>4. QED
  BY <1>1, <1>2, <1>3 DEF LoadsAsked

LEMMA LoadsNext == TypeInv /\ LoadsAsked /\ [Next]_vars => LoadsAsked'
<1> SUFFICES ASSUME TypeInv, LoadsAsked, [Next]_vars
             PROVE  LoadsAsked'
  OBVIOUS
<1>1. ASSUME NEW w \in Workers, Step(w)
      PROVE  LoadsAsked'
  <2>1. CASE (\E c \in Contexts : ResponseLoad(w, c)) \/ RunTick(w) \/ TimerPop(w)
    BY <2>1, LoadsTick
  <2>2. CASE UNCHANGED <<timer, conn, asked>>
    BY <2>2, LoadsUnchanged
  <2>3. QED
    BY <1>1, <2>1, <2>2
       DEF Step, TakeResult, ResponseUpdatePosition, OnFail, DeleteJob, RunLoad,
           RequestUpdatePosition, RecvDone, WaitTimeout, TimerStart, TimerStop, ReturnAssert,
           ReturnReset, ReturnPush, sessionVars, timerVars
<1>2. ASSUME NEW w \in Workers, Receive(w)
      PROVE  LoadsAsked'
  <2>1. CASE UNCHANGED <<timer, conn, asked>>
    BY <2>1, LoadsUnchanged
  <2>2. QED
    BY <1>2, <2>1, LoadsRecvLogin DEF Receive, RecvMove, RecvClosed, sessionVars, timerVars
<1>3. ASSUME NEW s \in Sessions, Disconnected(s)
      PROVE  LoadsAsked'
  BY <1>3, LoadsUnchanged DEF Disconnected, DisconnectCompletion, timerVars
<1>4. CASE Database
  BY <1>4, LoadsUnchanged DEF Database, DbLoads, DbUpdates, DbFails, sessionVars, timerVars
<1>5. CASE Environment
  BY <1>5, LoadsUnchanged, LoadsIssue
     DEF Environment, Tick, DisconnectRequest, sessionVars, timerVars
<1>6. CASE UNCHANGED vars
  BY <1>6, LoadsUnchanged DEF vars, sessionVars, timerVars
<1>7. QED
  BY <1>1, <1>2, <1>3, <1>4, <1>5, <1>6 DEF Next


\* A step that leaves the players of the other sessions alone.
LEMMA AskStep ==
  ASSUME AskInv, Running, ~stale, NEW s \in Sessions, DbTypes,
         \A t \in Sessions \ {s} :
           /\ playerId'[t] = playerId[t] /\ pos'[t] = pos[t] /\ asked'[t] = asked[t]
           /\ free'[t] = free[t]
           /\ \A c \in Contexts : job'[c].s = t => job'[c] = job[c],
         UNCHANGED held,
         Running' /\ ~stale' => SessionPlayer(s)'
  PROVE  AskInv'
<1>1. SUFFICES ASSUME Running', ~stale', NEW t \in Sessions \ {s}
               PROVE  SessionPlayer(t)'
  BY DEF AskInv
<1>2. SessionPlayer(t)
  BY DEF AskInv
<1>3. QED
  BY <1>2 DEF SessionPlayer

LEMMA AskUnchanged ==
  ASSUME AskInv, UNCHANGED <<playerId, pos, asked, free, job, held>>,
         Running' /\ ~stale' => Running /\ ~stale
  PROVE  AskInv'
  BY DEF AskInv, SessionPlayer

LEMMA AskIssue ==
  ASSUME TypeInv, RefInv, AskInv, Running, NEW s \in Sessions, Issue(s)
  PROVE  AskInv'
<1>1. CASE stale
  BY <1>1 DEF Issue, AskInv
<1>2. CASE ~stale
  <2>1. /\ hold[s] = {} /\ JobsOf(s) = {} /\ playerId[s] = None
    BY <1>2 DEF Issue, RefInv, SessionRefs, AskInv, SessionPlayer
  <2>2. /\ asked' = [asked EXCEPT ![s] = {}] /\ free' = [free EXCEPT ![s] = @ - 1]
        /\ UNCHANGED <<playerId, pos, job, held>>
    BY <2>1 DEF Issue, playerVars, dbVars
  <2>3. SessionPlayer(s)'
    BY <2>1, <2>2 DEF SessionPlayer, JobsOf, TypeInv, TypeOK, SessionTypes
  <2>4. QED
    BY <1>2, <2>2, <2>3, AskStep DEF TypeInv, TypeOK, SessionTypes, PoolTypes
<1>3. QED
  BY <1>1, <1>2

LEMMA AskRecvLogin ==
  ASSUME TypeInv, AskInv, Running, NEW w \in Workers, NEW s \in Sessions, NEW p \in Players,
         RecvLogin(w, s, p)
  PROVE  AskInv'
<1>1. CASE stale
  BY <1>1 DEF RecvLogin, AskInv
<1>2. CASE ~stale
  <2>1. /\ asked' = [asked EXCEPT ![s] = @ \cup {p}]
        /\ UNCHANGED <<playerId, pos, free, job, held>>
    BY DEF RecvLogin, playerVars, poolVars, dbVars
  <2>2. SessionPlayer(s)
    BY <1>2 DEF AskInv
  <2>3. asked[s] \subseteq asked'[s]
    BY <2>1 DEF TypeInv, TypeOK, SessionTypes
  <2>4. SessionPlayer(s)'
    BY <2>1, <2>2, <2>3 DEF SessionPlayer
  <2>5. QED
    BY <1>2, <2>1, <2>4, AskStep DEF TypeInv, TypeOK, SessionTypes
<1>3. QED
  BY <1>1, <1>2

LEMMA AskNewJob ==
  ASSUME TypeInv, AskInv, Running, ~stale, NEW c \in Contexts, NEW s \in Sessions,
         NEW kind \in {"load", "move"}, NEW p \in Players \cup {None}, NEW at \in Positions,
         NEW n \in Nat, NewJob(c, kind, s, p, at, n), p \in {None} \cup asked[s],
         UNCHANGED <<playerId, pos, asked, free, held>>
  PROVE  AskInv'
<1>1. SessionTypes /\ DbTypes /\ SessionPlayer(s)
  BY DEF TypeInv, TypeOK, AskInv
<1>2. /\ job'[c] = [kind |-> kind, s |-> s, pid |-> p, at |-> at, conn |-> n, ok |-> FALSE]
      /\ \A d \in Contexts \ {c} : job'[d] = job[d]
  BY <1>1, NewJobEffect
<1>3. job'[c].s = s /\ job'[c].pid = p /\ job'[c].ok = FALSE
  BY <1>2
<1>4. SessionPlayer(s)'
  BY <1>1, <1>2, <1>3 DEF SessionPlayer
<1>5. QED
  BY <1>1, <1>2, <1>3, <1>4, AskStep

LEMMA AskRequestUpdatePosition ==
  ASSUME TypeInv, AskInv, Running, NEW w \in Workers, NEW c \in Contexts, NEW x \in Positions,
         RequestUpdatePosition(w, c, x)
  PROVE  AskInv'
<1>1. CASE stale
  BY <1>1 DEF RequestUpdatePosition, AskInv
<1>2. CASE ~stale
  <2>0. SUFFICES ASSUME NEW s \in Sessions, s = ctx[w]
                 PROVE  AskInv'
    BY InHand DEF RequestUpdatePosition
  <2>1. /\ playerId[s] \in Players \cup {None} /\ conn[s] \in Nat
        /\ playerId[s] \in {None} \cup asked[s]
    BY <1>2 DEF TypeInv, TypeOK, PlayerTypes, SessionTypes, AskInv, SessionPlayer
  <2>2. /\ NewJob(c, "move", s, playerId[s], x, conn[s])
        /\ UNCHANGED <<playerId, pos, asked, free, held>>
    BY <2>0 DEF RequestUpdatePosition, playerVars, poolVars
  <2>3. QED
    BY <1>2, <2>1, <2>2, AskNewJob
<1>3. QED
  BY <1>1, <1>2

LEMMA AskRunLoad ==
  ASSUME TypeInv, LoadsAsked, AskInv, Running, NEW w \in Workers, NEW c \in Contexts,
         RunLoad(w, c)
  PROVE  AskInv'
<1>1. CASE stale'
  BY <1>1 DEF AskInv
<1>2. CASE ~stale'
  <2>0. SUFFICES ASSUME NEW e \in TimerJob, e = timer[w][1], e.pid \in Players,
                        e \in Range(timer[w])
                 PROVE  AskInv'
    BY TopIsJob DEF RunLoad, Due
  <2>1. e.s \in Sessions /\ e.conn \in Nat /\ ~stale /\ e.conn = conn[e.s] /\ e.task = "load"
    BY <1>2, <2>0 DEF RunLoad, TimerJob
  <2>2. e.pid \in asked[e.s]
    BY <2>0, <2>1 DEF LoadsAsked
  <2>3. /\ NewJob(c, "load", e.s, e.pid, Origin, e.conn)
        /\ UNCHANGED <<playerId, pos, asked, free, held>>
    BY <2>0 DEF RunLoad, playerVars, poolVars
  <2>4. QED
    BY <2>0, <2>1, <2>2, <2>3, AskNewJob, OriginAssumption
<1>3. QED
  BY <1>1, <1>2

\* What a database thread answers is, or has just become, a position it holds.
LEMMA AskAnswered ==
  ASSUME TypeInv, AskInv, Running, NEW c \in Contexts, NEW ok \in BOOLEAN, NEW x \in Positions,
         Answered(c, ok, x), UNCHANGED <<playerVars, asked, free, stale, halt>>,
         \A p \in Players : held[p] \subseteq held'[p],
         ok => job[c].pid \in Players /\ x \in held'[job[c].pid]
  PROVE  AskInv'
<1>1. /\ job'[c].ok = ok /\ job'[c].at = x /\ job'[c].s = job[c].s /\ job'[c].pid = job[c].pid
      /\ \A d \in Contexts \ {c} : job'[d] = job[d]
  BY AnsweredEffect DEF TypeInv, TypeOK
<1>2. SUFFICES ASSUME Running', ~stale', NEW s \in Sessions
               PROVE  SessionPlayer(s)'
  BY DEF AskInv
<1>3. SessionPlayer(s) /\ playerId[s] \in Players \cup {None}
  BY <1>2 DEF AskInv, TypeInv, TypeOK, PlayerTypes
<1>4. playerId'[s] # None => \E p \in asked'[s] : pos'[s] \in held'[p]
  <2>1. asked[s] \subseteq Players
    BY DEF TypeInv, TypeOK, SessionTypes
  <2>2. QED
    BY <1>3, <2>1 DEF SessionPlayer, playerVars
<1>5. ASSUME NEW d \in Contexts, job'[d].s = s
      PROVE  /\ job'[d].pid \in {None} \cup asked[s]
             /\ job'[d].ok => job'[d].pid # None /\ job'[d].at \in held'[job'[d].pid]
  <2>1. CASE d = c
    BY <1>1, <1>3, <1>5, <2>1, PlayersAssumption DEF SessionPlayer
  <2>2. CASE d # c
    <3>1. job'[d] = job[d] /\ job[d].pid \in Players \cup {None}
      BY <1>1, <2>2, JobInHand
    <3>2. QED
      BY <1>3, <1>5, <3>1 DEF SessionPlayer
  <2>3. QED
    BY <2>1, <2>2
<1>6. QED
  BY <1>3, <1>4, <1>5 DEF SessionPlayer, playerVars

LEMMA AskDatabase ==
  ASSUME TypeInv, AskInv, HeldNow, Running, NEW c \in Contexts,
         DbLoads(c) \/ DbUpdates(c) \/ DbFails(c)
  PROVE  AskInv' /\ HeldNow'
<1>1. DbTypes /\ job[c].at \in Positions
  BY JobInHand DEF TypeInv, TypeOK
<1>2. CASE DbLoads(c)
  <2>1. job[c].pid \in Players
    BY <1>2, JobInHand DEF DbLoads
  <2>2. dbPos[job[c].pid] \in Positions /\ dbPos[job[c].pid] \in held[job[c].pid]
    BY <1>1, <2>1 DEF HeldNow, DbTypes
  <2>3. HeldNow'
    BY <1>2 DEF DbLoads, HeldNow
  <2>4. QED
    BY <1>2, <2>1, <2>2, <2>3, AskAnswered DEF DbLoads, sessionVars, poolVars
<1>3. ASSUME job[c].pid \in Players, Store(job[c].pid, job[c].at)
      PROVE  /\ HeldNow' /\ job[c].at \in held'[job[c].pid]
             /\ \A p \in Players : held[p] \subseteq held'[p]
  <2>1. /\ dbPos' = [dbPos EXCEPT ![job[c].pid] = job[c].at]
        /\ held' = [held EXCEPT ![job[c].pid] = @ \cup {job[c].at}]
    BY <1>3 DEF Store
  <2>2. QED
    BY <1>1, <1>3, <2>1 DEF HeldNow, DbTypes
<1>4. CASE DbUpdates(c)
  <2>1. job[c].pid \in Players /\ Store(job[c].pid, job[c].at)
    BY <1>4, JobInHand DEF DbUpdates
  <2>2. QED
    BY <1>1, <1>3, <1>4, <2>1, AskAnswered DEF DbUpdates, sessionVars, poolVars
<1>5. CASE DbFails(c)
  <2>1. HeldNow' /\ \A p \in Players : held[p] \subseteq held'[p]
    <3>1. CASE UNCHANGED <<dbPos, held>>
      BY <3>1 DEF HeldNow
    <3>2. CASE job[c].pid # None /\ Store(job[c].pid, job[c].at)
      BY <1>3, <1>5, <3>2, JobInHand DEF DbFails
    <3>3. QED
      BY <1>5, <3>1, <3>2 DEF DbFails
  <2>2. QED
    BY <1>1, <1>5, <2>1, AskAnswered DEF DbFails, sessionVars, poolVars
<1>6. QED
  BY <1>2, <1>4, <1>5

LEMMA AskResponse ==
  ASSUME TypeInv, RefInv, AskInv, Running, NEW w \in Workers, NEW c \in Contexts,
         ResponseLoad(w, c) \/ ResponseUpdatePosition(w, c)
  PROVE  AskInv'
<1>1. CASE stale
  BY <1>1 DEF ResponseLoad, ResponseUpdatePosition, AskInv
<1>2. CASE ~stale
  <2>0. SUFFICES ASSUME NEW s \in Sessions, s = job[c].s
                 PROVE  AskInv'
    BY JobInHand DEF ResponseLoad, ResponseUpdatePosition, Answering
  <2>1. /\ SessionPlayer(s) /\ job[c].ok /\ UNCHANGED <<asked, free, job, held>>
        /\ pos' = [pos EXCEPT ![s] = job[c].at]
        /\ playerId' = [playerId EXCEPT ![s] = job[c].pid] \/ playerId' = playerId
        /\ DbTypes /\ PlayerTypes
    BY <1>2, <2>0 DEF AskInv, ResponseLoad, ResponseUpdatePosition, TypeInv, TypeOK, dbVars,
                      sessionVars, poolVars
  <2>2. /\ job[c].pid \in asked[s] /\ job[c].pid # None /\ job[c].at \in held[job[c].pid]
    BY <2>0, <2>1 DEF SessionPlayer
  <2>3. free[s] = 0
    <3>1. SessionRefs(s) /\ c \in JobsOf(s)
      BY <1>2, <2>0 DEF RefInv, JobsOf
    <3>2. QED
      BY <3>1 DEF SessionRefs
  <2>4. /\ pos'[s] = job[c].at /\ playerId'[s] \in {playerId[s], job[c].pid}
        /\ \A t \in Sessions \ {s} : pos'[t] = pos[t] /\ playerId'[t] = playerId[t]
    BY <2>1 DEF PlayerTypes
  <2>5. SessionPlayer(s)'
    <3>1. playerId'[s] \in {None} \cup asked[s]
      BY <2>1, <2>2, <2>4 DEF SessionPlayer
    <3>2. playerId'[s] # None => \E p \in asked[s] : pos'[s] \in held[p]
      BY <2>2, <2>4, <3>1
    <3>3. QED
      BY <2>1, <2>3, <3>1, <3>2 DEF SessionPlayer
  <2>6. QED
    BY <1>2, <2>1, <2>4, <2>5, AskStep
<1>3. QED
  BY <1>1, <1>2

LEMMA AskDeleteJob ==
  ASSUME TypeInv, AskInv, Running, NEW w \in Workers, NEW c \in Contexts, DeleteJob(w, c)
  PROVE  AskInv'
<1>1. /\ job'[c].s = None /\ \A d \in Contexts \ {c} : job'[d] = job[d]
  BY DEF DeleteJob, TypeInv, TypeOK, DbTypes, NoJob
<1>2. UNCHANGED <<playerId, pos, asked, free, held, stale>>
  BY DEF DeleteJob, playerVars, poolVars
<1>3. SUFFICES ASSUME Running', ~stale', NEW s \in Sessions
               PROVE  SessionPlayer(s)'
  BY DEF AskInv
<1>4. SessionPlayer(s)
  BY <1>2, <1>3 DEF AskInv
<1>5. QED
  BY <1>1, <1>2, <1>4, SessionsAssumption DEF SessionPlayer

LEMMA AskReturnPush ==
  ASSUME TypeInv, AskInv, Running, NEW w \in Workers, ReturnPush(w)
  PROVE  AskInv'
<1>1. CASE stale
  BY <1>1 DEF ReturnPush, AskInv
<1>2. CASE ~stale
  <2>0. SUFFICES ASSUME NEW s \in Sessions, s = client[w]
                 PROVE  AskInv'
    BY InHand DEF ReturnPush, ReturnPCs
  <2>1. /\ playerId' = [playerId EXCEPT ![s] = None] /\ pos' = [pos EXCEPT ![s] = Origin]
        /\ free' = [free EXCEPT ![s] = @ + 1]
        /\ UNCHANGED <<asked, job, held>>
    BY <2>0 DEF ReturnPush, PlayerReset, sessionVars, dbVars
  <2>2. playerId'[s] = None
    BY <2>1 DEF TypeInv, TypeOK, PlayerTypes
  <2>3. SessionPlayer(s)'
    <3>1. SessionPlayer(s)
      BY <1>2 DEF AskInv
    <3>2. QED
      BY <2>1, <2>2, <3>1 DEF SessionPlayer
  <2>4. QED
    BY <1>2, <2>1, <2>3, AskStep DEF TypeInv, TypeOK, PlayerTypes, PoolTypes
<1>3. QED
  BY <1>1, <1>2

LEMMA AskInit == Init => AskInv /\ HeldNow
  BY SessionsAssumption DEF Init, AskInv, HeldNow, SessionPlayer, NoJob

LEMMA AskNext ==
  TypeInv /\ RefInv /\ LoadsAsked /\ AskInv /\ HeldNow /\ [Next]_vars => AskInv' /\ HeldNow'
<1> SUFFICES ASSUME TypeInv, RefInv, LoadsAsked, AskInv, HeldNow, [Next]_vars
             PROVE  AskInv' /\ HeldNow'
  OBVIOUS
<1>1. HeldNow /\ UNCHANGED <<dbPos, held>> => HeldNow'
  BY DEF HeldNow
<1>2. ASSUME NEW w \in Workers, Step(w)
      PROVE  AskInv' /\ HeldNow'
  <2>1. UNCHANGED <<dbPos, held>> /\ Running
    BY <1>2 DEF Step, TakeResult, ResponseLoad, ResponseUpdatePosition, OnFail, DeleteJob,
         RunLoad, RequestUpdatePosition, RecvDone, WaitTimeout, TimerStart, RunTick, TimerPop,
         TimerStop, ReturnAssert, ReturnReset, ReturnPush, dbVars
  <2>2. CASE UNCHANGED <<playerId, pos, asked, free, job, held, stale>>
    BY <2>1, <2>2, <1>1, AskUnchanged
  <2>3. QED
    BY <1>1, <1>2, <2>1, <2>2, AskResponse, AskDeleteJob, AskRunLoad, AskRequestUpdatePosition,
       AskReturnPush
       DEF Step, TakeResult, OnFail, RecvDone, WaitTimeout, TimerStart, RunTick, TimerPop,
           TimerStop, ReturnAssert, ReturnReset, sessionVars, playerVars, poolVars, dbVars
<1>3. ASSUME NEW w \in Workers, Receive(w)
      PROVE  AskInv' /\ HeldNow'
  <2>1. UNCHANGED <<dbPos, held>> /\ Running
    BY <1>3 DEF Receive, RecvLogin, RecvMove, RecvClosed, dbVars
  <2>2. CASE UNCHANGED <<playerId, pos, asked, free, job, held, stale>>
    BY <1>1, <2>1, <2>2, AskUnchanged
  <2>3. QED
    BY <1>1, <1>3, <2>1, <2>2, AskRecvLogin
       DEF Receive, RecvMove, RecvClosed, sessionVars, playerVars, poolVars, dbVars
<1>4. ASSUME NEW s \in Sessions, Disconnected(s)
      PROVE  AskInv' /\ HeldNow'
  BY <1>1, <1>4, AskUnchanged
     DEF Disconnected, DisconnectCompletion, sessionVars, playerVars, poolVars, dbVars
<1>5. CASE Database
  BY <1>5, AskDatabase DEF Database
<1>6. CASE Environment
  <2>1. UNCHANGED <<dbPos, held>> /\ Running
    BY <1>6 DEF Environment, Tick, Issue, DisconnectRequest, dbVars
  <2>2. CASE UNCHANGED <<playerId, pos, asked, free, job, held, stale, halt>>
    BY <1>1, <2>1, <2>2, AskUnchanged
  <2>3. QED
    BY <1>1, <1>6, <2>1, <2>2, AskIssue
       DEF Environment, Tick, DisconnectRequest, sessionVars, playerVars, poolVars, dbVars
<1>7. CASE UNCHANGED vars
  BY <1>1, <1>7, AskUnchanged DEF vars, sessionVars, playerVars, poolVars, dbVars, Running
<1>8. QED
  BY <1>2, <1>3, <1>4, <1>5, <1>6, <1>7 DEF Next

LEMMA AskInvariant == Spec => [](RefInv /\ AskInv)
<1>1. Init => LoadsAsked /\ AskInv /\ HeldNow
  BY LoadsInit, AskInit
<1>2. /\ TypeInv /\ RefInv /\ LoadsAsked /\ AskInv /\ HeldNow /\ [Next]_vars
      => LoadsAsked' /\ AskInv' /\ HeldNow'
  BY LoadsNext, AskNext
<1>3. QED
  BY <1>1, <1>2, TypeInvariant, RefInvariant, PTL DEF Spec

\* The player in memory is one that this connection asked for, and none on a free session.
THEOREM PlayerIsTheOneAsked == Spec => []PlayerIsAsked
<1>1. RefInv /\ AskInv => PlayerIsAsked
  BY DEF RefInv, SessionRefs, AskInv, SessionPlayer, PlayerIsAsked
<1>2. QED
  BY <1>1, AskInvariant, PTL

\* The position in memory, which the client is told, is one the database has held for a player
\* that this connection asked for, however often it logs in and whatever the order in which
\* queries are executed, fail and are answered.
THEOREM PositionWasStored == Spec => []ToldWhatIsStored
<1>1. AskInv => ToldWhatIsStored
  BY DEF AskInv, SessionPlayer, ToldWhatIsStored
<1>2. QED
  BY <1>1, AskInvariant, PTL
=============================================================================
