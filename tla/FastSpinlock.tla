----------------------------- MODULE FastSpinlock -----------------------------
(***************************************************************************)
(* FastSpinlock: a reader-writer spin lock in one 32-bit flag.  Bits 20-30 *)
(* count the threads that have added LF_WRITE_FLAG, bits 0-19 those that   *)
(* have incremented the flag to read.  Every read and every Interlocked    *)
(* operation of the flag is one step of a thread.                          *)
(***************************************************************************)
EXTENDS Integers, FiniteSets

CONSTANT Threads

LF_WRITE_FLAG == 1048576
WriteSlots    == 2048

\* Fewer threads than either field can count (the server runs nine).
ASSUME ThreadsFit == IsFiniteSet(Threads) /\ Cardinality(Threads) < WriteSlots

\* mLockFlag & LF_WRITE_MASK, in units of LF_WRITE_FLAG, and mLockFlag & LF_READ_MASK.
WriteBits(f) == (f \div LF_WRITE_FLAG) % WriteSlots
ReadBits(f)  == f % LF_WRITE_FLAG

PCs == {"away", "writeSpin", "writeAdd", "readerDrain", "writing", "writeBackoff",
        "readSpin", "readAdd", "reading", "readBackoff"}

VARIABLES
  mLockFlag,
  pc          \* what each thread executes next

vars == <<mLockFlag, pc>>

TypeOK ==
  /\ mLockFlag \in Nat
  /\ pc \in [Threads -> PCs]

Init ==
  /\ mLockFlag = 0
  /\ pc = [t \in Threads |-> "away"]

Goto(t, l) == pc' = [pc EXCEPT ![t] = l]

-----------------------------------------------------------------------------
(* EnterWriteLock, LeaveWriteLock *)

EnterWriteLock(t) ==
  /\ pc[t] = "away"
  /\ Goto(t, "writeSpin")
  /\ UNCHANGED mLockFlag

\* The spin ends when no thread has the write flag.
WriteSpin(t) ==
  /\ pc[t] = "writeSpin"
  /\ WriteBits(mLockFlag) = 0
  /\ Goto(t, "writeAdd")
  /\ UNCHANGED mLockFlag

\* (result & LF_WRITE_MASK) == LF_WRITE_FLAG
SoleWriter(f) == WriteBits(f) = 1

WriteAdd(t) ==
  /\ pc[t] = "writeAdd"
  /\ mLockFlag' = mLockFlag + LF_WRITE_FLAG
  /\ Goto(t, IF SoleWriter(mLockFlag') THEN "readerDrain" ELSE "writeBackoff")

\* Mutant of Drained: the writer does not wait for the readers.
NotDrained(f) == TRUE

Drained(f) == ReadBits(f) = 0

ReaderDrain(t) ==
  /\ pc[t] = "readerDrain"
  /\ Drained(mLockFlag)
  /\ Goto(t, "writing")
  /\ UNCHANGED mLockFlag

\* Mutant of WriteBackoff: the flag that lost is not taken back.
WriteBackoffKept(t) ==
  /\ pc[t] = "writeBackoff"
  /\ Goto(t, "writeSpin")
  /\ UNCHANGED mLockFlag

WriteBackoff(t) ==
  /\ pc[t] = "writeBackoff"
  /\ mLockFlag' = mLockFlag - LF_WRITE_FLAG
  /\ Goto(t, "writeSpin")

LeaveWriteLock(t) ==
  /\ pc[t] = "writing"
  /\ mLockFlag' = mLockFlag - LF_WRITE_FLAG
  /\ Goto(t, "away")

-----------------------------------------------------------------------------
(* EnterReadLock, LeaveReadLock *)

EnterReadLock(t) ==
  /\ pc[t] = "away"
  /\ Goto(t, "readSpin")
  /\ UNCHANGED mLockFlag

ReadSpin(t) ==
  /\ pc[t] = "readSpin"
  /\ WriteBits(mLockFlag) = 0
  /\ Goto(t, "readAdd")
  /\ UNCHANGED mLockFlag

\* Mutant of NoWriter: the reader trusts the test it made before the increment.
WriterIgnored(f) == TRUE

\* (result & LF_WRITE_MASK) == 0
NoWriter(f) == WriteBits(f) = 0

ReadAdd(t) ==
  /\ pc[t] = "readAdd"
  /\ mLockFlag' = mLockFlag + 1
  /\ Goto(t, IF NoWriter(mLockFlag') THEN "reading" ELSE "readBackoff")

ReadBackoff(t) ==
  /\ pc[t] = "readBackoff"
  /\ mLockFlag' = mLockFlag - 1
  /\ Goto(t, "readSpin")

LeaveReadLock(t) ==
  /\ pc[t] = "reading"
  /\ mLockFlag' = mLockFlag - 1
  /\ Goto(t, "away")

-----------------------------------------------------------------------------

\* What a thread that has asked for the lock, or holds it, goes on to do.
Step(t) ==
  \/ WriteSpin(t) \/ WriteAdd(t) \/ ReaderDrain(t) \/ WriteBackoff(t) \/ LeaveWriteLock(t)
  \/ ReadSpin(t) \/ ReadAdd(t) \/ ReadBackoff(t) \/ LeaveReadLock(t)

Next == \E t \in Threads : EnterWriteLock(t) \/ EnterReadLock(t) \/ Step(t)

Spec == Init /\ [][Next]_vars

\* Every thread is scheduled, and leaves the lock it holds.
FairSpec == Spec /\ \A t \in Threads : WF_vars(Step(t))

-----------------------------------------------------------------------------
(* Correctness *)

\* The threads counted in each field of the flag.
WriteHolders == {t \in Threads : pc[t] \in {"readerDrain", "writing", "writeBackoff"}}
ReadHolders  == {t \in Threads : pc[t] \in {"reading", "readBackoff"}}

\* A writer is alone: no other writer and no reader is inside (EnterWriteLock, EnterReadLock).
MutualExclusion ==
  \A t, u \in Threads : pc[t] = "writing" /\ pc[u] \in {"writing", "reading"} => t = u

\* The flag is nothing but the two counts, so that it is zero again when everybody has left:
\* each InterlockedAdd is taken back once (LeaveWriteLock, LeaveReadLock and the back-offs).
FlagCountsHolders ==
  mLockFlag = LF_WRITE_FLAG * Cardinality(WriteHolders) + Cardinality(ReadHolders)

\* A writer that waits for the readers to leave is not overtaken: until it is inside no
\* further reader gets in ("wait until the others release their read lock").
WriterNotOvertaken ==
  [][\A t, u \in Threads :
       pc[t] = "readerDrain" /\ pc'[u] = "reading" => pc[u] = "reading"]_vars

\* The specification of a reader-writer lock, for this lock's threads.
Mode(l) ==
  CASE l = "away" -> "away"
    [] l \in {"writeSpin", "writeAdd", "readerDrain", "writeBackoff"} -> "wantsWrite"
    [] l \in {"readSpin", "readAdd", "readBackoff"} -> "wantsRead"
    [] l = "writing" -> "writes"
    [] l = "reading" -> "reads"
Lock == INSTANCE RWLock WITH mode <- [t \in Threads |-> Mode(pc[t])]

\* The spin lock is a reader-writer lock: its steps are those of RWLock, and it never comes
\* to a state where the lock may be had and nobody ever gets it.
ImplementsRWLock == Lock!FairSpec
=============================================================================
