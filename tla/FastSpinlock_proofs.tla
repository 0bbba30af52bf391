------------------------- MODULE FastSpinlock_proofs -------------------------
(***************************************************************************)
(* Proofs about FastSpinlock, for any set of threads the two fields of the *)
(* flag can count.                                                         *)
(*                                                                         *)
(* Mutual exclusion is not inductive: the code decides from the flag, so   *)
(* the invariant says what the flag counts, and that at most one thread    *)
(* has passed the test of the write count.                                 *)
(***************************************************************************)
EXTENDS FastSpinlock, FiniteSetTheorems, TLAPS

WriterPCs == {"readerDrain", "writing", "writeBackoff"}
ReaderPCs == {"reading", "readBackoff"}

\* Passed the test of InterlockedAdd in EnterWriteLock and did not leave yet.
Owns(t) == pc[t] \in {"readerDrain", "writing"}

OneOwner    == \A t, u \in Threads : Owns(t) /\ Owns(u) => t = u
WriterAlone == \A t, u \in Threads : pc[t] = "writing" => pc[u] # "reading"

Inv == TypeOK /\ FlagCountsHolders /\ OneOwner /\ WriterAlone

\* Neither count overflows its field.
LEMMA CountFits ==
  ASSUME NEW S \in SUBSET Threads
  PROVE  IsFiniteSet(S) /\ Cardinality(S) \in Nat /\ Cardinality(S) < WriteSlots
<1>1. Cardinality(Threads) \in Nat
  BY ThreadsFit, FS_CardinalityType
<1>2. IsFiniteSet(S) /\ Cardinality(S) <= Cardinality(Threads)
  BY ThreadsFit, FS_Subset
<1>3. Cardinality(S) \in Nat
  BY <1>2, FS_CardinalityType
<1>4. QED
  BY <1>1, <1>2, <1>3, ThreadsFit DEF WriteSlots

LEMMA Holders ==
  /\ WriteHolders \in SUBSET Threads /\ WriteHolders' \in SUBSET Threads
  /\ ReadHolders \in SUBSET Threads /\ ReadHolders' \in SUBSET Threads
  BY DEF WriteHolders, ReadHolders

LEMMA Bounds ==
  /\ IsFiniteSet(WriteHolders) /\ Cardinality(WriteHolders) \in Nat
  /\ IsFiniteSet(ReadHolders) /\ Cardinality(ReadHolders) \in Nat
  BY Holders, CountFits

\* The counts of a step in which t alone moves from pc[t] to l: each grows or shrinks by one
\* as t enters or leaves the counted part of the code.
LEMMA Counting ==
  ASSUME TypeOK, NEW t \in Threads, NEW l \in PCs, Goto(t, l)
  PROVE  /\ pc[t] \in WriterPCs /\ l \in WriterPCs => WriteHolders' = WriteHolders
         /\ pc[t] \notin WriterPCs /\ l \notin WriterPCs => WriteHolders' = WriteHolders
         /\ pc[t] \notin WriterPCs /\ l \in WriterPCs =>
              Cardinality(WriteHolders') = Cardinality(WriteHolders) + 1
         /\ pc[t] \in WriterPCs /\ l \notin WriterPCs =>
              Cardinality(WriteHolders') = Cardinality(WriteHolders) - 1
         /\ pc[t] \in ReaderPCs /\ l \in ReaderPCs => ReadHolders' = ReadHolders
         /\ pc[t] \notin ReaderPCs /\ l \notin ReaderPCs => ReadHolders' = ReadHolders
         /\ pc[t] \notin ReaderPCs /\ l \in ReaderPCs =>
              Cardinality(ReadHolders') = Cardinality(ReadHolders) + 1
         /\ pc[t] \in ReaderPCs /\ l \notin ReaderPCs =>
              Cardinality(ReadHolders') = Cardinality(ReadHolders) - 1
<1> USE DEF WriterPCs, ReaderPCs
<1>1. /\ IsFiniteSet(WriteHolders) /\ Cardinality(WriteHolders) \in Nat
      /\ IsFiniteSet(ReadHolders) /\ Cardinality(ReadHolders) \in Nat
  BY Bounds
<1>2. pc' = [pc EXCEPT ![t] = l] /\ pc \in [Threads -> PCs]
  BY DEF Goto, TypeOK
<1>3. ASSUME pc[t] \notin WriterPCs, l \in WriterPCs
      PROVE  Cardinality(WriteHolders') = Cardinality(WriteHolders) + 1
  <2>1. t \notin WriteHolders /\ WriteHolders' = WriteHolders \cup {t}
    BY <1>2, <1>3 DEF WriteHolders
  <2>2. QED
    BY <1>1, <2>1, FS_AddElement
<1>4. ASSUME pc[t] \in WriterPCs, l \notin WriterPCs
      PROVE  Cardinality(WriteHolders') = Cardinality(WriteHolders) - 1
  <2>1. t \in WriteHolders /\ WriteHolders' = WriteHolders \ {t}
    BY <1>2, <1>4 DEF WriteHolders
  <2>2. QED
    BY <1>1, <2>1, FS_RemoveElement
<1>5. ASSUME pc[t] \notin ReaderPCs, l \in ReaderPCs
      PROVE  Cardinality(ReadHolders') = Cardinality(ReadHolders) + 1
  <2>1. t \notin ReadHolders /\ ReadHolders' = ReadHolders \cup {t}
    BY <1>2, <1>5 DEF ReadHolders
  <2>2. QED
    BY <1>1, <2>1, FS_AddElement
<1>6. ASSUME pc[t] \in ReaderPCs, l \notin ReaderPCs
      PROVE  Cardinality(ReadHolders') = Cardinality(ReadHolders) - 1
  <2>1. t \in ReadHolders /\ ReadHolders' = ReadHolders \ {t}
    BY <1>2, <1>6 DEF ReadHolders
  <2>2. QED
    BY <1>1, <2>1, FS_RemoveElement
<1>7. /\ (pc[t] \in WriterPCs <=> l \in WriterPCs) => WriteHolders' = WriteHolders
      /\ (pc[t] \in ReaderPCs <=> l \in ReaderPCs) => ReadHolders' = ReadHolders
  BY <1>2 DEF WriteHolders, ReadHolders
<1>8. QED
  BY <1>1, <1>3, <1>4, <1>5, <1>6, <1>7

\* The fields of the flag are the two counts.
LEMMA Fields ==
  ASSUME NEW w \in Nat, w < WriteSlots, NEW r \in Nat, r < WriteSlots
  PROVE  /\ WriteBits(LF_WRITE_FLAG * w + r) = w
         /\ ReadBits(LF_WRITE_FLAG * w + r) = r
  BY SMT DEF WriteBits, ReadBits, LF_WRITE_FLAG, WriteSlots

LEMMA FlagFields ==
  /\ FlagCountsHolders => /\ WriteBits(mLockFlag) = Cardinality(WriteHolders)
                          /\ ReadBits(mLockFlag) = Cardinality(ReadHolders)
  /\ FlagCountsHolders' => WriteBits(mLockFlag') = Cardinality(WriteHolders')
  BY Holders, CountFits, Fields DEF FlagCountsHolders

\* Each addition to the flag goes with the same change of the counts.
LEMMA FlagStep ==
  ASSUME TypeOK, FlagCountsHolders, NEW t \in Threads,
         EnterWriteLock(t) \/ EnterReadLock(t) \/ Step(t)
  PROVE  FlagCountsHolders'
<1> USE DEF WriterPCs, ReaderPCs, PCs
<1>b. /\ Cardinality(WriteHolders) \in Nat /\ Cardinality(ReadHolders) \in Nat
  BY Bounds
<1>1. CASE EnterWriteLock(t) \/ EnterReadLock(t) \/ WriteSpin(t) \/ ReadSpin(t) \/ ReaderDrain(t)
  <2>1. \E l \in PCs : /\ Goto(t, l) /\ UNCHANGED mLockFlag
                       /\ pc[t] \in WriterPCs <=> l \in WriterPCs
                       /\ pc[t] \in ReaderPCs <=> l \in ReaderPCs
    BY <1>1 DEF EnterWriteLock, EnterReadLock, WriteSpin, ReadSpin, ReaderDrain
  <2>2. WriteHolders' = WriteHolders /\ ReadHolders' = ReadHolders /\ mLockFlag' = mLockFlag
    BY <2>1, Counting
  <2>3. QED
    BY <2>2 DEF FlagCountsHolders
<1>2. CASE WriteAdd(t)
  <2>1. \E l \in {"readerDrain", "writeBackoff"} : Goto(t, l) /\ pc[t] = "writeAdd"
    BY <1>2 DEF WriteAdd
  <2>2. /\ Cardinality(WriteHolders') = Cardinality(WriteHolders) + 1
        /\ ReadHolders' = ReadHolders
    BY <2>1, Counting
  <2>3. QED
    BY <1>2, <1>b, <2>2, SMT DEF WriteAdd, FlagCountsHolders, LF_WRITE_FLAG
<1>3. CASE WriteBackoff(t) \/ LeaveWriteLock(t)
  <2>1. /\ \E l \in {"writeSpin", "away"} : Goto(t, l)
        /\ pc[t] \in {"writeBackoff", "writing"} /\ mLockFlag' = mLockFlag - LF_WRITE_FLAG
    BY <1>3 DEF WriteBackoff, LeaveWriteLock
  <2>2. /\ Cardinality(WriteHolders') = Cardinality(WriteHolders) - 1
        /\ ReadHolders' = ReadHolders
    BY <2>1, Counting
  <2>3. QED
    BY <1>b, <2>1, <2>2, SMT DEF FlagCountsHolders, LF_WRITE_FLAG
<1>4. CASE ReadAdd(t)
  <2>1. \E l \in {"reading", "readBackoff"} : Goto(t, l) /\ pc[t] = "readAdd"
    BY <1>4 DEF ReadAdd
  <2>2. /\ Cardinality(ReadHolders') = Cardinality(ReadHolders) + 1
        /\ WriteHolders' = WriteHolders
    BY <2>1, Counting
  <2>3. QED
    BY <1>4, <1>b, <2>2, SMT DEF ReadAdd, FlagCountsHolders, LF_WRITE_FLAG
<1>5. CASE ReadBackoff(t) \/ LeaveReadLock(t)
  <2>1. /\ \E l \in {"readSpin", "away"} : Goto(t, l)
        /\ pc[t] \in {"readBackoff", "reading"} /\ mLockFlag' = mLockFlag - 1
    BY <1>5 DEF ReadBackoff, LeaveReadLock
  <2>2. /\ Cardinality(ReadHolders') = Cardinality(ReadHolders) - 1
        /\ WriteHolders' = WriteHolders
    BY <2>1, Counting
  <2>3. QED
    BY <1>b, <2>1, <2>2, SMT DEF FlagCountsHolders, LF_WRITE_FLAG
<1>6. QED
  BY <1>1, <1>2, <1>3, <1>4, <1>5 DEF Step

\* The three tests of the flag, in terms of the threads: after the addition of a writer the
\* count is one only if no other thread has the write flag; no reader is counted when the
\* drain ends; a reader gets in only past no write flag at all.
LEMMA TestsDecide ==
  ASSUME TypeOK, FlagCountsHolders, NEW t \in Threads
  PROVE  /\ WriteAdd(t) /\ pc'[t] = "readerDrain" => WriteHolders = {}
         /\ ReaderDrain(t) => ReadHolders = {}
         /\ ReadAdd(t) /\ pc'[t] = "reading" => WriteHolders = {}
<1>b. /\ IsFiniteSet(WriteHolders) /\ Cardinality(WriteHolders) \in Nat
      /\ IsFiniteSet(ReadHolders) /\ Cardinality(ReadHolders) \in Nat
  BY Bounds
<1>1. ASSUME WriteAdd(t), pc'[t] = "readerDrain"
      PROVE  WriteHolders = {}
  <2>1. FlagCountsHolders'
    BY <1>1, FlagStep DEF Step
  <2>2. WriteBits(mLockFlag') = Cardinality(WriteHolders')
    BY <2>1, FlagFields
  <2>3. Goto(t, "readerDrain") /\ pc[t] = "writeAdd" /\ WriteBits(mLockFlag') = 1
    BY <1>1 DEF WriteAdd, Goto, TypeOK, SoleWriter
  <2>4. Cardinality(WriteHolders') = Cardinality(WriteHolders) + 1
    BY <2>3, Counting DEF WriterPCs, PCs
  <2>5. Cardinality(WriteHolders) + 1 = 1
    BY <2>2, <2>3, <2>4
  <2>6. Cardinality(WriteHolders) = 0
    BY <1>b, <2>5
  <2>7. QED
    BY <1>b, <2>6, FS_EmptySet
<1>2. ASSUME ReaderDrain(t)
      PROVE  ReadHolders = {}
  BY <1>b, <1>2, FlagFields, FS_EmptySet DEF ReaderDrain, Drained
<1>3. ASSUME ReadAdd(t), pc'[t] = "reading"
      PROVE  WriteHolders = {}
  <2>1. FlagCountsHolders'
    BY <1>3, FlagStep DEF Step
  <2>2. WriteBits(mLockFlag') = Cardinality(WriteHolders')
    BY <2>1, FlagFields
  <2>3. Goto(t, "reading") /\ pc[t] = "readAdd" /\ WriteBits(mLockFlag') = 0
    BY <1>3 DEF ReadAdd, Goto, TypeOK, NoWriter
  <2>4. WriteHolders' = WriteHolders
    BY <2>3, Counting DEF WriterPCs, PCs
  <2>5. QED
    BY <1>b, <2>2, <2>3, <2>4, FS_EmptySet
<1>4. QED
  BY <1>1, <1>2, <1>3

-----------------------------------------------------------------------------
(* The invariant *)

LEMMA InvInit ==
  ASSUME Init
  PROVE  Inv
<1>1. TypeOK /\ OneOwner /\ WriterAlone
  BY DEF Init, TypeOK, PCs, OneOwner, Owns, WriterAlone
<1>2. WriteHolders = {} /\ ReadHolders = {}
  BY DEF Init, WriteHolders, ReadHolders
<1>3. FlagCountsHolders
  BY <1>2, FS_EmptySet, SMT DEF Init, FlagCountsHolders, LF_WRITE_FLAG
<1>4. QED
  BY <1>1, <1>3 DEF Inv

\* A thread that passes the test of WriteAdd finds no owner; nobody else moves.
LEMMA OwnerStep ==
  ASSUME Inv, NEW t \in Threads, EnterWriteLock(t) \/ EnterReadLock(t) \/ Step(t)
  PROVE  OneOwner' /\ WriterAlone'
<1> USE DEF PCs
<1>t. pc \in [Threads -> PCs] /\ FlagCountsHolders /\ OneOwner /\ WriterAlone /\ TypeOK
  BY DEF Inv, TypeOK
<1>1. CASE WriteAdd(t) /\ pc'[t] = "readerDrain"
  <2>1. \A u \in Threads : ~Owns(u)
    BY <1>t, <1>1, TestsDecide DEF WriteHolders, Owns
  <2>2. /\ pc' = [pc EXCEPT ![t] = "readerDrain"]
    BY <1>t, <1>1 DEF WriteAdd, Goto
  <2>3. QED
    BY <1>t, <2>1, <2>2 DEF OneOwner, WriterAlone, Owns
<1>2. CASE ReaderDrain(t)
  <2>1. \A u \in Threads : pc[u] # "reading"
    BY <1>t, <1>2, TestsDecide DEF ReadHolders
  <2>2. QED
    BY <1>t, <1>2, <2>1 DEF ReaderDrain, Goto, OneOwner, WriterAlone, Owns
<1>3. CASE ReadAdd(t) /\ pc'[t] = "reading"
  <2>1. \A u \in Threads : pc[u] # "writing"
    BY <1>t, <1>3, TestsDecide DEF WriteHolders
  <2>2. pc' = [pc EXCEPT ![t] = "reading"]
    BY <1>t, <1>3 DEF ReadAdd, Goto
  <2>3. QED
    BY <1>t, <2>1, <2>2 DEF OneOwner, WriterAlone, Owns
<1>4. ASSUME NEW l \in PCs \ {"readerDrain", "writing", "reading"}, Goto(t, l)
      PROVE  OneOwner' /\ WriterAlone'
  BY <1>t, <1>4 DEF Goto, OneOwner, WriterAlone, Owns
<1>5. CASE WriteAdd(t) /\ pc'[t] # "readerDrain"
  <2>1. Goto(t, "writeBackoff")
    BY <1>t, <1>5 DEF WriteAdd, Goto
  <2>2. QED
    BY <1>4, <2>1
<1>6. CASE ReadAdd(t) /\ pc'[t] # "reading"
  <2>1. Goto(t, "readBackoff")
    BY <1>t, <1>6 DEF ReadAdd, Goto
  <2>2. QED
    BY <1>4, <2>1
<1>7. CASE EnterWriteLock(t) \/ EnterReadLock(t) \/ WriteSpin(t) \/ WriteBackoff(t)
           \/ LeaveWriteLock(t) \/ ReadSpin(t) \/ ReadBackoff(t) \/ LeaveReadLock(t)
  <2>1. \E l \in {"writeSpin", "readSpin", "writeAdd", "away", "readAdd"} : Goto(t, l)
    BY <1>7 DEF EnterWriteLock, EnterReadLock, WriteSpin, WriteBackoff, LeaveWriteLock, ReadSpin,
                ReadBackoff, LeaveReadLock
  <2>2. QED
    BY <1>4, <2>1
<1>8. QED
  BY <1>1, <1>2, <1>3, <1>5, <1>6, <1>7 DEF Step

LEMMA InvStep ==
  ASSUME Inv, [Next]_vars
  PROVE  Inv'
<1>1. ASSUME NEW t \in Threads, EnterWriteLock(t) \/ EnterReadLock(t) \/ Step(t)
      PROVE  Inv'
  <2>1. TypeOK /\ FlagCountsHolders
    BY DEF Inv
  <2>2. FlagCountsHolders'
    BY <1>1, <2>1, FlagStep
  <2>3. OneOwner' /\ WriterAlone'
    BY <1>1, OwnerStep
  <2>4. mLockFlag' \in Nat
    <3>1. Cardinality(WriteHolders') \in Nat /\ Cardinality(ReadHolders') \in Nat
      BY Holders, CountFits
    <3>2. QED
      BY <2>2, <3>1, SMT DEF FlagCountsHolders, LF_WRITE_FLAG
  <2>5. pc' \in [Threads -> PCs]
    BY <1>1, <2>1 DEF TypeOK, PCs, Step, Goto, EnterWriteLock, EnterReadLock, WriteSpin, WriteAdd,
       ReaderDrain, WriteBackoff, LeaveWriteLock, ReadSpin, ReadAdd, ReadBackoff, LeaveReadLock
  <2>6. QED
    BY <2>2, <2>3, <2>4, <2>5 DEF Inv, TypeOK
<1>2. CASE UNCHANGED vars
  BY <1>2 DEF vars, Inv, TypeOK, FlagCountsHolders, WriteHolders, ReadHolders, OneOwner, Owns,
              WriterAlone
<1>3. QED
  BY <1>1, <1>2 DEF Next

\* The flag and every thread's place in the code stay what the code's declarations allow:
\* in particular no back-off or release takes the flag below zero.
THEOREM TypeCorrect == Spec => []TypeOK
<1>1. Inv => TypeOK
  BY DEF Inv
<1>2. QED
  BY <1>1, InvInit, InvStep, PTL DEF Spec

\* The flag is exactly the number of write flags and read increments of the threads inside
\* EnterWriteLock and EnterReadLock, whatever their interleaving.
THEOREM FlagCounts == Spec => []FlagCountsHolders
<1>1. Inv => FlagCountsHolders
  BY DEF Inv
<1>2. QED
  BY <1>1, InvInit, InvStep, PTL DEF Spec

\* A writer is alone in the critical section, for any number of threads.
THEOREM Exclusive == Spec => []MutualExclusion
<1>1. Inv => MutualExclusion
  BY DEF Inv, OneOwner, WriterAlone, Owns, MutualExclusion
<1>2. QED
  BY <1>1, InvInit, InvStep, PTL DEF Spec

\* While a writer waits for the readers to leave, no reader enters.
THEOREM NotOvertaken == Spec => WriterNotOvertaken
<1>1. ASSUME Inv, [Next]_vars
      PROVE  [\A t, u \in Threads :
                pc[t] = "readerDrain" /\ pc'[u] = "reading" => pc[u] = "reading"]_vars
  <2>1. SUFFICES ASSUME NEW v \in Threads, EnterWriteLock(v) \/ EnterReadLock(v) \/ Step(v),
                        NEW t \in Threads, NEW u \in Threads,
                        pc[t] = "readerDrain", pc'[u] = "reading", pc[u] # "reading"
                 PROVE  FALSE
    BY <1>1 DEF Next
  <2>2. TypeOK /\ FlagCountsHolders
    BY <1>1 DEF Inv
  <2>3. u = v /\ ReadAdd(v)
    BY <2>1, <2>2 DEF TypeOK, Step, Goto, EnterWriteLock, EnterReadLock, WriteSpin, WriteAdd,
       ReaderDrain, WriteBackoff, LeaveWriteLock, ReadSpin, ReadAdd, ReadBackoff, LeaveReadLock
  <2>4. WriteHolders = {}
    BY <2>1, <2>2, <2>3, TestsDecide
  <2>5. QED
    BY <2>1, <2>4 DEF WriteHolders
<1>2. QED
  BY <1>1, InvInit, InvStep, PTL DEF Spec, WriterNotOvertaken

-----------------------------------------------------------------------------
(* Refinement *)

\* Every step of the spin lock is a step of a reader-writer lock, or one it does not see.
THEOREM RefinesRWLock == Spec => Lock!Spec
<1> DEFINE mode == [t \in Threads |-> Mode(pc[t])]
<1>1. ASSUME Init
      PROVE  Lock!Init
  BY <1>1 DEF Init, Lock!Init, Mode
<1>2. ASSUME Inv, [Next]_vars
      PROVE  [Lock!Next]_mode
  <2>1. CASE UNCHANGED vars
    BY <2>1 DEF vars
  <2>2. ASSUME NEW t \in Threads, EnterWriteLock(t) \/ EnterReadLock(t) \/ Step(t)
        PROVE  [Lock!Next]_mode
    <3>t. TypeOK /\ FlagCountsHolders /\ OneOwner /\ WriterAlone /\ mode \in [Threads -> Lock!Modes]
      BY <1>2 DEF Inv, TypeOK, PCs, Mode, Lock!Modes
    <3>1. ASSUME NEW l \in PCs, Goto(t, l)
          PROVE  mode' = [mode EXCEPT ![t] = Mode(l)]
      BY <3>t, <3>1 DEF Goto, TypeOK
    <3>2. CASE EnterWriteLock(t) \/ EnterReadLock(t)
      <4>1. /\ mode[t] = "away"
            /\ \E m \in {"wantsWrite", "wantsRead"} : mode' = [mode EXCEPT ![t] = m]
        BY <3>1, <3>2 DEF EnterWriteLock, EnterReadLock, Mode, PCs
      <4>2. QED
        BY <4>1 DEF Lock!Next, Lock!Want, Lock!Become
    <3>3. CASE ReaderDrain(t)
      <4>1. \A u \in Threads : mode[u] \notin {"writes", "reads"}
        BY <3>t, <3>3, TestsDecide DEF ReadHolders, ReaderDrain, OneOwner, Owns, Mode, TypeOK, PCs
      <4>2. mode[t] = "wantsWrite" /\ mode' = [mode EXCEPT ![t] = "writes"]
        BY <3>1, <3>3 DEF ReaderDrain, Mode, PCs
      <4>3. QED
        BY <4>1, <4>2 DEF Lock!Next, Lock!Acquire, Lock!AcquireWrite, Lock!Become
    <3>4. CASE ReadAdd(t) /\ pc'[t] = "reading"
      <4>1. Goto(t, "reading") /\ pc[t] = "readAdd"
        BY <3>t, <3>4 DEF ReadAdd, Goto, TypeOK
      <4>2. \A u \in Threads : mode[u] # "writes"
        BY <3>t, <3>4, TestsDecide DEF WriteHolders, Mode, TypeOK, PCs
      <4>3. mode[t] = "wantsRead" /\ mode' = [mode EXCEPT ![t] = "reads"]
        BY <3>1, <4>1 DEF Mode, PCs
      <4>4. QED
        BY <4>2, <4>3 DEF Lock!Next, Lock!Acquire, Lock!AcquireRead, Lock!Become
    <3>5. CASE LeaveWriteLock(t) \/ LeaveReadLock(t)
      <4>1. mode[t] \in {"writes", "reads"} /\ mode' = [mode EXCEPT ![t] = "away"]
        BY <3>1, <3>5 DEF LeaveWriteLock, LeaveReadLock, Mode, PCs
      <4>2. QED
        BY <4>1 DEF Lock!Next, Lock!Release, Lock!Become
    <3>6. CASE WriteSpin(t) \/ WriteAdd(t) \/ WriteBackoff(t)
      <4>1. /\ pc[t] \in {"writeSpin", "writeAdd", "writeBackoff"}
            /\ \E l \in {"writeSpin", "writeAdd", "readerDrain", "writeBackoff"} : Goto(t, l)
        BY <3>6 DEF WriteSpin, WriteAdd, WriteBackoff
      <4>2. mode[t] = "wantsWrite" /\ mode' = [mode EXCEPT ![t] = "wantsWrite"]
        BY <3>1, <4>1 DEF Mode, PCs
      <4>3. QED
        BY <3>t, <4>2
    <3>7. CASE ReadSpin(t) \/ ReadBackoff(t) \/ (ReadAdd(t) /\ pc'[t] # "reading")
      <4>1. /\ pc[t] \in {"readSpin", "readAdd", "readBackoff"}
            /\ \E l \in {"readSpin", "readAdd", "readBackoff"} : Goto(t, l)
        BY <3>t, <3>7 DEF ReadSpin, ReadAdd, ReadBackoff, Goto, TypeOK
      <4>2. mode[t] = "wantsRead" /\ mode' = [mode EXCEPT ![t] = "wantsRead"]
        BY <3>1, <4>1 DEF Mode, PCs
      <4>3. QED
        BY <3>t, <4>2
    <3>8. QED
      BY <2>2, <3>2, <3>3, <3>4, <3>5, <3>6, <3>7 DEF Step
  <2>3. QED
    BY <1>2, <2>1, <2>2 DEF Next
<1>3. QED
  BY <1>1, <1>2, InvInit, InvStep, PTL DEF Spec, Lock!Spec
=============================================================================
