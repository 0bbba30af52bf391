------------------------------- MODULE RWLock -------------------------------
(***************************************************************************)
(* What a reader-writer lock promises: one writer or any number of readers *)
(* hold it, and as long as somebody who wants it may have it, somebody     *)
(* gets it.  FastSpinlock implements this.                                 *)
(***************************************************************************)
CONSTANT Threads

VARIABLE mode   \* what each thread does with the lock

Modes == {"away", "wantsWrite", "wantsRead", "writes", "reads"}

Init == mode = [t \in Threads |-> "away"]

Become(t, m) == mode' = [mode EXCEPT ![t] = m]

Want(t) ==
  /\ mode[t] = "away"
  /\ \E m \in {"wantsWrite", "wantsRead"} : Become(t, m)

AcquireWrite(t) ==
  /\ mode[t] = "wantsWrite"
  /\ \A u \in Threads : mode[u] \notin {"writes", "reads"}
  /\ Become(t, "writes")

AcquireRead(t) ==
  /\ mode[t] = "wantsRead"
  /\ \A u \in Threads : mode[u] # "writes"
  /\ Become(t, "reads")

Release(t) ==
  /\ mode[t] \in {"writes", "reads"}
  /\ Become(t, "away")

Acquire == \E t \in Threads : AcquireWrite(t) \/ AcquireRead(t)

Next == Acquire \/ \E t \in Threads : Want(t) \/ Release(t)

Spec == Init /\ [][Next]_mode

FairSpec == Spec /\ WF_mode(Acquire)
=============================================================================
