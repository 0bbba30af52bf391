---------------------------- MODULE MCFastSpinlock ----------------------------
(* A small instance of FastSpinlock for TLC. *)
EXTENDS FastSpinlock

CONSTANTS t1, t2, t3, t4

FourThreads == {t1, t2, t3, t4}
=============================================================================
