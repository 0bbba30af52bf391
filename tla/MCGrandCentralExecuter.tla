----------------------- MODULE MCGrandCentralExecuter -----------------------
(* A small instance of GrandCentralExecuter for TLC. *)
EXTENDS GrandCentralExecuter

CONSTANTS t1, t2, t3

ThreeThreads == {t1, t2, t3}
=============================================================================
