------------------------ MODULE MCSessionLifecycle ------------------------
(* Small instances of SessionLifecycle for TLC. *)
EXTENDS SessionLifecycle, TLC

CONSTANTS s1, s2, w1, w2

OneSession  == {s1}
TwoSessions == {s1, s2}
TwoWorkers  == {w1, w2}

AllFaults == FaultKinds
NoFaults   == {}
SetupFault == {"setup"}
DisconnectExFault == {"disconnectEx"}

\* Sessions and workers are interchangeable: only safety runs use this.
Interchangeable == Permutations(TwoSessions) \cup Permutations(TwoWorkers)
=============================================================================
