--------------------------- MODULE MCPlayerLogin ---------------------------
(* Small instances of PlayerLogin for TLC. *)
EXTENDS PlayerLogin, TLC

CONSTANTS s1, s2, w1, w2, c1, c2, p1, p2

OneSession  == {s1}
TwoSessions == {s1, s2}
TwoWorkers  == {w1, w2}
TwoContexts == {c1, c2}
OnePlayer   == {p1}
TwoPlayers  == {p1, p2}

\* Sessions, workers and players are interchangeable: only safety runs use this.
Interchangeable ==
  Permutations(TwoSessions) \cup Permutations(TwoWorkers) \cup Permutations(TwoPlayers)
    \cup Permutations(TwoContexts)

\* The safety run stops where a login outlives its connection: most invariants say nothing
\* of what follows, and the run login_after_leave looks at it.
BeforeStale == ~stale

\* MaxPackets is spent on a session's first connection, or one packet fewer on both.
PacketsOrReuse == packets + issueCount <= MaxPackets + 1
=============================================================================
