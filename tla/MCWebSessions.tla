--------------------------- MODULE MCWebSessions ---------------------------
(* Instances of WebSessions for TLC. *)
EXTENDS WebSessions, TLC

CONSTANTS r1, r2, r3

MCRequests == {r1, r2, r3}

RequestSymmetry == Permutations(MCRequests)

=============================================================================
