-------------------------- MODULE MCAccountsBreaker --------------------------
(* Instances of AccountsBreaker for TLC. *)
EXTENDS AccountsBreaker

CONSTANTS c1, c2, c3, c4, c5, c6

\* One caller more than a half-open breaker lets through.
MCCallers == {c1, c2, c3, c4, c5, c6}

=============================================================================
