-------------------------- MODULE MCLedgerCredits --------------------------
(* Instances of LedgerCredits for TLC. *)
EXTENDS LedgerCredits, TLC

CONSTANTS a1, a2, a3, a4, a5, k1, k2

\* Four calls with one key and one with another.
MCAttempts == {a1, a2, a3, a4, a5}
MCKeys == {k1, k2}
MCKeyOf == [a \in MCAttempts |-> IF a = a5 THEN k2 ELSE k1]

SameKeySymmetry == Permutations({a1, a2, a3, a4})

=============================================================================
