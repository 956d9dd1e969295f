-------------------------- MODULE MCAccountOpening --------------------------
(* Instances of AccountOpening for TLC. *)
EXTENDS AccountOpening, TLC

CONSTANTS o1, o2, o3, k1

\* An opening and two retries of it.
MCAttempts == {o1, o2, o3}
MCKeys == {k1}
MCKeyOf == [o \in MCAttempts |-> k1]

RetrySymmetry == Permutations(MCAttempts)

=============================================================================
