---------------------------- MODULE MCOnboarding ----------------------------
(* Instances of Onboarding for TLC. *)
EXTENDS Onboarding, TLC

CONSTANTS c1, c2, a1, a2, l1

\* An activation and a retry of it; a confirmation and a retry; a login.
MCConfirms == {c1, c2}
MCActivations == {a1, a2}
MCLogins == {l1}

RetrySymmetry == Permutations(MCConfirms) \cup Permutations(MCActivations)

=============================================================================
