---------------------------- MODULE MCStatements ----------------------------
(* Instances of Statements for TLC. *)
EXTENDS Statements, TLC

CONSTANTS a1, a2, credit, j1, j2

MCAccounts == {a1, a2}
MCJournals == {credit, j1, j2}

\* A credit to a1, two payments out of it.
MCPosting ==
    (credit :> [src |-> None, dst |-> a1, amount |-> 3])
    @@ (j1 :> [src |-> a1, dst |-> a2, amount |-> 1])
    @@ (j2 :> [src |-> a1, dst |-> a2, amount |-> 1])

PaymentSymmetry == Permutations({j1, j2})

=============================================================================
