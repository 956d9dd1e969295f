---------------------------- MODULE MCPaymentSaga ----------------------------
(* Instances of PaymentSaga for TLC. *)
EXTENDS PaymentSaga, TLC

CONSTANTS a1, a2, k1, k2

MCAccounts == {a1, a2}
MCKeys == {k1, k2}

\* Two payments that cannot both be paid out of a1, a retry of the first key
\* with another amount, and one payment the other way.
MCRequests ==
    { [key |-> k1, src |-> a1, dst |-> a2, amount |-> 2],
      [key |-> k1, src |-> a1, dst |-> a2, amount |-> 1],
      [key |-> k2, src |-> a1, dst |-> a2, amount |-> 2],
      [key |-> k2, src |-> a2, dst |-> a1, amount |-> 1] }

MCFunding == (a1 :> 3) @@ (a2 :> 1)
MCDailyOut == (a1 :> 2) @@ (a2 :> 0)

AllFaults == FaultKinds
AcknowledgedFaults == FaultKinds \ {"lost_commit_ack"}

=============================================================================
