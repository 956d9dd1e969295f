---------------------------- MODULE MCPaymentApi ----------------------------
(* Instances of PaymentApi for TLC. *)
EXTENDS PaymentApi, TLC

CONSTANTS t1, t2, o1, o2, o3, p1, p2, acc1, acc2

MCTabs == {t1, t2}
MCOrders == {o1, o2, o3}
MCAttempts == {p1, p2}
MCAccounts == {acc1, acc2}

\* Two orders of different accounts on one tab; the other tab has one that
\* competes with the first of them.  The funding of the first account covers
\* one payment, that of the second account two.
MCTab == (o1 :> t1) @@ (o2 :> t1) @@ (o3 :> t2)
MCSrc == (o1 :> acc1) @@ (o2 :> acc2) @@ (o3 :> acc1)
MCPrice == [o \in MCOrders |-> 1]
MCFunding == (acc1 :> 1) @@ (acc2 :> 2)

ClickSymmetry == Permutations(MCAttempts)

=============================================================================
