-------------------------- MODULE MCLedgerConsumer --------------------------
(* Instances of LedgerConsumer for TLC. *)
EXTENDS LedgerConsumer, TLC

CONSTANTS m1, m2, m3, i1, i2

\* Two deliveries of one event, and a message that cannot be parsed.
MCMessages == {m1, m2, m3}
MCIds == {i1, i2}
MCIdOf == (m1 :> i1) @@ (m2 :> i1) @@ (m3 :> i2)
MCUnparsable == {m3}

=============================================================================
