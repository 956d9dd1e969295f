------------------------ MODULE AtLeastOnceDelivery ------------------------
(***************************************************************************)
(* What a transactional outbox promises, with no worker and no claim in    *)
(* sight: only stored events are delivered, any number of times, and an    *)
(* event is only acknowledged, and so no longer retried, once it was       *)
(* delivered.                                                              *)
(***************************************************************************)
CONSTANT Events

VARIABLES
    stored,  \* events committed with the change they announce
    sent,    \* events delivered at least once
    acked    \* events that need no further delivery

vars == <<stored, sent, acked>>

Init == stored = {} /\ sent = {} /\ acked = {}

Store(e) ==
    /\ stored' = stored \cup {e}
    /\ UNCHANGED <<sent, acked>>

Deliver(e) ==
    /\ e \in stored
    /\ sent' = sent \cup {e}
    /\ UNCHANGED <<stored, acked>>

Acknowledge(S) ==
    /\ S \subseteq sent
    /\ acked' = acked \cup S
    /\ UNCHANGED <<stored, sent>>

Next ==
    \/ \E e \in Events : Store(e) \/ Deliver(e)
    \/ \E S \in SUBSET Events : Acknowledge(S)

Spec == Init /\ [][Next]_vars

=============================================================================
