---------------------------- MODULE OutboxWorker ----------------------------
(***************************************************************************)
(* The transactional outbox of the ledger: the rows that PostPayment,      *)
(* CreditAccount and CreditAccountSystem insert in their transactions, and *)
(* the workers, one per instance of the service, that publish them.        *)
(*                                                                         *)
(* A worker claims the oldest unpublished events in one transaction,       *)
(* publishes them one by one outside of it, stops at the first that fails, *)
(* and marks those that went out as published in a second transaction.     *)
(* A claim is a lease: it lapses two minutes after it was taken, whatever  *)
(* its worker does.                                                        *)
(*                                                                         *)
(* An event is the time it was created at, so that < is the order the      *)
(* workers read in.  That time is taken before the transaction starts,     *)
(* hence events may be stored in any order.                                *)
(***************************************************************************)
EXTENDS Integers, FiniteSets

CONSTANTS
    Events,     \* the events, by creation time
    Workers,    \* the instances of the service
    BatchSize   \* OUTBOX_BATCH_SIZE

ASSUME EventsAssumption == Events \subseteq Nat /\ IsFiniteSet(Events)
ASSUME BatchSizeAssumption == BatchSize \in Nat \ {0}

VARIABLES
    stored,     \* committed rows of outbox_events
    published,  \* rows with published = true
    claim,      \* processing and processing_at of each row
    wpc,        \* where each worker is
    batch,      \* what a worker claimed and has not published yet
    okIDs,      \* what a worker published and has not marked yet
    delivered,  \* how often EventBridge took an event: 0, 1, or 2 for more
    late,       \* history: events whose claim lapsed while in a worker's hand
    unsure      \* history: events that went out, perhaps, and were not marked

vars == <<stored, published, claim, wpc, batch, okIDs, delivered, late, unsure>>

Claims == {"free", "held", "lapsed"}

TypeOK ==
    /\ stored \subseteq Events
    /\ published \subseteq Events
    /\ claim \in [Events -> Claims]
    /\ wpc \in [Workers -> {"poll", "publish", "mark", "down"}]
    /\ batch \in [Workers -> SUBSET Events]
    /\ okIDs \in [Workers -> SUBSET Events]
    /\ delivered \in [Events -> 0 .. 2]
    /\ late \subseteq Events
    /\ unsure \subseteq Events

Init ==
    /\ stored = {}
    /\ published = {}
    /\ claim = [e \in Events |-> "free"]
    /\ wpc = [w \in Workers |-> "poll"]
    /\ batch = [w \in Workers |-> {}]
    /\ okIDs = [w \in Workers |-> {}]
    /\ delivered = [e \in Events |-> 0]
    /\ late = {}
    /\ unsure = {}

\* The events some worker has in hand.
InHand(w) == batch[w] \cup okIDs[w]

-----------------------------------------------------------------------------
(* Faulty variants of definitions below, each a mistake that some property *)
(* must notice.                                                            *)

\* A claim that its worker dropped never lapses.
FaultyExpire(e) ==
    /\ claim[e] = "held"
    /\ \E w \in Workers : e \in InHand(w)
    /\ claim' = [claim EXCEPT ![e] = "lapsed"]
    /\ late' = late \cup {e}
    /\ UNCHANGED <<stored, published, wpc, batch, okIDs, delivered, unsure>>

\* The whole batch counts as published when one of its events fails.
FaultyPublishFails(w) ==
    /\ wpc[w] = "publish"
    /\ okIDs' = [okIDs EXCEPT ![w] = @ \cup batch[w]]
    /\ batch' = [batch EXCEPT ![w] = {}]
    /\ wpc' = [wpc EXCEPT ![w] = "mark"]
    /\ UNCHANGED <<stored, published, claim, delivered, late, unsure>>

\* Only the claims are given back.
FaultyMark(w) ==
    /\ wpc[w] = "mark"
    /\ wpc' = [wpc EXCEPT ![w] = "poll"]
    /\ claim' = [e \in Events |-> IF e \in okIDs[w] THEN "free" ELSE claim[e]]
    /\ okIDs' = [okIDs EXCEPT ![w] = {}]
    /\ UNCHANGED <<stored, published, batch, delivered, late, unsure>>

\* What could not be marked is kept for the next round.
FaultyMarkFails(w) ==
    /\ wpc[w] = "mark"
    /\ wpc' = [wpc EXCEPT ![w] = "poll"]
    /\ UNCHANGED <<stored, published, claim, batch, okIDs, delivered, late, unsure>>

-----------------------------------------------------------------------------
(* The services that write events.                                         *)

\* The transaction that inserts e commits.
Store(e) ==
    /\ e \notin stored
    /\ stored' = stored \cup {e}
    /\ UNCHANGED <<published, claim, wpc, batch, okIDs, delivered, late, unsure>>

-----------------------------------------------------------------------------
(* The worker.                                                             *)

Claimable == {e \in stored \ published : claim[e] # "held"}

\* S is what ORDER BY created_at LIMIT BatchSize selects from rows.
Oldest(S, rows) ==
    /\ S \subseteq rows
    /\ \A e \in S, f \in rows \ S : e < f
    /\ Cardinality(S) <= BatchSize
    /\ Cardinality(S) = BatchSize \/ S = rows

\* FetchNextUnpublished.  SKIP LOCKED passes over the rows that a transaction
\* of another worker has locked, one that claims or one that marks.
Claim(w) ==
    /\ wpc[w] = "poll"
    /\ \E locked \in SUBSET Claimable :
        /\ locked # {} =>
               \E v \in Workers \ {w} : wpc[v] \in {"poll", "mark"}
        /\ \E S \in SUBSET (Claimable \ locked) \ {{}} :
            /\ Oldest(S, Claimable \ locked)
            /\ batch' = [batch EXCEPT ![w] = S]
            /\ claim' = [e \in Events |-> IF e \in S THEN "held" ELSE claim[e]]
    /\ wpc' = [wpc EXCEPT ![w] = "publish"]
    /\ UNCHANGED <<stored, published, okIDs, delivered, late, unsure>>

\* The event a worker publishes next.
IsNext(w, e) == e \in batch[w] /\ \A f \in batch[w] : e <= f

Deliver(e) == delivered' = [delivered EXCEPT ![e] = IF @ = 2 THEN 2 ELSE @ + 1]

\* After the last event of the batch the worker goes on to mark them.
PublishOk(w) ==
    /\ wpc[w] = "publish"
    /\ \E e \in batch[w] :
        /\ IsNext(w, e)
        /\ Deliver(e)
        /\ batch' = [batch EXCEPT ![w] = @ \ {e}]
        /\ okIDs' = [okIDs EXCEPT ![w] = @ \cup {e}]
        /\ wpc' = [wpc EXCEPT ![w] = IF batch[w] = {e} THEN "mark" ELSE @]
    /\ UNCHANGED <<stored, published, claim, late, unsure>>

\* The loop breaks.  The rest of the batch is dropped and keeps its claim.
Break(w) ==
    /\ batch' = [batch EXCEPT ![w] = {}]
    /\ wpc' = [wpc EXCEPT ![w] = IF okIDs[w] = {} THEN "poll" ELSE "mark"]

PublishFails(w) ==
    /\ wpc[w] = "publish"
    /\ Break(w)
    /\ UNCHANGED <<stored, published, claim, okIDs, delivered, late, unsure>>

PublishUnacknowledged(w) ==
    /\ wpc[w] = "publish"
    /\ \E e \in batch[w] :
        /\ IsNext(w, e)
        /\ Deliver(e)
        /\ unsure' = unsure \cup {e}
    /\ Break(w)
    /\ UNCHANGED <<stored, published, claim, okIDs, late>>

\* MarkPublished, which does not ask who holds the claims now.
Mark(w) ==
    /\ wpc[w] = "mark"
    /\ wpc' = [wpc EXCEPT ![w] = "poll"]
    /\ published' = published \cup okIDs[w]
    /\ claim' = [e \in Events |-> IF e \in okIDs[w] THEN "free" ELSE claim[e]]
    /\ okIDs' = [okIDs EXCEPT ![w] = {}]
    /\ UNCHANGED <<stored, batch, delivered, late, unsure>>

\* What was published is forgotten and will be published again.
MarkFails(w) ==
    /\ wpc[w] = "mark"
    /\ wpc' = [wpc EXCEPT ![w] = "poll"]
    /\ okIDs' = [okIDs EXCEPT ![w] = {}]
    /\ unsure' = unsure \cup okIDs[w]
    /\ UNCHANGED <<stored, published, claim, batch, delivered, late>>

\* The process ends.  Stop is only read between two rounds, and main returns
\* without waiting for the worker, so this may happen anywhere in a round.
Exit(w) ==
    /\ wpc[w] # "down"
    /\ wpc' = [wpc EXCEPT ![w] = "down"]
    /\ batch' = [batch EXCEPT ![w] = {}]
    /\ okIDs' = [okIDs EXCEPT ![w] = {}]
    /\ unsure' = unsure \cup okIDs[w]
    /\ UNCHANGED <<stored, published, claim, delivered, late>>

Start(w) ==
    /\ wpc[w] = "down"
    /\ wpc' = [wpc EXCEPT ![w] = "poll"]
    /\ UNCHANGED <<stored, published, claim, batch, okIDs, delivered, late, unsure>>

\* processing_at is more than two minutes ago.
Expire(e) ==
    /\ claim[e] = "held"
    /\ claim' = [claim EXCEPT ![e] = "lapsed"]
    /\ late' = IF \E w \in Workers : e \in InHand(w) THEN late \cup {e} ELSE late
    /\ UNCHANGED <<stored, published, wpc, batch, okIDs, delivered, unsure>>

-----------------------------------------------------------------------------
Worker(w) ==
    \/ Claim(w)
    \/ PublishOk(w) \/ PublishFails(w) \/ PublishUnacknowledged(w)
    \/ Mark(w) \/ MarkFails(w)

Next ==
    \/ \E e \in Events : Store(e) \/ Expire(e)
    \/ \E w \in Workers : Worker(w) \/ Exit(w) \/ Start(w)

Spec == Init /\ [][Next]_vars

\* Time passes, a service that ended is started again, a worker that can claim
\* does, and neither EventBridge nor the database fails for ever.
FairSpec ==
    /\ Spec
    /\ \A e \in Events : WF_vars(Expire(e))
    /\ \A w \in Workers :
        /\ WF_vars(Start(w))
        /\ WF_vars(Worker(w))
        /\ SF_vars(PublishOk(w))
        /\ SF_vars(Mark(w))

-----------------------------------------------------------------------------
(* Safety.                                                                 *)

\* A row is only marked after EventBridge took its event, whatever failed on
\* the way and whoever holds the claim: marked events are not lost.
PublishedWasDelivered == \A e \in published : e \in stored /\ delivered[e] > 0

\* No two workers have the same event in hand, however they end and whatever
\* fails, except for events whose claim lapsed during a round.
ClaimsExclude ==
    \A v, w \in Workers : v # w => InHand(v) \cap InHand(w) \subseteq late

\* An event is delivered twice only if its claim lapsed during a round or a
\* worker that had published it could not mark it.  In particular a refused
\* event costs no second delivery of those that went out before it.
DeliveredOnce == \A e \in Events : delivered[e] = 2 => e \in late \cup unsure

\* The workers implement delivery at least once.
Delivery == INSTANCE AtLeastOnceDelivery WITH
    sent <- {e \in Events : delivered[e] > 0},
    acked <- published

ImplementsAtLeastOnceDelivery == Delivery!Spec

-----------------------------------------------------------------------------
(* Liveness.                                                               *)

\* If workers do not die for ever, every stored event is published and marked:
\* no failure leaves a row that is never claimed again.
EveryEventPublished ==
    <>[][\A w \in Workers : ~Exit(w)]_vars =>
        \A e \in Events : (e \in stored) ~> (e \in published)

-----------------------------------------------------------------------------
(* The inductive invariant.                                                *)

\* What a worker holds back to mark was delivered, only a worker that is in
\* the right place has anything in hand, and only stored events are around.
Rounds ==
    /\ \A w \in Workers :
        /\ batch[w] \subseteq stored
        /\ okIDs[w] \subseteq stored
        /\ batch[w] # {} => wpc[w] = "publish"
        /\ okIDs[w] # {} => wpc[w] \in {"publish", "mark"}
        /\ \A e \in okIDs[w] : delivered[e] > 0
    /\ \A e \in Events : delivered[e] > 0 => e \in stored

\* Unless it lapsed in a round, a claim lasts as long as its event is in hand,
\* and an event in hand is in one hand and is not published.
Leases ==
    /\ ClaimsExclude
    /\ \A w \in Workers : \A e \in InHand(w) \ late :
           claim[e] = "held" /\ e \notin published

\* An event that was delivered is published, or it is in the hand of a worker
\* that is going to mark it and does not publish it again.
Settled ==
    \A e \in Events \ (late \cup unsure) :
        /\ delivered[e] < 2
        /\ delivered[e] > 0 =>
               e \in published \/ \E w \in Workers : e \in okIDs[w]
        /\ \A w \in Workers : e \in batch[w] => delivered[e] = 0

OutboxInv == TypeOK /\ Rounds /\ PublishedWasDelivered /\ Leases /\ Settled

=============================================================================
