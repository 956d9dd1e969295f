-------------------------- MODULE OutboxWorkerProofs --------------------------
(***************************************************************************)
(* Proofs about OutboxWorker for any number of workers, any finite set of  *)
(* events and any batch size: the parts of OutboxInv one after the other,  *)
(* then the safety properties and the implementation of delivery at least  *)
(* once.                                                                   *)
(***************************************************************************)
EXTENDS OutboxWorker, TLAPS

(* A step is one of a worker or of the events. *)
LEMMA StepCases ==
    ASSUME Next
    PROVE  \/ \E e \in Events : Store(e) \/ Expire(e)
           \/ \E w \in Workers : \/ Claim(w) \/ PublishOk(w) \/ PublishFails(w)
                                 \/ PublishUnacknowledged(w) \/ Mark(w)
                                 \/ MarkFails(w) \/ Exit(w) \/ Start(w)
  BY DEF Next, Worker

(* A claim adds unpublished events without a live claim to an empty hand. *)
LEMMA ClaimFacts ==
    ASSUME TypeOK, NEW w \in Workers, Claim(w)
    PROVE  \E S \in SUBSET Claimable :
               /\ wpc[w] = "poll"
               /\ batch' = [batch EXCEPT ![w] = S]
               /\ claim' = [e \in Events |-> IF e \in S THEN "held" ELSE claim[e]]
               /\ wpc' = [wpc EXCEPT ![w] = "publish"]
               /\ UNCHANGED <<stored, published, okIDs, delivered, late, unsure>>
  BY DEF Claim, Oldest

(* A delivery is counted. *)
LEMMA DeliverFacts ==
    ASSUME TypeOK, NEW e \in Events, Deliver(e)
    PROVE  /\ delivered' \in [Events -> 0 .. 2]
           /\ delivered'[e] > 0
           /\ delivered[e] = 0 => delivered'[e] = 1
           /\ \A f \in Events \ {e} : delivered'[f] = delivered[f]
  BY DEF TypeOK, Deliver

-----------------------------------------------------------------------------
\* Type correctness: every variable keeps its shape in every reachable state.
THEOREM TypeCorrect == Spec => []TypeOK
<1>1. Init => TypeOK
  BY DEF Init, TypeOK, Claims
<1>2. TypeOK /\ [Next]_vars => TypeOK'
  <2> SUFFICES ASSUME TypeOK, [Next]_vars PROVE TypeOK'
    OBVIOUS
  <2>1. CASE UNCHANGED vars
    BY <2>1 DEF vars, TypeOK
  <2>2. ASSUME NEW e \in Events, Store(e) \/ Expire(e) PROVE TypeOK'
    BY <2>2 DEF TypeOK, Claims, Store, Expire
  <2>3. ASSUME NEW w \in Workers, Claim(w) PROVE TypeOK'
    BY <2>3, ClaimFacts DEF TypeOK, Claims, Claimable
  <2>4. ASSUME NEW w \in Workers, PublishOk(w) PROVE TypeOK'
    BY <2>4, DeliverFacts DEF TypeOK, PublishOk
  <2>5. ASSUME NEW w \in Workers, PublishFails(w) PROVE TypeOK'
    BY <2>5 DEF TypeOK, PublishFails, Break
  <2>6. ASSUME NEW w \in Workers, PublishUnacknowledged(w) PROVE TypeOK'
    BY <2>6, DeliverFacts DEF TypeOK, PublishUnacknowledged, Break
  <2>7. ASSUME NEW w \in Workers,
               Mark(w) \/ MarkFails(w) \/ Exit(w) \/ Start(w)
        PROVE  TypeOK'
    BY <2>7 DEF TypeOK, Claims, Mark, MarkFails, Exit, Start
  <2>8. QED
    BY <2>1, <2>2, <2>3, <2>4, <2>5, <2>6, <2>7, StepCases
<1>3. QED
  BY <1>1, <1>2, PTL DEF Spec

-----------------------------------------------------------------------------
\* Workers have in hand what was stored, hold back to mark what was delivered,
\* and mark nothing else.
THEOREM RoundsKept == Spec => [](Rounds /\ PublishedWasDelivered)
<1> DEFINE Inv == Rounds /\ PublishedWasDelivered
<1>1. Init => Inv
  BY DEF Init, Rounds, PublishedWasDelivered
<1>2. TypeOK /\ Inv /\ [Next]_vars => Inv'
  <2> SUFFICES ASSUME TypeOK, Rounds, PublishedWasDelivered, [Next]_vars
               PROVE  Rounds' /\ PublishedWasDelivered'
    OBVIOUS
  <2>1. CASE UNCHANGED vars
    BY <2>1 DEF vars, Rounds, PublishedWasDelivered
  <2>2. ASSUME NEW e \in Events, Store(e) \/ Expire(e)
        PROVE  Rounds' /\ PublishedWasDelivered'
    BY <2>2 DEF TypeOK, Rounds, PublishedWasDelivered, Store, Expire
  <2>3. ASSUME NEW w \in Workers, Claim(w)
        PROVE  Rounds' /\ PublishedWasDelivered'
    BY <2>3, ClaimFacts
       DEF TypeOK, Rounds, PublishedWasDelivered, Claimable
  <2>4. ASSUME NEW w \in Workers, PublishOk(w)
        PROVE  Rounds' /\ PublishedWasDelivered'
    <3>1. PICK e \in batch[w] :
              /\ Deliver(e)
              /\ batch' = [batch EXCEPT ![w] = @ \ {e}]
              /\ okIDs' = [okIDs EXCEPT ![w] = @ \cup {e}]
              /\ wpc' = [wpc EXCEPT ![w] = IF batch[w] = {e} THEN "mark" ELSE @]
      BY <2>4 DEF PublishOk
    <3>2. /\ e \in Events /\ e \in stored
          /\ wpc[w] = "publish"
          /\ UNCHANGED <<stored, published>>
      BY <2>4 DEF PublishOk, TypeOK, Rounds
    <3>3. \A f \in Events : delivered[f] > 0 => delivered'[f] > 0
      BY <3>1, <3>2, DeliverFacts DEF TypeOK
    <3>4. delivered'[e] > 0 /\ \A f \in Events \ {e} : delivered'[f] = delivered[f]
      BY <3>1, <3>2, DeliverFacts
    <3>5. PublishedWasDelivered'
      BY <3>2, <3>3 DEF TypeOK, PublishedWasDelivered
    <3>6. Rounds'
      BY <3>1, <3>2, <3>3, <3>4 DEF TypeOK, Rounds
    <3>7. QED
      BY <3>5, <3>6
  <2>5. ASSUME NEW w \in Workers, PublishFails(w)
        PROVE  Rounds' /\ PublishedWasDelivered'
    BY <2>5 DEF TypeOK, Rounds, PublishedWasDelivered, PublishFails, Break
  <2>6. ASSUME NEW w \in Workers, PublishUnacknowledged(w)
        PROVE  Rounds' /\ PublishedWasDelivered'
    <3>1. PICK e \in batch[w] : Deliver(e)
      BY <2>6 DEF PublishUnacknowledged
    <3>2. /\ e \in Events /\ e \in stored
          /\ UNCHANGED <<stored, published, okIDs>>
          /\ Break(w)
      BY <2>6 DEF PublishUnacknowledged, TypeOK, Rounds
    <3>3. \A f \in Events : delivered[f] > 0 => delivered'[f] > 0
      BY <3>1, <3>2, DeliverFacts DEF TypeOK
    <3>4. \A f \in Events \ {e} : delivered'[f] = delivered[f]
      BY <3>1, <3>2, DeliverFacts
    <3>5. QED
      BY <2>6, <3>2, <3>3, <3>4
         DEF TypeOK, Rounds, PublishedWasDelivered, Break, PublishUnacknowledged
  <2>7. ASSUME NEW w \in Workers,
               Mark(w) \/ MarkFails(w) \/ Exit(w) \/ Start(w)
        PROVE  Rounds' /\ PublishedWasDelivered'
    BY <2>7 DEF TypeOK, Rounds, PublishedWasDelivered, Mark, MarkFails, Exit, Start
  <2>8. QED
    BY <2>1, <2>2, <2>3, <2>4, <2>5, <2>6, <2>7, StepCases
<1>3. QED
  BY <1>1, <1>2, TypeCorrect, PTL DEF Spec

-----------------------------------------------------------------------------
(* Putting events down keeps the leases of those that stay in hand. *)
LEMMA LeasesShrink ==
    ASSUME Leases,
           \A w \in Workers : InHand(w)' \subseteq InHand(w),
           late \subseteq late',
           \A w \in Workers : \A e \in InHand(w)' \ late' :
               claim'[e] = "held" /\ e \notin published'
    PROVE  Leases'
  BY DEF Leases, ClaimsExclude

\* A claim that did not lapse during a round keeps its event in one hand.
THEOREM LeasesKept == Spec => []Leases
<1>1. Init => Leases
  BY DEF Init, Leases, ClaimsExclude, InHand
<1>2. TypeOK /\ Rounds /\ Leases /\ [Next]_vars => Leases'
  <2> SUFFICES ASSUME TypeOK, Rounds, Leases, [Next]_vars PROVE Leases'
    OBVIOUS
  <2>1. CASE UNCHANGED vars
    BY <2>1 DEF vars, Leases, ClaimsExclude, InHand
  <2>2. ASSUME NEW e \in Events, Store(e) PROVE Leases'
    BY <2>2 DEF Store, Leases, ClaimsExclude, InHand
  <2>3. ASSUME NEW e \in Events, Expire(e) PROVE Leases'
    <3>1. UNCHANGED <<published, batch, okIDs>> /\ late \subseteq late'
      BY <2>3 DEF Expire
    <3>2. \A w \in Workers : InHand(w)' = InHand(w) /\ InHand(w) \subseteq Events
      BY <3>1 DEF InHand, TypeOK
    <3>3. ASSUME NEW w \in Workers, NEW f \in InHand(w) \ late'
          PROVE  f # e
      BY <2>3, <3>3 DEF Expire
    <3>4. \A f \in Events \ {e} : claim'[f] = claim[f]
      BY <2>3 DEF Expire, TypeOK
    <3>5. QED
      BY <3>1, <3>2, <3>3, <3>4, LeasesShrink DEF Leases
  <2>4. ASSUME NEW w \in Workers, Claim(w) PROVE Leases'
    <3>1. PICK S \in SUBSET Claimable :
              /\ wpc[w] = "poll"
              /\ batch' = [batch EXCEPT ![w] = S]
              /\ claim' = [e \in Events |-> IF e \in S THEN "held" ELSE claim[e]]
              /\ UNCHANGED <<published, okIDs, late>>
      BY <2>4, ClaimFacts
    <3>2. InHand(w)' = S /\ \A v \in Workers \ {w} : InHand(v)' = InHand(v)
      BY <3>1 DEF InHand, Rounds, TypeOK
    <3>3. \A v \in Workers : S \cap InHand(v) \subseteq late
      BY <3>1 DEF Claimable, Leases
    <3>4. ClaimsExclude'
      BY <3>1, <3>2, <3>3 DEF ClaimsExclude, Leases
    <3>5. \A v \in Workers : \A e \in InHand(v)' \ late' :
              claim'[e] = "held" /\ e \notin published'
      <4> SUFFICES ASSUME NEW v \in Workers, NEW e \in InHand(v)' \ late'
                   PROVE  claim'[e] = "held" /\ e \notin published'
        OBVIOUS
      <4>1. e \in Events
        BY <3>1, <3>2 DEF InHand, TypeOK, Claimable
      <4>2. CASE e \in S
        BY <3>1, <4>1, <4>2 DEF Claimable
      <4>3. CASE e \notin S
        BY <3>1, <3>2, <4>1, <4>3 DEF Leases
      <4>4. QED
        BY <4>2, <4>3
    <3>6. QED
      BY <3>4, <3>5 DEF Leases
  <2>5. ASSUME NEW w \in Workers, PublishOk(w) PROVE Leases'
    <3>1. \A v \in Workers : InHand(v)' = InHand(v)
      BY <2>5 DEF PublishOk, InHand, TypeOK
    <3>2. UNCHANGED <<published, claim, late>>
      BY <2>5 DEF PublishOk
    <3>3. QED
      BY <3>1, <3>2 DEF Leases, ClaimsExclude
  <2>6. ASSUME NEW w \in Workers,
               \/ PublishFails(w) \/ PublishUnacknowledged(w)
               \/ MarkFails(w) \/ Exit(w) \/ Start(w)
        PROVE  Leases'
    <3>1. UNCHANGED <<published, claim, late>>
      BY <2>6 DEF PublishFails, PublishUnacknowledged, MarkFails, Exit, Start
    <3>2. \A v \in Workers : InHand(v)' \subseteq InHand(v)
      BY <2>6 DEF PublishFails, PublishUnacknowledged, Break, MarkFails, Exit,
                  Start, InHand, TypeOK
    <3>3. QED
      BY <3>1, <3>2, LeasesShrink DEF Leases
  <2>7. ASSUME NEW w \in Workers, Mark(w) PROVE Leases'
    <3>1. /\ UNCHANGED <<batch, late>>
          /\ published' = published \cup okIDs[w]
          /\ \A e \in Events \ okIDs[w] : claim'[e] = claim[e]
      BY <2>7 DEF Mark
    <3>2. InHand(w)' = {} /\ \A v \in Workers \ {w} : InHand(v)' = InHand(v)
      BY <2>7 DEF Mark, InHand, Rounds, TypeOK
    <3>3. \A v \in Workers \ {w} : InHand(v) \cap okIDs[w] \subseteq late
      BY DEF Leases, ClaimsExclude, InHand
    <3>4. \A v \in Workers : InHand(v) \subseteq Events
      BY DEF InHand, TypeOK
    <3>5. ASSUME NEW v \in Workers, NEW e \in InHand(v)' \ late'
          PROVE  claim'[e] = "held" /\ e \notin published'
      BY <3>1, <3>2, <3>3, <3>4 DEF Leases
    <3>6. QED
      BY <3>1, <3>2, <3>5, LeasesShrink
  <2>8. QED
    BY <2>1, <2>2, <2>3, <2>4, <2>5, <2>6, <2>7, StepCases
<1>3. QED
  BY <1>1, <1>2, TypeCorrect, RoundsKept, PTL DEF Spec

-----------------------------------------------------------------------------
\* What Settled says of one event.
SettledAt(e) ==
    /\ delivered[e] < 2
    /\ delivered[e] > 0 => e \in published \/ \E w \in Workers : e \in okIDs[w]
    /\ \A w \in Workers : e \in batch[w] => delivered[e] = 0

(* An event keeps what Settled says of it if nobody delivers it, picks it up *)
(* or puts it down unmarked.                                                 *)
LEMMA SettledUndisturbed ==
    ASSUME NEW e \in Events, SettledAt(e),
           delivered'[e] = delivered[e],
           e \in published => e \in published',
           \A w \in Workers : e \in okIDs[w] => e \in published' \/ e \in okIDs'[w],
           \A w \in Workers : e \in batch'[w] => e \in batch[w]
    PROVE  SettledAt(e)'
  BY DEF SettledAt

\* An event is delivered again only after a round that lost its claim or could
\* not mark what it had published.
THEOREM SettledKept == Spec => []Settled
<1> DEFINE Inv == \A e \in Events \ (late \cup unsure) : SettledAt(e)
<1>1. Init => Inv
  BY DEF Init, SettledAt
<1>2. TypeOK /\ Rounds /\ Leases /\ Inv /\ [Next]_vars => Inv'
  <2> SUFFICES ASSUME TypeOK, Rounds, Leases, Inv, [Next]_vars,
                      NEW e \in Events, e \notin late', e \notin unsure'
               PROVE  SettledAt(e)'
    OBVIOUS
  <2>1. CASE UNCHANGED vars
    BY <2>1 DEF vars, SettledAt
  <2>2. ASSUME Next PROVE late \subseteq late' /\ unsure \subseteq unsure'
    BY <2>2, StepCases
       DEF Store, Expire, Claim, PublishOk, PublishFails, PublishUnacknowledged,
           Mark, MarkFails, Exit, Start
  <2>3. ASSUME Next PROVE e \notin late /\ e \notin unsure /\ SettledAt(e)
    BY <2>2, <2>3
  <2>4. ASSUME NEW f \in Events, Next, Store(f) \/ Expire(f) PROVE SettledAt(e)'
    BY <2>3, <2>4, SettledUndisturbed DEF Store, Expire
  <2>5. ASSUME NEW w \in Workers, Next, Claim(w) PROVE SettledAt(e)'
    <3>1. PICK S \in SUBSET Claimable :
              /\ batch' = [batch EXCEPT ![w] = S]
              /\ UNCHANGED <<published, okIDs, delivered>>
      BY <2>5, ClaimFacts
    <3>2. CASE e \in S
      <4>1. e \notin published /\ \A v \in Workers : e \notin InHand(v)
        BY <2>3, <2>5, <3>1, <3>2 DEF Claimable, Leases
      <4>2. delivered[e] = 0
        BY <2>3, <2>5, <4>1 DEF SettledAt, InHand, TypeOK
      <4>3. QED
        BY <3>1, <4>2 DEF SettledAt
    <3>3. CASE e \notin S
      BY <2>3, <2>5, <3>1, <3>3, SettledUndisturbed DEF TypeOK
    <3>4. QED
      BY <3>2, <3>3
  <2>6. ASSUME NEW w \in Workers, Next, PublishOk(w) PROVE SettledAt(e)'
    <3>1. PICK f \in batch[w] :
              /\ Deliver(f)
              /\ batch' = [batch EXCEPT ![w] = @ \ {f}]
              /\ okIDs' = [okIDs EXCEPT ![w] = @ \cup {f}]
      BY <2>6 DEF PublishOk
    <3>2. f \in Events /\ UNCHANGED published
      BY <2>6 DEF PublishOk, TypeOK
    <3>3. CASE e = f
      <4>1. delivered'[e] = 1
        BY <2>3, <2>6, <3>1, <3>2, <3>3, DeliverFacts DEF SettledAt
      <4>2. \A v \in Workers \ {w} : e \notin InHand(v)
        BY <2>3, <2>6, <3>1, <3>3 DEF Leases, ClaimsExclude, InHand
      <4>3. e \in okIDs'[w] /\ \A v \in Workers : e \notin batch'[v]
        BY <3>1, <3>3, <4>2 DEF InHand, TypeOK
      <4>4. QED
        BY <2>6, <4>1, <4>3 DEF SettledAt
    <3>4. CASE e # f
      <4>1. delivered'[e] = delivered[e]
        BY <3>1, <3>2, <3>4, DeliverFacts
      <4>2. QED
        BY <2>3, <2>6, <3>1, <3>2, <4>1, SettledUndisturbed DEF TypeOK
    <3>5. QED
      BY <3>3, <3>4
  <2>7. ASSUME NEW w \in Workers, Next, PublishUnacknowledged(w)
        PROVE  SettledAt(e)'
    <3>1. PICK f \in batch[w] : Deliver(f) /\ unsure' = unsure \cup {f}
      BY <2>7 DEF PublishUnacknowledged
    <3>2. f \in Events /\ e # f
      BY <2>7, <3>1 DEF TypeOK
    <3>3. delivered'[e] = delivered[e]
      BY <3>1, <3>2, DeliverFacts
    <3>4. QED
      BY <2>3, <2>7, <3>3, SettledUndisturbed
         DEF PublishUnacknowledged, Break, TypeOK
  <2>8. ASSUME NEW w \in Workers, Next, PublishFails(w) \/ Start(w)
        PROVE  SettledAt(e)'
    BY <2>3, <2>8, SettledUndisturbed DEF PublishFails, Break, Start, TypeOK
  <2>9. ASSUME NEW w \in Workers, Next, Mark(w) \/ MarkFails(w) \/ Exit(w)
        PROVE  SettledAt(e)'
    <3>1. /\ UNCHANGED delivered
          /\ published \subseteq published'
          /\ e \in okIDs[w] => e \in published'
          /\ \A v \in Workers : v # w => okIDs'[v] = okIDs[v]
          /\ \A v \in Workers : batch'[v] \subseteq batch[v]
      BY <2>9 DEF Mark, MarkFails, Exit, TypeOK
    <3>2. QED
      BY <2>3, <2>9, <3>1, SettledUndisturbed
  <2>10. QED
    BY <2>1, <2>4, <2>5, <2>6, <2>7, <2>8, <2>9, StepCases
<1>3. Inv <=> Settled
  BY DEF Settled, SettledAt
<1>4. QED
  BY <1>1, <1>2, <1>3, TypeCorrect, RoundsKept, LeasesKept, PTL DEF Spec

-----------------------------------------------------------------------------
\* The inductive invariant as a whole.
THEOREM OutboxInvariant == Spec => []OutboxInv
  BY TypeCorrect, RoundsKept, LeasesKept, SettledKept, PTL DEF OutboxInv

\* Events are delivered before their rows are marked.
THEOREM OutboxPublishedWasDelivered == Spec => []PublishedWasDelivered
  BY RoundsKept, PTL

\* Events whose claims did not lapse in a round are in one hand only.
THEOREM OutboxClaimsExclude == Spec => []ClaimsExclude
<1>1. Leases => ClaimsExclude
  BY DEF Leases
<1>2. QED
  BY <1>1, LeasesKept, PTL

\* A second delivery always has one of the two excuses.
THEOREM OutboxDeliveredOnce == Spec => []DeliveredOnce
<1>1. Settled => DeliveredOnce
  BY DEF Settled, DeliveredOnce
<1>2. QED
  BY <1>1, SettledKept, PTL

-----------------------------------------------------------------------------
(* A step of the outbox stores, delivers or acknowledges, or changes nothing *)
(* that delivery at least once can see.                                      *)
LEMMA StepDelivers ==
    ASSUME TypeOK, Rounds, [Next]_vars
    PROVE  [Delivery!Next]_(Delivery!vars)
<1> DEFINE sent == {e \in Events : delivered[e] > 0}
<1>1. CASE UNCHANGED vars
  BY <1>1 DEF vars, Delivery!vars
<1>2. ASSUME NEW e \in Events, Store(e) PROVE Delivery!Next
  BY <1>2 DEF Store, Delivery!Next, Delivery!Store
<1>3. ASSUME NEW w \in Workers, PublishOk(w) \/ PublishUnacknowledged(w)
      PROVE  Delivery!Next
  <2>1. PICK e \in batch[w] : Deliver(e)
    BY <1>3 DEF PublishOk, PublishUnacknowledged
  <2>2. e \in Events /\ e \in stored /\ UNCHANGED <<stored, published>>
    BY <1>3 DEF PublishOk, PublishUnacknowledged, TypeOK, Rounds
  <2>3. sent' = sent \cup {e}
    BY <2>1, <2>2, DeliverFacts
  <2>4. Delivery!Deliver(e)
    BY <2>2, <2>3 DEF Delivery!Deliver
  <2>5. QED
    BY <2>2, <2>4 DEF Delivery!Next
<1>4. ASSUME NEW w \in Workers, Mark(w) PROVE Delivery!Next
  <2>1. okIDs[w] \subseteq sent
    BY DEF Rounds, TypeOK
  <2>2. Delivery!Acknowledge(okIDs[w])
    BY <1>4, <2>1 DEF Mark, Delivery!Acknowledge
  <2>3. QED
    BY <2>2 DEF TypeOK, Delivery!Next
<1>5. ASSUME NEW e \in Events, Expire(e) PROVE UNCHANGED Delivery!vars
  BY <1>5 DEF Expire, Delivery!vars
<1>6. ASSUME NEW w \in Workers,
             Claim(w) \/ PublishFails(w) \/ MarkFails(w) \/ Exit(w) \/ Start(w)
      PROVE  UNCHANGED Delivery!vars
  BY <1>6 DEF Claim, PublishFails, MarkFails, Exit, Start, Delivery!vars
<1>7. QED
  BY <1>1, <1>2, <1>3, <1>4, <1>5, <1>6, StepCases

\* The claiming, publishing and marking of any number of workers is delivery at
\* least once.
THEOREM OutboxImplementsDelivery == Spec => ImplementsAtLeastOnceDelivery
<1>1. Init => Delivery!Init
  BY DEF Init, Delivery!Init
<1>2. QED
  BY <1>1, StepDelivers, TypeCorrect, RoundsKept, PTL
     DEF Spec, ImplementsAtLeastOnceDelivery, Delivery!Spec

=============================================================================
