------------------------ MODULE LedgerConsumerProofs ------------------------
(***************************************************************************)
(* Proofs about LedgerConsumer for any messages, consumers and bounds.     *)
(***************************************************************************)
EXTENDS LedgerConsumer, TLAPS

(* What a commit adds to the balances it notes in the inbox, and a failed    *)
(* message is none of those.                                                *)
LEMMA CommitMatches ==
    ASSUME ConsumerInv, NEW c \in Consumers, NEW failedIds \in SUBSET Ids,
           CommitStaged(c, failedIds),
           \A i \in failedIds : \E m \in Unparsable : IdOf[m] = i
    PROVE  /\ credits' \in [Messages -> 0 .. 2]
           /\ inbox' \in [Ids -> {"absent", "processed", "failed"}]
           /\ InboxMatchesCredits'
           /\ \A m \in Messages : credits'[m] > 0 <=> credits[m] > 0 \/ m \in staged[c]
<1>1. TypeOK /\ InboxMatchesCredits /\ OnlyParsed
  BY DEF ConsumerInv
<1>2. credits' \in [Messages -> 0 .. 2]
  BY <1>1 DEF CommitStaged, TypeOK
<1>3. inbox' \in [Ids -> {"absent", "processed", "failed"}]
  BY <1>1 DEF CommitStaged, TypeOK
<1>4. \A m \in Messages : credits'[m] > 0 <=> credits[m] > 0 \/ m \in staged[c]
  BY <1>1 DEF CommitStaged, TypeOK
<1>5. ASSUME NEW i \in Ids
      PROVE  inbox'[i] = "processed" <=>
                 \E m \in Messages : IdOf[m] = i /\ credits'[m] > 0
  <2>1. CASE i \in failedIds
    <3>1. PICK u \in Unparsable : IdOf[u] = i
      BY <2>1
    <3>2. ASSUME NEW m \in Messages, IdOf[m] = i PROVE ~(credits'[m] > 0)
      BY <1>1, <1>4, <3>1, <3>2, MessagesAssumption DEF OnlyParsed, TypeOK
    <3>3. QED
      BY <2>1, <3>2 DEF CommitStaged
  <2>2. CASE i \notin failedIds
    <3>1. inbox'[i] = IF \E m \in staged[c] : IdOf[m] = i THEN "processed" ELSE inbox[i]
      BY <2>2 DEF CommitStaged
    <3>2. inbox[i] = "processed" <=> \E m \in Messages : IdOf[m] = i /\ credits[m] > 0
      BY <1>1 DEF InboxMatchesCredits
    <3>3. staged[c] \subseteq Messages
      BY <1>1 DEF TypeOK
    <3>4. QED
      BY <1>4, <3>1, <3>2, <3>3
  <2>3. QED
    BY <2>1, <2>2
<1>6. QED
  BY <1>2, <1>3, <1>4, <1>5 DEF InboxMatchesCredits

(* The end of a poll that commits: Commit and FailChecked. *)
LEMMA CommitKeeps ==
    ASSUME ConsumerInv, NEW c \in Consumers, NEW failedIds \in SUBSET Ids,
           CommitStaged(c, failedIds), EndPoll(c),
           UNCHANGED <<queue, receives, late, undone>>,
           \A i \in failedIds : \E m \in Unparsable : IdOf[m] = i
    PROVE  ConsumerInv'
<1>1. /\ credits' \in [Messages -> 0 .. 2]
      /\ inbox' \in [Ids -> {"absent", "processed", "failed"}]
      /\ InboxMatchesCredits'
      /\ \A m \in Messages : credits'[m] > 0 <=> credits[m] > 0 \/ m \in staged[c]
  BY CommitMatches
<1>2. TypeOK'
  BY <1>1 DEF ConsumerInv, TypeOK, EndPoll
<1>3. InOnePlace'
  <2> SUFFICES ASSUME NEW m \in Messages \ late
               PROVE  /\ \A d \in Consumers :
                             /\ m \in pending'[d] => queue[m] = "inflight"
                             /\ m \in staged'[d] => queue[m] = "deleted" /\ credits'[m] = 0
                      /\ \A d, e \in Consumers : InPoll(d, m)' /\ InPoll(e, m)' => d = e
                      /\ credits'[m] > 0 => credits'[m] = 1 /\ queue[m] = "deleted"
    BY DEF InOnePlace
  <2>1. TypeOK /\ InOnePlace
    BY DEF ConsumerInv
  <2>2. \A d \in Consumers : /\ pending'[d] = IF d = c THEN {} ELSE pending[d]
                             /\ staged'[d] = IF d = c THEN {} ELSE staged[d]
    BY <2>1 DEF EndPoll, TypeOK
  <2>3. credits'[m] = IF m \in staged[c] /\ credits[m] < 2 THEN credits[m] + 1 ELSE credits[m]
    BY DEF CommitStaged
  <2>4. \A d \in Consumers : m \in staged'[d] => queue[m] = "deleted" /\ credits'[m] = 0
    BY <2>1, <2>2, <2>3 DEF InOnePlace, InPoll
  <2>5. credits'[m] > 0 => credits'[m] = 1 /\ queue[m] = "deleted"
    BY <2>1, <2>3 DEF InOnePlace, TypeOK
  <2>6. QED
    BY <2>1, <2>2, <2>4, <2>5 DEF InOnePlace, InPoll
<1>4. Receivable'
  BY DEF ConsumerInv, Receivable
<1>5. OnlyParsed'
  BY <1>1, MessagesAssumption DEF ConsumerInv, OnlyParsed, TypeOK, EndPoll
<1>6. QED
  BY <1>1, <1>2, <1>3, <1>4, <1>5 DEF ConsumerInv

-----------------------------------------------------------------------------
\* The inbox and the balances agree, and a message that no poll outlived is in
\* one place only.
THEOREM ConsumerInvariant == Spec => []ConsumerInv
<1>1. Init => ConsumerInv
  BY MessagesAssumption, QueueAssumption
     DEF Init, ConsumerInv, TypeOK, InboxMatchesCredits, InOnePlace, Receivable, OnlyParsed,
         InPoll
<1>2. ConsumerInv /\ [Next]_vars => ConsumerInv'
  <2> SUFFICES ASSUME ConsumerInv, [Next]_vars PROVE ConsumerInv'
    OBVIOUS
  <2>0. TypeOK /\ InboxMatchesCredits /\ InOnePlace /\ Receivable /\ OnlyParsed
    BY DEF ConsumerInv
  <2>1. CASE UNCHANGED vars
    BY <2>1 DEF vars, ConsumerInv, TypeOK, InboxMatchesCredits, InOnePlace, Receivable,
                OnlyParsed, InPoll
  <2>2. ASSUME NEW m \in Messages, Send(m) PROVE ConsumerInv'
    <3>1. TypeOK'
      BY <2>0, <2>2 DEF Send, Moved, TypeOK
    <3>2. InboxMatchesCredits' /\ OnlyParsed'
      BY <2>0, <2>2 DEF Send, InboxMatchesCredits, OnlyParsed
    <3>3. InOnePlace'
      BY <2>0, <2>2 DEF Send, Moved, InOnePlace, InPoll
    <3>4. Receivable'
      BY <2>0, <2>2, QueueAssumption DEF Send, Moved, Receivable
    <3>5. QED
      BY <3>1, <3>2, <3>3, <3>4 DEF ConsumerInv
  <2>3. ASSUME NEW m \in Messages, Reappear(m) PROVE ConsumerInv'
    <3>1. TypeOK'
      BY <2>0, <2>3 DEF Reappear, NoteLate, Moved, TypeOK
    <3>2. InboxMatchesCredits' /\ OnlyParsed'
      BY <2>0, <2>3 DEF Reappear, InboxMatchesCredits, OnlyParsed
    <3>3. InOnePlace'
      BY <2>0, <2>3 DEF Reappear, NoteLate, Moved, InOnePlace, InPoll
    <3>4. Receivable'
      BY <2>0, <2>3 DEF Reappear, Moved, Receivable
    <3>5. QED
      BY <3>1, <3>2, <3>3, <3>4 DEF ConsumerInv
  <2>4. ASSUME NEW c \in Consumers, Receive(c) PROVE ConsumerInv'
    <3>1. PICK S \in SUBSET {m \in Messages : queue[m] = "visible"} :
              /\ queue' = Moved(S, "inflight")
              /\ receives' = [m \in Messages |-> receives[m] + IF m \in S THEN 1 ELSE 0]
              /\ pending' = [pending EXCEPT ![c] = S]
      BY <2>4 DEF Receive
    <3>2. UNCHANGED <<staged, credits, inbox, late, undone>>
      BY <2>4 DEF Receive
    <3>3. TypeOK'
      <4>1. queue' \in [Messages -> {"unsent", "visible", "inflight", "deleted", "dead"}]
        BY <2>0, <3>1 DEF Moved, TypeOK
      <4>2. receives' \in [Messages -> 0 .. MaxReceives]
        BY <2>0, <3>1, QueueAssumption DEF TypeOK, Receivable
      <4>3. cpc' \in [Consumers -> {"idle", "working"}]
        BY <2>0, <2>4 DEF Receive, TypeOK
      <4>4. QED
        BY <2>0, <3>1, <3>2, <4>1, <4>2, <4>3 DEF TypeOK
    <3>4. InboxMatchesCredits' /\ OnlyParsed'
      BY <2>0, <3>2 DEF InboxMatchesCredits, OnlyParsed
    <3>5. InOnePlace'
      BY <2>0, <3>1, <3>2 DEF Moved, InOnePlace, InPoll, TypeOK
    <3>6. Receivable'
      BY <2>0, <3>1 DEF Moved, Receivable, TypeOK
    <3>7. QED
      BY <3>3, <3>4, <3>5, <3>6 DEF ConsumerInv
  <2>5. ASSUME NEW c \in Consumers, NEW m \in Messages, Apply(c, m) PROVE ConsumerInv'
    <3>1. /\ m \in pending[c] /\ m \notin Unparsable
          /\ pending' = [pending EXCEPT ![c] = @ \ {m}]
          /\ staged' = [staged EXCEPT ![c] = @ \cup {m}]
          /\ UNCHANGED <<receives, cpc, credits, inbox, late, undone>>
          /\ \/ queue' = IF queue[m] = "dead" THEN queue ELSE Moved({m}, "deleted")
             \/ m \in late /\ queue' = queue
      BY <2>5 DEF Apply, Delete
    <3>2. TypeOK'
      BY <2>0, <3>1 DEF Moved, TypeOK
    <3>3. InboxMatchesCredits'
      BY <2>0, <3>1 DEF InboxMatchesCredits
    <3>4. OnlyParsed'
      BY <2>0, <3>1 DEF OnlyParsed, TypeOK
    <3>5. InOnePlace'
      <4> SUFFICES ASSUME NEW n \in Messages \ late
                   PROVE  /\ \A d \in Consumers :
                                 /\ n \in pending'[d] => queue'[n] = "inflight"
                                 /\ n \in staged'[d] => queue'[n] = "deleted" /\ credits[n] = 0
                          /\ \A d, e \in Consumers : InPoll(d, n)' /\ InPoll(e, n)' => d = e
                          /\ credits[n] > 0 => credits[n] = 1 /\ queue'[n] = "deleted"
        BY <3>1 DEF InOnePlace
      <4>1. \A d \in Consumers : InPoll(d, n)' <=> InPoll(d, n)
        BY <2>0, <3>1 DEF InPoll, TypeOK
      <4>2. CASE n = m
        <5>1. queue[m] = "inflight" /\ credits[m] = 0
          BY <2>0, <3>1, <4>2 DEF InOnePlace, TypeOK
        <5>2. queue'[m] = "deleted"
          BY <3>1, <4>2, <5>1 DEF Moved
        <5>3. \A d \in Consumers : m \notin pending'[d]
          BY <2>0, <3>1, <4>2 DEF InOnePlace, InPoll, TypeOK
        <5>4. QED
          BY <2>0, <4>1, <4>2, <5>1, <5>2, <5>3 DEF InOnePlace
      <4>3. CASE n # m
        <5>1. queue'[n] = queue[n]
          BY <3>1, <4>3 DEF Moved
        <5>2. QED
          BY <2>0, <3>1, <4>1, <4>3, <5>1 DEF InOnePlace, TypeOK
      <4>4. QED
        BY <4>2, <4>3
    <3>6. Receivable'
      BY <2>0, <3>1 DEF Moved, Receivable, TypeOK
    <3>7. QED
      BY <3>2, <3>3, <3>4, <3>5, <3>6 DEF ConsumerInv
  <2>6. ASSUME NEW c \in Consumers, Commit(c) PROVE ConsumerInv'
    BY <2>6, CommitKeeps DEF Commit
  <2>7. ASSUME NEW c \in Consumers, NEW m \in Messages, FailChecked(c, m) PROVE ConsumerInv'
    <3>1. PICK failedIds \in {{}, {IdOf[m]}} : CommitStaged(c, failedIds)
      BY <2>7 DEF FailChecked
    <3>2. failedIds \in SUBSET Ids
      BY <3>1, MessagesAssumption
    <3>3. m \in Unparsable /\ EndPoll(c) /\ UNCHANGED <<queue, receives, late, undone>>
      BY <2>7 DEF FailChecked
    <3>4. QED
      BY <3>1, <3>2, <3>3, CommitKeeps
  <2>8. ASSUME NEW c \in Consumers, Fail(c) PROVE ConsumerInv'
    <3>1. /\ EndPoll(c) /\ UNCHANGED <<queue, receives, credits, inbox, late>>
          /\ undone' = undone \cup staged[c]
      BY <2>8 DEF Fail
    <3>2. TypeOK'
      BY <2>0, <3>1 DEF EndPoll, TypeOK
    <3>3. InboxMatchesCredits' /\ Receivable'
      BY <2>0, <3>1 DEF InboxMatchesCredits, Receivable
    <3>4. InOnePlace' /\ OnlyParsed'
      BY <2>0, <3>1 DEF EndPoll, InOnePlace, OnlyParsed, InPoll, TypeOK
    <3>5. QED
      BY <3>2, <3>3, <3>4 DEF ConsumerInv
  <2>9. QED
    BY <2>1, <2>2, <2>3, <2>4, <2>5, <2>6, <2>7, <2>8 DEF Next, Consumer
<1>3. QED
  BY <1>1, <1>2, PTL DEF Spec

\* A message is applied once, and one in the dead-letter queue not at all,
\* unless it became visible again during a poll.
THEOREM ConsumerMessageOnce == Spec => []MessageOnce
<1>1. ConsumerInv => MessageOnce
  BY DEF ConsumerInv, TypeOK, InOnePlace, MessageOnce
<1>2. QED
  BY <1>1, ConsumerInvariant, PTL

\* A deleted message is in the balances or on its way there, unless a poll that
\* had applied it was rolled back.
THEOREM ConsumerNothingLost == Spec => []NothingLost
<1>1. Init => NothingLost
  BY DEF Init, NothingLost
<1>2. ConsumerInv /\ NothingLost /\ [Next]_vars => NothingLost'
  <2> SUFFICES ASSUME ConsumerInv, NothingLost, [Next]_vars PROVE NothingLost'
    OBVIOUS
  <2>0. TypeOK
    BY DEF ConsumerInv
  <2>1. CASE UNCHANGED vars
    BY <2>1 DEF vars, NothingLost, InBalances
  <2>2. ASSUME NEW m \in Messages, Send(m) \/ Reappear(m) PROVE NothingLost'
    BY <2>0, <2>2 DEF Send, Reappear, Moved, NothingLost, InBalances, TypeOK
  <2>3. ASSUME NEW c \in Consumers, Receive(c) PROVE NothingLost'
    BY <2>3 DEF Receive, Moved, NothingLost, InBalances
  <2>4. ASSUME NEW c \in Consumers, NEW m \in Messages, Apply(c, m) PROVE NothingLost'
    <3>1. /\ \A n \in Messages : queue'[n] = "deleted" => queue[n] = "deleted" \/ n = m
          /\ m \in staged'[c]
          /\ \A d \in Consumers : staged[d] \subseteq staged'[d]
          /\ UNCHANGED <<credits, undone>>
      BY <2>0, <2>4 DEF Apply, Delete, Moved, TypeOK
    <3>2. QED
      BY <3>1 DEF NothingLost, InBalances
  <2>5. ASSUME NEW c \in Consumers, Commit(c) \/ \E m \in Messages : FailChecked(c, m)
        PROVE  NothingLost'
    <3>1. /\ UNCHANGED <<queue, undone>> /\ EndPoll(c)
          /\ \E failedIds : CommitStaged(c, failedIds)
      BY <2>5 DEF Commit, FailChecked
    <3>2. \A n \in Messages : credits[n] > 0 \/ n \in staged[c] => credits'[n] > 0
      BY <2>0, <3>1 DEF CommitStaged, TypeOK
    <3>3. \A d \in Consumers : d # c => staged'[d] = staged[d]
      BY <2>0, <3>1 DEF EndPoll, TypeOK
    <3>4. QED
      BY <3>1, <3>2, <3>3 DEF NothingLost, InBalances
  <2>6. ASSUME NEW c \in Consumers, Fail(c) PROVE NothingLost'
    BY <2>0, <2>6 DEF Fail, EndPoll, NothingLost, InBalances, TypeOK
  <2>7. QED
    BY <2>1, <2>2, <2>3, <2>4, <2>5, <2>6 DEF Next, Consumer
<1>3. QED
  BY <1>1, <1>2, ConsumerInvariant, PTL DEF Spec

=============================================================================
