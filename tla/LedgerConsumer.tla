--------------------------- MODULE LedgerConsumer ---------------------------
(***************************************************************************)
(* The consumer of ledger events in the account service, and the SQS queue *)
(* it reads from.                                                          *)
(*                                                                         *)
(* One poll receives a batch of messages and handles them one by one in a  *)
(* single database transaction: note the event id in the inbox, add the    *)
(* postings to the balances, mark the event processed, delete the message. *)
(* The deletion takes effect at once, the rest when the poll commits.      *)
(*                                                                         *)
(* The inbox is meant to keep an event from being applied twice.  Its      *)
(* entity has an assigned id and no version, so save merges: an existing   *)
(* row is loaded and overwritten, and the constraint violation that        *)
(* tryBegin waits for is not raised there.                                 *)
(***************************************************************************)
EXTENDS Integers, FiniteSets

CONSTANTS
    Messages,     \* messages that reach the queue
    Ids,          \* event ids
    IdOf,         \* the event id of each message
    Unparsable,   \* messages with which the JSON parser fails
    Consumers,    \* instances of the service, each polls one batch at a time
    BatchSize,    \* maxNumberOfMessages
    MaxReceives   \* maxReceiveCount of the queue's redrive policy

ASSUME MessagesAssumption ==
    /\ IdOf \in [Messages -> Ids]
    /\ Unparsable \subseteq Messages
    /\ \A m \in Unparsable, n \in Messages \ Unparsable : IdOf[m] # IdOf[n]
ASSUME QueueAssumption == BatchSize \in Nat \ {0} /\ MaxReceives \in Nat \ {0}

VARIABLES
    queue,     \* where each message is
    receives,  \* how often each message was received
    cpc,       \* whether each consumer is in a poll
    pending,   \* received and not handled yet, in the poll of each consumer
    staged,    \* applied in the open transaction of each consumer
    credits,   \* how often a message was applied: 0, 1, or 2 for more
    inbox,     \* inbox_events: the status of each event id
    late,      \* history: messages that became visible during a poll
    undone     \* history: messages applied in a poll that was rolled back

vars == <<queue, receives, cpc, pending, staged, credits, inbox, late, undone>>

TypeOK ==
    /\ queue \in [Messages -> {"unsent", "visible", "inflight", "deleted", "dead"}]
    /\ receives \in [Messages -> 0 .. MaxReceives]
    /\ cpc \in [Consumers -> {"idle", "working"}]
    /\ pending \in [Consumers -> SUBSET Messages]
    /\ staged \in [Consumers -> SUBSET Messages]
    /\ credits \in [Messages -> 0 .. 2]
    /\ inbox \in [Ids -> {"absent", "processed", "failed"}]
    /\ late \subseteq Messages
    /\ undone \subseteq Messages

Init ==
    /\ queue = [m \in Messages |-> "unsent"]
    /\ receives = [m \in Messages |-> 0]
    /\ cpc = [c \in Consumers |-> "idle"]
    /\ pending = [c \in Consumers |-> {}]
    /\ staged = [c \in Consumers |-> {}]
    /\ credits = [m \in Messages |-> 0]
    /\ inbox = [i \in Ids |-> "absent"]
    /\ late = {}
    /\ undone = {}

-----------------------------------------------------------------------------
EndPoll(c) ==
    /\ cpc' = [cpc EXCEPT ![c] = "idle"]
    /\ pending' = [pending EXCEPT ![c] = {}]
    /\ staged' = [staged EXCEPT ![c] = {}]

\* The consumers that are handling m, or have in their open transaction.
InPoll(c, m) == m \in pending[c] \cup staged[c]

NoteLate(m) ==
    late' = IF \E c \in Consumers : InPoll(c, m) THEN late \cup {m} ELSE late

Moved(S, place) == [m \in Messages |-> IF m \in S THEN place ELSE queue[m]]

(* Faulty variants of definitions below, each a mistake that some property *)
(* must notice.                                                            *)

\* The deltas are written outside of the transaction of the poll.
FaultyFail(c) ==
    /\ cpc[c] = "working"
    /\ undone' = undone \cup staged[c]
    /\ EndPoll(c)
    /\ credits' = [m \in Messages |-> IF m \in staged[c] /\ credits[m] < 2
                                      THEN credits[m] + 1 ELSE credits[m]]
    /\ UNCHANGED <<queue, receives, inbox, late>>

\* A message is not deleted after it was applied.
FaultyApply(c, m) ==
    /\ m \in pending[c]
    /\ m \notin Unparsable
    /\ pending' = [pending EXCEPT ![c] = @ \ {m}]
    /\ staged' = [staged EXCEPT ![c] = @ \cup {m}]
    /\ UNCHANGED <<queue, receives, cpc, credits, inbox, late, undone>>

\* An unparsable message ends the poll without a commit.
FaultyFailChecked(c, m) ==
    /\ m \in pending[c]
    /\ m \in Unparsable
    /\ EndPoll(c)
    /\ UNCHANGED <<queue, receives, credits, inbox, late, undone>>

\* A message that was received too often goes nowhere.
FaultyReappearNoDLQ(m) ==
    /\ queue[m] = "inflight"
    /\ receives[m] < MaxReceives
    /\ NoteLate(m)
    /\ queue' = Moved({m}, "visible")
    /\ UNCHANGED <<receives, cpc, pending, staged, credits, inbox, undone>>

-----------------------------------------------------------------------------
(* The queue.                                                              *)

Send(m) ==
    /\ queue[m] = "unsent"
    /\ queue' = Moved({m}, "visible")
    /\ UNCHANGED <<receives, cpc, pending, staged, credits, inbox, late, undone>>

\* The visibility timeout of a message that was not deleted passes: it is
\* delivered again, or moved to the dead-letter queue.
Reappear(m) ==
    /\ queue[m] = "inflight"
    /\ NoteLate(m)
    /\ queue' = Moved({m}, IF receives[m] < MaxReceives THEN "visible" ELSE "dead")
    /\ UNCHANGED <<receives, cpc, pending, staged, credits, inbox, undone>>

-----------------------------------------------------------------------------
(* The poll.                                                               *)

Receive(c) ==
    /\ cpc[c] = "idle"
    /\ \E S \in SUBSET {m \in Messages : queue[m] = "visible"} \ {{}} :
        /\ Cardinality(S) <= BatchSize
        /\ queue' = Moved(S, "inflight")
        /\ receives' = [m \in Messages |-> receives[m] + IF m \in S THEN 1 ELSE 0]
        /\ pending' = [pending EXCEPT ![c] = S]
    /\ cpc' = [cpc EXCEPT ![c] = "working"]
    /\ UNCHANGED <<staged, credits, inbox, late, undone>>

\* Another consumer's open transaction has written the inbox row of m.
Contended(c, m) ==
    \E d \in Consumers \ {c} : \E n \in staged[d] : IdOf[n] = IdOf[m]

\* A deletion has no effect on a message that went to the dead-letter queue in
\* the meantime, and need not have one on a message that was received again.
Delete(c, m) ==
    \/ queue' = IF queue[m] = "dead" THEN queue ELSE Moved({m}, "deleted")
    \/ m \in late /\ Consumers # {c} /\ UNCHANGED queue

\* tryBegin answers true whether or not the inbox has the event; its write
\* waits while the row is contended.  The number of rows applyDeltas changed is
\* not looked at.
Apply(c, m) ==
    /\ m \in pending[c]
    /\ m \notin Unparsable
    /\ ~Contended(c, m)
    /\ pending' = [pending EXCEPT ![c] = @ \ {m}]
    /\ staged' = [staged EXCEPT ![c] = @ \cup {m}]
    /\ Delete(c, m)
    /\ UNCHANGED <<receives, cpc, credits, inbox, late, undone>>

\* What the open transaction of c becomes when it commits.
CommitStaged(c, failedIds) ==
    /\ credits' = [m \in Messages |-> IF m \in staged[c] /\ credits[m] < 2
                                      THEN credits[m] + 1 ELSE credits[m]]
    /\ inbox' = [i \in Ids |->
           IF i \in failedIds THEN "failed"
           ELSE IF \E m \in staged[c] : IdOf[m] = i THEN "processed"
           ELSE inbox[i]]

Commit(c) ==
    /\ cpc[c] = "working"
    /\ pending[c] = {}
    /\ CommitStaged(c, {})
    /\ EndPoll(c)
    /\ UNCHANGED <<queue, receives, late, undone>>

\* An unchecked exception leaves poll, or the process ends: the transaction is
\* rolled back, markFailedSafe with it.  The exception may come from a message
\* without postings or with bad numbers, which is never applied, from SQS or the
\* database, at the commit, or from the inbox when two transactions both find no
\* row for an event and insert it.
Fail(c) ==
    /\ cpc[c] = "working"
    /\ undone' = undone \cup staged[c]
    /\ EndPoll(c)
    /\ UNCHANGED <<queue, receives, credits, inbox, late>>

\* A checked exception leaves poll, and for those Spring commits.  The event is
\* noted as failed if at least the envelope can be parsed.
FailChecked(c, m) ==
    /\ m \in pending[c]
    /\ m \in Unparsable
    /\ \E failedIds \in {{}, {IdOf[m]}} : CommitStaged(c, failedIds)
    /\ EndPoll(c)
    /\ UNCHANGED <<queue, receives, late, undone>>

-----------------------------------------------------------------------------
Consumer(c) ==
    \/ Receive(c) \/ Commit(c) \/ Fail(c)
    \/ \E m \in Messages : Apply(c, m) \/ FailChecked(c, m)

Next ==
    \/ \E m \in Messages : Send(m) \/ Reappear(m)
    \/ \E c \in Consumers : Consumer(c)

Spec == Init /\ [][Next]_vars

\* The scheduler polls again and again, and visibility timeouts pass.
FairSpec ==
    /\ Spec
    /\ \A c \in Consumers : WF_vars(Consumer(c))
    /\ \A m \in Messages : WF_vars(Reappear(m))

-----------------------------------------------------------------------------
(* Safety.                                                                 *)

\* The inbox and the balances change together: an event is marked processed
\* exactly if one of its messages is in the balances, whatever failed.
InboxMatchesCredits ==
    \A i \in Ids :
        inbox[i] = "processed" <=>
            \E m \in Messages : IdOf[m] = i /\ credits[m] > 0

\* A message is applied at most once, and one in the dead-letter queue was not
\* applied and is not about to be, so that it can be sent back to the queue;
\* the exceptions are messages that became visible again during a poll.
MessageOnce ==
    \A m \in Messages \ late :
        /\ credits[m] <= 1
        /\ queue[m] = "dead" =>
               credits[m] = 0 /\ \A c \in Consumers : m \notin staged[c]

\* Why these hold: a message that never became visible during a poll is in at
\* most one place, the queue, a poll or the balances; a visible message may
\* still be received; and what cannot be parsed is never applied.
InOnePlace ==
    \A m \in Messages \ late :
        /\ \A c \in Consumers :
               /\ m \in pending[c] => queue[m] = "inflight"
               /\ m \in staged[c] => queue[m] = "deleted" /\ credits[m] = 0
        /\ \A c, d \in Consumers : InPoll(c, m) /\ InPoll(d, m) => c = d
        /\ credits[m] > 0 => credits[m] = 1 /\ queue[m] = "deleted"

Receivable ==
    \A m \in Messages :
        /\ queue[m] = "unsent" => receives[m] = 0
        /\ queue[m] = "visible" => receives[m] < MaxReceives

OnlyParsed ==
    \A m \in Unparsable : credits[m] = 0 /\ \A c \in Consumers : m \notin staged[c]

ConsumerInv ==
    TypeOK /\ InboxMatchesCredits /\ InOnePlace /\ Receivable /\ OnlyParsed

InBalances(m) == credits[m] > 0 \/ \E c \in Consumers : m \in staged[c]

\* A deleted message is in the balances, or in a transaction on its way there,
\* unless a poll that had applied it was rolled back: unparsable messages,
\* redeliveries and retries lose nothing.
NothingLost ==
    \A m \in Messages : queue[m] = "deleted" => InBalances(m) \/ m \in undone

\* The inbox makes consumption idempotent: an event reaches the balances once.
EventOnce ==
    \A m, n \in Messages :
        IdOf[m] = IdOf[n] /\ credits[m] > 0 /\ credits[n] > 0 => m = n

\* The queue is durable: a message leaves it for the balances or for the
\* dead-letter queue.
DurableQueue ==
    \A m \in Messages : queue[m] = "deleted" => InBalances(m)

-----------------------------------------------------------------------------
(* Liveness.                                                               *)

\* No message is polled for ever: it is deleted or ends as a dead letter.
QueueDrains ==
    \A m \in Messages :
        (queue[m] = "visible") ~> (queue[m] \in {"deleted", "dead"})

=============================================================================
