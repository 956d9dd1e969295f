----------------------------- MODULE PaymentSaga -----------------------------
(***************************************************************************)
(* PostPayment of the ledger service against the balances of the account   *)
(* service.                                                                *)
(*                                                                         *)
(* An attempt is one invocation of the PostPayment handler.  Attempts run  *)
(* concurrently, and a client that retries sends another attempt with the  *)
(* same idempotency key.  Every attempt draws a fresh payment id, which is *)
(* also its hold id, so an attempt identifies its payment and its hold.    *)
(*                                                                         *)
(* A handler reads the idempotency record, has Accounts validate the       *)
(* transfer, reserves a hold on the source account over gRPC, commits one  *)
(* database transaction and, when that fails, asks for the hold to be      *)
(* released.  A remote call is split in three: it is sent, Accounts serves *)
(* it at some later moment, and the caller sees the reply or gives up; a   *)
(* call given up may still be served.                                      *)
(***************************************************************************)
EXTENDS AccountBalances, Amounts

CONSTANTS
    Attempts,   \* invocations of PostPayment
    Accounts,   \* bank accounts
    Keys,       \* client idempotency keys
    Requests,   \* the PostPayment commands clients may send
    Funding,    \* what each account was credited before the run
    DailyOut,   \* the dailyOut limit of each account, 0 for none
    Faults,     \* the faults that may occur, a subset of FaultKinds
    None        \* not an attempt: no record, no answer

FaultKinds ==
    { "timeout",          \* a call to Accounts passes its deadline
      "call_refused",     \* the gateway does not send: breaker open, context done
      "lost_commit_ack",  \* a commit happens and its caller sees an error
      "replica_lag",      \* the read database misses the last commits
      "crash" }           \* a handler dies

ASSUME AttemptsAssumption == IsFiniteSet(Attempts) /\ None \notin Attempts
ASSUME AccountsAssumption ==
    /\ Funding \in [Accounts -> Nat]
    /\ DailyOut \in [Accounts -> Nat]

\* What ToPostPaymentCommand and RequireDecimalAmount let through.
ASSUME RequestsAssumption ==
    /\ Requests \subseteq
           [key: Keys, src: Accounts, dst: Accounts, amount: Nat \ {0}]
    /\ \A r \in Requests : r.src # r.dst
ASSUME FaultsAssumption == Faults \subseteq FaultKinds

VARIABLES
    req,       \* the command of each attempt, fixed when the run starts
    pc,        \* where each handler is
    reserve,   \* the ReserveHold call of each attempt
    release,   \* the ReleaseHold call of each attempt
    balances,  \* account service: account_balances
    payments,  \* ledger: rows of payments, each with its journal and event
    idem,      \* ledger: idempotency_records, by key
    answer     \* the payment id each handler returned

vars == <<req, pc, reserve, release, balances, payments, idem, answer>>

Running == {"lookup", "validate", "reserving", "posting", "posted",
            "compensating", "releasing"}

\* Both failed and cutoff are the return of an error; cutoff is the one after a
\* call was given up, with what becomes of it unknown, or could not be sent.
Errors == {"failed", "cutoff"}
Ended == {"replied", "crashed"} \cup Errors

\* A call is not made yet, under way, or served one way or the other.
CallStates == {"none", "sent", "applied", "refused"}

TypeOK ==
    /\ req \in [Attempts -> Requests]
    /\ pc \in [Attempts -> {"idle"} \cup Running \cup Ended]
    /\ reserve \in [Attempts -> CallStates]
    /\ release \in [Attempts -> CallStates]
    /\ balances \in [Accounts -> BalancesRow]
    /\ payments \subseteq Attempts
    /\ idem \in [Keys -> Attempts \cup {None}]
    /\ answer \in [Attempts -> Attempts \cup {None}]

Init ==
    /\ req \in [Attempts -> Requests]
    /\ pc = [a \in Attempts |-> "idle"]
    /\ reserve = [a \in Attempts |-> "none"]
    /\ release = [a \in Attempts |-> "none"]
    /\ balances = [acc \in Accounts |-> FundedRow(Funding[acc])]
    /\ payments = {}
    /\ idem = [k \in Keys |-> None]
    /\ answer = [a \in Attempts |-> None]

-----------------------------------------------------------------------------
Goto(a, label) == pc' = [pc EXCEPT ![a] = label]

(* Faulty variants of definitions below, each a mistake that some property *)
(* must notice.                                                            *)

\* The payments table lacks its unique index.
FaultyKeyIsFree(k) == TRUE

\* A retry answers with the id it would have used.
FaultyLookupHit(a) ==
    /\ pc[a] = "lookup"
    /\ idem[req[a].key] # None
    /\ answer' = [answer EXCEPT ![a] = a]
    /\ Goto(a, "replied")
    /\ UNCHANGED <<req, reserve, release, balances, payments, idem>>

\* The ok flag of the reserve reply is not looked at.
FaultyReserveRefused(a) ==
    /\ pc[a] = "reserving"
    /\ reserve[a] = "refused"
    /\ Goto(a, "posting")
    /\ UNCHANGED <<req, reserve, release, balances, payments, idem, answer>>

\* The release is deferred, and runs after a commit too.
FaultyReply(a) ==
    /\ pc[a] = "posted"
    /\ answer' = [answer EXCEPT ![a] = a]
    /\ release' = [release EXCEPT ![a] = "sent"]
    /\ Goto(a, "replied")
    /\ UNCHANGED <<req, reserve, balances, payments, idem>>

\* A failed audit call fails the request.
FaultyReplyAudit(a) ==
    /\ pc[a] = "posted"
    /\ \/ answer' = [answer EXCEPT ![a] = a] /\ Goto(a, "replied")
       \/ UNCHANGED answer /\ Goto(a, "failed")
    /\ UNCHANGED <<req, reserve, release, balances, payments, idem>>

\* The release is sent without a deadline.
FaultyCallTimeout(a) ==
    /\ "timeout" \in Faults
    /\ pc[a] = "reserving"
    /\ Goto(a, "cutoff")
    /\ UNCHANGED <<req, reserve, release, balances, payments, idem, answer>>

\* A failed transaction is not compensated.
FaultyRollback(a) ==
    /\ pc[a] = "posting"
    /\ Goto(a, "failed")
    /\ UNCHANGED <<req, reserve, release, balances, payments, idem, answer>>

-----------------------------------------------------------------------------
(* The handler.                                                            *)

Begin(a) ==
    /\ pc[a] = "idle"
    /\ Goto(a, "lookup")
    /\ UNCHANGED <<req, reserve, release, balances, payments, idem, answer>>

\* (1) A record found is returned as it is: neither the operation nor the
\* command it was stored for is compared with this one.
LookupHit(a) ==
    /\ pc[a] = "lookup"
    /\ idem[req[a].key] # None
    /\ answer' = [answer EXCEPT ![a] = idem[req[a].key]]
    /\ Goto(a, "replied")
    /\ UNCHANGED <<req, reserve, release, balances, payments, idem>>

\* DoRead uses the read database, which may be a replica that lags.
LookupMiss(a) ==
    /\ pc[a] = "lookup"
    /\ idem[req[a].key] = None \/ "replica_lag" \in Faults
    /\ Goto(a, "validate")
    /\ UNCHANGED <<req, reserve, release, balances, payments, idem, answer>>

\* (2), (3) Accounts accepts the transfer and the hold is asked for.
ValidateOk(a) ==
    /\ pc[a] = "validate"
    /\ TransferOk(balances[req[a].src], DailyOut[req[a].src], req[a].amount)
    /\ reserve' = [reserve EXCEPT ![a] = "sent"]
    /\ Goto(a, "reserving")
    /\ UNCHANGED <<req, release, balances, payments, idem, answer>>

ValidateRefused(a) ==
    /\ pc[a] = "validate"
    /\ ~TransferOk(balances[req[a].src], DailyOut[req[a].src], req[a].amount)
    /\ Goto(a, "failed")
    /\ UNCHANGED <<req, reserve, release, balances, payments, idem, answer>>

\* Every other return before the hold is asked for: a failed read, a failed
\* validation call, a caller without a customer id, a call the breaker blocks.
AbortEarly(a) ==
    /\ pc[a] \in {"lookup", "validate"}
    /\ Goto(a, "failed")
    /\ UNCHANGED <<req, reserve, release, balances, payments, idem, answer>>

ReserveAccepted(a) ==
    /\ pc[a] = "reserving"
    /\ reserve[a] = "applied"
    /\ Goto(a, "posting")
    /\ UNCHANGED <<req, reserve, release, balances, payments, idem, answer>>

ReserveRefused(a) ==
    /\ pc[a] = "reserving"
    /\ reserve[a] = "refused"
    /\ Goto(a, "failed")
    /\ UNCHANGED <<req, reserve, release, balances, payments, idem, answer>>

\* The per-call deadline passes.  Accounts may have served the call, or may
\* serve it later; the handler returns the error and does not compensate.
CallTimeout(a) ==
    /\ "timeout" \in Faults
    /\ pc[a] \in {"reserving", "releasing"}
    /\ Goto(a, "cutoff")
    /\ UNCHANGED <<req, reserve, release, balances, payments, idem, answer>>

\* UNIQUE (payments.idempotency_key): the insert of a second payment fails.
KeyIsFree(k) == \A p \in payments : req[p].key # k

\* (4) The transaction: payment, balanced journal, steps, outbox event, status
\* and idempotency record (ON CONFLICT DO NOTHING) are committed together.
StorePayment(a) ==
    /\ KeyIsFree(req[a].key)
    /\ payments' = payments \cup {a}
    /\ idem' = [idem EXCEPT ![req[a].key] = IF @ = None THEN a ELSE @]

Commit(a) ==
    /\ pc[a] = "posting"
    /\ StorePayment(a)
    /\ Goto(a, "posted")
    /\ UNCHANGED <<req, reserve, release, balances, answer>>

\* The connection drops after the server committed: the caller sees an error.
CommitUnacknowledged(a) ==
    /\ "lost_commit_ack" \in Faults
    /\ pc[a] = "posting"
    /\ StorePayment(a)
    /\ Goto(a, "compensating")
    /\ UNCHANGED <<req, reserve, release, balances, answer>>

\* The transaction fails, on the unique key or on any database error.
Rollback(a) ==
    /\ pc[a] = "posting"
    /\ Goto(a, "compensating")
    /\ UNCHANGED <<req, reserve, release, balances, payments, idem, answer>>

SendRelease(a) ==
    /\ pc[a] = "compensating"
    /\ release' = [release EXCEPT ![a] = "sent"]
    /\ Goto(a, "releasing")
    /\ UNCHANGED <<req, reserve, balances, payments, idem, answer>>

\* The compensation goes through the same breaker and the caller's context.
SkipRelease(a) ==
    /\ "call_refused" \in Faults
    /\ pc[a] = "compensating"
    /\ Goto(a, "cutoff")
    /\ UNCHANGED <<req, reserve, release, balances, payments, idem, answer>>

\* The result of ReleaseHold is ignored.
ReleaseReply(a) ==
    /\ pc[a] = "releasing"
    /\ release[a] \in {"applied", "refused"}
    /\ Goto(a, "failed")
    /\ UNCHANGED <<req, reserve, release, balances, payments, idem, answer>>

\* The audit call (best effort) and the return of the result.
Reply(a) ==
    /\ pc[a] = "posted"
    /\ answer' = [answer EXCEPT ![a] = a]
    /\ Goto(a, "replied")
    /\ UNCHANGED <<req, reserve, release, balances, payments, idem>>

Crash(a) ==
    /\ "crash" \in Faults
    /\ pc[a] \in Running
    /\ Goto(a, "crashed")
    /\ UNCHANGED <<req, reserve, release, balances, payments, idem, answer>>

-----------------------------------------------------------------------------
(* The account service.  It uses neither hold_id nor idempotency_key.      *)

ServeReserve(a) ==
    LET src == req[a].src
        n   == req[a].amount
    IN  /\ reserve[a] = "sent"
        /\ IF CanReserve(balances[src], n)
           THEN /\ balances' = [balances EXCEPT ![src] = Reserve(@, n)]
                /\ reserve' = [reserve EXCEPT ![a] = "applied"]
           ELSE /\ reserve' = [reserve EXCEPT ![a] = "refused"]
                /\ UNCHANGED balances
        /\ UNCHANGED <<req, pc, release, payments, idem, answer>>

ServeRelease(a) ==
    LET src == req[a].src
        n   == req[a].amount
    IN  /\ release[a] = "sent"
        /\ IF CanRelease(balances[src], n)
           THEN /\ balances' = [balances EXCEPT ![src] = Release(@, n)]
                /\ release' = [release EXCEPT ![a] = "applied"]
           ELSE /\ release' = [release EXCEPT ![a] = "refused"]
                /\ UNCHANGED balances
        /\ UNCHANGED <<req, pc, reserve, payments, idem, answer>>

-----------------------------------------------------------------------------
Handler(a) ==
    \/ LookupHit(a) \/ LookupMiss(a)
    \/ ValidateOk(a) \/ ValidateRefused(a) \/ AbortEarly(a)
    \/ ReserveAccepted(a) \/ ReserveRefused(a) \/ CallTimeout(a)
    \/ Commit(a) \/ CommitUnacknowledged(a) \/ Rollback(a)
    \/ SendRelease(a) \/ SkipRelease(a) \/ ReleaseReply(a)
    \/ Reply(a)

AccountService(a) == ServeReserve(a) \/ ServeRelease(a)

Next ==
    \E a \in Attempts : Begin(a) \/ Handler(a) \/ Crash(a) \/ AccountService(a)

Spec == Init /\ [][Next]_vars

\* A handler that started keeps running: its goroutine is scheduled, and each
\* of its waits ends with a reply or, at the latest, with the call's deadline.
FairSpec == Spec /\ \A a \in Attempts : WF_vars(Handler(a))

-----------------------------------------------------------------------------
(* What is derived from the state.                                         *)

\* The attempts whose amount is held on acc.
HeldOn(acc) ==
    {a \in Attempts : /\ req[a].src = acc
                      /\ reserve[a] = "applied"
                      /\ release[a] # "applied"}

\* The payments booked out of acc.
PaidFrom(acc) == {p \in payments : req[p].src = acc}

-----------------------------------------------------------------------------
(* Safety.                                                                 *)

\* Concurrent holds never take an account below zero, and what is available
\* and what is held always add up to the ledger balance.
\* (reserveHoldAtomic and releaseHoldAtomic against a validation that is stale
\* by the time the hold is taken.)
BalancesSound ==
    \A acc \in Accounts :
        /\ balances[acc].available >= 0
        /\ balances[acc].hold >= 0
        /\ balances[acc].ledger = balances[acc].available + balances[acc].hold

\* The hold of an account is exactly the sum of the holds taken and not given
\* back: the bare counter loses none, and no release finds it too small.
HoldsMatch ==
    /\ \A acc \in Accounts : balances[acc].hold = Total(HeldOn(acc), req)
    /\ \A a \in Attempts : release[a] # "refused"

\* A booked payment keeps the funds it was booked against: the compensation
\* never gives back the hold of a payment that was posted.
PostedFundsHeld ==
    \A p \in payments : reserve[p] = "applied" /\ release[p] = "none"

\* Whatever is retried or runs at the same time, the payments booked out of an
\* account never exceed what the account was funded with.
NeverOverspent ==
    \A acc \in Accounts : Total(PaidFrom(acc), req) <= Funding[acc]

\* All answers for an idempotency key name one payment, and it was booked for
\* that key: a retry neither books again nor invents an id.
AnswersAgree ==
    \A a \in Attempts : answer[a] # None =>
        /\ answer[a] \in payments
        /\ req[answer[a]].key = req[a].key
        /\ \A p \in payments : req[p].key = req[a].key => p = answer[a]

\* A handler that returned an error booked nothing.
FailedMeansUnposted ==
    \A a \in Attempts : pc[a] \in Errors => a \notin payments

\* ReserveHold is safe to retry: one idempotency key holds funds only once.
ReserveIdempotent ==
    \A a, b \in Attempts :
        /\ reserve[a] = "applied" /\ reserve[b] = "applied"
        /\ req[a].key = req[b].key
        => a = b

\* The hold is given back only when the transaction failed.
CompensatesOnlyUnposted ==
    \A a \in Attempts : release[a] # "none" => a \notin payments

\* Seen from outside, PostPayment books at most one payment per key, pays only
\* what the source can afford, and answers only with what was booked.
Abstract == INSTANCE IdempotentPayments WITH booked <- payments

ImplementsIdempotentPayments == Abstract!Spec

-----------------------------------------------------------------------------
(* Liveness.                                                               *)

\* Every invocation comes to an end, whatever Accounts does: the deadline of
\* a call and the ignored result of the compensation see to it.
Terminates ==
    \A a \in Attempts : (pc[a] \in Running) ~> (pc[a] \in Ended)

\* Where Accounts serves what it is sent, a handler that does not crash and is
\* not cut off from Accounts leaves no hold behind, whatever happens to others:
\* the hold ends up backing a posted payment or it is released.
HoldsResolved ==
    (\A a \in Attempts : WF_vars(AccountService(a))) =>
        \A a \in Attempts :
            (reserve[a] = "applied") ~>
                \/ a \in payments \/ release[a] = "applied"
                \/ pc[a] \in {"cutoff", "crashed"}

-----------------------------------------------------------------------------
(* The inductive invariant: why the properties above hold.                 *)

\* A hold is asked for after the validation only, a release only after its hold
\* was granted and only by a handler that is about to fail.
CallOrder ==
    \A a \in Attempts :
        /\ reserve[a] # "none" => pc[a] \notin {"idle", "lookup", "validate"}
        /\ pc[a] \in {"posting", "posted", "compensating", "releasing"}
               => reserve[a] = "applied"
        /\ release[a] # "none" => /\ reserve[a] = "applied"
                                  /\ pc[a] \in {"releasing", "crashed"} \cup Errors

\* Payments, idempotency records and answers name each other.
Booking ==
    /\ \A p \in payments :
           /\ reserve[p] = "applied"
           /\ pc[p] \notin {"idle", "lookup", "validate", "reserving", "posting"}
           /\ idem[req[p].key] = p
    /\ \A k \in Keys : idem[k] # None =>
           idem[k] \in payments /\ req[idem[k]].key = k
    /\ \A a \in Attempts : pc[a] = "posted" => a \in payments
    /\ \A a \in Attempts : answer[a] # None =>
           pc[a] = "replied" /\ idem[req[a].key] = answer[a]

\* Without lost acknowledgements the handler of a booked payment knows it.
Acknowledged ==
    "lost_commit_ack" \notin Faults =>
        \A p \in payments : /\ pc[p] \in {"posted", "replied", "crashed"}
                             /\ release[p] = "none"

\* The saga moves money between available and hold and nowhere else.
Funds ==
    \A acc \in Accounts :
        /\ balances[acc].ledger = Funding[acc]
        /\ balances[acc].ledger = balances[acc].available + balances[acc].hold
        /\ balances[acc].available >= 0

SagaInv ==
    TypeOK /\ CallOrder /\ Booking /\ Acknowledged /\ Funds /\ HoldsMatch

=============================================================================
