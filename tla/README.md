# Verification of the bank's microservices

The repository is a small bank: a Go ledger service, two Java services (account,
identity), a Go BFF in front of them, a web client, and the AWS templates they
are deployed with.  This directory holds TLA+ models of the parts in which money,
customers, accounts and sessions pass from one service to another, the TLC
configurations that check them on small instances, and TLAPS proofs of the
properties that matter most for instances of any size.  `PROJECT.json` lists
runs, the lines each definition models, the findings, the hazards and the
theorems.

Run `tlc -workers 2 -config X.cfg MCModule.tla` for a run and
`tlapm XProofs.tla` for the proofs.

## 1. Inventory

Paths are relative to `src/`.  "L" is `micro/ledger`, "A" `micro/account`, "I"
`micro/identity`.

| Component | State | Operations | Interacts with |
|---|---|---|---|
| Ledger payments (L `payment_service.go`) | `payments`, `payment_steps`, `journal_entries`, `outbox_events`, `idempotency_records` | PostPayment, GetPayment | Accounts over gRPC: validate, reserve, release; audit |
| Ledger credits (L `ledger_service.go`) | `journal_entries`, `outbox_events`, `idempotency_records` | CreditAccount, CreditAccountSystem, listings | Accounts (validate); called by account opening |
| Outbox worker (L `outbox_worker.go`, `outbox_repo.go`) | `processing`, `processing_at`, `published` of `outbox_events` | fetch, publish, mark, start, stop | EventBridge |
| Gateway to Accounts (L `accounts_http_gateway.go`) | circuit breaker | one deadline per call | every call of the two services above |
| Balances and holds (A `AccountService`, `SpringDataAccountBalanceJpa`) | `account_balances` | reserve, release, applyDeltas, initIfAbsent, applyCredit, validate | ledger, opening, consumer |
| Account opening (A `AccountOpeningService`) | `account_opening_bonus_grants`, `accounts` | open | ledger (CreditAccountSystem); called by identity |
| Consumer of ledger events (A `LedgerPostedConsumer`, `InboxRepositoryAdapter`) | `inbox_events`, `account_balances` | poll | SQS queue with dead-letter queue |
| Account API (A `AccountsGrpcService`, `IdempotencyService`, `CustomerService`) | `accounts`, `account_limits`, `customers`, `idempotency_records` | createAccount, patchAccountLimits, createCustomer | BFF, identity |
| Onboarding (I `OnboardingService`) | `registration_intents` | start, confirm, activate | account service, KYC storage, identity provider |
| OIDC login (I `OidcAuthService`, `RedisOidcStateRepository`) | login state in Redis, identity links | start, complete | identity provider |
| Sessions (I `SessionService`) | `sessions` | get, create, refresh, logout | BFF middleware |
| KYC storage (I `S3PresignedKycStorage`) | S3 objects | presign, verify, finalise | onboarding |
| Statements (L `ledger_service.go`, `journal_repo.go`) | reads `journal_entries` | ListAccountStatement, ListAccountJournalEntries | BFF |
| BFF (`bff`) | none of its own | REST to gRPC, session refresh, CSRF, payments | all services |
| Authorisation, audit | none | interceptors, best-effort events | Verified Permissions, EventBridge |
| Web client (`imaginarybank-web`) | the transfer dialog, cookies | submitTransfer | BFF |
| Templates, generated code | - | - | - |

What is hard, and where:

* **Concurrency.** Payments race for one balance after a validation that is
  stale by then; retries with one key overlap; several workers claim from one
  table; several openings share a grant; redelivered messages meet their first
  delivery; requests of one browser refresh one session; confirmations,
  activations and logins write one row.
* **Failure between steps.** PostPayment reserves outside and books inside a
  transaction; opening an account commits six times; the consumer deletes from
  the queue what it has not committed; the worker publishes before it marks.
* **Unknown outcomes.** A call that times out may be served later; a commit may
  succeed and its acknowledgement get lost; EventBridge may take an event whose
  sender sees an error.
* **Caches of what was done.** Idempotency records are read before and written
  within the transaction, in one case on a replica; the inbox and the grants
  play the same role.
* **Rows without a version.** Sessions, registrations and their links are read,
  worked on for the length of a remote call, and written back as a whole.
* **What the user is told.** Every click is a new payment to the ledger; whether
  an order is paid twice depends on what the page says and when.

What makes the components correct:

* payments: one payment per key; answers name it; no overspending; the hold of a
  booked payment stays, the hold of a failed one is returned;
* credits: answers name booked journals; retries agree;
* outbox: nothing is marked that was not delivered, everything is delivered in
  the end, and second deliveries have known causes;
* opening: one bonus per key, on an account of that key; anchors do not change;
* consumer: inbox and balances agree, a message is applied once, nothing is lost;
* breaker: it opens only on failures of its own generation, never sticks
  half-open, and closes once Accounts answers for good;
* statements: the items add up to what was moved; a walk over the pages misses
  nothing that was booked before it and could be read when it began;
* sessions: one living session per login; a browser that does nothing odd keeps
  it; logout ends it;
* onboarding: documents are never lost; a registration names a customer and an
  account that exist and keeps them; one customer for calls that follow each
  other; the login is linked to it;
* transfers: what the customer is told is true, and an order is paid twice only
  by a customer who tries again without knowing;
* account API, login (not modelled yet): one account per request key; a login
  state is used once.

## 2. Modules

| Module | Models |
|---|---|
| `Amounts` | sums of amounts |
| `AccountBalances` | the statements on an `account_balances` row, and `validate` |
| `PaymentSaga` | PostPayment with the balances it reserves on |
| `IdempotentPayments` | what PostPayment promises, implemented by `PaymentSaga` |
| `PaymentSagaProofs` | the proofs about both, the lemmas on `Amounts` first, and about `AccountsBreaker` |
| `OutboxWorker` | the outbox table and its workers |
| `AtLeastOnceDelivery` | what an outbox promises, implemented by `OutboxWorker` |
| `OutboxWorkerProofs` | the proofs about both |
| `LedgerCredits` | CreditAccount and CreditAccountSystem |
| `AccountOpening` | account opening, composed with `LedgerCredits`, which it extends |
| `AccountOpeningProofs` | the proofs about both |
| `LedgerConsumer`, `LedgerConsumerProofs` | the consumer, its inbox, the queue |
| `AccountsBreaker` | the circuit breaker of the gateway |
| `Onboarding`, `OnboardingProofs` | one registration: BFF, identity, documents, accounts |
| `WebSessions`, `WebSessionsProofs` | one browser, the BFF's session middleware, the session table |
| `PaymentApi`, `PaymentApiProofs` | the transfer page and the BFF's payment route, on `IdempotentPayments` |
| `Statements`, `StatementsProofs` | the pages of a statement while journals are booked |
| `MC*` | instances for TLC |

Operators whose name begins with `Faulty` are variants of the definitions beside
them with a plausible mistake; each property is known to fail for one of them
(`mutants` in `PROJECT.json`).  They take no part in the specifications.

How they fit together: `PaymentSaga` uses `AccountBalances` and implements
`IdempotentPayments`; `PaymentApi` uses that promise, not the saga, so what holds
of a transfer from click to booking rests on both.  `AccountOpening` runs
`LedgerCredits` inside it.  `Onboarding` calls account opening, of which it keeps
the part that matters to it (the account of the first to anchor, whoever it
belongs to).  The faults that `PaymentSaga` allows a call include being turned
away, which is what `AccountsBreaker` decides.

### PaymentSaga

An *attempt* is one run of the handler.  The payment id, which is also the hold
id, is fresh for every attempt, so the attempt names both.  `pc` is the place in
`PostPayment`:

| `pc` | code | actions |
|---|---|---|
| `lookup` | (1) idempotency read, `DoRead` | LookupHit, LookupMiss, AbortEarly |
| `validate` | (2) ValidateAccountsAndLimits, customer id | ValidateOk, ValidateRefused, AbortEarly |
| `reserving` | (3) ReserveHold under way | ReserveAccepted, ReserveRefused, CallTimeout |
| `posting` | (4) the transaction | Commit, CommitUnacknowledged, Rollback |
| `compensating`, `releasing` | ReleaseHold after a failed transaction | SendRelease, SkipRelease, ReleaseReply, CallTimeout |
| `posted` | audit and return | Reply |

A remote call that changes state is three steps: sent, served by the account
service (`ServeReserve`, `ServeRelease`) and answered; the caller may give up in
between and the call may be served all the same.  The validation only reads and
is one step.  The transaction is one step: its statements become visible
together, and it fails on the unique index of `payments.idempotency_key` or
for any other reason (`Rollback`).  The replica is modelled by letting
`LookupMiss` miss a record that exists.  Amounts are whole units.

### OutboxWorker

An event is its creation time.  A claim is `free`, `held` or `lapsed`; it lapses
at any moment, in a round or after it, which is what two minutes against an
unbounded publish loop allow.  `SKIP LOCKED` is an arbitrary set of rows that a
concurrent transaction of another worker has locked.  `late` and `unsure` are
history: events whose claim lapsed while some worker had them in hand, and
events whose delivery could not be marked.  Nothing reads them but properties.
A delivery is a call of `Publish` that EventBridge served; the retries that the
AWS SDK makes by itself within one such call, which may deliver an event twice, are
not told apart from it, so `DeliveredOnce` counts calls.

### LedgerCredits, AccountOpening

The two credit handlers have the same control and are one model.  `validate`
sees the same account as source and destination and compares the amount with a
constant limit, so its verdict is a choice.  In `AccountOpening` every step of
`open` commits by itself; the call to the ledger is an attempt of
`LedgerCredits` with the opening's name.  A duplicate grant is noticed at the
commit of `tryAcquire`, outside its catch block, hence `Acquire` fails there.
`crossed` is history: the keys of openings that overlapped.

### LedgerConsumer

One poll is one transaction: `staged` is what it has applied, `Commit` makes it
visible, `Fail` drops it.  Deleting from the queue takes effect at once.  `save`
of the inbox entity merges, so an event that is in the inbox is applied like any
other; two transactions that insert the same row wait for each other
(`Contended`) or fail (`Fail`).  A checked exception, raised by the JSON parser,
makes Spring commit (`FailChecked`).  `late` (messages that became visible
during a poll) and `undone` (messages applied in a poll that was rolled back)
are history; `Delete` reads `late` because a receipt handle may be outdated.

### AccountsBreaker

The breaker (`gobreaker`, external, with the settings of the gateway) is `state`,
the counts it looks at, and `due`, that its interval or timeout has run out: it
looks at the clock only when a call begins or ends (`Looked`), so an expiry has no
effect until then.  `flying` are the callers that wait; `current` those whose call
began in the breaker's generation, as only their results count (`Counts`).
`Call` and `Refuse` are `beforeRequest`, `Answered` and `Errored` `afterRequest`;
every error is a failure, a refusal by Accounts included.

### Onboarding

`reg` is the row of the registration, `link` the customer its identity is linked
to, `staged` and `finals` the two prefixes of the document store, `customers`,
`owner` and `anchor` what the account service has.  The initial state is after
`start`.  `confirm` is ConfirmRead, then Copy and Delete for each document, then
ConfirmCommit; `activate` is ActivateRead, CreateCustomer, UpsertLink, OpenRead,
OpenAnchored or OpenNew, ActivateCommit; the tail of a login
(`linkIdentityToCustomerIfPossible`) is LoginRead, LoginSave, LoginLink.  A step
is a remote call or a commit.  `Upload` may happen at any time, as a signed URL may
be used more than once: it replaces what is staged.  `newest` is history, where the
newest upload of each document is, and `late` the documents whose newest upload came
between the copy and the deletion of a confirmation, which deletes it unseen and
which a later confirmation has not copied.  Calls that ended, whatever their answer
and whether it was heard, are all `done`.  `Fail` rolls the transaction back at any step and
undoes nothing that was done remotely.  A commit writes the row as it was read
(`WriteRow`); `overwritten` and `disturbed` are history.

### WebSessions

A request is sent with the browser's cookie, passes the middleware (`get`, then
`read1`, `exchange1`, `rotate1`, `again` if it refreshes) and its handler (`read2`,
`exchange2`, `rotate2` for the explicit refresh; `find`, `revoke`, `end` for
logout), which reads the cookie of the request again and not the one the
middleware has just set.  A session is named by the request that made it, a
refresh token by the session it was first given to.  The provider may keep the
refresh token, replace it, or hand out a new one and go on accepting the old one
(`Exchange`).  It may have no revocation endpoint, then `revokeRefreshToken` returns
without a call and the logout succeeds all the same (`LogoutRevoke`); `unrevoked` is
history, the logouts that met this.  A `get` that fails in an unforeseen way is a
502 or 503 and keeps the cookie, or is read as an expired session and clears it
(`GetUnavailable`).  Answers arrive in any order and the
last Set-Cookie wins.  `RunOut`, `CookieEnds` and `AbsoluteExpiry` are time.

### PaymentApi

A tab has `transferOpen` (`open`), the fields (`form`), `submittingTransfer`
(`busy`); a click goes from `token` (awaiting getCsrf) to `sent`, `statement` and a
toast.  The fields are two: the source account (`src`), which the dialog, the account
list and the carousel set (`Enter`, `PickFrom`), and payee with amount (`rest`), named
by the order they belong to.  The customer clicks when both are of one order
(`Whole`).  The form is read in `TokenArrives`, after the wait, and may be edited in
between, so that a request mixes two orders: such a request is no order (its
`order` is None) and its click is in `edited`, which is history.  Behind the BFF's
checks stands `IdempotentPayments` with a key per click; it may book when the BFF
has given up.  `Reload` forgets the page and not the request.

### Statements

A journal is stamped (`Stamp`) before its transaction commits (`Commit`), and it is
committed before the read connection shows it (`Replicate`): listings run in `DoRead`
on `readDB`, which is a replica where `DB_READ_DSN` is set and the write connection
otherwise.  One replica stands behind it, so what it has shown it goes on showing; it
lags for any time and catches up in any order, which covers the write connection as
the case of no lag.  A walk asks page after page until one is short; each page is a
query of its own over what is readable by then, ordered by `booked_at` only:
`Listings` are all the orders the database may choose.  `WholeSecond` is RFC3339 formatting on the way to
the ledger.  `Item` is the projection: the net of the account's own lines, its
direction and the other account.

## 3. What the runs show

| Run | Instance | Result |
|---|---|---|
| SagaMoney | 3 attempts, 2 keys, 2 accounts, all faults but lost commit acknowledgements | inductive invariant, funds, refinement hold |
| SagaFaults | 2 attempts, all faults, fairness | answers, balances, holds; termination; holds resolved |
| SagaReserveRetry | 2 attempts | **violated**: a retried ReserveHold holds twice |
| Outbox | 2 events, 2 workers, batches of 2, fairness | invariant, deliveries explained, refinement, every event published |
| CreditsSafety | 4 calls on one key, 1 on another | invariant, agreement, retries hit |
| OpeningBonus | 3 openings with one key | bonus once, grants backed, anchors stay, serial retries agree |
| ConsumerSafety | 2 consumers, 3 messages on 2 ids, batches of 2, 2 receives, fairness | inbox, once, nothing lost, queue drains |
| Breaker | 6 callers, the gateway's settings (5 probes, 3 failures), fairness | probes accounted for, opens on its own failures, recovers |
| Onboarding | 2 confirmations, 2 activations, 1 login on one registration, uploads without bound | documents kept, row sound, serial activation, link, customer stays |
| Sessions | 3 requests of one browser, 2 in flight, 1 run-out | lineage, one living session, kept by a serial browser, ended by logout |
| PaymentApi | 2 tabs, 3 orders, 2 accounts, 2 clicks, 1 reload, edits without bound | toasts true, funding, paid twice only unknowing, button blocked exactly |
| Statements | 1 credit, 2 payments, a lagging read connection, page sizes 1 and 2, 2 ticks per second, clock to 4 | adds up, mirrored, nothing missed, repeats explained |

Bounds.  Three attempts are a payment, a retry of it and a competitor for the
same funds; the four requests include a retry with another amount, two payments
that together exceed the balance, one at the daily limit, and one in the other
direction.  Two events and batches of two give a batch that stops in the middle
and one left over for the other worker.  Three openings are two that cross and
one that finds what they left.  Four credits are two that cross and two retries,
one before and one after the second books.  Two receives are one redelivery
before the dead-letter queue, the template's default being 5; `credits` and
`delivered` count to 2, which stands for more.  Six callers are one more than a
half-open breaker lets through, so one of them is turned away.  Two
confirmations and two activations are a call and its retry, overlapping or not,
and a confirmation after an activation; the login falls anywhere between them.
Three requests are two that cross and one that meets what they left, or a
refresh, another and a logout; one run-out (`MaxRunOuts`) lets a session age at any
point, before a refresh, under it or under a logout.  An explicit refresh needs no
run-out, so sessions are still replaced twice; two refreshes by the middleware are
left to the proofs, which have no bound.  `MaxInFlight` is 2.  Two
clicks are two orders on one tab, one on each, or one order clicked twice, which is
what each property relates; two orders and a picked account are enough to mix them.
The first account can pay for one order, the second for two.  The clock
(`MaxClock`) spans two seconds and their boundary.
Symmetry is used where only safety is checked and the permuted values are
interchangeable.  Deadlock is checked in Breaker and PaymentApi, in which
something can always happen; the other systems end, as their handlers do.

Fairness.  Saga: a handler that has started keeps running, because its goroutine
is scheduled and every wait ends with a reply or the call's deadline
(`accounts_http_gateway.go`); the account service need not serve.
`HoldsResolved` assumes it does, as a premise.  Outbox: time passes, a dead
worker is restarted by the scheduler of the cluster, a worker keeps polling, and
EventBridge and the database do not fail for ever (strong fairness of PublishOk
and Mark); `EveryEventPublished` only speaks of runs in which workers stop dying
eventually.  Consumer: the scheduler polls again and visibility timeouts pass.
Breaker: time passes, a call ends by the gateway's deadline, and callers go on
calling, without which a breaker never looks at the clock; that Accounts comes
back for good is a premise of `Recovers`.

### What the properties exempt

Some hazards are what the code does.  A property about one of them exempts exactly
the histories in which it bites, by a history variable or a premise, and so shows
that nothing else leads there; the configuration in the last column, where there is
one, shows that the exemption is needed.

| Property | Exempts | Shown by |
|---|---|---|
| PostedFundsHeld, FailedMeansUnposted, refinement | lost commit acknowledgements | SagaCommitAck |
| HoldsResolved | crashes, handlers cut off, releases that were never sent | - |
| HitsAgree, RetriesHit | calls that missed the record | CreditsTwice |
| BonusOnce, SerialRetriesAgree | a bonus that never reaches the balance | - |
| MessageOnce | messages that became visible during a poll (`late`) | - |
| NothingLost | polls that were rolled back (`undone`) | ConsumerLoss |
| OneLiveSession, SessionsInv | overlapping updates of one session (`crossed`) | - |
| SerialBrowserKeepsSession | requests that overlap, calls that fail (`disturbed`), explicit refreshes | - |
| LogoutEndsUnrefreshed | refreshes by the middleware; tokens a provider keeps or can not revoke (`unrevoked`) | LogoutStale |
| OnboardingInv | documents put between copy and deletion (`late`) | - |
| SerialActivation, LinkFollows | overlaps and rollbacks that leave something behind (`disturbed`) | CustomerTwice |
| CustomerStays | writes over a row that changed (`overwritten`) | - |
| PaymentApiInv | forms edited under a click (`edited`) | - |
| PaidTwiceOnlyUnknowing | clicks that ended with an error toast or a reload | ErrorButSent |
| WalkMissesNothing | ties, the second of the request, what a replica did not show yet | StatementLags |
| RepeatsOnlyWhenOvertaken | ties, walks from page zero | StatementPageZero |

### Disagreements between code and documentation

One is a run: ReserveHold is documented as safe to retry and is not.  For nine more
a configuration is kept beside the others; TLC finds each violated:

| Configuration, module | Property | What is said, and what happens |
|---|---|---|
| SagaCommitAck, MCPaymentSaga | CompensatesOnlyUnposted | the compensation is for a failed transaction; it also follows a commit whose acknowledgement is lost |
| CreditsTwice, MCLedgerCredits | OneJournalPerKey | a credit is idempotent by key; two that overlap book twice |
| ConsumerDuplicate, MCLedgerConsumer | EventOnce | the inbox stops duplicates; `save` merges and it never sees one |
| ConsumerLoss, MCLedgerConsumer | DurableQueue | the queue is durable; messages are deleted before their effect is |
| LogoutStale, MCWebSessions | LogoutEndsSession | logout invalidates the session; after a refresh by the middleware it ends the one already replaced |
| CustomerTwice, MCOnboarding | CustomerOnce | "CreateCustomer idempotente"; the request carries no key and every call creates |
| ErrorButSent, MCPaymentApi | ErrorMeansNotSent | "No se pudo enviar la transferencia"; any lost answer says so, booked or not |
| StatementLags, MCStatements | RefreshShowsMovement | the statement is reloaded "para ver el movimiento real"; bounds cut to seconds hide the current one |
| StatementPageZero, MCStatements | ZeroBasedPagesDisjoint | "page 0-based"; pages 0 and 1 are the same |

Others were met on the way and are described by the models without a run:

* `AccountOpeningService.java:86` says anchoring avoids a double account; a crash
  between creating and anchoring, or an overlap, makes the retry create a second
  account (`CreateAccount`, `Attach`).  `SerialRetriesAgree` states what remains.
* `LedgerPostedConsumer.java:87` says `rollback como pediste`; a checked exception
  commits (`FailChecked`).
* `payment_service.go:190` says a failed step does not abort the transaction; in
  PostgreSQL it does, and the commit fails (`Rollback`).
* The rule of `80-messaging/template.yml` listens to source `bank.ledger` and type
  `ledger.journal.posted`; the ledger sends source `ledger-payments` and types
  `payment.posted` and `ledger.posted` without `postings`.  In the deployment as
  written no ledger event reaches the queue, holds are never settled and the
  destination of a payment is never credited.  Hence outbox and consumer are
  separate models and the queue receives messages of any origin.
* `FetchNextUnpublished` writes its claims on the connection meant for reads: with
  a real replica every claim fails (`outbox_worker.go:41`).
* `payment_service.go:43` refuses amounts that a float64 does not hold exactly,
  such as 10.10.
* A key first used by a credit is found by PostPayment, whose stored result has
  other fields (`payment_service.go:63`).
* The consumer ignores how many rows `applyDeltas` changed: postings for an
  unknown account vanish and the event counts as applied.
* A confirmation does not ask for the state: an activated registration goes back
  to KYC_CONFIRMED, and one that was half moved can only be confirmed after new
  uploads (`ConfirmRead`, `CopyRefused`).

## 4. What is proved

For any attempts, accounts, keys, requests, funding and limits (`PaymentSaga`),
any workers, any finite set of events and any batch size (`OutboxWorker`), any
attempts and keys (`LedgerCredits`), any openings (`AccountOpening`), any
messages, ids and consumers (`LedgerConsumer`), any confirmations, activations
and logins (`Onboarding`), any requests of one browser (`WebSessions`), any tabs,
orders and clicks (`PaymentApi`), any accounts, journals, postings and page sizes
(`Statements`), any finite set of callers and any settings (`AccountsBreaker`),
from the named ASSUMEs of those modules only.  Every safety property the runs
check is a theorem.

**PaymentSaga.**  `SagaInv` is the inductive invariant, proved part by part:
`TypeOK`; `CallOrder`, which relates the place of a handler to the calls it has
made (a release follows a granted hold of the same handler, and that handler is
about to return an error); `Booking`, which ties payments, records and answers
together; `Acknowledged`, the handler of a booked payment knows it, if no
acknowledgement is lost; `Funds`, only available and hold change; and
`HoldsMatch`.  `HoldsMatch` needs the sum of a set of holds: a sum by recursion
is out of the prover's reach, so `Amounts!Total` counts the units of all
requests and the lemmas at the head of `PaymentSagaProofs` derive that it adds and
subtracts from the theorems on cardinality.  `CanRelease` can then never refuse, because the hold released
is part of the sum.  `NeverOverspent` follows as payments are a subset of the
holds of their account, and the sum of the holds is at most the ledger balance.
`BalancesSound`, `HoldsMatch`, `AnswersAgree` hold under all faults;
`PostedFundsHeld`, `NeverOverspent`, `FailedMeansUnposted` and the refinement of
`IdempotentPayments` assume that no commit acknowledgement is lost, and
SagaCommitAck shows they must.

**OutboxWorker.**  `OutboxInv` = `TypeOK`, `Rounds` (what is in hand was stored,
what waits for its mark was delivered), `PublishedWasDelivered`, `Leases` (an
event in hand whose claim did not lapse is claimed, unpublished and in one hand)
and `Settled` (a delivered event is published or about to be marked).
`DeliveredOnce` needs `Settled`, `Settled` needs `Leases`, `Leases` needs
`Rounds`.  The refinement of `AtLeastOnceDelivery` maps PublishOk and
PublishUnacknowledged to a delivery and Mark to an acknowledgement.

**LedgerCredits.**  `CreditsInv` is inductive; `HitsAgree` and `RetriesHit` follow.

**AccountOpening.**  A step of an opening is a step of `LedgerCredits` or leaves its
variables alone (`OpeningsUseLedger`), so `CreditsInv` is taken over by
refinement and not proved again.  `OpeningInv` = `Backed` /\ `SerialSteps`.
`Backed` adds `GrantsBacked` (a grant names an account of its key, a completed one a journal of
its key), `StepsBacked` (what an opening has read or made exists and is of its
key) and `OneCompletes` (an opening that is about to add the bonus is the only one
of its key, found the grant open and has completed it), which `BonusOnce` needs to
be preserved.  `AnchorsStay` is an action property from the same invariant.
`SerialSteps` is about keys whose openings did not cross, and needs `Backed`: one
opening of the key runs at a time, works on the account its grant names as soon
as that names one, and is the one to complete the grant, and a bonus is on the
account of the grant.  `SerialRetriesAgree` follows.

**LedgerConsumer.**  `ConsumerInv` = `TypeOK`, `InboxMatchesCredits`, `InOnePlace` (a
message that never became visible during a poll is in the queue, in one poll or
in the balances, and in no two of them), `Receivable` (a visible message may still
be received) and `OnlyParsed` (nothing unparsable is applied).  `MessageOnce`
follows from `InOnePlace`; `NothingLost` is inductive relative to `ConsumerInv`.

**Onboarding.**  `DocumentsKept` says of every document that its newest version is in
one of the two prefixes unless it is `late`: between copy and deletion the object under
the staging key is either the one just copied or came later.  `RowSound` is not inductive: a commit writes what was read long ago.
`Underway` says that every row some call has read is sound too and that the
customer and account an activation works with exist, since nothing is ever
removed from the account service.  With it the invariant (`Consistent`) holds
however calls overlap and fail.  `CustomerStays` is proved from it.  `SerialCalls`
is what calls that follow each other may rely on: one call is under way
(`OneUnderWay`), it has read the row as it is (`HasRead`), an activation works on
its own customer or answers with that of the row (`OnItsOwn`), and the account
service and the link have what the row names or what the call under way has made
(`RemoteFollows`).  It is stable because an overlap and a rollback that leaves
something behind set `disturbed`; `SerialActivation` and `LinkFollows` follow from
it and `Consistent`.

**WebSessions.**  `Lineage` and `Progress` are inductive together with `TypeOK`: a
session that exists was stored by a refresh that revoked its predecessor, and
unless two updates of the predecessor overlapped it is the only one that was.
`OneLiveSession` is inductive relative to them: a session is stored only in a
transaction that revokes the one it replaces.  `Undisturbed` adds the tokens the provider accepts, for one request at a
time; with it `PagesKeepSession` is inductive, which is what
`SerialBrowserKeepsSession` says between requests and what the middleware has in
its hands within one.  The tokens the provider accepts without
a living session are those it went on accepting beside a successor (`Superseded`), and
any if a logout could not revoke: `LogoutEndsUnrefreshed` follows from this part of
`Undisturbed` and the steps of a logout.

**PaymentApi.**  `RequestsFollow` relates the place of a click in the page to what
the BFF has done for it, so that a late answer, a lost one and a refused request
can not be taken for each other; `ClicksFollow` says that a tab's button is blocked
exactly while one click on it is under way; `OrdersFollow` that an order no toast
told was sent is submitted on one tab only, and that of the clicks on it one at
most is on its way or ended well.  A form that was not edited since its click shows
one order, so what is booked and is no order was edited (`RequestsFollow`).
`WithinFunding` uses the lemmas on `Amounts`, and the promise of
`IdempotentPayments` that a key books once.

**Statements.**  The invariant of a walk is `PagesFollow`: a journal that did
not become readable under the walk and is not shown yet has at least the rows of the
pages read so far ahead of it, as readable journals only ever get more
(`BookingKeepsWalk`); a replica that lags makes fewer of them, not others.
`PlaceInListing` says that without ties the place of a journal in whatever listing
the database returns is the number of journals ahead of it, so a page shows
exactly the journals whose turn it is (`PageShows`); a page that is not full leaves
none.  A walk from page one has read as many rows as the window has journals when
it ends, whence `RepeatsOnlyWhenOvertaken`.  That the items add up is about a fold
over the journals shown, and the library states induction over a finite set with
an operator as parameter, which the provers can not instantiate.  The proofs use
least counterexamples instead: the sums of a finite set exist because there is no
smallest size for which they do not (`SumsExist`), and the sum of differences is
the difference of the sums because there is no smallest subset for which it is not
(`SumOfDifferences`).

**AccountsBreaker.**  `BreakerInv`: a half-open breaker has let through as many calls as
have succeeded or are under way in its generation, hence it can not be used up
with nobody left to move it; an open one has no call of its generation.
`OpensOnOwnFailures` follows from the step.

Only model-checked: liveness (`Terminates`, `HoldsResolved`, `EveryEventPublished`,
`QueueDrains`, `Recovers`), which is out of the prover's reach, as ENABLED is; the
refinements are proved of the specifications without fairness.

## 5. Not modelled

* OIDC login: its state is kept in Redis; the race of two callbacks on one state
  is in the hazards and planned.
* createAccount and patchAccountLimits with their idempotency records: creation is
  modelled as account opening calls it, the records are planned.
* patchCustomer and rollbackBestEffort, which nobody calls.
* The authorisation and token interceptors (stateless, decided by an external
  policy store) and audit (best effort, result ignored).
* Conversions of amounts, in particular the float64 test of PostPayment: amounts
  are whole units.  Keys reused across operations.
* The other pages of the web client and the other routes of the BFF, which show or
  translate the answer of one stateless call.
* Names of counterparties in statements, wording of answers, logs.
* Generated code, about two thirds of the Go in the repository.

## 6. Plan

Done: payments, outbox, credits, opening, consumer, breaker, onboarding, sessions,
transfers, statements; a theorem for each of their safety properties.

1. `AccountRequests`: the look-up, act, save idempotency of createAccount and
   patchAccountLimits; two overlapping requests.
2. `OidcLogin`: the login state and its single use, composed with `Onboarding`.
3. `PaymentSaga` with keys shared with `LedgerCredits`.
