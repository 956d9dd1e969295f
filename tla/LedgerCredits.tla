--------------------------- MODULE LedgerCredits ---------------------------
(***************************************************************************)
(* CreditAccount and CreditAccountSystem of the ledger service.            *)
(*                                                                         *)
(* Both handlers read the idempotency record of the request, have Accounts *)
(* validate the credit, and commit a journal, its outbox event and the     *)
(* idempotency record in one transaction.  Unlike payments, journals have  *)
(* no unique index: only the record, which the insert leaves alone when it *)
(* exists, stands between a retry and a second journal.                    *)
(*                                                                         *)
(* An attempt is one invocation; it draws a fresh journal id, so a journal *)
(* is named by the attempt that booked it.                                 *)
(***************************************************************************)
CONSTANTS
    Attempts,  \* invocations of the handlers
    Keys,      \* idempotency keys
    KeyOf,     \* the key of each attempt
    None       \* not an attempt: no record, no answer, nothing

ASSUME AttemptsAssumption == None \notin Attempts /\ KeyOf \in [Attempts -> Keys]

VARIABLES
    cpc,       \* where each handler is
    journals,  \* rows of journal_entries, each with its outbox event
    idem,      \* idempotency_records, by key
    answer     \* the journal each handler returned

creditVars == <<cpc, journals, idem, answer>>

CreditsTypeOK ==
    /\ cpc \in [Attempts -> {"idle", "lookup", "validate", "posting",
                             "posted", "replied", "failed"}]
    /\ journals \subseteq Attempts
    /\ idem \in [Keys -> Attempts \cup {None}]
    /\ answer \in [Attempts -> Attempts \cup {None}]

CreditsInit ==
    /\ cpc = [a \in Attempts |-> "idle"]
    /\ journals = {}
    /\ idem = [k \in Keys |-> None]
    /\ answer = [a \in Attempts |-> None]

-----------------------------------------------------------------------------
CreditGoto(a, label) == cpc' = [cpc EXCEPT ![a] = label]

(* Faulty variants of definitions below, each a mistake that some property *)
(* must notice.                                                            *)

\* The insert of the record overwrites the one it finds.
FaultyPutRecord(a) == idem' = [idem EXCEPT ![KeyOf[a]] = a]

\* The record is written in a transaction of its own, after the reply.
FaultyBook(a) ==
    /\ cpc[a] = "posting"
    /\ journals' = journals \cup {a}
    /\ CreditGoto(a, "posted")
    /\ UNCHANGED <<idem, answer>>

\* A found record is answered with the id of this request.
FaultyLookupHit(a) ==
    /\ cpc[a] = "lookup"
    /\ idem[KeyOf[a]] # None
    /\ answer' = [answer EXCEPT ![a] = a]
    /\ CreditGoto(a, "replied")
    /\ UNCHANGED <<journals, idem>>

-----------------------------------------------------------------------------
BeginCredit(a) ==
    /\ cpc[a] = "idle"
    /\ CreditGoto(a, "lookup")
    /\ UNCHANGED <<journals, idem, answer>>

LookupHit(a) ==
    /\ cpc[a] = "lookup"
    /\ idem[KeyOf[a]] # None
    /\ answer' = [answer EXCEPT ![a] = idem[KeyOf[a]]]
    /\ CreditGoto(a, "replied")
    /\ UNCHANGED <<journals, idem>>

\* The record is missing, or the read database is a replica that lags.
LookupMiss(a) ==
    /\ cpc[a] = "lookup"
    /\ CreditGoto(a, "validate")
    /\ UNCHANGED <<journals, idem, answer>>

\* Source and destination are the same account, so Accounts only compares the
\* amount with dailyIn: the verdict depends on the request alone.
ValidateOk(a) ==
    /\ cpc[a] = "validate"
    /\ CreditGoto(a, "posting")
    /\ UNCHANGED <<journals, idem, answer>>

ValidateRefused(a) ==
    /\ cpc[a] = "validate"
    /\ CreditGoto(a, "failed")
    /\ UNCHANGED <<journals, idem, answer>>

\* INSERT ... ON CONFLICT (key) DO NOTHING.
PutRecord(a) == idem' = [idem EXCEPT ![KeyOf[a]] = IF @ = None THEN a ELSE @]

\* The transaction: journal, event and record are committed together.
Book(a) ==
    /\ cpc[a] = "posting"
    /\ journals' = journals \cup {a}
    /\ PutRecord(a)
    /\ CreditGoto(a, "posted")
    /\ UNCHANGED answer

\* The connection drops after the server committed: the caller sees an error.
BookUnacknowledged(a) ==
    /\ cpc[a] = "posting"
    /\ journals' = journals \cup {a}
    /\ PutRecord(a)
    /\ CreditGoto(a, "failed")
    /\ UNCHANGED answer

\* The audit call (best effort) and the return of the result.
ReplyCredit(a) ==
    /\ cpc[a] = "posted"
    /\ answer' = [answer EXCEPT ![a] = a]
    /\ CreditGoto(a, "replied")
    /\ UNCHANGED <<journals, idem>>

\* Every other early return, and the end of the process.
Fail(a) ==
    /\ cpc[a] \in {"lookup", "validate", "posting", "posted"}
    /\ CreditGoto(a, "failed")
    /\ UNCHANGED <<journals, idem, answer>>

-----------------------------------------------------------------------------
Handler(a) ==
    \/ LookupHit(a) \/ LookupMiss(a) \/ ValidateOk(a) \/ ValidateRefused(a)
    \/ Book(a) \/ BookUnacknowledged(a) \/ ReplyCredit(a) \/ Fail(a)

CreditsNext == \E a \in Attempts : BeginCredit(a) \/ Handler(a)

CreditsSpec == CreditsInit /\ [][CreditsNext]_creditVars

-----------------------------------------------------------------------------
(* Safety.                                                                 *)

SameKey(a, b) == KeyOf[a] = KeyOf[b]

\* An answer names a journal that was booked for the same key, and it is the
\* caller's own or the one on record: what was answered can be looked up.
AnswersBooked ==
    \A a \in Attempts : answer[a] # None =>
        /\ answer[a] \in journals
        /\ SameKey(answer[a], a)
        /\ answer[a] \in {a, idem[KeyOf[a]]}

\* Retries that were answered from the record agree, however many journals
\* were booked for the key by calls that overlapped.
HitsAgree ==
    \A a, b \in Attempts :
        /\ SameKey(a, b)
        /\ answer[a] \notin {None, a}
        /\ answer[b] \notin {None, b}
        => answer[a] = answer[b]

\* A call that comes after an answer for its key was given finds the record
\* and books nothing, if the database it reads is up to date.
RetriesHit ==
    [][ \A a \in Attempts : LookupMiss(a) /\ idem[KeyOf[a]] = None =>
            \A b \in Attempts : SameKey(a, b) => answer[b] = None ]_creditVars

\* Posting a credit is idempotent by key.
OneJournalPerKey ==
    \A a, b \in journals : SameKey(a, b) => a = b

-----------------------------------------------------------------------------
(* The inductive invariant.                                                *)

\* Journals, records and answers name each other.
Records ==
    /\ \A a \in journals :
           /\ cpc[a] \in {"posted", "replied", "failed"}
           /\ idem[KeyOf[a]] # None
    /\ \A k \in Keys : idem[k] # None =>
           idem[k] \in journals /\ KeyOf[idem[k]] = k
    /\ \A a \in Attempts : cpc[a] = "posted" => a \in journals
    /\ \A a \in Attempts : answer[a] # None => cpc[a] = "replied"

CreditsInv == CreditsTypeOK /\ Records /\ AnswersBooked

=============================================================================
