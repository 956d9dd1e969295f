------------------------- MODULE IdempotentPayments -------------------------
(***************************************************************************)
(* What the ledger promises about payments, with no handler, call or       *)
(* database in sight: every request carries an idempotency key, at most    *)
(* one payment is ever booked for a key, an account never pays more than   *)
(* it was funded with, and a request is only ever answered with the        *)
(* payment booked for its key.  A request may also go unanswered.          *)
(***************************************************************************)
EXTENDS Amounts

CONSTANTS Attempts, Accounts, Keys, Requests, Funding, None

VARIABLES
    req,     \* the request each attempt makes
    booked,  \* the attempts whose payment was booked
    answer   \* the payment each attempt was answered with

vars == <<req, booked, answer>>

Init ==
    /\ req \in [Attempts -> Requests]
    /\ booked = {}
    /\ answer = [a \in Attempts |-> None]

\* The payments booked out of an account.
BookedFrom(acc) == {p \in booked : req[p].src = acc}

Book(a) ==
    /\ \A p \in booked : req[p].key # req[a].key
    /\ Total(BookedFrom(req[a].src) \cup {a}, req) <= Funding[req[a].src]
    /\ booked' = booked \cup {a}
    /\ UNCHANGED <<req, answer>>

Answer(a) ==
    /\ answer[a] = None
    /\ \E p \in booked :
           /\ req[p].key = req[a].key
           /\ answer' = [answer EXCEPT ![a] = p]
    /\ UNCHANGED <<req, booked>>

Next == \E a \in Attempts : Book(a) \/ Answer(a)

Spec == Init /\ [][Next]_vars

=============================================================================
