----------------------------- MODULE PaymentApi -----------------------------
(***************************************************************************)
(* A transfer as the customer makes it: the home page of the web client    *)
(* (home.ts), the payment route of the BFF (CreatePaymentStrict) and,      *)
(* behind it, the ledger, of which only the promise is used: the instance  *)
(* of IdempotentPayments that PaymentSaga is shown to implement.           *)
(*                                                                         *)
(* An order is a transfer the customer wants made once.  The page draws a  *)
(* fresh idempotency key for every click, so the ledger cannot tell a      *)
(* second click for an order from another order: what keeps an order from  *)
(* being paid twice is the submittingTransfer flag and what the customer   *)
(* is told.  The page fetches a CSRF token between the click and the       *)
(* request, and reads the form only then, so that a request may mix the    *)
(* source account of one order with the payee and the amount of another.   *)
(*                                                                         *)
(* The customer enters an order on the tab it belongs to, and never again  *)
(* once a toast said it was sent, and clicks when the form shows an order. *)
(***************************************************************************)
EXTENDS Amounts

CONSTANTS
    Tabs, Orders, Attempts, Accounts, None,
    Tab,         \* the tab on which the customer enters each order
    Src,         \* the account each order pays from
    Price,       \* the amount of each order
    Funding,     \* what each account was funded with
    MaxReloads   \* bound on the page reloads

\* A form: a source account, and the order whose payee and amount were entered.
Forms == [src: Accounts, rest: Orders]

ASSUME OrdersAssumption ==
    /\ None \notin Orders \cup Tabs \cup Forms
    /\ Tab \in [Orders -> Tabs]
    /\ Src \in [Orders -> Accounts]
    /\ Price \in [Orders -> Nat \ {0}]
    /\ Funding \in [Accounts -> Nat]
    /\ MaxReloads \in Nat

VARIABLES
    open,     \* transferOpen: is the transfer dialog of the tab shown
    form,     \* what its fields hold, None while payee and amount are blank
    edited,   \* history: clicks whose form changed while they had no token yet
    busy,     \* submittingTransfer
    tabOf,    \* the tab a click was made on, None once the page is gone
    web,      \* where the page is with the click
    bff,      \* where the BFF is with the request of the click
    handed,   \* the requests the BFF has passed to the ledger
    reloads,
    req, booked, answer   \* the ledger's

page == <<open, form, edited, busy, tabOf, web>>
ledger == <<booked, answer>>
vars == <<page, bff, handed, reloads, req, ledger>>

\* Both parts are of one order.
Whole(f) == f # None /\ Src[f.rest] = f.src

\* The request a click sends: a key of its own, and what the form held.
RequestOf(a, f) ==
    IF f = None THEN [key |-> a, order |-> None, src |-> None, amount |-> 0]
    ELSE [key    |-> a,
          order  |-> IF Whole(f) THEN f.rest ELSE None,
          src    |-> f.src,
          amount |-> Price[f.rest]]

Requests == {RequestOf(a, f) : a \in Attempts, f \in Forms \cup {None}}

Ledger == INSTANCE IdempotentPayments WITH Keys <- Attempts

WebStates == {"unused", "token", "sent", "statement",
              "told_sent", "told_error", "no_token", "gone"}
UnderWay == {"token", "sent", "statement", "no_token"}
BffStates == {"idle", "checking", "posting", "created", "refused", "failed"}

TypeOK ==
    /\ open \in [Tabs -> BOOLEAN]
    /\ form \in [Tabs -> Forms \cup {None}]
    /\ edited \subseteq Attempts
    /\ busy \in [Tabs -> BOOLEAN]
    /\ tabOf \in [Attempts -> Tabs \cup {None}]
    /\ web \in [Attempts -> WebStates]
    /\ bff \in [Attempts -> BffStates]
    /\ handed \subseteq Attempts
    /\ reloads \in 0 .. MaxReloads
    /\ req \in [Attempts -> Requests]
    /\ booked \subseteq Attempts
    /\ answer \in [Attempts -> Attempts \cup {None}]

Init ==
    /\ open = [t \in Tabs |-> FALSE]
    /\ form = [t \in Tabs |-> None]
    /\ edited = {}
    /\ busy = [t \in Tabs |-> FALSE]
    /\ tabOf = [a \in Attempts |-> None]
    /\ web = [a \in Attempts |-> "unused"]
    /\ bff = [a \in Attempts |-> "idle"]
    /\ handed = {}
    /\ reloads = 0
    /\ req = [a \in Attempts |-> RequestOf(a, None)]
    /\ booked = {}
    /\ answer = [a \in Attempts |-> None]

-----------------------------------------------------------------------------
\* The dialog.

\* A toast has told the customer that the order was sent.
ToldSent(o) == \E a \in Attempts : web[a] = "told_sent" /\ req[a].order = o

\* The clicks on a tab that have yet to read its form.
Unread(t) == {a \in Attempts : tabOf[a] = t /\ web[a] = "token"}

OpenTransfer(t) ==
    /\ ~open[t]
    /\ open' = [open EXCEPT ![t] = TRUE]
    /\ form' = [form EXCEPT ![t] = None]
    /\ edited' = edited \cup Unread(t)
    /\ UNCHANGED <<busy, tabOf, web, bff, handed, reloads, req, ledger>>

\* The fields stay editable while a transfer is being submitted.  The source
\* account of a blank form is whichever the page has shown.
Enter(t, o) ==
    /\ open[t]
    /\ Tab[o] = t
    /\ ~ToldSent(o)
    /\ \E acc \in IF form[t] = None THEN Accounts ELSE {form[t].src} :
           form' = [form EXCEPT ![t] = [src |-> acc, rest |-> o]]
    /\ edited' = edited \cup Unread(t)
    /\ UNCHANGED <<open, busy, tabOf, web, bff, handed, reloads, req, ledger>>

\* The field of the dialog or, beside it, the account the page shows.
PickFrom(t, acc) ==
    /\ form[t] # None /\ form[t].src # acc
    /\ form' = [form EXCEPT ![t].src = acc]
    /\ edited' = edited \cup Unread(t)
    /\ UNCHANGED <<open, busy, tabOf, web, bff, handed, reloads, req, ledger>>

Cancel(t) ==
    /\ open[t]
    /\ open' = [open EXCEPT ![t] = FALSE]
    /\ UNCHANGED <<form, edited, busy, tabOf, web, bff, handed, reloads, req, ledger>>

-----------------------------------------------------------------------------
\* submitTransfer.

\* Fault: The flag is not looked at when the button is clicked.
FaultySubmit(t, a) ==
    /\ open[t]
    /\ Whole(form[t])
    /\ web[a] = "unused"
    /\ busy' = [busy EXCEPT ![t] = TRUE]
    /\ web' = [web EXCEPT ![a] = "token"]
    /\ tabOf' = [tabOf EXCEPT ![a] = t]
    /\ UNCHANGED <<open, form, edited, bff, handed, reloads, req, ledger>>

Submit(t, a) ==
    /\ open[t]
    /\ ~busy[t]
    /\ Whole(form[t])
    /\ web[a] = "unused"
    /\ busy' = [busy EXCEPT ![t] = TRUE]
    /\ web' = [web EXCEPT ![a] = "token"]
    /\ tabOf' = [tabOf EXCEPT ![a] = t]
    /\ UNCHANGED <<open, form, edited, bff, handed, reloads, req, ledger>>

\* getCsrf is awaited outside the try: when it fails nothing clears the flag.
TokenFails(a) ==
    /\ web[a] = "token"
    /\ web' = [web EXCEPT ![a] = "no_token"]
    /\ UNCHANGED <<open, form, edited, busy, tabOf, bff, handed, reloads, req, ledger>>

\* Fault: The BFF posts the payment before it has checked it.
FaultyTokenArrives(a) ==
    /\ web[a] = "token"
    /\ web' = [web EXCEPT ![a] = "sent"]
    /\ req' = [req EXCEPT ![a] = RequestOf(a, form[tabOf[a]])]
    /\ bff' = [bff EXCEPT ![a] = "checking"]
    /\ handed' = IF form[tabOf[a]] # None THEN handed \cup {a} ELSE handed
    /\ UNCHANGED <<open, form, edited, busy, tabOf, reloads, ledger>>


\* The form is read after the token has arrived, cancelled or not.
TokenArrives(a) ==
    /\ web[a] = "token"
    /\ web' = [web EXCEPT ![a] = "sent"]
    /\ req' = [req EXCEPT ![a] = RequestOf(a, form[tabOf[a]])]
    /\ bff' = [bff EXCEPT ![a] = "checking"]
    /\ UNCHANGED <<open, form, edited, busy, tabOf, handed, reloads, ledger>>

\* A 201 reached the page, which reloads the statement before the toast.
AnswerArrives(a) ==
    /\ web[a] = "sent"
    /\ bff[a] = "created"
    /\ web' = [web EXCEPT ![a] = "statement"]
    /\ UNCHANGED <<open, form, edited, busy, tabOf, bff, handed, reloads, req, ledger>>

\* Fault: The dialog stays open after a success.
FaultyToastSent(a) ==
    /\ web[a] = "statement"
    /\ web' = [web EXCEPT ![a] = "told_sent"]
    /\ busy' = [busy EXCEPT ![tabOf[a]] = FALSE]
    /\ UNCHANGED <<open, form, edited, tabOf, bff, handed, reloads, req, ledger>>

\* The dialog closes, also when it has been opened again for another order.
ToastSent(a) ==
    /\ web[a] = "statement"
    /\ web' = [web EXCEPT ![a] = "told_sent"]
    /\ busy' = [busy EXCEPT ![tabOf[a]] = FALSE]
    /\ open' = [open EXCEPT ![tabOf[a]] = FALSE]
    /\ UNCHANGED <<form, edited, tabOf, bff, handed, reloads, req, ledger>>

\* Any other answer, and any failure of the connection, is the same toast.
ToastError(a) ==
    /\ web[a] = "sent"
    /\ web' = [web EXCEPT ![a] = "told_error"]
    /\ busy' = [busy EXCEPT ![tabOf[a]] = FALSE]
    /\ UNCHANGED <<open, form, edited, tabOf, bff, handed, reloads, req, ledger>>

\* The customer reloads the page: what is on its way to the BFF goes on.
Reload(t) ==
    /\ reloads < MaxReloads
    /\ reloads' = reloads + 1
    /\ open' = [open EXCEPT ![t] = FALSE]
    /\ form' = [form EXCEPT ![t] = None]
    /\ busy' = [busy EXCEPT ![t] = FALSE]
    /\ LET lost == {a \in Attempts : tabOf[a] = t /\ web[a] \in UnderWay}
       IN  /\ web' = [a \in Attempts |-> IF a \in lost THEN "gone" ELSE web[a]]
           /\ tabOf' = [a \in Attempts |-> IF a \in lost THEN None ELSE tabOf[a]]
    /\ UNCHANGED <<edited, bff, handed, req, ledger>>

-----------------------------------------------------------------------------
\* CreatePaymentStrict.

\* Is there room for the request beside the payments booked and the holds of H?
Room(a, H) ==
    Total(Ledger!BookedFrom(req[a].src) \cup H \cup {a}, req) <= Funding[req[a].src]

\* The requests on the same account that may be holding money in Accounts.
Holding(a) == {b \in handed \ {a} : req[b].src = req[a].src}

\* Session, CSRF token, customer, subject and amount, or Accounts says no.
Refuse(a) ==
    /\ bff[a] = "checking"
    /\ bff' = [bff EXCEPT ![a] = "refused"]
    /\ UNCHANGED <<page, handed, reloads, req, ledger>>

ValidationUnavailable(a) ==
    /\ bff[a] = "checking"
    /\ req[a].amount > 0
    /\ bff' = [bff EXCEPT ![a] = "failed"]
    /\ UNCHANGED <<page, handed, reloads, req, ledger>>

PostPayment(a) ==
    /\ bff[a] = "checking"
    /\ req[a].amount > 0
    /\ \E H \in SUBSET Holding(a) : Room(a, H)
    /\ bff' = [bff EXCEPT ![a] = "posting"]
    /\ handed' = handed \cup {a}
    /\ UNCHANGED <<page, reloads, req, ledger>>

\* The ledger books the payment; it may do so when the BFF no longer waits.
LedgerBooks(a) ==
    /\ a \in handed
    /\ Ledger!Book(a)
    /\ UNCHANGED <<page, bff, handed, reloads>>

PostAnswered(a) ==
    /\ bff[a] = "posting"
    /\ Ledger!Answer(a)
    /\ bff' = [bff EXCEPT ![a] = "created"]
    /\ UNCHANGED <<page, handed, reloads>>

PostFails(a) ==
    /\ bff[a] = "posting"
    /\ bff' = [bff EXCEPT ![a] = "failed"]
    /\ UNCHANGED <<page, handed, reloads, req, ledger>>

-----------------------------------------------------------------------------
Next ==
    \/ \E t \in Tabs : OpenTransfer(t) \/ Cancel(t) \/ Reload(t)
    \/ \E t \in Tabs, o \in Orders : Enter(t, o)
    \/ \E t \in Tabs, acc \in Accounts : PickFrom(t, acc)
    \/ \E t \in Tabs, a \in Attempts : Submit(t, a)
    \/ \E a \in Attempts :
           \/ TokenFails(a) \/ TokenArrives(a) \/ AnswerArrives(a)
           \/ ToastSent(a) \/ ToastError(a)
           \/ Refuse(a) \/ ValidationUnavailable(a) \/ PostPayment(a)
           \/ LedgerBooks(a) \/ PostAnswered(a) \/ PostFails(a)

Spec == Init /\ [][Next]_vars

-----------------------------------------------------------------------------
\* A transfer the customer was told was sent is booked, as it was sent and for
\* the click it was sent with; a payment that is no order was sent by a click
\* under which the form was changed; a request the BFF refused or never passed
\* on is not booked, late answers included.
ToastsAreTrue ==
    \A a \in Attempts :
        /\ web[a] \in {"statement", "told_sent"} => answer[a] = a /\ a \in booked
        /\ a \in booked => req[a].order # None \/ a \in edited
        /\ bff[a] \in {"idle", "checking", "refused"} => a \notin booked

\* The account of an order never pays more than its funding, whichever tabs,
\* keys and clicks the payments come from.
WithinFunding ==
    \A acc \in Accounts : Total(Ledger!BookedFrom(acc), req) <= Funding[acc]

\* A request says what the form held, under a key of its own; the BFF passes on
\* those with an amount, and only what it passed on is booked or answered.
RequestsFollow ==
    \A a \in Attempts :
        /\ req[a].key = a
        /\ web[a] \in {"unused", "token", "no_token"} => bff[a] = "idle"
        /\ web[a] = "unused" => a \notin edited
        /\ web[a] = "token" /\ a \notin edited => Whole(form[tabOf[a]])
        /\ bff[a] # "idle" => req[a].order # None \/ a \in edited
        /\ web[a] \in {"statement", "told_sent"} => bff[a] = "created"
        /\ bff[a] \in {"idle", "checking", "refused"} => a \notin handed
        /\ bff[a] = "posting" => a \in handed
        /\ bff[a] = "created" => answer[a] = a /\ a \in booked
        /\ a \in handed => bff[a] # "idle"
        /\ a \in booked => a \in handed

\* The button of a tab is blocked exactly while one click on it is under way.
ClicksFollow ==
    /\ \A a \in Attempts : web[a] \in UnderWay => tabOf[a] # None /\ busy[tabOf[a]]
    /\ \A a, b \in Attempts :
           web[a] \in UnderWay /\ web[b] \in UnderWay /\ tabOf[a] = tabOf[b] => a = b
    /\ \A t \in Tabs :
           busy[t] => \E a \in Attempts : tabOf[a] = t /\ web[a] \in UnderWay

\* What can still be submitted is an order of this tab that no toast told was
\* sent; and of the clicks for an order one is on its way or ended well.
OrdersFollow ==
    /\ \A t \in Tabs : form[t] # None =>
           /\ Tab[form[t].rest] = t
           /\ open[t] \/ busy[t] => ~ToldSent(form[t].rest)
    /\ \A a \in Attempts :
           web[a] \in {"sent", "statement"} /\ req[a].order # None
               => Tab[req[a].order] = tabOf[a]
    /\ \A a, b \in Attempts :
           /\ {web[a], web[b]} \subseteq {"sent", "statement", "told_sent"}
           /\ req[a].order = req[b].order /\ req[a].order # None
           => a = b

PaymentApiInv ==
    TypeOK /\ ToastsAreTrue /\ WithinFunding /\ RequestsFollow /\ ClicksFollow /\ OrdersFollow

\* Every click has its own idempotency key, so the ledger cannot help here: an
\* order is paid twice only when one of the two clicks ended with the error
\* toast or with a page that was gone, that is, after the customer decided to
\* try again without knowing.  A double click, an edit of the form while a
\* click is under way or a second dialog never suffice.
PaidTwiceOnlyUnknowing ==
    \A a, b \in booked :
        a # b /\ req[a].order = req[b].order /\ req[a].order # None =>
            {web[a], web[b]} \cap {"told_error", "gone"} # {}

\* The button of a tab is blocked by one click only, and only while that click
\* is under way; the exception is a token that could not be fetched, after
\* which the button stays blocked until the page is reloaded.
OneClickAtATime ==
    \A t \in Tabs :
        LET here == {a \in Attempts : tabOf[a] = t /\ web[a] \in UnderWay}
        IN  Cardinality(here) = IF busy[t] THEN 1 ELSE 0

\* What the error toast says ("No se pudo enviar la transferencia", home.ts
\* line 245): the transfer was not sent.  The code cannot promise it.
ErrorMeansNotSent ==
    \A a \in Attempts : web[a] = "told_error" => a \notin booked

=============================================================================
