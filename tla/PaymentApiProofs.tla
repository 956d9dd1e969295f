--------------------------- MODULE PaymentApiProofs ---------------------------
(***************************************************************************)
(* Proofs about PaymentApi for any number of tabs, orders, clicks and      *)
(* reloads: first that a request is the one its click made and that the    *)
(* BFF and the ledger follow it, then what keeps a tab to one click, then  *)
(* what keeps an order from being paid twice.                              *)
(***************************************************************************)
EXTENDS PaymentApi, FiniteSetTheorems, TLAPS

-----------------------------------------------------------------------------
(* What a click sends. *)
LEMMA RequestShape ==
    ASSUME NEW a \in Attempts, NEW f \in Forms \cup {None}
    PROVE  /\ RequestOf(a, f) \in Requests
           /\ RequestOf(a, f).key = a
           /\ Whole(f) => RequestOf(a, f).order = f.rest /\ f.rest # None
           /\ RequestOf(a, f).order # None =>
                  f # None /\ RequestOf(a, f).order = f.rest
  BY OrdersAssumption DEF RequestOf, Requests, Whole, Forms

LEMMA RequestsShape ==
    ASSUME NEW q \in Requests
    PROVE  q.order \in Orders \cup {None}
<1>1. PICK a \in Attempts, f \in Forms \cup {None} : q = RequestOf(a, f)
  BY DEF Requests
<1>2. QED
  BY <1>1 DEF RequestOf, Whole, Forms

LEMMA TypeStep ==
    ASSUME PaymentApiInv, [Next]_vars
    PROVE  TypeOK'
<1> USE DEF page, ledger
<1>0. TypeOK /\ ClicksFollow
  BY DEF PaymentApiInv
<1>1. CASE UNCHANGED vars
  BY <1>0, <1>1 DEF TypeOK, vars
<1>2. ASSUME NEW t \in Tabs, OpenTransfer(t) \/ Cancel(t)
      PROVE  TypeOK'
  BY <1>0, <1>2 DEF TypeOK, OpenTransfer, Cancel, Unread
<1>3. ASSUME NEW t \in Tabs, Reload(t)
      PROVE  TypeOK'
  <2>1. reloads' \in 0 .. MaxReloads
    BY <1>0, <1>3, OrdersAssumption DEF TypeOK, Reload
  <2>2. web' \in [Attempts -> WebStates] /\ tabOf' \in [Attempts -> Tabs \cup {None}]
    BY <1>0, <1>3 DEF TypeOK, Reload, WebStates
  <2>3. QED
    BY <1>0, <1>3, <2>1, <2>2 DEF TypeOK, Reload
<1>4. ASSUME NEW t \in Tabs,
             \/ \E o \in Orders : Enter(t, o)
             \/ \E acc \in Accounts : PickFrom(t, acc)
      PROVE  TypeOK'
  <2>1. form' \in [Tabs -> Forms \cup {None}]
    BY <1>0, <1>4 DEF TypeOK, Enter, PickFrom, Forms
  <2>2. QED
    BY <1>0, <1>4, <2>1 DEF TypeOK, Enter, PickFrom, Unread
<1>5. ASSUME NEW t \in Tabs, NEW a \in Attempts, Submit(t, a)
      PROVE  TypeOK'
  BY <1>0, <1>5 DEF TypeOK, Submit, WebStates
<1>6. ASSUME NEW a \in Attempts, TokenFails(a) \/ AnswerArrives(a)
      PROVE  TypeOK'
  BY <1>0, <1>6 DEF TypeOK, TokenFails, AnswerArrives, WebStates
<1>7. ASSUME NEW a \in Attempts, TokenArrives(a)
      PROVE  TypeOK'
  <2>1. form[tabOf[a]] \in Forms \cup {None}
    BY <1>0, <1>7 DEF TypeOK, ClicksFollow, UnderWay, TokenArrives
  <2>2. RequestOf(a, form[tabOf[a]]) \in Requests
    BY <2>1, RequestShape
  <2>3. req' \in [Attempts -> Requests]
    BY <1>0, <1>7, <2>2 DEF TypeOK, TokenArrives
  <2>4. QED
    BY <1>0, <1>7, <2>3 DEF TypeOK, TokenArrives, WebStates, BffStates
<1>8. ASSUME NEW a \in Attempts, ToastSent(a) \/ ToastError(a)
      PROVE  TypeOK'
  BY <1>0, <1>8 DEF TypeOK, ToastSent, ToastError, WebStates
<1>9. ASSUME NEW a \in Attempts,
             Refuse(a) \/ ValidationUnavailable(a) \/ PostPayment(a) \/ PostFails(a)
      PROVE  TypeOK'
  BY <1>0, <1>9 DEF TypeOK, Refuse, ValidationUnavailable, PostPayment, PostFails, BffStates
<1>10. ASSUME NEW a \in Attempts, LedgerBooks(a) \/ PostAnswered(a)
       PROVE  TypeOK'
  BY <1>0, <1>10 DEF TypeOK, LedgerBooks, PostAnswered, Ledger!Book, Ledger!Answer, BffStates
<1>11. QED
  BY <1>1, <1>2, <1>3, <1>4, <1>5, <1>6, <1>7, <1>8, <1>9, <1>10 DEF Next

-----------------------------------------------------------------------------
(* Requests, the BFF and the ledger.                                       *)

LEMMA RequestsStep ==
    ASSUME PaymentApiInv, [Next]_vars
    PROVE  RequestsFollow'
<1> USE DEF page, ledger
<1>0. TypeOK /\ RequestsFollow /\ ClicksFollow
  BY DEF PaymentApiInv
<1>1. CASE UNCHANGED vars
  BY <1>0, <1>1 DEF RequestsFollow, vars
<1>2. ASSUME NEW t \in Tabs,
             \/ OpenTransfer(t) \/ Cancel(t) \/ \E o \in Orders : Enter(t, o)
             \/ \E acc \in Accounts : PickFrom(t, acc)
      PROVE  RequestsFollow'
  <2>1. /\ UNCHANGED <<tabOf, web, bff, handed, req, ledger>>
        /\ edited' = edited \cup Unread(t) \/ (edited' = edited /\ form' = form)
        /\ \A u \in Tabs \ {t} : form'[u] = form[u]
    BY <1>0, <1>2 DEF TypeOK, OpenTransfer, Cancel, Enter, PickFrom
  <2>2. ASSUME NEW a \in Attempts, web[a] = "token", a \notin edited'
        PROVE  form'[tabOf[a]] = form[tabOf[a]]
    BY <1>0, <2>1, <2>2 DEF TypeOK, ClicksFollow, UnderWay, Unread
  <2>3. \A a \in Attempts : web[a] = "unused" => (a \in edited' <=> a \in edited)
    BY <2>1 DEF Unread
  <2>4. QED
    BY <1>0, <2>1, <2>2, <2>3 DEF RequestsFollow
<1>2s. ASSUME NEW t \in Tabs, NEW a \in Attempts, Submit(t, a)
       PROVE  RequestsFollow'
  BY <1>0, <1>2s DEF TypeOK, RequestsFollow, Submit
<1>3. ASSUME NEW t \in Tabs, Reload(t)
      PROVE  RequestsFollow'
  <2>1. /\ \A u \in Tabs \ {t} : form'[u] = form[u]
        /\ UNCHANGED <<edited, bff, handed, req, ledger>>
        /\ \A b \in Attempts : IF tabOf[b] = t /\ web[b] \in UnderWay
                               THEN web'[b] = "gone" /\ tabOf'[b] = None
                               ELSE web'[b] = web[b] /\ tabOf'[b] = tabOf[b]
    BY <1>0, <1>3 DEF TypeOK, Reload
  <2>2. ASSUME NEW a \in Attempts, web'[a] = "token"
        PROVE  web[a] = "token" /\ form'[tabOf'[a]] = form[tabOf[a]]
    BY <1>0, <2>1, <2>2 DEF TypeOK, ClicksFollow, UnderWay
  <2>3. QED
    BY <1>0, <2>1, <2>2 DEF RequestsFollow
<1>4. ASSUME NEW a \in Attempts,
             \/ TokenFails(a) \/ AnswerArrives(a) \/ ToastSent(a) \/ ToastError(a)
      PROVE  RequestsFollow'
  BY <1>0, <1>4 DEF TypeOK, RequestsFollow, TokenFails, AnswerArrives, ToastSent, ToastError
<1>5. ASSUME NEW a \in Attempts, TokenArrives(a)
      PROVE  RequestsFollow'
  <2>1. form[tabOf[a]] \in Forms \cup {None}
    BY <1>0, <1>5 DEF TypeOK, ClicksFollow, UnderWay, TokenArrives
  <2>2. /\ req'[a].key = a
        /\ a \notin edited => req'[a].order # None
    <3>1. a \notin edited => Whole(form[tabOf[a]])
      BY <1>0, <1>5 DEF RequestsFollow, TokenArrives
    <3>2. req'[a] = RequestOf(a, form[tabOf[a]])
      BY <1>0, <1>5 DEF TypeOK, TokenArrives
    <3>3. QED
      BY <2>1, <3>1, <3>2, RequestShape
  <2>3. bff[a] = "idle" /\ a \notin handed /\ a \notin booked
    BY <1>0, <1>5 DEF RequestsFollow, TokenArrives
  <2>4. /\ web'[a] = "sent" /\ bff'[a] = "checking"
        /\ \A b \in Attempts \ {a} : web'[b] = web[b] /\ bff'[b] = bff[b] /\ req'[b] = req[b]
        /\ UNCHANGED <<form, edited, tabOf, handed, ledger>>
    BY <1>0, <1>5 DEF TypeOK, TokenArrives
  <2>5. QED
    BY <1>0, <2>2, <2>3, <2>4 DEF RequestsFollow
<1>6. ASSUME NEW a \in Attempts,
             Refuse(a) \/ ValidationUnavailable(a) \/ PostPayment(a) \/ PostFails(a)
      PROVE  RequestsFollow'
  BY <1>0, <1>6 DEF TypeOK, RequestsFollow, Refuse, ValidationUnavailable,
     PostPayment, PostFails
<1>7. ASSUME NEW a \in Attempts, LedgerBooks(a)
      PROVE  RequestsFollow'
  BY <1>0, <1>7 DEF TypeOK, RequestsFollow, LedgerBooks, Ledger!Book
<1>8. ASSUME NEW a \in Attempts, PostAnswered(a)
      PROVE  RequestsFollow'
  <2>1. PICK p \in booked : /\ req[p].key = req[a].key
                            /\ answer' = [answer EXCEPT ![a] = p]
    BY <1>8 DEF PostAnswered, Ledger!Answer
  <2>2. \A b \in Attempts : req[b].key = b
    BY <1>0 DEF RequestsFollow
  <2>3. p = a
    BY <1>0, <2>1, <2>2 DEF TypeOK
  <2>4. QED
    BY <1>0, <1>8, <2>1, <2>3 DEF TypeOK, RequestsFollow, PostAnswered, Ledger!Answer
<1>9. QED
  BY <1>1, <1>2, <1>2s, <1>3, <1>4, <1>5, <1>6, <1>7, <1>8 DEF Next

(* A success is told of a payment that was booked. *)
LEMMA ToastsFollow ==
    ASSUME RequestsFollow
    PROVE  ToastsAreTrue
  BY DEF RequestsFollow, ToastsAreTrue

(* The ledger counts what a set of requests asks for. *)
LEMMA SameTotal ==
    ASSUME NEW S, NEW r1, NEW r2, \A i \in S : r1[i] = r2[i]
    PROVE  Total(S, r1) = Total(S, r2)
<1>1. \A i \in S : UnitsOf(i, r1) = UnitsOf(i, r2)
  BY DEF UnitsOf
<1>2. Units(S, r1) = Units(S, r2)
  BY <1>1 DEF Units
<1>3. QED
  BY <1>2 DEF Total

LEMMA FundingStep ==
    ASSUME PaymentApiInv, [Next]_vars
    PROVE  WithinFunding'
<1> USE DEF page, ledger
<1>0. TypeOK /\ RequestsFollow /\ WithinFunding
  BY DEF PaymentApiInv
<1>1. ASSUME booked' = booked, \A b \in booked : req'[b] = req[b]
      PROVE  WithinFunding'
  <2> SUFFICES ASSUME NEW acc \in Accounts
               PROVE  Total(Ledger!BookedFrom(acc)', req') <= Funding[acc]
    BY DEF WithinFunding
  <2>1. Ledger!BookedFrom(acc)' = Ledger!BookedFrom(acc)
    BY <1>1 DEF Ledger!BookedFrom
  <2>2. Total(Ledger!BookedFrom(acc), req') = Total(Ledger!BookedFrom(acc), req)
    BY <1>1, SameTotal DEF Ledger!BookedFrom
  <2>3. QED
    BY <1>0, <2>1, <2>2 DEF WithinFunding
<1>2. ASSUME NEW a \in Attempts, TokenArrives(a)
      PROVE  WithinFunding'
  <2>1. a \notin booked
    BY <1>0, <1>2 DEF RequestsFollow, TokenArrives
  <2>2. QED
    BY <1>0, <1>1, <1>2, <2>1 DEF TypeOK, TokenArrives
<1>3. ASSUME NEW a \in Attempts, LedgerBooks(a)
      PROVE  WithinFunding'
  <2> SUFFICES ASSUME NEW acc \in Accounts
               PROVE  Total(Ledger!BookedFrom(acc)', req') <= Funding[acc]
    BY DEF WithinFunding
  <2>1. booked' = booked \cup {a} /\ req' = req
        /\ Ledger!Total(Ledger!BookedFrom(req[a].src) \cup {a}, req) <= Funding[req[a].src]
    BY <1>3 DEF LedgerBooks, Ledger!Book
  <2>2. Total(Ledger!BookedFrom(req[a].src) \cup {a}, req) <= Funding[req[a].src]
    BY <2>1, Zenon DEF Ledger!Total, Ledger!Units, Ledger!UnitsOf, Ledger!Cardinality,
                       Total, Units, UnitsOf, Cardinality
  <2>3. CASE req[a].src = acc
    <3>1. Ledger!BookedFrom(acc)' = Ledger!BookedFrom(acc) \cup {a}
      BY <2>1, <2>3 DEF Ledger!BookedFrom
    <3>2. QED
      BY <2>1, <2>2, <2>3, <3>1
  <2>4. CASE req[a].src # acc
    <3>1. Ledger!BookedFrom(acc)' = Ledger!BookedFrom(acc)
      BY <2>1, <2>4 DEF Ledger!BookedFrom
    <3>2. QED
      BY <1>0, <2>1, <3>1 DEF WithinFunding
  <2>5. QED
    BY <2>3, <2>4
<1>4. QED
  BY <1>1, <1>2, <1>3 DEF Next, vars, OpenTransfer, Cancel, Reload, Enter,
       PickFrom, Submit, TokenFails,
     AnswerArrives, ToastSent, ToastError, Refuse, ValidationUnavailable, PostPayment,
     PostAnswered, PostFails, Ledger!Answer

-----------------------------------------------------------------------------
(* One click on a tab.                                                     *)

LEMMA ClicksStep ==
    ASSUME PaymentApiInv, [Next]_vars
    PROVE  ClicksFollow'
<1> USE DEF page, ledger
<1>0. TypeOK /\ ClicksFollow
  BY DEF PaymentApiInv
<1>1. CASE UNCHANGED <<busy, tabOf, web>>
  BY <1>0, <1>1 DEF ClicksFollow
<1>2. ASSUME NEW t \in Tabs, NEW a \in Attempts, Submit(t, a)
      PROVE  ClicksFollow'
  <2>1. \A b \in Attempts : web[b] \in UnderWay => tabOf[b] # t
    BY <1>0, <1>2 DEF ClicksFollow, Submit
  <2>2. /\ web'[a] \in UnderWay /\ tabOf'[a] = t /\ busy'[t]
        /\ \A b \in Attempts \ {a} : web'[b] = web[b] /\ tabOf'[b] = tabOf[b]
        /\ \A u \in Tabs \ {t} : busy'[u] = busy[u]
    BY <1>0, <1>2 DEF TypeOK, Submit, UnderWay
  <2>3. web[a] \notin UnderWay
    BY <1>2 DEF Submit, UnderWay
  <2>4. QED
    BY <1>0, <2>1, <2>2, <2>3, OrdersAssumption DEF TypeOK, ClicksFollow
<1>3. ASSUME NEW a \in Attempts, TokenFails(a) \/ TokenArrives(a) \/ AnswerArrives(a)
      PROVE  ClicksFollow'
  <2>1. UNCHANGED <<busy, tabOf>>
    BY <1>3 DEF TokenFails, TokenArrives, AnswerArrives
  <2>2. \A b \in Attempts : web'[b] \in UnderWay <=> web[b] \in UnderWay
    BY <1>0, <1>3 DEF TypeOK, TokenFails, TokenArrives, AnswerArrives, UnderWay
  <2>3. QED
    BY <1>0, <2>1, <2>2 DEF ClicksFollow
<1>4. ASSUME NEW a \in Attempts, ToastSent(a) \/ ToastError(a)
      PROVE  ClicksFollow'
  <2>1. web[a] \in UnderWay /\ tabOf[a] \in Tabs
    BY <1>0, <1>4 DEF TypeOK, ClicksFollow, ToastSent, ToastError, UnderWay
  <2>2. /\ web'[a] \notin UnderWay /\ ~busy'[tabOf[a]] /\ UNCHANGED tabOf
        /\ \A b \in Attempts \ {a} : web'[b] = web[b]
        /\ \A u \in Tabs \ {tabOf[a]} : busy'[u] = busy[u]
    BY <1>0, <1>4, <2>1 DEF TypeOK, ToastSent, ToastError, UnderWay
  <2>3. \A b \in Attempts : web'[b] \in UnderWay => b # a /\ tabOf[b] # tabOf[a]
    BY <1>0, <2>1, <2>2 DEF ClicksFollow
  <2>4. QED
    BY <1>0, <2>1, <2>2, <2>3 DEF TypeOK, ClicksFollow
<1>5. ASSUME NEW t \in Tabs, Reload(t)
      PROVE  ClicksFollow'
  <2>1. /\ busy' = [busy EXCEPT ![t] = FALSE]
        /\ \A b \in Attempts : IF tabOf[b] = t /\ web[b] \in UnderWay
                               THEN web'[b] = "gone" /\ tabOf'[b] = None
                               ELSE web'[b] = web[b] /\ tabOf'[b] = tabOf[b]
    BY <1>5 DEF Reload
  <2>2. \A b \in Attempts : web'[b] \in UnderWay =>
            web[b] \in UnderWay /\ tabOf'[b] = tabOf[b] /\ tabOf[b] # t
    BY <2>1 DEF UnderWay
  <2>3. \A b \in Attempts : web[b] \in UnderWay /\ tabOf[b] # t =>
            web'[b] \in UnderWay /\ tabOf'[b] = tabOf[b]
    BY <2>1
  <2>4. QED
    BY <1>0, <2>1, <2>2, <2>3 DEF TypeOK, ClicksFollow
<1>6. QED
  BY <1>1, <1>2, <1>3, <1>4, <1>5 DEF Next, vars, OpenTransfer, Cancel, Enter, PickFrom, Refuse,
     ValidationUnavailable, PostPayment, LedgerBooks, PostAnswered, PostFails

(* One click on a tab, counted. *)
LEMMA ClicksCounted ==
    ASSUME TypeOK, ClicksFollow
    PROVE  OneClickAtATime
<1> SUFFICES ASSUME NEW t \in Tabs
             PROVE  Cardinality({a \in Attempts : tabOf[a] = t /\ web[a] \in UnderWay})
                      = IF busy[t] THEN 1 ELSE 0
  BY DEF OneClickAtATime
<1> DEFINE here == {a \in Attempts : tabOf[a] = t /\ web[a] \in UnderWay}
<1>1. CASE busy[t]
  <2>1. PICK a \in Attempts : tabOf[a] = t /\ web[a] \in UnderWay
    BY <1>1 DEF ClicksFollow
  <2>2. here = {a}
    BY <2>1 DEF ClicksFollow
  <2>3. Cardinality(here) = 1
    BY <2>2, FS_Singleton, Zenon
  <2>4. QED
    BY <1>1, <2>3
<1>2. CASE ~busy[t]
  <2>1. here = {}
    BY <1>2 DEF ClicksFollow
  <2>2. Cardinality(here) = 0
    BY <2>1, FS_EmptySet, Zenon
  <2>3. QED
    BY <1>2, <2>2
<1>3. QED
  BY <1>1, <1>2 DEF TypeOK

-----------------------------------------------------------------------------
(* One payment for an order.                                               *)

(* A step that no tab and no order notices. *)
LEMMA OrdersStay ==
    ASSUME PaymentApiInv, \A t \in Tabs : form'[t] # None =>
               /\ Tab[form'[t].rest] = t
               /\ open'[t] \/ busy'[t] =>
                      /\ form[t] # None /\ form'[t].rest = form[t].rest
                      /\ open[t] \/ busy[t],
           \A a \in Attempts : web'[a] \in {"sent", "statement", "told_sent"} =>
               /\ web'[a] = web[a] /\ req'[a] = req[a]
               /\ web[a] # "told_sent" => tabOf'[a] = tabOf[a]
    PROVE  OrdersFollow'
<1>0. OrdersFollow
  BY DEF PaymentApiInv
<1>1. \A o : ToldSent(o)' => ToldSent(o)
  BY DEF ToldSent
<1>2. QED
  BY <1>0, <1>1 DEF OrdersFollow

LEMMA OrdersStep ==
    ASSUME PaymentApiInv, [Next]_vars
    PROVE  OrdersFollow'
<1> USE DEF page, ledger
<1>0. TypeOK /\ RequestsFollow /\ ClicksFollow /\ OrdersFollow
  BY DEF PaymentApiInv
<1>1. CASE UNCHANGED <<open, form, busy, tabOf, web, req>>
  BY <1>0, <1>1, OrdersStay DEF OrdersFollow
<1>2. ASSUME NEW t \in Tabs, OpenTransfer(t) \/ Cancel(t)
      PROVE  OrdersFollow'
  BY <1>0, <1>2, OrdersStay DEF TypeOK, OrdersFollow, OpenTransfer, Cancel
<1>3. ASSUME NEW t \in Tabs, Reload(t)
      PROVE  OrdersFollow'
  <2>1. /\ open' = [open EXCEPT ![t] = FALSE] /\ busy' = [busy EXCEPT ![t] = FALSE]
        /\ form' = [form EXCEPT ![t] = None] /\ UNCHANGED req
        /\ \A b \in Attempts : IF tabOf[b] = t /\ web[b] \in UnderWay
                               THEN web'[b] = "gone" /\ tabOf'[b] = None
                               ELSE web'[b] = web[b] /\ tabOf'[b] = tabOf[b]
    BY <1>3 DEF Reload
  <2>2. QED
    BY <1>0, <2>1, OrdersStay DEF TypeOK, OrdersFollow
<1>4. ASSUME NEW t \in Tabs, NEW o \in Orders, Enter(t, o)
      PROVE  OrdersFollow'
  <2>1. \A x : ToldSent(x)' <=> ToldSent(x)
    BY <1>4 DEF Enter, ToldSent
  <2>2. /\ form'[t] # None /\ form'[t].rest = o /\ Tab[o] = t /\ ~ToldSent(o)
        /\ \A u \in Tabs \ {t} : form'[u] = form[u]
        /\ UNCHANGED <<open, busy, tabOf, web, req>>
    BY <1>0, <1>4, OrdersAssumption DEF TypeOK, Enter, Forms
  <2>3. QED
    BY <1>0, <2>1, <2>2 DEF OrdersFollow
<1>4p. ASSUME NEW t \in Tabs, NEW acc \in Accounts, PickFrom(t, acc)
       PROVE  OrdersFollow'
  <2>1. /\ form'[t] # None /\ form[t] # None /\ form'[t].rest = form[t].rest
        /\ \A u \in Tabs \ {t} : form'[u] = form[u]
        /\ UNCHANGED <<open, busy, tabOf, web, req>>
    BY <1>0, <1>4p, OrdersAssumption DEF TypeOK, PickFrom, Forms
  <2>2. \A x : ToldSent(x)' <=> ToldSent(x)
    BY <2>1 DEF ToldSent
  <2>3. QED
    BY <1>0, <2>1, <2>2 DEF OrdersFollow
<1>5. ASSUME NEW t \in Tabs, NEW a \in Attempts, Submit(t, a)
      PROVE  OrdersFollow'
  BY <1>0, <1>5, OrdersStay DEF TypeOK, OrdersFollow, Submit
<1>6. ASSUME NEW a \in Attempts, TokenFails(a) \/ ToastError(a)
      PROVE  OrdersFollow'
  <2>1. tabOf[a] \in Tabs
    BY <1>0, <1>6 DEF TypeOK, ClicksFollow, TokenFails, ToastError, UnderWay
  <2>2. QED
    BY <1>0, <1>6, <2>1, OrdersStay DEF TypeOK, OrdersFollow, TokenFails, ToastError
<1>7. ASSUME NEW a \in Attempts, TokenArrives(a)
      PROVE  OrdersFollow'
  <2>1. /\ web[a] = "token" /\ web[a] \in UnderWay /\ tabOf[a] \in Tabs /\ busy[tabOf[a]]
        /\ form[tabOf[a]] \in Forms \cup {None}
    BY <1>0, <1>7 DEF TypeOK, ClicksFollow, TokenArrives, UnderWay
  <2>2. /\ web'[a] = "sent"
        /\ req'[a].order # None =>
               form[tabOf[a]] # None /\ req'[a].order = form[tabOf[a]].rest
        /\ \A b \in Attempts \ {a} : web'[b] = web[b] /\ req'[b] = req[b]
        /\ UNCHANGED <<open, form, busy, tabOf>>
    BY <1>0, <1>7, <2>1, RequestShape DEF TypeOK, TokenArrives
  <2>3. \A x : ToldSent(x)' => ToldSent(x)
    BY <2>2 DEF ToldSent
  <2>4. ASSUME NEW b \in Attempts \ {a}, web[b] \in {"sent", "statement", "told_sent"},
               req[b].order = req'[a].order, req[b].order # None
        PROVE  FALSE
    <3>0. form[tabOf[a]] # None /\ req[b].order = form[tabOf[a]].rest
      BY <2>2, <2>4
    <3>1. ~ToldSent(req[b].order) /\ Tab[req[b].order] = tabOf[a]
      BY <1>0, <2>1, <3>0 DEF OrdersFollow
    <3>2. web[b] # "told_sent"
      BY <2>4, <3>1 DEF ToldSent
    <3>3. tabOf[b] = tabOf[a] /\ web[b] \in UnderWay
      BY <1>0, <2>4, <3>1, <3>2 DEF OrdersFollow, UnderWay
    <3>4. QED
      BY <1>0, <2>1, <2>4, <3>3 DEF ClicksFollow
  <2>5. \A b \in Attempts : web'[b] \in {"sent", "statement"} /\ req'[b].order # None
            => Tab[req'[b].order] = tabOf'[b]
    BY <1>0, <2>1, <2>2 DEF OrdersFollow
  <2>6. QED
    BY <1>0, <2>2, <2>3, <2>4, <2>5 DEF OrdersFollow
<1>8. ASSUME NEW a \in Attempts, AnswerArrives(a)
      PROVE  OrdersFollow'
  <2>1. /\ web[a] = "sent" /\ web'[a] = "statement"
        /\ \A b \in Attempts \ {a} : web'[b] = web[b]
        /\ UNCHANGED <<open, form, busy, tabOf, req>>
    BY <1>0, <1>8 DEF TypeOK, AnswerArrives
  <2>2. \A x : ToldSent(x)' => ToldSent(x)
    BY <2>1 DEF ToldSent
  <2>3. QED
    BY <1>0, <2>1, <2>2 DEF OrdersFollow
<1>9. ASSUME NEW a \in Attempts, ToastSent(a)
      PROVE  OrdersFollow'
  <2>1. /\ web[a] = "statement" /\ tabOf[a] \in Tabs
        /\ req[a].order # None => Tab[req[a].order] = tabOf[a]
        /\ req[a].order \in Orders \cup {None}
    BY <1>0, <1>9, RequestsShape
       DEF TypeOK, RequestsFollow, ClicksFollow, OrdersFollow, ToastSent, UnderWay
  <2>2. /\ web'[a] = "told_sent" /\ ~open'[tabOf[a]] /\ ~busy'[tabOf[a]]
        /\ \A b \in Attempts \ {a} : web'[b] = web[b]
        /\ \A u \in Tabs \ {tabOf[a]} : open'[u] = open[u] /\ busy'[u] = busy[u]
        /\ UNCHANGED <<form, tabOf, req>>
    BY <1>0, <1>9, <2>1 DEF TypeOK, ToastSent
  <2>3. \A x : ToldSent(x)' => ToldSent(x) \/ x = req[a].order
    BY <2>2 DEF ToldSent
  <2>4. \A t \in Tabs : form[t] # None => form[t].rest \in Orders /\ form[t].rest # None
    BY <1>0, OrdersAssumption DEF TypeOK, Forms
  <2>5. \A t \in Tabs : form'[t] # None =>
           /\ Tab[form'[t].rest] = t
           /\ open'[t] \/ busy'[t] => ~ToldSent(form[t].rest)'
    BY <1>0, <2>1, <2>2, <2>3, <2>4 DEF OrdersFollow
  <2>6. QED
    BY <1>0, <2>1, <2>2, <2>5 DEF OrdersFollow
<1>10. QED
  BY <1>1, <1>2, <1>3, <1>4, <1>4p, <1>5, <1>6, <1>7, <1>8, <1>9 DEF Next, vars, Refuse,
     ValidationUnavailable, PostPayment, LedgerBooks, PostAnswered, PostFails,
     Ledger!Book, Ledger!Answer

-----------------------------------------------------------------------------
(* The theorems.                                                           *)

LEMMA InitInv == Init => PaymentApiInv
<1> SUFFICES ASSUME Init PROVE PaymentApiInv
  OBVIOUS
<1> USE OrdersAssumption DEF Init
<1>1. \A a \in Attempts :
         RequestOf(a, None) \in Requests /\ RequestOf(a, None).key = a
  BY RequestShape
<1>2. TypeOK
  BY <1>1 DEF TypeOK, WebStates, BffStates
<1>3. RequestsFollow /\ ClicksFollow /\ OrdersFollow
  BY <1>1 DEF RequestsFollow, ClicksFollow, OrdersFollow, UnderWay
<1>4. WithinFunding
  <2> SUFFICES ASSUME NEW acc \in Accounts
               PROVE  Total(Ledger!BookedFrom(acc), req) <= Funding[acc]
    BY DEF WithinFunding
  <2>1. Units(Ledger!BookedFrom(acc), req) = {}
    BY DEF Ledger!BookedFrom, Units
  <2>2. Total(Ledger!BookedFrom(acc), req) = 0
    BY <2>1, FS_EmptySet, Zenon DEF Total
  <2>3. QED
    BY <2>2
<1>5. QED
  BY <1>2, <1>3, <1>4, ToastsFollow DEF PaymentApiInv

\* A success is only told of a payment that was booked, what the BFF refused is
\* never booked, and no account pays more than it was funded with.
THEOREM PaymentApiInvariant == Spec => []PaymentApiInv
<1>1. PaymentApiInv /\ [Next]_vars => PaymentApiInv'
  <2> SUFFICES ASSUME PaymentApiInv, [Next]_vars PROVE PaymentApiInv'
    OBVIOUS
  <2>1. ToastsAreTrue'
    BY RequestsStep, ToastsFollow DEF RequestsFollow, ToastsAreTrue
  <2>2. QED
    BY <2>1, TypeStep, RequestsStep, FundingStep, ClicksStep, OrdersStep DEF PaymentApiInv
<1>2. QED
  BY <1>1, InitInv, PTL DEF Spec

\* The button of a tab is blocked exactly while one click on it is under way.
THEOREM ClicksOneAtATime == Spec => []OneClickAtATime
<1>1. PaymentApiInv => OneClickAtATime
  BY ClicksCounted DEF PaymentApiInv
<1>2. QED
  BY <1>1, PaymentApiInvariant, PTL

\* An order is paid twice only when one of its two clicks ended with an error
\* toast or a page that was gone.
THEOREM TwiceOnlyUnknowing == Spec => []PaidTwiceOnlyUnknowing
<1>1. PaymentApiInv => PaidTwiceOnlyUnknowing
  <2> SUFFICES ASSUME PaymentApiInv, NEW a \in booked, NEW b \in booked, a # b,
                      req[a].order = req[b].order, req[a].order # None,
                      {web[a], web[b]} \cap {"told_error", "gone"} = {}
               PROVE  FALSE
    BY DEF PaidTwiceOnlyUnknowing
  <2>0. TypeOK /\ RequestsFollow /\ OrdersFollow
    BY DEF PaymentApiInv
  <2>2. web[a] \notin {"unused", "token", "no_token"}
        /\ web[b] \notin {"unused", "token", "no_token"}
    BY <2>0 DEF TypeOK, RequestsFollow
  <2>3. {web[a], web[b]} \subseteq {"sent", "statement", "told_sent"}
    BY <2>0, <2>2 DEF TypeOK, WebStates
  <2>4. QED
    BY <2>0, <2>3 DEF TypeOK, OrdersFollow
<1>2. QED
  BY <1>1, PaymentApiInvariant, PTL

=============================================================================
