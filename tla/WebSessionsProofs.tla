------------------------- MODULE WebSessionsProofs -------------------------
(***************************************************************************)
(* Proofs about WebSessions for any number of requests, of requests in     *)
(* flight and of things that run out: first what holds in every state,     *)
(* then that one session lives, then what holds while nothing disturbs.    *)
(***************************************************************************)
EXTENDS WebSessions, TLAPS

-----------------------------------------------------------------------------
(* What a step does, sorted by what it changes.                            *)

\* The request is answered; the answer leaves the cookie alone or clears it.
Replies(r) ==
    /\ pc' = [pc EXCEPT ![r] = "answered"]
    /\ \E c \in {"clear", setCookie[r]} : setCookie' = [setCookie EXCEPT ![r] = c]
    /\ loggedOut' \in {loggedOut, loggedOut \cup {r}}

Answered(r) ==
    /\ pc[r] \notin {"idle", "answered", "done"}
    /\ Replies(r)
    /\ disturbed' \in {disturbed, TRUE}
    /\ UNCHANGED <<row, rotated, token, aged, over, valid, unrevoked, cookie, kind, sent,
                   fresh, crossed>>

\* The request goes on, on what it has read before.
GoesOn(r) ==
    /\ \/ pc[r] = "get" /\ pc' = [pc EXCEPT ![r] = "handler"]
       \/ pc[r] = "get" /\ pc' = [pc EXCEPT ![r] = "read1"]
       \/ pc[r] = "again" /\ pc' = [pc EXCEPT ![r] = "handler"]
       \/ pc[r] = "handler" /\ kind[r] = "refresh" /\ pc' = [pc EXCEPT ![r] = "read2"]
       \/ pc[r] = "handler" /\ kind[r] = "logout" /\ pc' = [pc EXCEPT ![r] = "find"]
    /\ UNCHANGED <<row, rotated, token, aged, over, valid, unrevoked, cookie, kind, sent, fresh,
                   setCookie, loggedOut, crossed, disturbed>>

\* The request reads a living session that it is going to update.
Reads(r) ==
    /\ \/ pc[r] = "read1" /\ pc' = [pc EXCEPT ![r] = "exchange1"]
       \/ pc[r] = "read2" /\ pc' = [pc EXCEPT ![r] = "exchange2"]
       \/ pc[r] = "find" /\ pc' = [pc EXCEPT ![r] = "revoke"]
    /\ row[sent[r]] = "live"
    /\ ReadForUpdate(sent[r])
    /\ UNCHANGED <<row, rotated, token, aged, over, valid, unrevoked, cookie, kind, sent, fresh,
                   setCookie, loggedOut, disturbed>>

\* The identity provider exchanges or revokes the token of the session.
Provider(r) ==
    /\ \/ /\ pc[r] = "exchange1" /\ pc' = [pc EXCEPT ![r] = "rotate1"]
          /\ \E t \in {token[sent[r]], r} : fresh' = [fresh EXCEPT ![r] = t]
       \/ /\ pc[r] = "exchange2" /\ pc' = [pc EXCEPT ![r] = "rotate2"]
          /\ \E t \in {token[sent[r]], r} : fresh' = [fresh EXCEPT ![r] = t]
       \/ /\ pc[r] = "revoke" /\ pc' = [pc EXCEPT ![r] = "end"]
          /\ fresh' = fresh
    /\ valid' \subseteq valid \cup {r}
    /\ unrevoked' \subseteq unrevoked \cup {r}
    /\ UNCHANGED <<row, rotated, token, aged, over, cookie, kind, sent,
                   setCookie, loggedOut, crossed, disturbed>>

\* The session is replaced by one of the request.
Rotates(r) ==
    /\ pc[r] \in {"rotate1", "rotate2"}
    /\ Rotate(r)
    /\ \/ /\ pc' = [pc EXCEPT ![r] = "again"] \/ pc' = [pc EXCEPT ![r] = "answered"]
          /\ setCookie' = [setCookie EXCEPT ![r] = r]
       \/ /\ pc' = [pc EXCEPT ![r] = "answered"]
          /\ setCookie' = [setCookie EXCEPT ![r] = "clear"]
    /\ disturbed' \in {disturbed, TRUE}
    /\ UNCHANGED <<aged, over, valid, unrevoked, cookie, kind, sent, fresh, loggedOut, crossed>>

\* The request is over: its answer arrives or is lost.
Ends(r) == Deliver(r) \/ LoseAnswer(r)

\* Time passes.
Time == (\E s \in Sids, what \in Terms : RunOut(s, what)) \/ CookieEnds \/ AbsoluteExpiry

(* What the answers are. *)
LEMMA AnswerCases ==
    ASSUME NEW r \in Requests, NEW code \in Nat, NEW effect \in {"keep", "clear"},
           Answer(r, code, effect)
    PROVE  /\ pc' = [pc EXCEPT ![r] = "answered"]
           /\ setCookie' = [setCookie EXCEPT ![r] = IF effect = "keep" THEN setCookie[r]
                                                   ELSE "clear"]
           /\ Replies(r)
           /\ code # 204 => loggedOut' = loggedOut
  BY DEF Answer, Goto, Replies

LEMMA NextCases ==
    ASSUME TypeOK, Next
    PROVE  \/ \E r \in Requests :
                  \/ Answered(r) \/ GoesOn(r) \/ Reads(r) \/ Provider(r) \/ Rotates(r)
                  \/ LogoutCommit(r) \/ Ends(r)
           \/ \E r \in Requests, k \in Kinds : Send(r, k)
           \/ Time
<1> USE DEF Goto, identity, clock, provider, browser, answers
<1>1. ASSUME NEW r \in Requests,
             \/ GetRefused(r) \/ GetUnavailable(r) \/ GetAgainRefused(r) \/ GetAgainFails(r)
             \/ RefreshRefused(r) \/ ExchangeRefused(r) \/ RefreshFails(r)
             \/ Forbidden(r) \/ LogoutNothing(r) \/ LogoutFails(r)
      PROVE  Answered(r)
  <2>1. \/ Answer(r, 401, "clear") \/ Answer(r, 503, "keep") \/ Answer(r, 403, "keep")
        \/ Answer(r, 204, "clear")
    BY <1>1 DEF GetRefused, GetUnavailable, GetAgainRefused, GetAgainFails,
       RefreshRefused, ExchangeRefused, RefreshFails, Forbidden, LogoutNothing, LogoutFails
  <2>2. /\ pc[r] \notin {"idle", "answered", "done"}
        /\ disturbed' \in {disturbed, TRUE}
        /\ UNCHANGED <<row, rotated, token, aged, over, valid, unrevoked, cookie, kind, sent,
                       fresh, crossed>>
    BY <1>1 DEF GetRefused, GetUnavailable, GetAgainRefused, GetAgainFails, RefreshRefused,
                ExchangeRefused, RefreshFails, Forbidden, LogoutNothing, LogoutFails, At
  <2>3. Replies(r)
    BY <2>1, AnswerCases
  <2>4. QED
    BY <2>2, <2>3 DEF Answered
<1>2. ASSUME NEW r \in Requests, Handle(r)
      PROVE  Answered(r) \/ GoesOn(r)
  <2>1. CASE kind[r] = "page"
    BY <1>2, <2>1, AnswerCases DEF Handle, Answered
  <2>2. CASE kind[r] = "refresh" \/ kind[r] = "logout"
    BY <1>2, <2>2 DEF Handle, GoesOn
  <2>3. QED
    BY <2>1, <2>2 DEF TypeOK, Kinds
<1>3. ASSUME NEW r \in Requests, GetOk(r) \/ GetStale(r) \/ GetAgainOk(r)
      PROVE  GoesOn(r)
  BY <1>3 DEF GetOk, GetStale, GetAgainOk, GoesOn
<1>4. ASSUME NEW r \in Requests, RefreshRead(r) \/ LogoutFind(r)
      PROVE  Reads(r)
  BY <1>4 DEF RefreshRead, LogoutFind, At, Follow, Reads
<1>5. ASSUME NEW r \in Requests, Exchange(r) \/ LogoutRevoke(r)
      PROVE  Provider(r)
  BY <1>5 DEF Exchange, LogoutRevoke, At, Follow, Provider
<1>6. ASSUME NEW r \in Requests, RefreshCommit(r) \/ RefreshUnheard(r)
      PROVE  Rotates(r)
  <2>1. CASE RefreshCommit(r)
    BY <2>1 DEF RefreshCommit, At, Follow, Rotates
  <2>2. CASE RefreshUnheard(r)
    BY <2>2, AnswerCases DEF RefreshUnheard, At, Rotates
  <2>3. QED
    BY <1>6, <2>1, <2>2
<1>7. QED
  BY <1>1, <1>2, <1>3, <1>4, <1>5, <1>6 DEF Next, Ends, Time

-----------------------------------------------------------------------------
(* What holds in every state.                                              *)

Ordered == TypeOK /\ Lineage /\ Progress

LEMMA TypeStep ==
    ASSUME Ordered, [Next]_vars
    PROVE  TypeOK'
<1> USE RequestsAssumption DEF Sids
<1>0. TypeOK /\ Progress
  BY DEF Ordered
<1>1. CASE UNCHANGED vars
  BY <1>0, <1>1 DEF TypeOK, vars
<1>2. ASSUME NEW r \in Requests, Answered(r) \/ GoesOn(r) \/ Reads(r)
      PROVE  TypeOK'
  <2>1. CASE Answered(r)
    <3>1. /\ pc' \in [Requests -> Labels] /\ loggedOut' \subseteq Requests
          /\ setCookie' \in [Requests -> Sids \cup {"clear", "keep"}]
      BY <1>0, <2>1 DEF TypeOK, Answered, Replies, Labels
    <3>2. QED
      BY <1>0, <2>1, <3>1 DEF TypeOK, Answered
  <2>2. CASE GoesOn(r)
    BY <1>0, <2>2 DEF TypeOK, Labels, GoesOn
  <2>3. CASE Reads(r)
    <3>1. crossed' \subseteq Sids
      BY <1>0, <2>3 DEF TypeOK, Reads, ReadForUpdate, Progress
    <3>2. QED
      BY <1>0, <2>3, <3>1 DEF TypeOK, Labels, Reads
  <2>4. QED
    BY <1>2, <2>1, <2>2, <2>3
<1>3. ASSUME NEW r \in Requests, Provider(r)
      PROVE  TypeOK'
  <2>1. sent[r] \in Sids
    BY <1>0, <1>3 DEF TypeOK, Progress, Provider
  <2>2. fresh' \in [Requests -> Sids \cup {None}] /\ pc' \in [Requests -> Labels]
    BY <1>0, <1>3, <2>1 DEF TypeOK, Labels, Provider
  <2>3. unrevoked' \subseteq Requests /\ valid' \subseteq Sids
    BY <1>0, <1>3 DEF TypeOK, Provider
  <2>4. QED
    BY <1>0, <1>3, <2>2, <2>3 DEF TypeOK, Provider
<1>4. ASSUME NEW r \in Requests, Rotates(r)
      PROVE  TypeOK'
  <2>1. sent[r] \in Sids /\ fresh[r] \in Sids
    BY <1>0, <1>4 DEF TypeOK, Progress, Rotates
  <2>2. /\ row' \in [Sids -> {"none", "live", "revoked"}]
        /\ rotated' \in [Sids -> Sids \cup {None}]
        /\ token' \in [Sids -> Sids]
    BY <1>0, <1>4, <2>1 DEF TypeOK, Rotates, Rotate
  <2>3. pc' \in [Requests -> Labels] /\ setCookie' \in [Requests -> Sids \cup {"clear", "keep"}]
    BY <1>0, <1>4 DEF TypeOK, Rotates, Labels
  <2>4. QED
    BY <1>0, <1>4, <2>2, <2>3 DEF TypeOK, Rotates
<1>5. ASSUME NEW r \in Requests, LogoutCommit(r)
      PROVE  TypeOK'
  <2>1. Replies(r)
    BY <1>5, AnswerCases DEF LogoutCommit
  <2>2. pc' \in [Requests -> Labels] /\ setCookie' \in [Requests -> Sids \cup {"clear", "keep"}]
        /\ loggedOut' \subseteq Requests
    BY <1>0, <2>1 DEF TypeOK, Replies, Labels
  <2>3. QED
    BY <1>0, <1>5, <2>2 DEF TypeOK, LogoutCommit, clock, provider, browser
<1>6. ASSUME NEW r \in Requests, Ends(r)
      PROVE  TypeOK'
  <2>1. /\ pc' \in [Requests -> Labels]
        /\ setCookie' \in [Requests -> Sids \cup {"clear", "keep"}]
        /\ fresh' \in [Requests -> Sids \cup {None}]
    BY <1>0, <1>6 DEF TypeOK, Labels, Ends, Deliver, LoseAnswer, End, Goto
  <2>2. cookie' \in Sids \cup {None} /\ disturbed' \in BOOLEAN
    BY <1>0, <1>6 DEF TypeOK, Ends, Deliver, LoseAnswer, browser
  <2>3. QED
    BY <1>0, <1>6, <2>1, <2>2 DEF TypeOK, Ends, Deliver, LoseAnswer, identity, clock,
        provider, browser
<1>7. ASSUME NEW r \in Requests, NEW k \in Kinds, Send(r, k)
      PROVE  TypeOK'
  BY <1>0, <1>7 DEF TypeOK, Labels, Send, Goto, identity, clock, provider, answers
<1>8. ASSUME Time
      PROVE  TypeOK'
  <2>1. ASSUME NEW s \in Sids, NEW what \in Terms, RunOut(s, what)
        PROVE  TypeOK'
    BY <1>0, <2>1 DEF TypeOK, RunOut, identity, provider, browser, answers
  <2>2. CASE CookieEnds \/ AbsoluteExpiry
    BY <1>0, <2>2 DEF TypeOK, CookieEnds, AbsoluteExpiry, identity, clock, provider,
        browser, answers
  <2>3. QED
    BY <1>8, <2>1, <2>2 DEF Time
<1>9. QED
  BY <1>0, <1>1, <1>2, <1>3, <1>4, <1>5, <1>6, <1>7, <1>8, NextCases

\* The parts of Progress.
CookieKnown == cookie # None => row[cookie] # "none"

ProgressOf(r) ==
    /\ pc[r] # "idle" => sent[r] \in Sids /\ row[sent[r]] # "none"
    /\ pc[r] \in {"idle", "get", "read1", "exchange1", "rotate1", "exchange2", "rotate2",
                  "revoke", "end"} => row[r] = "none"
    /\ r \in Updating(sent[r]) /\ sent[r] \notin crossed => row[sent[r]] = "live"
    /\ pc[r] = "again" => row[r] # "none"
    /\ pc[r] = "idle" => kind[r] = "page" /\ setCookie[r] = "keep"
    /\ pc[r] \in {"read2", "exchange2", "rotate2"} => kind[r] = "refresh"
    /\ pc[r] \in {"find", "revoke", "end"} => kind[r] = "logout"
    /\ pc[r] \in {"rotate1", "rotate2"} => fresh[r] \in Sids
    /\ setCookie[r] \in {"clear", "keep", r}
    /\ setCookie[r] = r => row[r] # "none"
    /\ row[r] = "none" => aged[r] = {}

Crossings == \A s \in Sids : \A q, r \in Updating(s) : q = r \/ s \in crossed

LEMMA ProgressParts ==
    Progress <=> CookieKnown /\ (\A r \in Requests : ProgressOf(r)) /\ Crossings
  BY DEF Progress, CookieKnown, ProgressOf, Crossings

(* A step that leaves the rows alone leaves their lineage alone. *)
LEMMA LineageStays ==
    ASSUME Ordered, UNCHANGED <<row, rotated>>, crossed \subseteq crossed',
           \A r \in Requests : row[r] # "none" => sent'[r] = sent[r]
    PROVE  Lineage'
  BY DEF Ordered, Lineage

(* What a step of r, or of time, leaves as it is for another request. *)
LEMMA OtherProgress ==
    ASSUME Ordered, NEW q \in Requests,
           pc'[q] = pc[q], kind'[q] = kind[q], sent'[q] = sent[q],
           setCookie'[q] = setCookie[q], fresh'[q] = fresh[q], crossed \subseteq crossed',
           row'[q] = "none" <=> row[q] = "none", row[q] = "none" => aged'[q] = aged[q],
           sent[q] \in Sids /\ row[sent[q]] # "none" => row'[sent[q]] # "none",
           q \in Updating(sent[q]) /\ sent[q] \notin crossed => row'[sent[q]] = row[sent[q]]
    PROVE  ProgressOf(q)'
<1>1. ProgressOf(q)
  BY ProgressParts DEF Ordered
<1>2. q \in Updating(sent[q])' => q \in Updating(sent[q])
  BY DEF Updating
<1>3. QED
  BY <1>1, <1>2 DEF ProgressOf

(* Only a read adds an update. *)
LEMMA CrossingsStay ==
    ASSUME Ordered, crossed \subseteq crossed',
           \A r \in Requests : r \in Updating(sent[r])' =>
               r \in Updating(sent[r]) /\ sent'[r] = sent[r]
    PROVE  Crossings'
<1>1. Crossings
  BY ProgressParts DEF Ordered
<1>2. \A s \in Sids : Updating(s)' \subseteq Updating(s)
  BY DEF Updating
<1>3. QED
  BY <1>1, <1>2 DEF Crossings

LEMMA AnsweredOrdered ==
    ASSUME Ordered, NEW r \in Requests, Answered(r)
    PROVE  Lineage' /\ Progress'
<1>0. TypeOK /\ CookieKnown /\ ProgressOf(r)
  BY ProgressParts DEF Ordered
<1>1. /\ UNCHANGED <<row, rotated, aged, cookie, kind, sent, fresh, crossed>>
      /\ pc' = [pc EXCEPT ![r] = "answered"]
      /\ setCookie'[r] \in {"clear", setCookie[r]}
      /\ \A q \in Requests \ {r} : setCookie'[q] = setCookie[q]
      /\ pc[r] # "idle"
  BY <1>0 DEF TypeOK, Answered, Replies
<1>2. Lineage'
  BY <1>1, LineageStays
<1>3. \A q \in Requests \ {r} : ProgressOf(q)'
  BY <1>0, <1>1, OtherProgress DEF TypeOK
<1>4. ProgressOf(r)'
  BY <1>0, <1>1, RequestsAssumption DEF TypeOK, ProgressOf, Updating, Sids
<1>5. CookieKnown' /\ Crossings'
  BY <1>0, <1>1, CrossingsStay DEF CookieKnown, Updating, TypeOK
<1>6. QED
  BY <1>2, <1>3, <1>4, <1>5, ProgressParts DEF Progress, CookieKnown, ProgressOf, Crossings

LEMMA GoesOnOrdered ==
    ASSUME Ordered, NEW r \in Requests, GoesOn(r) \/ Provider(r)
    PROVE  Lineage' /\ Progress'
<1>0. TypeOK /\ CookieKnown /\ ProgressOf(r)
  BY ProgressParts DEF Ordered
<1>1. /\ UNCHANGED <<row, rotated, aged, cookie, kind, sent, setCookie, crossed>>
      /\ \A q \in Requests \ {r} : pc'[q] = pc[q] /\ fresh'[q] = fresh[q]
      /\ r \in Updating(sent[r])' <=> r \in Updating(sent[r])
      /\ pc[r] # "idle" /\ pc'[r] \notin {"idle", "again"}
  BY <1>0 DEF TypeOK, GoesOn, Provider, Updating
<1>2. /\ pc'[r] \in {"get", "read1", "exchange1", "rotate1", "exchange2", "rotate2",
                     "revoke", "end"}
          => pc[r] \in {"get", "exchange1", "exchange2", "revoke"}
      /\ pc'[r] \in {"read2", "exchange2", "rotate2"} => kind[r] = "refresh"
      /\ pc'[r] \in {"find", "revoke", "end"} => kind[r] = "logout"
      /\ pc'[r] \in {"rotate1", "rotate2"} => fresh'[r] \in Sids
  BY <1>0 DEF TypeOK, GoesOn, Provider, ProgressOf, Sids
<1>3. Lineage'
  BY <1>1, LineageStays
<1>4. \A q \in Requests \ {r} : ProgressOf(q)'
  BY <1>0, <1>1, OtherProgress DEF TypeOK
<1>5. ProgressOf(r)'
  BY <1>0, <1>1, <1>2 DEF ProgressOf
<1>6. CookieKnown' /\ Crossings'
  BY <1>0, <1>1, CrossingsStay DEF CookieKnown, Updating
<1>7. QED
  BY <1>3, <1>4, <1>5, <1>6 DEF Progress, CookieKnown, ProgressOf, Crossings

(* The reading request is the only one to update the session, or they cross. *)
LEMMA ReadsOrdered ==
    ASSUME Ordered, NEW r \in Requests, Reads(r)
    PROVE  Lineage' /\ Progress'
<1>0. TypeOK /\ Lineage /\ CookieKnown /\ ProgressOf(r) /\ Crossings
  BY ProgressParts DEF Ordered
<1>1. /\ UNCHANGED <<row, rotated, aged, cookie, kind, sent, setCookie, fresh>>
      /\ \A q \in Requests \ {r} : pc'[q] = pc[q]
      /\ crossed' = IF Updating(sent[r]) = {} THEN crossed ELSE crossed \cup {sent[r]}
      /\ row[sent[r]] = "live" /\ sent[r] \in Sids /\ pc[r] # "idle"
      /\ \/ pc[r] = "read1" /\ pc'[r] = "exchange1"
         \/ pc[r] = "read2" /\ pc'[r] = "exchange2"
         \/ pc[r] = "find" /\ pc'[r] = "revoke"
  BY <1>0 DEF TypeOK, Reads, ReadForUpdate, ProgressOf
<1>2. row[r] = "none"
  BY <1>0, <1>1 DEF Lineage
<1>3. Lineage'
  BY <1>1, LineageStays
<1>4. \A q \in Requests \ {r} : ProgressOf(q)'
  BY <1>0, <1>1, OtherProgress DEF TypeOK
<1>5. ProgressOf(r)'
  BY <1>0, <1>1, <1>2 DEF ProgressOf
<1>6. Crossings'
  <2>1. \A s \in Sids : Updating(s)' \subseteq Updating(s) \cup {r}
    BY <1>1 DEF Updating
  <2>2. \A s \in Sids : r \in Updating(s)' => s = sent[r]
    BY <1>1 DEF Updating
  <2>3. QED
    BY <1>0, <1>1, <2>1, <2>2 DEF Crossings
<1>7. QED
  BY <1>0, <1>1, <1>3, <1>4, <1>5, <1>6 DEF Progress, CookieKnown, ProgressOf, Crossings

(* A session that nobody else updates is replaced, or the updates have crossed. *)
LEMMA RotatesRows ==
    ASSUME Ordered, NEW r \in Requests, Rotates(r)
    PROVE  /\ sent[r] \in Sids \ {r} /\ row[r] = "none" /\ row[sent[r]] # "none"
           /\ row' = [s \in Sids |-> IF s = sent[r] THEN "revoked"
                                     ELSE IF s = r THEN "live" ELSE row[s]]
           /\ rotated' = [rotated EXCEPT ![sent[r]] = r]
           /\ sent[r] \notin crossed => row[sent[r]] = "live"
           /\ \A q \in Requests : q # r /\ q \in Updating(sent[r]) => sent[r] \in crossed
<1>0. TypeOK /\ ProgressOf(r) /\ Crossings
  BY ProgressParts DEF Ordered
<1>1. r \in Updating(sent[r])
  BY DEF Rotates, Updating
<1>2. sent[r] \in Sids /\ row[r] = "none" /\ row[sent[r]] # "none"
  BY <1>0 DEF ProgressOf, Rotates
<1>3. row' = [s \in Sids |-> IF s = sent[r] THEN "revoked"
                             ELSE IF s = r THEN "live" ELSE row[s]]
  BY <1>0, <1>2 DEF TypeOK, Rotates, Rotate, Sids
<1>4. QED
  BY <1>0, <1>1, <1>2, <1>3 DEF ProgressOf, Crossings, Rotates, Rotate

LEMMA RotatesOrdered ==
    ASSUME Ordered, NEW r \in Requests, Rotates(r)
    PROVE  Lineage' /\ Progress'
<1> USE RequestsAssumption
<1>0. TypeOK /\ Lineage /\ CookieKnown /\ (\A q \in Requests : ProgressOf(q))
  BY ProgressParts DEF Ordered
<1>1. /\ sent[r] \in Sids \ {r} /\ row[r] = "none" /\ row[sent[r]] # "none"
      /\ row' = [s \in Sids |-> IF s = sent[r] THEN "revoked"
                                ELSE IF s = r THEN "live" ELSE row[s]]
      /\ rotated' = [rotated EXCEPT ![sent[r]] = r]
      /\ sent[r] \notin crossed => row[sent[r]] = "live"
      /\ \A q \in Requests : q # r /\ q \in Updating(sent[r]) => sent[r] \in crossed
  BY RotatesRows
<1>2. /\ UNCHANGED <<aged, cookie, kind, sent, fresh, crossed>>
      /\ \A q \in Requests \ {r} : pc'[q] = pc[q] /\ setCookie'[q] = setCookie[q]
      /\ pc[r] \in {"rotate1", "rotate2"} /\ pc'[r] \in {"again", "answered"}
      /\ setCookie'[r] \in {"clear", r}
  BY <1>0 DEF TypeOK, Rotates
<1>3. r \in Sids /\ row'[r] = "live" /\ row'[sent[r]] = "revoked"
  BY <1>1 DEF Sids
<1>rotated. ASSUME NEW s \in Sids, rotated'[s] # None
      PROVE  row'[s] = "revoked" /\ rotated'[s] \in Sids /\ row'[rotated'[s]] # "none"
  <2>1. CASE s = sent[r]
    BY <1>0, <1>1, <1>3, <2>1 DEF TypeOK
  <2>2. CASE s # sent[r]
    <3>1. rotated'[s] = rotated[s]
      BY <1>0, <1>1, <2>2 DEF TypeOK
    <3>2. row[s] = "revoked" /\ rotated[s] \in Sids /\ row[rotated[s]] # "none"
      BY <1>0, <1>rotated, <3>1 DEF Lineage
    <3>3. QED
      BY <1>1, <3>1, <3>2
  <2>3. QED
    BY <2>1, <2>2
<1>4. Lineage'
  <2> SUFFICES ASSUME NEW q \in Requests, row'[q] # "none"
               PROVE  /\ row'[sent[q]] = "revoked"
                      /\ sent[q] \notin crossed =>
                          /\ rotated'[sent[q]] = q
                          /\ \A p \in Requests : row'[p] # "none" /\ sent[p] = sent[q] => p = q
    BY <1>2, <1>rotated DEF Lineage
  <2>1. CASE q = r
    <3>1. sent[r] \notin crossed =>
              \A p \in Requests \ {r} : row'[p] # "none" => sent[p] # sent[r]
      BY <1>0, <1>1 DEF Lineage, Sids
    <3>2. QED
      BY <1>0, <1>1, <1>3, <2>1, <3>1 DEF TypeOK
  <2>2. CASE q # r
    <3>1. row[q] # "none"
      BY <1>1, <2>2 DEF Sids
    <3>2. row[sent[q]] = "revoked" /\ sent[q] \in Sids \ {r}
      BY <1>0, <1>1, <3>1 DEF Lineage, ProgressOf
    <3>3. row'[sent[q]] = "revoked"
      BY <1>1, <3>2
    <3>4. sent[q] \notin crossed => sent[q] # sent[r]
      BY <1>1, <3>2
    <3>5. \A p \in Requests \ {r} : row'[p] # "none" => row[p] # "none"
      BY <1>1 DEF Sids
    <3>6. QED
      BY <1>0, <1>1, <3>1, <3>3, <3>4, <3>5 DEF Lineage, TypeOK
  <2>3. QED
    BY <2>1, <2>2
<1>5. \A q \in Requests \ {r} : ProgressOf(q)'
  <2> SUFFICES ASSUME NEW q \in Requests \ {r} PROVE ProgressOf(q)'
    OBVIOUS
  <2>1. row'[q] = "none" <=> row[q] = "none"
    BY <1>1 DEF Sids
  <2>2. sent[q] \in Sids /\ row[sent[q]] # "none" => row'[sent[q]] # "none"
    BY <1>1 DEF Sids
  <2>3. q \in Updating(sent[q]) /\ sent[q] \notin crossed => row'[sent[q]] = row[sent[q]]
    <3>1. q \in Updating(sent[q]) => sent[q] \in Sids /\ sent[q] # r
      BY <1>0, <1>1 DEF ProgressOf, Updating
    <3>2. QED
      BY <1>1, <3>1
  <2>4. QED
    BY <1>0, <1>2, <2>1, <2>2, <2>3, OtherProgress DEF TypeOK
<1>6. ProgressOf(r)'
  BY <1>0, <1>1, <1>2, <1>3 DEF ProgressOf, Updating
<1>7. CookieKnown' /\ Crossings'
  <2>1. CookieKnown'
    BY <1>0, <1>1, <1>2 DEF CookieKnown, TypeOK
  <2>2. Crossings'
    BY <1>2, CrossingsStay DEF Updating
  <2>3. QED
    BY <2>1, <2>2
<1>8. QED
  BY <1>4, <1>5, <1>6, <1>7 DEF Progress, CookieKnown, ProgressOf, Crossings

LEMMA LogoutOrdered ==
    ASSUME Ordered, NEW r \in Requests, LogoutCommit(r)
    PROVE  Lineage' /\ Progress'
<1> USE RequestsAssumption
<1>0. TypeOK /\ Lineage /\ CookieKnown /\ (\A q \in Requests : ProgressOf(q)) /\ Crossings
  BY ProgressParts DEF Ordered
<1>1. /\ UNCHANGED <<aged, cookie, kind, sent, fresh, crossed>>
      /\ row' = [row EXCEPT ![sent[r]] = "revoked"]
      /\ rotated' = [rotated EXCEPT ![sent[r]] = None]
      /\ pc[r] = "end" /\ Replies(r)
  BY AnswerCases DEF LogoutCommit, clock, browser
<1>2. /\ pc'[r] = "answered" /\ setCookie'[r] \in {"clear", setCookie[r]}
      /\ \A q \in Requests \ {r} : pc'[q] = pc[q] /\ setCookie'[q] = setCookie[q]
  BY <1>0, <1>1 DEF Replies, TypeOK
<1>3. /\ sent[r] \in Sids /\ row[sent[r]] # "none" /\ row[r] = "none" /\ sent[r] # r
      /\ r \in Updating(sent[r])
      /\ sent[r] \notin crossed => row[sent[r]] = "live"
  BY <1>0, <1>1 DEF ProgressOf, Updating
<1>4. \A s \in Sids : row'[s] = IF s = sent[r] THEN "revoked" ELSE row[s]
  BY <1>0, <1>1, <1>3 DEF TypeOK
<1>rotated. ASSUME NEW s \in Sids, rotated'[s] # None
      PROVE  row'[s] = "revoked" /\ rotated'[s] \in Sids /\ row'[rotated'[s]] # "none"
  <2>1. s # sent[r] /\ rotated'[s] = rotated[s]
    BY <1>0, <1>1, <1>rotated DEF TypeOK
  <2>2. row[s] = "revoked" /\ rotated[s] \in Sids /\ row[rotated[s]] # "none"
    BY <1>0, <1>rotated, <2>1 DEF Lineage
  <2>3. QED
    BY <1>4, <2>1, <2>2
<1>5. Lineage'
  <2> SUFFICES ASSUME NEW q \in Requests, row'[q] # "none"
               PROVE  /\ row'[sent[q]] = "revoked"
                      /\ sent[q] \notin crossed =>
                          /\ rotated'[sent[q]] = q
                          /\ \A p \in Requests : row'[p] # "none" /\ sent[p] = sent[q] => p = q
    BY <1>1, <1>rotated DEF Lineage
  <2>1. \A p \in Requests : row'[p] # "none" => row[p] # "none"
    BY <1>3, <1>4 DEF Sids
  <2>2. row[sent[q]] = "revoked" /\ sent[q] \in Sids
    BY <1>0, <2>1 DEF Lineage, ProgressOf
  <2>3. sent[q] \notin crossed => sent[q] # sent[r]
    BY <1>3, <2>2
  <2>4. QED
    BY <1>0, <1>1, <1>4, <2>1, <2>2, <2>3 DEF Lineage, TypeOK
<1>6. \A q \in Requests \ {r} : ProgressOf(q)'
  <2> SUFFICES ASSUME NEW q \in Requests \ {r} PROVE ProgressOf(q)'
    OBVIOUS
  <2>1. row'[q] = "none" <=> row[q] = "none"
    BY <1>3, <1>4 DEF Sids
  <2>2. sent[q] \in Sids /\ row[sent[q]] # "none" => row'[sent[q]] # "none"
    BY <1>3, <1>4
  <2>3. q \in Updating(sent[q]) /\ sent[q] \notin crossed => row'[sent[q]] = row[sent[q]]
    <3>1. q \in Updating(sent[q]) => sent[q] \in Sids
      BY <1>0 DEF ProgressOf, Updating
    <3>2. QED
      BY <1>0, <1>3, <1>4, <3>1 DEF Crossings
  <2>4. QED
    BY <1>0, <1>1, <1>2, <2>1, <2>2, <2>3, OtherProgress DEF TypeOK
<1>7. ProgressOf(r)'
  BY <1>0, <1>1, <1>2, <1>3, <1>4 DEF ProgressOf, Updating, Sids
<1>8. CookieKnown' /\ Crossings'
  <2>1. CookieKnown'
    BY <1>0, <1>1, <1>4 DEF CookieKnown, TypeOK
  <2>2. Crossings'
    BY <1>1, <1>2, CrossingsStay DEF Updating
  <2>3. QED
    BY <2>1, <2>2
<1>9. QED
  BY <1>5, <1>6, <1>7, <1>8 DEF Progress, CookieKnown, ProgressOf, Crossings

LEMMA BrowserOrdered ==
    ASSUME Ordered, NEW r \in Requests, Ends(r) \/ (\E k \in Kinds : Send(r, k))
    PROVE  Lineage' /\ Progress'
<1> USE RequestsAssumption
<1>0. TypeOK /\ CookieKnown /\ (\A q \in Requests : ProgressOf(q))
  BY ProgressParts DEF Ordered
<1>1. /\ UNCHANGED <<row, rotated, aged, crossed>>
      /\ \A q \in Requests \ {r} :
             /\ pc'[q] = pc[q] /\ kind'[q] = kind[q] /\ sent'[q] = sent[q]
             /\ setCookie'[q] = setCookie[q] /\ fresh'[q] = fresh[q]
  BY <1>0 DEF TypeOK, Ends, Deliver, LoseAnswer, End, Goto, Send, identity, clock,
      provider, browser, answers
<1>2. \A q \in Requests \ {r} : ProgressOf(q)'
  BY <1>0, <1>1, OtherProgress DEF TypeOK
<1>3. CASE Ends(r)
  <2>1. /\ pc[r] = "answered" /\ pc'[r] = "done"
        /\ setCookie'[r] = "keep" /\ UNCHANGED <<kind, sent>>
    BY <1>0, <1>3 DEF TypeOK, Ends, Deliver, LoseAnswer, End, Goto, browser
  <2>2. CookieKnown'
    <3>1. \/ cookie' = None \/ cookie' = cookie
          \/ cookie' = setCookie[r] /\ setCookie[r] = r
      <4>1. CASE Deliver(r)
        BY <1>0, <4>1 DEF Deliver, ProgressOf
      <4>2. CASE LoseAnswer(r)
        BY <4>2 DEF LoseAnswer, browser
      <4>3. QED
        BY <1>3, <4>1, <4>2 DEF Ends
    <3>2. QED
      BY <1>0, <1>1, <3>1 DEF CookieKnown, ProgressOf
  <2>3. ProgressOf(r)'
    BY <1>0, <1>1, <2>1 DEF ProgressOf, Updating
  <2>4. Lineage'
    BY <1>1, <2>1, LineageStays
  <2>5. Crossings'
    BY <1>1, <2>1, CrossingsStay DEF Updating
  <2>6. QED
    BY <1>2, <2>2, <2>3, <2>4, <2>5 DEF Progress, CookieKnown, ProgressOf, Crossings
<1>4. CASE \E k \in Kinds : Send(r, k)
  <2>1. /\ pc[r] = "idle" /\ pc'[r] = "get" /\ cookie # None
        /\ sent'[r] = cookie /\ UNCHANGED <<cookie, setCookie, fresh>>
    BY <1>0, <1>4 DEF TypeOK, Send, Goto, answers
  <2>2. ProgressOf(r)'
    BY <1>0, <1>1, <2>1 DEF ProgressOf, CookieKnown, Updating, TypeOK
  <2>3. Lineage'
    BY <1>0, <1>1, <2>1, LineageStays DEF ProgressOf
  <2>4. Crossings'
    BY <1>1, <2>1, CrossingsStay DEF Updating
  <2>5. CookieKnown'
    BY <1>0, <1>1, <2>1 DEF CookieKnown
  <2>6. QED
    BY <1>2, <2>2, <2>3, <2>4, <2>5 DEF Progress, CookieKnown, ProgressOf, Crossings
<1>5. QED
  BY <1>3, <1>4

LEMMA TimeOrdered ==
    ASSUME Ordered, Time
    PROVE  Lineage' /\ Progress'
<1>0. TypeOK /\ CookieKnown /\ (\A q \in Requests : ProgressOf(q))
  BY ProgressParts DEF Ordered
<1>1. /\ UNCHANGED <<row, rotated, pc, kind, sent, setCookie, fresh, crossed>>
      /\ cookie' \in {None, cookie}
  BY DEF Time, RunOut, CookieEnds, AbsoluteExpiry, identity, clock, provider, browser, answers
<1>2. \A s \in Sids : row[s] = "none" => aged'[s] = aged[s]
  BY <1>0 DEF TypeOK, Time, RunOut, CookieEnds, AbsoluteExpiry, clock
<1>3. \A q \in Requests : ProgressOf(q)'
  BY <1>1, <1>2, OtherProgress DEF Sids
<1>4. Lineage'
  BY <1>1, LineageStays
<1>5. CookieKnown' /\ Crossings'
  BY <1>0, <1>1, CrossingsStay DEF CookieKnown, Updating
<1>6. QED
  BY <1>3, <1>4, <1>5 DEF Progress, CookieKnown, ProgressOf, Crossings

LEMMA AlwaysOrdered == Spec => []Ordered
<1>1. Init => Ordered
  <2> SUFFICES ASSUME Init PROVE Ordered
    OBVIOUS
  <2> USE RequestsAssumption DEF Init, Sids
  <2>1. TypeOK
    BY DEF TypeOK, Labels, Kinds
  <2>2. Lineage
    BY DEF Lineage
  <2>3. Progress
    BY DEF Progress, Updating
  <2>4. QED
    BY <2>1, <2>2, <2>3 DEF Ordered
<1>2. Ordered /\ [Next]_vars => Ordered'
  <2> SUFFICES ASSUME Ordered, [Next]_vars PROVE Lineage' /\ Progress'
    BY TypeStep DEF Ordered
  <2>1. CASE UNCHANGED vars
    BY <2>1 DEF vars, Ordered, Lineage, Progress, Updating
  <2>2. CASE Next
    BY <2>2, NextCases, AnsweredOrdered, GoesOnOrdered, ReadsOrdered, RotatesOrdered,
       LogoutOrdered, BrowserOrdered, TimeOrdered DEF Ordered
  <2>3. QED
    BY <2>1, <2>2
<1>3. QED
  BY <1>1, <1>2, PTL DEF Spec

-----------------------------------------------------------------------------
(* One session lives.                                                      *)

\* The login has one living session, unless two updates of one session
\* overlapped: whatever else overlaps or fails, a refresh replaces it.
THEOREM OneSessionLives == Spec => []OneLiveSession
<1> USE RequestsAssumption
<1>1. Init => OneLiveSession
  BY DEF Init, OneLiveSession
<1>2. Ordered /\ OneLiveSession /\ [Next]_vars => OneLiveSession'
  <2> SUFFICES ASSUME Ordered, OneLiveSession, [Next]_vars, crossed' = {},
                      NEW s \in Sids, NEW t \in Sids, row'[s] = "live", row'[t] = "live"
               PROVE  s = t
    BY DEF OneLiveSession
  <2>0. TypeOK
    BY DEF Ordered
  <2>1. crossed = {}
    <3>1. crossed \subseteq crossed'
      BY <2>0, NextCases DEF vars, Answered, GoesOn, Reads, ReadForUpdate, Provider, Rotates,
         LogoutCommit, Ends, Deliver, LoseAnswer, Send, Time, RunOut, CookieEnds, AbsoluteExpiry
    <3>2. QED
      BY <3>1
  <2>2. ASSUME NEW r \in Requests, Rotates(r)
        PROVE  s = t
    BY <2>1, <2>2, RotatesRows DEF OneLiveSession
  <2>3. ASSUME NEW r \in Requests, LogoutCommit(r)
        PROVE  s = t
    <3>1. row[s] = "live" /\ row[t] = "live"
      BY <2>0, <2>3 DEF LogoutCommit, TypeOK
    <3>2. QED
      BY <2>1, <3>1 DEF OneLiveSession
  <2>4. CASE UNCHANGED row
    BY <2>1, <2>4 DEF OneLiveSession
  <2>5. QED
    BY <2>0, <2>2, <2>3, <2>4, NextCases DEF vars, Answered, GoesOn, Reads, Provider,
       Ends, Deliver, LoseAnswer, Send, Time, RunOut, CookieEnds, AbsoluteExpiry, identity
<1>3. QED
  BY <1>1, <1>2, AlwaysOrdered, PTL DEF Spec

-----------------------------------------------------------------------------
(* While nothing disturbs.                                                 *)

\* What Undisturbed says of the request in flight.
UndisturbedOf(r) ==
    /\ pc[r] \in {"handler", "read2", "find"} /\ row[r] = "none" => row[sent[r]] = "live"
    /\ pc[r] \in {"rotate1", "rotate2"} =>
           \A t \in valid : t \in {fresh[r], token[sent[r]]} \/ Superseded(t)
    /\ pc[r] = "end" /\ r \notin unrevoked => \A t \in valid : Superseded(t)
    /\ r \in unrevoked => pc[r] = "end" \/ r \in loggedOut
    /\ r \in loggedOut =>
        /\ pc[r] \in {"answered", "done"}
        /\ pc[r] = "answered" => setCookie[r] = "clear"
        /\ pc[r] = "done" => cookie = None
    /\ unrevoked = {} /\ pc[r] \notin {"rotate1", "rotate2"} =>
           \A t \in valid :
               Superseded(t) \/ \E s \in Sids : row[s] = "live" /\ token[s] = t

\* Nobody but r is under way, and nobody but r was logged out.
OnlyOne(r) ==
    \A q \in Requests \ {r} : ~InFlight(q) /\ q \notin loggedOut /\ q \notin unrevoked

(* A request in flight is the only one, and what is said of it holds. *)
LEMMA AloneInFlight ==
    ASSUME Undisturbed, ~disturbed, NEW r \in Requests, InFlight(r)
    PROVE  crossed = {} /\ OnlyOne(r) /\ UndisturbedOf(r)
<1>1. crossed = {} /\ OnlyOne(r)
  BY DEF Undisturbed, OnlyOne, InFlight
<1>2. \A q \in Requests \ {r} : pc[q] \notin {"rotate1", "rotate2"}
  BY <1>1 DEF OnlyOne, InFlight
<1>3. QED
  BY <1>1, <1>2 DEF Undisturbed, UndisturbedOf

(* A step of the only request in flight. *)
LEMMA AloneStep ==
    ASSUME NEW r \in Requests, OnlyOne(r), crossed' = {}, UndisturbedOf(r)',
           \A q \in Requests \ {r} : pc'[q] = pc[q], loggedOut' \subseteq loggedOut \cup {r},
           unrevoked' \subseteq unrevoked \cup {r}
    PROVE  Undisturbed'
<1>1. \A q \in Requests \ {r} :
          pc'[q] \in {"idle", "done"} /\ q \notin loggedOut' /\ q \notin unrevoked'
  BY DEF OnlyOne, InFlight
<1>2. QED
  BY <1>1 DEF Undisturbed, UndisturbedOf, InFlight

(* The tokens the provider accepts are that of the session being updated, and *)
(* those it accepts beside their successor.                                   *)
LEMMA ValidIsToken ==
    ASSUME Ordered, OneLiveSession, crossed = {}, NEW r \in Requests, UndisturbedOf(r),
           OnlyOne(r), pc[r] \in {"exchange1", "exchange2", "revoke"}
    PROVE  /\ row[sent[r]] = "live" /\ sent[r] \in Sids /\ unrevoked = {}
           /\ \A t \in valid : t = token[sent[r]] \/ Superseded(t)
<1>1. row[sent[r]] = "live" /\ sent[r] \in Sids
  BY ProgressParts DEF Ordered, ProgressOf, Updating
<1>2. \A s \in Sids : row[s] = "live" => s = sent[r]
  BY <1>1 DEF OneLiveSession
<1>3. unrevoked = {}
  BY DEF Ordered, TypeOK, UndisturbedOf, OnlyOne
<1>4. QED
  BY <1>1, <1>2, <1>3 DEF UndisturbedOf

(* What was superseded stays superseded when the session of r is replaced, and *)
(* its token is, if the successor has another one.                             *)
LEMMA RotateSupersedes ==
    ASSUME Ordered, NEW r \in Requests, Rotates(r), sent[r] \notin crossed,
           NEW t, Superseded(t) \/ (t = token[sent[r]] /\ t # fresh[r])
    PROVE  Superseded(t)'
<1> USE RequestsAssumption
<1>0. TypeOK /\ Lineage
  BY DEF Ordered
<1>1. /\ sent[r] \in Sids \ {r} /\ row[r] = "none" /\ row[sent[r]] = "live"
      /\ rotated' = [rotated EXCEPT ![sent[r]] = r]
      /\ token' = [token EXCEPT ![r] = fresh[r]]
      /\ r \in Sids /\ r # None
  BY RotatesRows DEF Rotates, Rotate, Sids
<1>2. CASE t = token[sent[r]] /\ t # fresh[r]
  <2>1. rotated'[sent[r]] = r /\ token'[sent[r]] = t /\ token'[r] = fresh[r]
    BY <1>0, <1>1, <1>2 DEF TypeOK
  <2>2. QED
    BY <1>1, <1>2, <2>1 DEF Superseded
<1>3. CASE Superseded(t)
  <2>1. PICK s \in Sids : rotated[s] # None /\ token[s] = t /\ token[rotated[s]] # t
    BY <1>3 DEF Superseded
  <2>2. row[s] = "revoked" /\ rotated[s] \in Sids /\ row[rotated[s]] # "none"
    BY <1>0, <2>1 DEF Lineage
  <2>3. s # sent[r] /\ s # r /\ rotated[s] # r
    BY <1>1, <2>2
  <2>4. rotated'[s] = rotated[s] /\ token'[s] = t /\ token'[rotated[s]] = token[rotated[s]]
    BY <1>0, <1>1, <2>1, <2>2, <2>3 DEF TypeOK
  <2>5. QED
    BY <2>1, <2>4 DEF Superseded
<1>4. QED
  BY <1>2, <1>3

\* The steps of a request that disturb nothing.
Quiet(r) ==
    \/ GetOk(r) \/ GetStale(r) \/ GetRefused(r) \/ GetAgainOk(r) \/ GetAgainRefused(r)
    \/ RefreshRead(r) \/ RefreshRefused(r) \/ Exchange(r) \/ ExchangeRefused(r)
    \/ RefreshCommit(r) \/ Handle(r) \/ LogoutFind(r) \/ LogoutNothing(r)
    \/ LogoutRevoke(r) \/ LogoutCommit(r) \/ Deliver(r)

(* They keep what is said of an undisturbed browser. *)
LEMMA UndisturbedRequest ==
    ASSUME Ordered, OneLiveSession, Undisturbed, ~disturbed, ~disturbed',
           NEW r \in Requests, InFlight(r),
           Quiet(r)
    PROVE  Undisturbed'
<1> USE RequestsAssumption DEF identity, clock, provider, browser, answers
<1>0. /\ TypeOK /\ ProgressOf(r) /\ crossed = {} /\ OnlyOne(r) /\ UndisturbedOf(r)
  BY ProgressParts, AloneInFlight DEF Ordered
<1>1. CASE GetRefused(r) \/ GetAgainRefused(r) \/ RefreshRefused(r) \/ ExchangeRefused(r)
  <2>1. Answer(r, 401, "clear") /\ UNCHANGED <<row, rotated, token, valid, unrevoked, crossed>>
        /\ pc[r] \notin {"rotate1", "rotate2", "answered", "done"}
    BY <1>1 DEF GetRefused, GetAgainRefused, RefreshRefused, ExchangeRefused, At
  <2>2. loggedOut' = loggedOut /\ pc' = [pc EXCEPT ![r] = "answered"]
    BY <2>1, AnswerCases
  <2>3. pc'[r] = "answered" /\ \A q \in Requests \ {r} : pc'[q] = pc[q]
    BY <1>0, <2>2 DEF TypeOK
  <2>4. r \notin loggedOut /\ (r \in unrevoked => pc[r] = "end")
    BY <1>0, <2>1 DEF UndisturbedOf
  <2>5. pc[r] # "end"
    BY <1>1 DEF GetRefused, GetAgainRefused, RefreshRefused, ExchangeRefused, At
  <2>6. UndisturbedOf(r)'
    BY <1>0, <2>1, <2>2, <2>3, <2>4, <2>5 DEF UndisturbedOf, Superseded
  <2>7. QED
    BY <1>0, <2>1, <2>2, <2>3, <2>6, AloneStep
<1>2. CASE GetOk(r) \/ GetStale(r) \/ GetAgainOk(r)
  <2>1. /\ pc[r] \in {"get", "again"} /\ pc'[r] \in {"handler", "read1"}
        /\ pc[r] = "get" => row[sent[r]] = "live"
        /\ \A q \in Requests \ {r} : pc'[q] = pc[q]
        /\ UNCHANGED <<row, rotated, token, valid, unrevoked, sent, loggedOut, crossed>>
    BY <1>0, <1>2 DEF GetOk, GetStale, GetAgainOk, Goto, TypeOK
  <2>2. UndisturbedOf(r)'
    BY <1>0, <2>1 DEF UndisturbedOf, Superseded, ProgressOf
  <2>3. QED
    BY <1>0, <2>1, <2>2, AloneStep
<1>3. CASE RefreshRead(r) \/ LogoutFind(r)
  <2>1. /\ pc[r] \in {"read1", "read2", "find"}
        /\ pc'[r] \in {"exchange1", "exchange2", "revoke"}
        /\ \A q \in Requests \ {r} : pc'[q] = pc[q]
        /\ UNCHANGED <<row, rotated, token, valid, unrevoked, sent, loggedOut>>
        /\ ReadForUpdate(sent[r])
    BY <1>0, <1>3 DEF RefreshRead, LogoutFind, At, Follow, Goto, TypeOK
  <2>2. crossed' = {}
    BY <1>0, <2>1 DEF ReadForUpdate, Updating, OnlyOne, InFlight
  <2>3. UndisturbedOf(r)'
    BY <1>0, <2>1 DEF UndisturbedOf, Superseded
  <2>4. QED
    BY <1>0, <2>1, <2>2, <2>3, AloneStep
<1>4. CASE Exchange(r)
  <2>1. unrevoked = {} /\ \A t \in valid : t = token[sent[r]] \/ Superseded(t)
    BY <1>0, <1>4, ValidIsToken DEF Exchange, At
  <2>2. /\ pc[r] \in {"exchange1", "exchange2"} /\ pc'[r] \in {"rotate1", "rotate2"}
        /\ \A q \in Requests \ {r} : pc'[q] = pc[q]
        /\ UNCHANGED <<rotated, token, sent, unrevoked, loggedOut, crossed>>
    BY <1>0, <1>4 DEF Exchange, At, Follow, Goto, TypeOK
  <2>3. \A t \in valid' : t \in {fresh'[r], token[sent[r]]} \/ Superseded(t)
    BY <1>0, <1>4, <2>1 DEF Exchange, TypeOK
  <2>4. UndisturbedOf(r)'
    BY <1>0, <2>2, <2>3 DEF UndisturbedOf, Superseded
  <2>5. QED
    BY <1>0, <2>2, <2>4, AloneStep
<1>5. CASE RefreshCommit(r)
  <2>1. /\ pc[r] \in {"rotate1", "rotate2"} /\ pc'[r] \in {"again", "answered"} /\ Rotates(r)
        /\ \A q \in Requests \ {r} : pc'[q] = pc[q]
        /\ UNCHANGED <<valid, unrevoked, loggedOut, crossed>>
    BY <1>0, <1>5 DEF RefreshCommit, At, Follow, Goto, TypeOK, Rotates
  <2>2. row'[r] = "live" /\ token'[r] = fresh[r] /\ r \in Sids
    BY <1>0, <2>1, RotatesRows DEF Rotates, Rotate, Sids, TypeOK
  <2>3. ASSUME NEW t \in valid, t # fresh[r] PROVE Superseded(t)'
    <3>1. Superseded(t) \/ t = token[sent[r]]
      BY <1>0, <2>1, <2>3 DEF UndisturbedOf
    <3>2. sent[r] \notin crossed
      BY <1>0
    <3>3. QED
      BY <2>1, <2>3, <3>1, <3>2, RotateSupersedes
  <2>4. UndisturbedOf(r)'
    BY <1>0, <2>1, <2>2, <2>3 DEF UndisturbedOf
  <2>5. QED
    BY <1>0, <2>1, <2>4, AloneStep
<1>6. CASE Handle(r)
  <2>1. /\ pc[r] = "handler" /\ pc'[r] \in {"answered", "read2", "find"}
        /\ \A q \in Requests \ {r} : pc'[q] = pc[q]
        /\ UNCHANGED <<row, rotated, token, valid, unrevoked, sent, loggedOut, crossed>>
    <3>1. CASE kind[r] = "page"
      BY <1>0, <1>6, <3>1, AnswerCases DEF Handle, TypeOK
    <3>2. CASE kind[r] = "refresh" \/ kind[r] = "logout"
      BY <1>0, <1>6, <3>2 DEF Handle, Goto, TypeOK
    <3>3. QED
      BY <1>0, <3>1, <3>2 DEF TypeOK, Kinds
  <2>2. UndisturbedOf(r)'
    BY <1>0, <2>1 DEF UndisturbedOf, Superseded
  <2>3. QED
    BY <1>0, <2>1, <2>2, AloneStep
<1>7. CASE LogoutNothing(r) \/ LogoutCommit(r)
  <2>1. /\ pc[r] \in {"find", "end"} /\ UNCHANGED <<token, valid, unrevoked, crossed>>
        /\ Answer(r, 204, "clear") /\ (pc[r] = "find" => UNCHANGED row) /\ rotated' = rotated
    <3>1. pc[r] = "end" => row[sent[r]] = "live" /\ sent[r] \in Sids
      BY <1>0 DEF ProgressOf, Updating
    <3>2. pc[r] = "end" => rotated[sent[r]] = None
      BY <1>0, <3>1 DEF Ordered, Lineage
    <3>3. QED
      BY <1>0, <1>7, <3>2 DEF LogoutNothing, LogoutCommit, TypeOK
  <2>2. /\ pc' = [pc EXCEPT ![r] = "answered"] /\ loggedOut' = loggedOut \cup {r}
        /\ setCookie' = [setCookie EXCEPT ![r] = "clear"]
    BY <2>1 DEF Answer, Goto
  <2>3. UndisturbedOf(r)'
    BY <1>0, <2>1, <2>2 DEF UndisturbedOf, Superseded, TypeOK
  <2>4. QED
    BY <1>0, <2>1, <2>2, <2>3, AloneStep DEF TypeOK
<1>8. CASE LogoutRevoke(r)
  <2>1. unrevoked = {} /\ \A t \in valid : t = token[sent[r]] \/ Superseded(t)
    BY <1>0, <1>8, ValidIsToken DEF LogoutRevoke
  <2>2. /\ pc[r] = "revoke" /\ pc'[r] = "end"
        /\ \A q \in Requests \ {r} : pc'[q] = pc[q]
        /\ r \in unrevoked' \/ valid' = valid \ {token[sent[r]]}
        /\ unrevoked' \subseteq unrevoked \cup {r}
        /\ UNCHANGED <<row, rotated, token, loggedOut, crossed>>
    BY <1>0, <1>8 DEF LogoutRevoke, Goto, TypeOK
  <2>3. UndisturbedOf(r)'
    BY <1>0, <2>1, <2>2 DEF UndisturbedOf, Superseded
  <2>4. QED
    BY <1>0, <2>2, <2>3, AloneStep
<1>9. CASE Deliver(r)
  <2>1. /\ pc[r] = "answered" /\ pc'[r] = "done"
        /\ \A q \in Requests \ {r} : pc'[q] = pc[q]
        /\ UNCHANGED <<row, rotated, token, valid, unrevoked, loggedOut, crossed>>
        /\ setCookie[r] = "clear" => cookie' = None
    BY <1>0, <1>9 DEF Deliver, End, Goto, TypeOK
  <2>2. UndisturbedOf(r)'
    BY <1>0, <2>1 DEF UndisturbedOf, Superseded
  <2>3. QED
    BY <1>0, <2>1, <2>2, AloneStep
<1>10. QED
  BY <1>1, <1>2, <1>3, <1>4, <1>5, <1>6, <1>7, <1>8, <1>9 DEF Quiet

(* A step that disturbs nothing. *)
LEMMA QuietCases ==
    ASSUME Next, ~disturbed'
    PROVE  /\ ~disturbed
           /\ \/ \E r \in Requests : InFlight(r) /\ Quiet(r)
              \/ \E r \in Requests, k \in Kinds : Send(r, k)
              \/ Time
<1>1. ~disturbed
  BY DEF Next, Send, Deliver, LoseAnswer, GetOk, GetStale, GetRefused, GetUnavailable,
     GetAgainOk, GetAgainRefused, GetAgainFails, RefreshRead, RefreshRefused, Exchange,
     ExchangeRefused, RefreshCommit, RefreshFails, RefreshUnheard, Handle, Forbidden,
     LogoutFind, LogoutNothing, LogoutRevoke, LogoutCommit, LogoutFails, RunOut, CookieEnds,
     AbsoluteExpiry
<1>2. ASSUME NEW r \in Requests,
             \/ LoseAnswer(r) \/ GetUnavailable(r) \/ GetAgainFails(r) \/ RefreshFails(r)
             \/ RefreshUnheard(r) \/ Forbidden(r) \/ LogoutFails(r)
      PROVE  FALSE
  BY <1>2 DEF LoseAnswer, GetUnavailable, GetAgainFails, RefreshFails, RefreshUnheard,
     Forbidden, LogoutFails
<1>3. ASSUME NEW r \in Requests,
             Quiet(r)
      PROVE  InFlight(r)
  BY <1>3 DEF Quiet, GetOk, GetStale, GetRefused, GetAgainOk, GetAgainRefused, RefreshRead,
     RefreshRefused, Exchange, ExchangeRefused, RefreshCommit, Handle, LogoutFind,
     LogoutNothing, LogoutRevoke, LogoutCommit, Deliver, At, InFlight
<1>4. QED
  BY <1>1, <1>2, <1>3 DEF Next, Time, Quiet

LEMMA UndisturbedStep ==
    ASSUME Ordered, OneLiveSession, Undisturbed, [Next]_vars
    PROVE  Undisturbed'
<1> USE RequestsAssumption DEF identity, clock, provider, browser, answers
<1> SUFFICES ASSUME ~disturbed' PROVE Undisturbed'
  BY DEF Undisturbed
<1>0. TypeOK
  BY DEF Ordered
<1>1. CASE UNCHANGED vars
  BY <1>1 DEF vars, Undisturbed, Superseded, InFlight
<1>2. ASSUME NEW r \in Requests, NEW k \in Kinds, ~disturbed, Send(r, k)
      PROVE  Undisturbed'
  <2>1. /\ pc[r] = "idle" /\ pc' = [pc EXCEPT ![r] = "get"] /\ cookie # None
        /\ \A q \in Requests \ {r} : ~InFlight(q)
        /\ UNCHANGED <<row, rotated, token, valid, unrevoked, cookie, fresh, loggedOut, crossed>>
    BY <1>2 DEF Send, Goto
  <2>2. loggedOut = {} /\ unrevoked = {}
    BY <1>0, <1>2, <2>1 DEF Undisturbed, InFlight, TypeOK
  <2>3. \A q \in Requests : pc[q] \in {"idle", "done"}
    BY <2>1 DEF InFlight
  <2>4. UndisturbedOf(r)' /\ OnlyOne(r)
    BY <1>0, <1>2, <2>1, <2>2, <2>3 DEF Undisturbed, UndisturbedOf, Superseded, OnlyOne, TypeOK
  <2>5. QED
    BY <1>0, <1>2, <2>1, <2>4, AloneStep DEF Undisturbed, TypeOK
<1>3. ASSUME ~disturbed, Time
      PROVE  Undisturbed'
  <2>1. UNCHANGED <<row, rotated, token, valid, unrevoked, pc, sent, fresh, setCookie,
                    loggedOut, crossed>>
        /\ cookie' \in {None, cookie}
    BY <1>3 DEF Time, RunOut, CookieEnds, AbsoluteExpiry
  <2>2. QED
    BY <1>3, <2>1 DEF Undisturbed, Superseded, InFlight
<1>4. QED
  BY <1>1, <1>2, <1>3, QuietCases, UndisturbedRequest

LEMMA AlwaysUndisturbed == Spec => []Undisturbed
<1>1. Init => Undisturbed
  BY RequestsAssumption DEF Init, Undisturbed, InFlight, Sids
<1>2. QED
  BY <1>1, UndisturbedStep, AlwaysOrdered, OneSessionLives, PTL DEF Spec

-----------------------------------------------------------------------------
(* What a browser that asks for pages only has in its hands.               *)

\* What PagesKeepSession says of the request in flight.
PageOf(r) ==
    /\ pc[r] \in {"get", "read1", "exchange1"}
           => Alive(sent[r]) /\ Holds(sent[r]) /\ setCookie[r] = "keep"
    /\ pc[r] = "rotate1" => fresh[r] \in valid /\ setCookie[r] = "keep"
    /\ pc[r] = "again" => Alive(r) /\ aged[r] = {} /\ setCookie[r] = r
    /\ pc[r] \in {"handler", "answered"} =>
           \/ setCookie[r] = r /\ Alive(r)
           \/ setCookie[r] = "keep" /\ Alive(sent[r]) /\ Holds(sent[r])

(* A step of the only request in flight that keeps it in flight. *)
LEMMA PageStep ==
    ASSUME NEW r \in Requests, OnlyOne(r), InFlight(r)', PageOf(r)',
           \A q \in Requests \ {r} : pc'[q] = pc[q]
    PROVE  PagesKeepSession'
<1>1. \A q \in Requests \ {r} : pc'[q] \in {"idle", "done"}
  BY DEF OnlyOne, InFlight
<1>2. QED
  BY <1>1 DEF PagesKeepSession, PageOf, InFlight

(* No answer that clears the cookie is given to a page, and no step lets go *)
(* of the session or of its token.                                          *)
LEMMA PageRequest ==
    ASSUME Ordered, Undisturbed, PagesKeepSession, ~disturbed, ~over,
           \A q \in Requests : kind[q] = "page",
           NEW r \in Requests, InFlight(r),
           Quiet(r)
    PROVE  PagesKeepSession'
<1> USE RequestsAssumption DEF identity, clock, provider, browser, answers
<1>0. /\ TypeOK /\ ProgressOf(r) /\ OnlyOne(r) /\ PageOf(r) /\ kind[r] = "page"
      /\ pc[r] \notin {"read2", "exchange2", "rotate2", "find", "revoke", "end"}
  BY ProgressParts, AloneInFlight DEF Ordered, PagesKeepSession, PageOf, ProgressOf
<1>1. CASE GetOk(r) \/ GetStale(r) \/ GetAgainOk(r)
  <2>1. /\ pc[r] \in {"get", "again"} /\ pc'[r] \in {"handler", "read1"}
        /\ pc[r] = "again" => pc'[r] = "handler"
        /\ \A q \in Requests \ {r} : pc'[q] = pc[q]
        /\ UNCHANGED <<row, token, aged, valid, cookie, sent, setCookie>>
    BY <1>0, <1>1 DEF GetOk, GetStale, GetAgainOk, Goto, TypeOK
  <2>2. PageOf(r)' /\ InFlight(r)'
    BY <1>0, <2>1 DEF PageOf, InFlight, Alive, Holds
  <2>3. QED
    BY <1>0, <2>1, <2>2, PageStep
<1>2. CASE \/ GetRefused(r) \/ GetAgainRefused(r) \/ RefreshRefused(r) \/ ExchangeRefused(r)
  BY <1>0, <1>2 DEF GetRefused, GetAgainRefused, RefreshRefused, ExchangeRefused, At,
     PageOf, Alive
<1>3. CASE RefreshRead(r)
  <2>1. /\ pc[r] = "read1" /\ pc'[r] = "exchange1"
        /\ \A q \in Requests \ {r} : pc'[q] = pc[q]
        /\ UNCHANGED <<row, token, aged, valid, cookie, sent, setCookie>>
    BY <1>0, <1>3 DEF RefreshRead, At, Follow, Goto, TypeOK
  <2>2. PageOf(r)' /\ InFlight(r)'
    BY <1>0, <2>1 DEF PageOf, InFlight, Alive, Holds
  <2>3. QED
    BY <1>0, <2>1, <2>2, PageStep
<1>4. CASE Exchange(r)
  <2>1. /\ pc[r] = "exchange1" /\ pc'[r] = "rotate1" /\ fresh'[r] \in valid'
        /\ \A q \in Requests \ {r} : pc'[q] = pc[q]
        /\ UNCHANGED setCookie
    BY <1>0, <1>4 DEF Exchange, At, Follow, Goto, TypeOK
  <2>2. PageOf(r)' /\ InFlight(r)'
    BY <1>0, <2>1 DEF PageOf, InFlight
  <2>3. QED
    BY <1>0, <2>1, <2>2, PageStep
<1>5. CASE RefreshCommit(r)
  <2>1. /\ pc[r] = "rotate1" /\ pc'[r] = "again" /\ setCookie'[r] = r
        /\ \A q \in Requests \ {r} : pc'[q] = pc[q]
        /\ UNCHANGED <<aged, valid>> /\ Rotate(r)
    BY <1>0, <1>5 DEF RefreshCommit, At, Follow, Goto, TypeOK
  <2>2. r \in Sids /\ sent[r] # r /\ aged[r] = {} /\ fresh[r] \in valid
    BY <1>0, <2>1 DEF ProgressOf, PageOf, Sids
  <2>3. row'[r] = "live" /\ token'[r] = fresh[r]
    BY <1>0, <2>1, <2>2 DEF Rotate, TypeOK
  <2>4. PageOf(r)' /\ InFlight(r)'
    BY <2>1, <2>2, <2>3 DEF PageOf, InFlight, Alive
  <2>5. QED
    BY <1>0, <2>1, <2>4, PageStep
<1>6. CASE Handle(r)
  <2>1. pc[r] = "handler" /\ Answer(r, 200, "keep")
        /\ UNCHANGED <<row, token, aged, valid, cookie, sent>>
    BY <1>0, <1>6 DEF Handle
  <2>2. pc' = [pc EXCEPT ![r] = "answered"] /\ setCookie'[r] = setCookie[r]
    BY <1>0, <2>1, AnswerCases DEF TypeOK
  <2>3. PageOf(r)' /\ InFlight(r)'
    BY <1>0, <2>1, <2>2 DEF PageOf, InFlight, Alive, Holds, TypeOK
  <2>4. QED
    BY <1>0, <2>2, <2>3, PageStep DEF TypeOK
<1>7. CASE LogoutFind(r) \/ LogoutNothing(r) \/ LogoutRevoke(r) \/ LogoutCommit(r)
  BY <1>0, <1>7 DEF LogoutFind, LogoutNothing, LogoutRevoke, LogoutCommit
<1>8. CASE Deliver(r)
  <2>1. /\ pc[r] = "answered" /\ pc' = [pc EXCEPT ![r] = "done"]
        /\ UNCHANGED <<row, token, aged, valid>>
        /\ cookie' = CASE setCookie[r] = "clear" -> None
                       [] setCookie[r] = "keep" -> cookie
                       [] OTHER -> setCookie[r]
    BY <1>8 DEF Deliver, End, Goto
  <2>2. \E s \in Sids : Alive(s)' /\ Holds(s)'
    <3>1. CASE setCookie[r] = r /\ Alive(r)
      BY <2>1, <3>1 DEF Alive, Holds, Sids
    <3>2. CASE setCookie[r] = "keep" /\ Alive(sent[r]) /\ Holds(sent[r])
      BY <1>0, <2>1, <3>2 DEF Alive, Holds, ProgressOf
    <3>3. QED
      BY <1>0, <2>1, <3>1, <3>2 DEF PageOf
  <2>3. \A q \in Requests : pc'[q] \in {"idle", "done"}
    BY <1>0, <2>1 DEF OnlyOne, InFlight, TypeOK
  <2>4. QED
    BY <2>2, <2>3 DEF PagesKeepSession
<1>9. QED
  BY <1>1, <1>2, <1>3, <1>4, <1>5, <1>6, <1>7, <1>8 DEF Quiet

LEMMA PagesStep ==
    ASSUME Ordered, Undisturbed, PagesKeepSession, [Next]_vars
    PROVE  PagesKeepSession'
<1> USE RequestsAssumption DEF identity, clock, provider, browser, answers
<1> SUFFICES ASSUME ~disturbed', ~over', \A q \in Requests : kind'[q] = "page"
             PROVE PagesKeepSession'
  BY DEF PagesKeepSession
<1>0. TypeOK /\ \A q \in Requests : ProgressOf(q)
  BY ProgressParts DEF Ordered
<1>1. CASE UNCHANGED vars
  BY <1>1 DEF vars, PagesKeepSession, InFlight, Alive, Holds
<1>2. ASSUME NEW r \in Requests, InFlight(r), ~disturbed,
             Quiet(r)
      PROVE  PagesKeepSession'
  <2>1. UNCHANGED <<kind, over>>
    BY <1>2 DEF Quiet, GetOk, GetStale, GetRefused, GetAgainOk, GetAgainRefused, RefreshRead,
       RefreshRefused, Exchange, ExchangeRefused, RefreshCommit, Handle, LogoutFind,
       LogoutNothing, LogoutRevoke, LogoutCommit, Deliver
  <2>2. QED
    BY <1>2, <2>1, PageRequest
<1>3. ASSUME NEW r \in Requests, NEW k \in Kinds, ~disturbed, Send(r, k)
      PROVE  PagesKeepSession'
  <2>1. /\ pc[r] = "idle" /\ pc' = [pc EXCEPT ![r] = "get"] /\ cookie # None
        /\ kind' = [kind EXCEPT ![r] = k] /\ sent' = [sent EXCEPT ![r] = cookie]
        /\ \A q \in Requests \ {r} : ~InFlight(q)
        /\ UNCHANGED <<row, token, aged, over, valid, cookie, setCookie>>
    BY <1>3 DEF Send, Goto
  <2>2. /\ \A q \in Requests : kind[q] = "page" /\ ~InFlight(q)
        /\ setCookie[r] = "keep"
    BY <1>0, <2>1 DEF ProgressOf, InFlight, TypeOK
  <2>3. Alive(cookie) /\ Holds(cookie)
    BY <1>3, <2>1, <2>2 DEF PagesKeepSession, Holds
  <2>4. pc'[r] = "get" /\ sent'[r] = cookie /\ \A q \in Requests \ {r} : pc'[q] = pc[q]
    BY <1>0, <2>1 DEF TypeOK
  <2>5. PageOf(r)' /\ InFlight(r)'
    BY <2>1, <2>2, <2>3, <2>4 DEF PageOf, InFlight, Alive, Holds
  <2>6. \A q \in Requests \ {r} : pc'[q] \in {"idle", "done"}
    BY <2>1, <2>4 DEF InFlight
  <2>7. QED
    BY <2>5, <2>6 DEF PagesKeepSession, PageOf, InFlight
<1>4. ASSUME ~disturbed, Time
      PROVE  PagesKeepSession'
  <2>1. /\ UNCHANGED <<row, token, valid, pc, kind, sent, fresh, setCookie>> /\ ~over
        /\ \A s \in Sids : aged[s] \subseteq aged'[s]
        /\ \A r \in Requests : pc[r] = "again" => aged'[r] = aged[r]
        /\ \/ cookie' = cookie
           \/ cookie' = None /\ cookie \in Sids /\ "idle" \in aged'[cookie]
    <3>1. ASSUME NEW s \in Sids, NEW what \in Terms, RunOut(s, what)
          PROVE  /\ UNCHANGED <<row, token, valid, pc, kind, sent, fresh, setCookie, cookie>>
                 /\ ~over
                 /\ \A x \in Sids : aged[x] \subseteq aged'[x]
                 /\ \A r \in Requests : pc[r] = "again" => aged'[r] = aged[r]
      <4>1. /\ aged' = [aged EXCEPT ![s] = aged[s] \cup {what}]
            /\ ~(s \in Requests /\ pc[s] = "again")
            /\ UNCHANGED <<row, token, valid, pc, kind, sent, fresh, setCookie, cookie, over>>
        BY <3>1 DEF RunOut
      <4>2. \A x \in Sids : aged[x] \subseteq aged'[x]
        BY <1>0, <4>1 DEF TypeOK
      <4>3. \A r \in Requests : pc[r] = "again" => aged'[r] = aged[r]
        BY <1>0, <4>1 DEF TypeOK, Sids
      <4>4. QED
        BY <4>1, <4>2, <4>3
    <3>2. CASE CookieEnds \/ AbsoluteExpiry
      BY <1>0, <3>2 DEF CookieEnds, AbsoluteExpiry, TypeOK
    <3>3. QED
      BY <1>4, <3>1, <3>2 DEF Time
  <2>2. \A s \in Sids : (Alive(s) => Alive(s)') /\ (Holds(s) => Holds(s)')
    BY <2>1 DEF Alive, Holds
  <2>3. \A r \in Requests : PageOf(r) /\ (InFlight(r) => sent[r] \in Sids) /\ r \in Sids
    BY <1>0, <1>4, <2>1 DEF PagesKeepSession, PageOf, ProgressOf, InFlight, Sids
  <2>4. \A r \in Requests : PageOf(r)'
    BY <2>1, <2>2, <2>3 DEF PageOf, InFlight
  <2>5. (\A r \in Requests : ~InFlight(r)') => \E s \in Sids : Alive(s)' /\ Holds(s)'
    BY <1>4, <2>1, <2>2 DEF PagesKeepSession, InFlight
  <2>6. QED
    BY <2>4, <2>5 DEF PagesKeepSession, PageOf
<1>5. QED
  BY <1>1, <1>2, <1>3, <1>4, QuietCases

\* The rows, the requests and the browser always agree as SessionsInv says.
THEOREM SessionsInvariant == Spec => []SessionsInv
<1>1. Init => PagesKeepSession
  BY RequestsAssumption DEF Init, PagesKeepSession, Alive, Holds, Sids
<1>2. Spec => []PagesKeepSession
  BY <1>1, PagesStep, AlwaysOrdered, AlwaysUndisturbed, PTL DEF Spec
<1>3. Ordered /\ Undisturbed /\ PagesKeepSession => SessionsInv
  BY DEF Ordered, SessionsInv
<1>4. QED
  BY <1>2, <1>3, AlwaysOrdered, AlwaysUndisturbed, PTL

\* A browser that asks for pages one at a time and meets no failure is never
\* left without a session that lives and can be refreshed.
THEOREM SerialBrowserKept == Spec => []SerialBrowserKeepsSession
<1>1. SessionsInv => SerialBrowserKeepsSession
  BY DEF SessionsInv, PagesKeepSession, SerialBrowserKeepsSession, Alive, Holds
<1>2. QED
  BY <1>1, SessionsInvariant, PTL

(* A logged out request that was not refreshed ended the only session. *)
LEMMA LogoutStep ==
    ASSUME Ordered, OneLiveSession, Undisturbed, LogoutEndsUnrefreshed, [Next]_vars
    PROVE  LogoutEndsUnrefreshed'
<1> USE RequestsAssumption DEF identity, clock, provider, browser, answers
<1> SUFFICES ASSUME NEW r \in Requests, r \in loggedOut', ~disturbed', row'[r] = "none"
             PROVE  /\ \A s \in Sids : row'[s] # "live"
                    /\ r \notin unrevoked' => \A t \in valid' : Superseded(t)'
  BY DEF LogoutEndsUnrefreshed
<1>0. TypeOK /\ \A q \in Requests : ProgressOf(q)
  BY ProgressParts DEF Ordered
<1>1. CASE UNCHANGED <<row, rotated, token, valid, unrevoked, loggedOut, disturbed>>
  BY <1>1 DEF LogoutEndsUnrefreshed, Superseded
<1>2. ASSUME NEW q \in Requests, InFlight(q), ~disturbed,
             GetRefused(q) \/ GetAgainRefused(q) \/ RefreshRefused(q) \/ ExchangeRefused(q)
      PROVE  UNCHANGED <<row, rotated, token, valid, unrevoked, loggedOut, disturbed>>
  <2>1. Answer(q, 401, "clear") /\ UNCHANGED <<row, rotated, token, valid, unrevoked, disturbed>>
    BY <1>2 DEF GetRefused, GetAgainRefused, RefreshRefused, ExchangeRefused
  <2>2. QED
    BY <2>1, AnswerCases
<1>3. ASSUME NEW q \in Requests, Handle(q)
      PROVE  UNCHANGED <<row, rotated, token, valid, unrevoked, loggedOut, disturbed>>
  <2>1. CASE kind[q] = "page"
    BY <1>3, <2>1, AnswerCases DEF Handle
  <2>2. CASE kind[q] = "refresh" \/ kind[q] = "logout"
    BY <1>3, <2>2 DEF Handle
  <2>3. QED
    BY <1>0, <2>1, <2>2 DEF TypeOK, Kinds
<1>4. ASSUME NEW q \in Requests, InFlight(q), ~disturbed,
             Exchange(q) \/ RefreshCommit(q) \/ LogoutRevoke(q)
      PROVE  FALSE
  <2>1. OnlyOne(q) /\ UndisturbedOf(q)
    BY <1>4, AloneInFlight
  <2>2. loggedOut' = loggedOut /\ pc[q] \notin {"answered", "done"}
    BY <1>4 DEF Exchange, RefreshCommit, LogoutRevoke, At
  <2>3. QED
    BY <2>1, <2>2 DEF OnlyOne, UndisturbedOf
<1>5. ASSUME NEW q \in Requests, InFlight(q), ~disturbed, LogoutNothing(q) \/ LogoutCommit(q)
      PROVE  /\ \A s \in Sids : row'[s] # "live"
             /\ r \notin unrevoked' => \A t \in valid' : Superseded(t)'
  <2>1. OnlyOne(q) /\ UndisturbedOf(q) /\ crossed = {} /\ ProgressOf(q)
    BY <1>0, <1>5, AloneInFlight
  <2>2. /\ Answer(q, 204, "clear") /\ pc[q] \in {"find", "end"}
        /\ UNCHANGED <<token, valid, unrevoked>>
    BY <1>5 DEF LogoutNothing, LogoutCommit
  <2>3. r = q
    <3>1. loggedOut' \in {loggedOut, loggedOut \cup {q}}
      BY <2>2, AnswerCases DEF Replies
    <3>2. QED
      BY <2>1, <3>1 DEF OnlyOne
  <2>4. CASE LogoutNothing(q)
    BY <2>1, <2>3, <2>4 DEF LogoutNothing, UndisturbedOf
  <2>5. CASE LogoutCommit(q)
    <3>1. /\ row[sent[q]] = "live" /\ sent[q] \in Sids
          /\ q \notin unrevoked => \A t \in valid : Superseded(t)
      BY <2>1, <2>5 DEF LogoutCommit, ProgressOf, UndisturbedOf, Updating
    <3>2. \A s \in Sids : row[s] = "live" => s = sent[q]
      BY <2>1, <3>1 DEF OneLiveSession
    <3>3. rotated' = rotated
      BY <1>0, <2>5, <3>1 DEF LogoutCommit, TypeOK, Ordered, Lineage
    <3>4. \A s \in Sids : row'[s] # "live"
      BY <1>0, <2>5, <3>1, <3>2 DEF LogoutCommit, TypeOK
    <3>5. QED
      BY <2>2, <2>3, <3>1, <3>3, <3>4 DEF Superseded
  <2>6. QED
    BY <1>5, <2>4, <2>5
<1>6. CASE Next
  <2>1. ASSUME NEW q \in Requests, NEW k \in Kinds, ~disturbed, Send(q, k)
        PROVE  UNCHANGED <<row, rotated, token, valid, unrevoked, loggedOut, disturbed>>
    BY <1>0, <2>1 DEF Send, TypeOK
  <2>2. ASSUME ~disturbed, Time
        PROVE  UNCHANGED <<row, rotated, token, valid, unrevoked, loggedOut, disturbed>>
    BY <1>0, <2>2 DEF Time, RunOut, CookieEnds, AbsoluteExpiry, TypeOK
  <2>3. ASSUME NEW q \in Requests, GetOk(q) \/ GetStale(q) \/ GetAgainOk(q) \/ RefreshRead(q)
                                   \/ LogoutFind(q) \/ Deliver(q)
        PROVE  UNCHANGED <<row, rotated, token, valid, unrevoked, loggedOut, disturbed>>
    BY <2>3 DEF GetOk, GetStale, GetAgainOk, RefreshRead, LogoutFind, Deliver
  <2>4. QED
    BY <1>1, <1>2, <1>3, <1>4, <1>5, <1>6, <2>1, <2>2, <2>3, QuietCases DEF Quiet
<1>7. QED
  BY <1>1, <1>6 DEF vars

\* A logout that nothing disturbed and that no refresh preceded leaves no
\* session alive and, unless it found no revocation endpoint, no refresh token
\* usable but those the provider accepts beside their successor.
THEOREM UnrefreshedLogoutEnds == Spec => []LogoutEndsUnrefreshed
<1>1. Init => LogoutEndsUnrefreshed
  BY DEF Init, LogoutEndsUnrefreshed
<1>2. QED
  BY <1>1, LogoutStep, AlwaysOrdered, OneSessionLives, AlwaysUndisturbed, PTL DEF Spec

=============================================================================
