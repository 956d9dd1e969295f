---------------------------- MODULE WebSessions ----------------------------
(***************************************************************************)
(* One browser, the session middleware of the BFF, and the session table   *)
(* of the identity service.                                                *)
(*                                                                         *)
(* A request carries the cookie the browser holds when it is sent.  The    *)
(* middleware asks the identity service for the session; when its access   *)
(* token is about to end, or it has been idle too long, the middleware     *)
(* refreshes it: a new row replaces the old one, and the answer will carry *)
(* a new cookie.  Then the handler runs, on the cookie of the request.     *)
(* Every refresh is a read, an exchange with the identity provider and a   *)
(* commit; answers reach the browser in any order.                         *)
(*                                                                         *)
(* The session of the login is Root; a session made by a refresh is named  *)
(* by the request that refreshed: a request makes one at most, because     *)
(* both of its refreshes are of the session it was sent with.              *)
(* A refresh token is named by the session it was first given to.          *)
(***************************************************************************)
EXTENDS Naturals, FiniteSets

CONSTANTS
    Requests,  \* requests of the browser
    Root,      \* the session created by the login
    None,      \* no session: an empty cookie, a row that was not rotated
    MaxInFlight, \* bound: requests the browser has in flight at a time
    MaxRunOuts  \* bound: how often a token or the idle time runs out

ASSUME RequestsAssumption ==
    /\ Root \notin Requests
    /\ None \notin Requests \cup {Root}
    /\ {"clear", "keep"} \cap (Requests \cup {Root}) = {}
    /\ MaxInFlight \in Nat \ {0}
    /\ MaxRunOuts \in Nat

Sids == Requests \cup {Root}

VARIABLES
    row,        \* revoked_at of each session, or that there is no such row
    rotated,    \* rotated_to_session_id
    token,      \* the refresh token stored with each session
    aged,       \* what has run out in a session: "access" token, "idle" time
    over,       \* absolute_expires_at has passed; refreshes hand it on
    valid,      \* the refresh tokens the identity provider accepts
    cookie,     \* what the browser holds
    pc, kind,   \* where each request is, and which operation it asks for
    sent,       \* the session it carries
    fresh,      \* the refresh token its refresh received
    setCookie,  \* the last Set-Cookie of its answer: a session, "clear", "keep"
    loggedOut,  \* the requests answered 204, that is, the logouts
    unrevoked,  \* history: logouts that found no revocation endpoint
    crossed,    \* history: sessions of which two updates overlapped
    disturbed   \* history: something failed, requests overlapped, or a session
                \* ran out within the request that had made it

identity == <<row, rotated, token>>
clock == <<aged, over>>
provider == <<valid, unrevoked>>
browser == <<cookie, kind, sent>>
answers == <<setCookie, loggedOut>>
vars == <<row, rotated, token, aged, over, valid, cookie, pc, kind, sent,
          fresh, setCookie, loggedOut, unrevoked, crossed, disturbed>>

Terms == {"access", "idle"}
Kinds == {"page", "refresh", "logout"}

\* Middleware: get, read1, exchange1, rotate1, again.  Handler: handler,
\* read2, exchange2, rotate2 for refresh; find, revoke, end for logout.
Labels == {"idle", "get", "read1", "exchange1", "rotate1", "again", "handler",
           "read2", "exchange2", "rotate2", "find", "revoke", "end",
           "answered", "done"}

TypeOK ==
    /\ row \in [Sids -> {"none", "live", "revoked"}]
    /\ rotated \in [Sids -> Sids \cup {None}]
    /\ token \in [Sids -> Sids]
    /\ aged \in [Sids -> SUBSET Terms]
    /\ over \in BOOLEAN
    /\ valid \subseteq Sids
    /\ cookie \in Sids \cup {None}
    /\ pc \in [Requests -> Labels]
    /\ kind \in [Requests -> Kinds]
    /\ sent \in [Requests -> Sids \cup {None}]
    /\ fresh \in [Requests -> Sids \cup {None}]
    /\ setCookie \in [Requests -> Sids \cup {"clear", "keep"}]
    /\ loggedOut \subseteq Requests
    /\ unrevoked \subseteq Requests
    /\ crossed \subseteq Sids
    /\ disturbed \in BOOLEAN

\* A browser that has just logged in: createSession has stored Root.
Init ==
    /\ row = [s \in Sids |-> IF s = Root THEN "live" ELSE "none"]
    /\ rotated = [s \in Sids |-> None]
    /\ token = [s \in Sids |-> s]
    /\ aged = [s \in Sids |-> {}]
    /\ over = FALSE
    /\ valid = {Root}
    /\ cookie = Root
    /\ pc = [r \in Requests |-> "idle"]
    /\ kind = [r \in Requests |-> "page"]
    /\ sent = [r \in Requests |-> None]
    /\ fresh = [r \in Requests |-> None]
    /\ setCookie = [r \in Requests |-> "keep"]
    /\ loggedOut = {}
    /\ unrevoked = {}
    /\ crossed = {}
    /\ disturbed = FALSE

-----------------------------------------------------------------------------
(* What the steps share. *)

Goto(r, label) == pc' = [pc EXCEPT ![r] = label]

\* The answer of r, and the cookie it sets on top of what the middleware has
\* set; the browser obeys the last Set-Cookie.
Answer(r, code, effect) ==
    /\ Goto(r, "answered")
    /\ loggedOut' = IF code = 204 THEN loggedOut \cup {r} ELSE loggedOut
    /\ setCookie' = [setCookie EXCEPT ![r] = IF effect = "keep" THEN @ ELSE effect]

\* The request is over, and what it held is gone.
End(r) ==
    /\ Goto(r, "done")
    /\ fresh' = [fresh EXCEPT ![r] = None]
    /\ setCookie' = [setCookie EXCEPT ![r] = "keep"]

InFlight(r) == pc[r] \notin {"idle", "done"}

\* Requests that are between the read and the commit of an update of s.
Updating(s) ==
    {r \in Requests : /\ sent[r] = s
                      /\ pc[r] \in {"exchange1", "rotate1", "exchange2", "rotate2",
                                    "revoke", "end"}}

ReadForUpdate(s) == crossed' = IF Updating(s) = {} THEN crossed ELSE crossed \cup {s}

(* Faulty variants of definitions below, each a mistake that some property *)
(* must notice.                                                            *)

\* The old session is not revoked when its successor is stored.
FaultyRotate(r) ==
    /\ row' = [row EXCEPT ![r] = "live"]
    /\ rotated' = [rotated EXCEPT ![sent[r]] = r]
    /\ token' = [token EXCEPT ![r] = fresh[r]]

\* The successor keeps the refresh token of the old session.
FaultyRotateToken(r) ==
    /\ row' = [row EXCEPT ![r] = "live", ![sent[r]] = "revoked"]
    /\ rotated' = [rotated EXCEPT ![sent[r]] = r]
    /\ token' = [token EXCEPT ![r] = token[sent[r]]]

\* The update of the old session is saved, the successor is not.
FaultyRotateOrder(r) ==
    /\ row' = [row EXCEPT ![sent[r]] = "revoked"]
    /\ rotated' = [rotated EXCEPT ![sent[r]] = r]
    /\ token' = [token EXCEPT ![r] = fresh[r]]

\* logout revokes the token and forgets the row.
FaultyLogoutCommit(r) ==
    /\ pc[r] = "end"
    /\ Answer(r, 204, "clear")
    /\ UNCHANGED <<identity, clock, provider, browser, fresh, crossed, disturbed>>

-----------------------------------------------------------------------------
(* The browser. *)

\* A new request: a page or an API call, the refresh, or the logout.
Send(r, k) ==
    /\ pc[r] = "idle"
    /\ cookie # None
    /\ Cardinality({q \in Requests : InFlight(q)}) < MaxInFlight
    /\ Goto(r, "get")
    /\ kind' = [kind EXCEPT ![r] = k]
    /\ sent' = [sent EXCEPT ![r] = cookie]
    /\ disturbed' = (disturbed \/ \E q \in Requests \ {r} : InFlight(q))
    /\ UNCHANGED <<identity, clock, provider, cookie, fresh, answers, crossed>>

\* An answer arrives, in any order, and its Set-Cookie takes effect.
Deliver(r) ==
    /\ pc[r] = "answered"
    /\ End(r)
    /\ cookie' = CASE setCookie[r] = "clear" -> None
                   [] setCookie[r] = "keep" -> cookie
                   [] OTHER -> setCookie[r]
    /\ UNCHANGED <<identity, clock, provider, kind, sent, loggedOut, crossed, disturbed>>

\* The connection is gone before the answer arrives.
LoseAnswer(r) ==
    /\ pc[r] = "answered"
    /\ End(r)
    /\ disturbed' = TRUE
    /\ UNCHANGED <<identity, clock, provider, browser, loggedOut, crossed>>

-----------------------------------------------------------------------------
(* AuthSession: GetSessionInfo, and a refresh when it is needed. *)

GetOk(r) ==
    /\ pc[r] = "get"
    /\ row[sent[r]] = "live"
    /\ aged[sent[r]] = {}
    /\ ~over
    /\ Goto(r, "handler")
    /\ UNCHANGED <<identity, clock, provider, browser, fresh, answers, crossed, disturbed>>

\* SESSION_EXPIRED, which is tested before the absolute expiry, or an access
\* token that is missing or ends within skewSeconds.
GetStale(r) ==
    /\ pc[r] = "get"
    /\ row[sent[r]] = "live"
    /\ "idle" \in aged[sent[r]] \/ (~over /\ "access" \in aged[sent[r]])
    /\ Goto(r, "read1")
    /\ UNCHANGED <<identity, clock, provider, browser, fresh, answers, crossed, disturbed>>

\* SESSION_REVOKED, or SESSION_ABSOLUTE_EXPIRED.
GetRefused(r) ==
    /\ pc[r] = "get"
    /\ \/ row[sent[r]] # "live"
       \/ over /\ "idle" \notin aged[sent[r]]
    /\ Answer(r, 401, "clear")
    /\ UNCHANGED <<identity, clock, provider, browser, fresh, crossed, disturbed>>

\* The call fails.  The cookie is left alone, unless the failure is told as
\* Unauthenticated, which reads as a session that is revoked.
GetUnavailable(r) ==
    /\ pc[r] = "get"
    /\ Answer(r, 503, "keep") \/ Answer(r, 401, "clear")
    /\ disturbed' = TRUE
    /\ UNCHANGED <<identity, clock, provider, browser, fresh, crossed>>

\* The session is asked for again under its new id.
GetAgainOk(r) ==
    /\ pc[r] = "again"
    /\ row[r] = "live"
    /\ "idle" \notin aged[r]
    /\ ~over
    /\ Goto(r, "handler")
    /\ UNCHANGED <<identity, clock, provider, browser, fresh, answers, crossed, disturbed>>

GetAgainRefused(r) ==
    /\ pc[r] = "again"
    /\ row[r] # "live" \/ "idle" \in aged[r] \/ over
    /\ Answer(r, 401, "clear")
    /\ UNCHANGED <<identity, clock, provider, browser, fresh, crossed, disturbed>>

GetAgainFails(r) ==
    /\ pc[r] = "again"
    /\ Answer(r, 401, "clear")
    /\ disturbed' = TRUE
    /\ UNCHANGED <<identity, clock, provider, browser, fresh, crossed>>

-----------------------------------------------------------------------------
(* SessionService.refresh, called by the middleware (stage 1) and by the   *)
(* handler of the refresh operation (stage 2).                             *)

At(r, one, two) == pc[r] \in {one, two}
Follow(r, one, next1, next2) == Goto(r, IF pc[r] = one THEN next1 ELSE next2)

RefreshRead(r) ==
    /\ At(r, "read1", "read2")
    /\ row[sent[r]] = "live"
    /\ ~over
    /\ ReadForUpdate(sent[r])
    /\ Follow(r, "read1", "exchange1", "exchange2")
    /\ UNCHANGED <<identity, clock, provider, browser, fresh, answers, disturbed>>

RefreshRefused(r) ==
    /\ At(r, "read1", "read2")
    /\ row[sent[r]] # "live" \/ over
    /\ Answer(r, 401, "clear")
    /\ UNCHANGED <<identity, clock, provider, browser, fresh, crossed, disturbed>>

\* The identity provider may leave the field of the refresh token empty or
\* hand out a new one, and then end the old one or go on accepting it.
Exchange(r) ==
    /\ At(r, "exchange1", "exchange2")
    /\ token[sent[r]] \in valid
    /\ \/ /\ fresh' = [fresh EXCEPT ![r] = token[sent[r]]]
          /\ UNCHANGED valid
       \/ /\ fresh' = [fresh EXCEPT ![r] = r]
          /\ \E kept \in SUBSET {token[sent[r]]} :
                 valid' = (valid \ {token[sent[r]]}) \cup kept \cup {r}
    /\ Follow(r, "exchange1", "rotate1", "rotate2")
    /\ UNCHANGED <<identity, clock, browser, unrevoked, answers, crossed, disturbed>>

ExchangeRefused(r) ==
    /\ At(r, "exchange1", "exchange2")
    /\ token[sent[r]] \notin valid
    /\ Answer(r, 401, "clear")
    /\ UNCHANGED <<identity, clock, provider, browser, fresh, crossed, disturbed>>

\* The two writes of the transaction.  Rows have no version: whoever commits
\* last has written the old row.
Rotate(r) ==
    /\ row' = [row EXCEPT ![r] = "live", ![sent[r]] = "revoked"]
    /\ rotated' = [rotated EXCEPT ![sent[r]] = r]
    /\ token' = [token EXCEPT ![r] = fresh[r]]

RefreshCommit(r) ==
    /\ At(r, "rotate1", "rotate2")
    /\ Rotate(r)
    /\ setCookie' = [setCookie EXCEPT ![r] = r]
    /\ Follow(r, "rotate1", "again", "answered")
    /\ UNCHANGED <<clock, provider, browser, fresh, loggedOut, crossed, disturbed>>

\* The call fails anywhere on its way: nothing is stored, though the provider
\* may have replaced the token.
RefreshFails(r) ==
    /\ pc[r] \in {"read1", "exchange1", "rotate1", "read2", "exchange2", "rotate2"}
    /\ Answer(r, 401, "clear")
    /\ disturbed' = TRUE
    /\ UNCHANGED <<identity, clock, provider, browser, fresh, crossed>>

\* The new session is stored, but the caller does not hear of it.
RefreshUnheard(r) ==
    /\ At(r, "rotate1", "rotate2")
    /\ Rotate(r)
    /\ Answer(r, 401, "clear")
    /\ disturbed' = TRUE
    /\ UNCHANGED <<clock, provider, browser, fresh, crossed>>

-----------------------------------------------------------------------------
(* The handlers, which read the cookie of the request again. *)

Handle(r) ==
    /\ pc[r] = "handler"
    /\ CASE kind[r] = "page"    -> Answer(r, 200, "keep")
         [] kind[r] = "refresh" -> Goto(r, "read2") /\ UNCHANGED answers
         [] kind[r] = "logout"  -> Goto(r, "find") /\ UNCHANGED answers
    /\ UNCHANGED <<identity, clock, provider, browser, fresh, crossed, disturbed>>

\* Before the handlers: a user who is not ACTIVE, or the CSRF middleware.
Forbidden(r) ==
    /\ pc[r] = "handler"
    /\ Answer(r, 403, "keep")
    /\ disturbed' = TRUE
    /\ UNCHANGED <<identity, clock, provider, browser, fresh, crossed>>

\* SessionService.logout: a revoked session is left as it is.
LogoutFind(r) ==
    /\ pc[r] = "find"
    /\ row[sent[r]] = "live"
    /\ ReadForUpdate(sent[r])
    /\ Goto(r, "revoke")
    /\ UNCHANGED <<identity, clock, provider, browser, fresh, answers, disturbed>>

LogoutNothing(r) ==
    /\ pc[r] = "find"
    /\ row[sent[r]] # "live"
    /\ Answer(r, 204, "clear")
    /\ UNCHANGED <<identity, clock, provider, browser, fresh, crossed, disturbed>>

\* Where the metadata of the provider name no revocation endpoint, nothing is
\* revoked and logout goes on.  Each instance keeps metadata of its own.
LogoutRevoke(r) ==
    /\ pc[r] = "revoke"
    /\ \/ valid' = valid \ {token[sent[r]]} /\ UNCHANGED unrevoked
       \/ unrevoked' = unrevoked \cup {r} /\ UNCHANGED valid
    /\ Goto(r, "end")
    /\ UNCHANGED <<identity, clock, browser, fresh, answers, crossed, disturbed>>

\* The whole row is written as it was read, without a successor.
LogoutCommit(r) ==
    /\ pc[r] = "end"
    /\ row' = [row EXCEPT ![sent[r]] = "revoked"]
    /\ rotated' = [rotated EXCEPT ![sent[r]] = None]
    /\ Answer(r, 204, "clear")
    /\ UNCHANGED <<token, clock, provider, browser, fresh, crossed, disturbed>>

\* The BFF ignores the result of the call.
LogoutFails(r) ==
    /\ pc[r] \in {"find", "revoke", "end"}
    /\ Answer(r, 204, "clear")
    /\ disturbed' = TRUE
    /\ UNCHANGED <<identity, clock, provider, browser, fresh, crossed>>

-----------------------------------------------------------------------------
(* Time. *)

RunOut(s, what) ==
    /\ row[s] = "live"
    /\ what \notin aged[s]
    /\ Cardinality({x \in Sids \X Terms : x[2] \in aged[x[1]]}) < MaxRunOuts
    /\ aged' = [aged EXCEPT ![s] = @ \cup {what}]
    /\ disturbed' = (disturbed \/ (s \in Requests /\ pc[s] = "again"))
    /\ UNCHANGED <<identity, over, provider, browser, pc, fresh, answers, crossed>>

\* The cookie is set for as long as its session may be idle.
CookieEnds ==
    /\ cookie # None
    /\ "idle" \in aged[cookie]
    /\ cookie' = None
    /\ UNCHANGED <<identity, clock, provider, kind, sent, pc, fresh, answers, crossed, disturbed>>

AbsoluteExpiry ==
    /\ ~over
    /\ over' = TRUE
    /\ UNCHANGED <<identity, aged, provider, browser, pc, fresh, answers, crossed, disturbed>>

-----------------------------------------------------------------------------
Next ==
    \/ \E r \in Requests, k \in Kinds : Send(r, k)
    \/ \E r \in Requests :
        \/ Deliver(r) \/ LoseAnswer(r)
        \/ GetOk(r) \/ GetStale(r) \/ GetRefused(r) \/ GetUnavailable(r)
        \/ GetAgainOk(r) \/ GetAgainRefused(r) \/ GetAgainFails(r)
        \/ RefreshRead(r) \/ RefreshRefused(r)
        \/ Exchange(r) \/ ExchangeRefused(r)
        \/ RefreshCommit(r) \/ RefreshFails(r) \/ RefreshUnheard(r)
        \/ Handle(r) \/ Forbidden(r)
        \/ LogoutFind(r) \/ LogoutNothing(r) \/ LogoutRevoke(r)
        \/ LogoutCommit(r) \/ LogoutFails(r)
    \/ \E s \in Sids, what \in Terms : RunOut(s, what)
    \/ CookieEnds
    \/ AbsoluteExpiry

Spec == Init /\ [][Next]_vars

-----------------------------------------------------------------------------
(* Properties. *)

\* Rotation leaves a trace: a session that exists was stored by a refresh of a
\* session that is revoked by now, and unless two updates of that one
\* overlapped, it is its only successor and named as such.  Only a revoked
\* session names a successor, one that exists.
Lineage ==
    /\ \A r \in Requests : row[r] # "none" =>
        /\ row[sent[r]] = "revoked"
        /\ sent[r] \notin crossed =>
            /\ rotated[sent[r]] = r
            /\ \A q \in Requests : row[q] # "none" /\ sent[q] = sent[r] => q = r
    /\ \A s \in Sids : rotated[s] # None =>
        /\ row[s] = "revoked"
        /\ rotated[s] \in Sids /\ row[rotated[s]] # "none"

\* A cookie names a session that was made, and is only set to the session that
\* this request made.  An update is under way on a session that lives, and its
\* successor does not exist, unless another update of it crossed.
Progress ==
    /\ cookie # None => row[cookie] # "none"
    /\ \A r \in Requests :
        /\ pc[r] # "idle" => sent[r] \in Sids /\ row[sent[r]] # "none"
        /\ pc[r] \in {"idle", "get", "read1", "exchange1", "rotate1", "exchange2", "rotate2",
                      "revoke", "end"} => row[r] = "none"
        /\ r \in Updating(sent[r]) /\ sent[r] \notin crossed => row[sent[r]] = "live"
        /\ pc[r] = "again" => row[r] # "none"
        /\ pc[r] = "idle" => kind[r] = "page" /\ setCookie[r] = "keep"
        /\ pc[r] \in {"read2", "exchange2", "rotate2"} => kind[r] = "refresh"
        /\ pc[r] \in {"find", "revoke", "end"} => kind[r] = "logout"
        /\ pc[r] \in {"rotate1", "rotate2"} => fresh[r] \in Sids
        /\ setCookie[r] \in {"clear", "keep", r}
        /\ setCookie[r] = r => row[r] # "none"
        /\ row[r] = "none" => aged[r] = {}
    /\ \A s \in Sids : \A q, r \in Updating(s) : q = r \/ s \in crossed

\* A token whose session was replaced by one that has another token.
Superseded(t) ==
    \E s \in Sids : rotated[s] # None /\ token[s] = t /\ token[rotated[s]] # t

\* While nothing disturbs, one request is in flight and what it found still
\* holds; the tokens the provider accepts are that of the living session, or
\* the one a refresh has just received, and those it went on accepting beside
\* their successor; and a logout ends the conversation.
Undisturbed ==
    ~disturbed =>
        /\ crossed = {}
        /\ \A q, r \in Requests : InFlight(q) /\ InFlight(r) => q = r
        /\ \A r \in Requests :
            /\ pc[r] \in {"handler", "read2", "find"} /\ row[r] = "none"
                   => row[sent[r]] = "live"
            /\ pc[r] \in {"rotate1", "rotate2"} =>
                   \A t \in valid : t \in {fresh[r], token[sent[r]]} \/ Superseded(t)
            /\ pc[r] = "end" /\ r \notin unrevoked => \A t \in valid : Superseded(t)
            /\ r \in unrevoked => pc[r] = "end" \/ r \in loggedOut
            /\ r \in loggedOut =>
                /\ pc[r] \in {"answered", "done"}
                /\ pc[r] = "answered" => setCookie[r] = "clear"
                /\ pc[r] = "done" => cookie = None /\ \A q \in Requests : ~InFlight(q)
        /\ unrevoked = {} /\ (\A r \in Requests : pc[r] \notin {"rotate1", "rotate2"}) =>
               \A t \in valid :
                   Superseded(t) \/ \E s \in Sids : row[s] = "live" /\ token[s] = t

\* What a browser that asks for pages, one at a time, has in its hands.
Alive(s) == row[s] = "live" /\ token[s] \in valid
Holds(s) == cookie = s \/ (cookie = None /\ "idle" \in aged[s])

PagesKeepSession ==
    ~disturbed /\ ~over /\ (\A r \in Requests : kind[r] = "page") =>
        /\ (\A r \in Requests : ~InFlight(r)) => \E s \in Sids : Alive(s) /\ Holds(s)
        /\ \A r \in Requests :
            /\ pc[r] \in {"get", "read1", "exchange1"}
                   => Alive(sent[r]) /\ Holds(sent[r]) /\ setCookie[r] = "keep"
            /\ pc[r] = "rotate1" => fresh[r] \in valid /\ setCookie[r] = "keep"
            /\ pc[r] = "again" => Alive(r) /\ aged[r] = {} /\ setCookie[r] = r
            /\ pc[r] \in {"handler", "answered"} =>
                   \/ setCookie[r] = r /\ Alive(r)
                   \/ setCookie[r] = "keep" /\ Alive(sent[r]) /\ Holds(sent[r])

SessionsInv == TypeOK /\ Lineage /\ Progress /\ Undisturbed /\ PagesKeepSession

\* The login has one living session, whatever requests are under way, fail or
\* cross, unless two updates of one session overlapped.
OneLiveSession ==
    crossed = {} => \A s, t \in Sids : row[s] = "live" /\ row[t] = "live" => s = t

\* A browser that sends one request at a time and meets no failure keeps a
\* session that lives and can be refreshed, until it asks for the explicit
\* refresh or logs out, or the login reaches its absolute expiry; a browser
\* without a cookie has a session that was idle for too long.
SerialBrowserKeepsSession ==
    /\ ~disturbed /\ ~over
    /\ \A r \in Requests : kind[r] = "page" /\ ~InFlight(r)
    => \E s \in Sids :
        /\ cookie = s \/ (cookie = None /\ "idle" \in aged[s])
        /\ row[s] = "live"
        /\ token[s] \in valid

\* A logout that nothing disturbed and that the middleware did not precede with
\* a refresh leaves no session alive; and if the identity service knew where to
\* revoke, no refresh token is left usable but those the provider itself went
\* on accepting after it had replaced them.
LogoutEndsUnrefreshed ==
    \A r \in Requests :
        /\ r \in loggedOut /\ ~disturbed /\ row[r] = "none"
        => /\ \A s \in Sids : row[s] # "live"
           /\ r \notin unrevoked => \A t \in valid : Superseded(t)

\* Logout "tries to invalidate the session upstream" (session/handler.go): one
\* that nothing disturbed leaves no session alive.
LogoutEndsSession ==
    \A r \in Requests :
        r \in loggedOut /\ ~disturbed => \A s \in Sids : row[s] # "live"

=============================================================================
