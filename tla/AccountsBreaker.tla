--------------------------- MODULE AccountsBreaker --------------------------
(***************************************************************************)
(* The circuit breaker every call of the ledger to Accounts goes through   *)
(* (AccountsGRPCGateway): validation, ReserveHold and ReleaseHold share    *)
(* one breaker, so a run of failed validations also holds up the releases  *)
(* that compensate failed payments.                                        *)
(*                                                                         *)
(* The breaker is gobreaker (external), set up by the gateway.  It counts  *)
(* per generation: every change of state, and every Interval while it is   *)
(* closed, starts a new one, and the result of a call begun in an older    *)
(* generation is ignored.  It looks at the clock only when a call begins   *)
(* or ends, hence the variable due.  A caller is a goroutine of the        *)
(* ledger that calls Accounts again and again, for any payment.            *)
(***************************************************************************)
EXTENDS Integers, FiniteSets

CONSTANTS
    Callers,
    MaxRequests,   \* calls a half-open breaker lets through, and closes after
    MaxFailures    \* consecutive failures that open a closed breaker

ASSUME BreakerAssumption ==
    /\ IsFiniteSet(Callers)
    /\ MaxRequests \in Nat \ {0}
    /\ MaxFailures \in Nat \ {0}

VARIABLES
    up,         \* does Accounts answer, and accept what it is asked
    flying,     \* the callers that wait for Accounts
    current,    \* those whose call began in the breaker's current generation
    breaker     \* [state, due, requests, successes, failures]

breakerVars == <<up, flying, current, breaker>>

States == {"closed", "open", "half_open"}

BreakerTypeOK ==
    /\ up \in BOOLEAN
    /\ flying \subseteq Callers
    /\ current \subseteq flying
    /\ breaker \in [state : States, due : BOOLEAN, requests : 0 .. MaxRequests,
                    successes : 0 .. MaxRequests - 1, failures : 0 .. MaxFailures - 1]

\* A new generation: the counts are cleared and the expiry is set anew.
Generation(state) ==
    [state |-> state, due |-> FALSE, requests |-> 0, successes |-> 0, failures |-> 0]

BreakerInit ==
    /\ up = TRUE
    /\ flying = {}
    /\ current = {}
    /\ breaker = Generation("closed")

\* currentState: what the breaker is once it has looked at the clock.
Looked ==
    IF ~breaker.due THEN breaker
    ELSE Generation(IF breaker.state = "open" THEN "half_open" ELSE "closed")

\* The calls that belong to the generation of a breaker that looked.
CurrentLooked == IF breaker.due THEN {} ELSE current

\* The Interval of a closed breaker or the Timeout of an open one runs out.
Expire ==
    /\ breaker.state # "half_open"
    /\ ~breaker.due
    /\ breaker' = [breaker EXCEPT !.due = TRUE]
    /\ UNCHANGED <<up, flying, current>>

\* Fault: a half-open breaker lets everything through.
FaultyTurnsAway(b) == b.state = "open"

\* beforeRequest: does the breaker b turn the call away.
TurnsAway(b) ==
    \/ b.state = "open"
    \/ b.state = "half_open" /\ b.requests >= MaxRequests

\* Only the requests of a half-open breaker are ever looked at.
Counted(b) ==
    IF b.state = "half_open" THEN [b EXCEPT !.requests = @ + 1] ELSE b

Call(c) ==
    /\ c \notin flying
    /\ ~TurnsAway(Looked)
    /\ flying' = flying \cup {c}
    /\ current' = CurrentLooked \cup {c}
    /\ breaker' = Counted(Looked)
    /\ UNCHANGED up

\* ErrOpenState or ErrTooManyRequests: Accounts is not asked.
Refuse(c) ==
    /\ c \notin flying
    /\ TurnsAway(Looked)
    /\ current' = CurrentLooked
    /\ breaker' = Looked
    /\ UNCHANGED <<up, flying>>

\* Fault: a success in the half-open state is not counted.
FaultySucceeded(b) == IF b.state = "closed" THEN [b EXCEPT !.failures = 0] ELSE b

\* onSuccess.
Succeeded(b) ==
    IF b.state = "closed" THEN [b EXCEPT !.failures = 0]
    ELSE IF b.successes + 1 >= MaxRequests THEN Generation("closed")
    ELSE [b EXCEPT !.successes = @ + 1]

\* onFailure and ReadyToTrip.
Failed(b) ==
    IF b.state = "closed" /\ b.failures + 1 < MaxFailures
    THEN [b EXCEPT !.failures = @ + 1]
    ELSE Generation("open")

\* Fault: the result counts whatever generation the call began in.
FaultyCounts(c) == TRUE

\* afterRequest: does the result of the call count.
Counts(c) == c \in CurrentLooked

\* The breaker and its generation after a result that turned Looked into b.
Settle(c, b) ==
    /\ flying' = flying \ {c}
    /\ breaker' = b
    /\ current' = IF b.state = Looked.state THEN CurrentLooked \ {c} ELSE {}
    /\ UNCHANGED up

Answered(c) ==
    /\ c \in flying
    /\ up
    /\ Settle(c, IF Counts(c) THEN Succeeded(Looked) ELSE Looked)

\* The deadline of the gateway, an outage, or any error status of Accounts, a
\* refused request included: gobreaker takes every error for a failure.
Errored(c) ==
    /\ c \in flying
    /\ ~up
    /\ Settle(c, IF Counts(c) THEN Failed(Looked) ELSE Looked)

\* Accounts (external) goes down, or callers begin to ask what it refuses.
GoesDown == up /\ up' = FALSE /\ UNCHANGED <<flying, current, breaker>>

ComesBack == ~up /\ up' = TRUE /\ UNCHANGED <<flying, current, breaker>>

BreakerNext ==
    \/ Expire \/ GoesDown \/ ComesBack
    \/ \E c \in Callers : Call(c) \/ Refuse(c) \/ Answered(c) \/ Errored(c)

BreakerSpec == BreakerInit /\ [][BreakerNext]_breakerVars

\* Time passes, every call ends by the gateway's deadline, and callers go on
\* calling (the environment's part); nothing is promised about Accounts.
Fairness ==
    /\ WF_breakerVars(Expire)
    /\ \A c \in Callers :
           /\ WF_breakerVars(Call(c) \/ Refuse(c))
           /\ WF_breakerVars(Answered(c) \/ Errored(c))

FairBreakerSpec == BreakerSpec /\ Fairness

-----------------------------------------------------------------------------
\* A half-open breaker accounts for every call it let through: it succeeded or
\* it is still under way.  So at most MaxRequests calls probe Accounts, and a
\* breaker that turns calls away waits for one that will move it: it is never
\* stuck half-open with its quota used up.
ProbesAccountedFor ==
    breaker.state = "half_open" =>
        /\ breaker.requests = breaker.successes + Cardinality(current)
        /\ breaker.requests = MaxRequests => current # {}

\* An open breaker has no call of its own generation, so nothing but the clock
\* moves it, however many old calls still fail or succeed.
OpenWaitsForClock == breaker.state = "open" => current = {}

BreakerInv == BreakerTypeOK /\ ProbesAccountedFor /\ OpenWaitsForClock

\* Three failures in a row, all of calls begun since the breaker last changed
\* or last forgot, are what opens a closed breaker; late failures of calls
\* begun before never do.
OpensOnOwnFailures ==
    [][breaker.state = "closed" /\ breaker'.state = "open" =>
           /\ breaker.failures = MaxFailures - 1
           /\ \E c \in current : c \notin flying']_breakerVars

\* Once Accounts answers for good, the breaker closes for good, whatever it
\* went through and whatever calls are still on their way.
Recovers == <>[]up => <>[](breaker.state = "closed")

=============================================================================
