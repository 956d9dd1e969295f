----------------------------- MODULE Statements -----------------------------
(***************************************************************************)
(* The statement of an account: the ledger's query of the journals that    *)
(* touch the account (ListAccountStatement and ListAccountJournalEntries   *)
(* over ListActivityByAccount), read page by page by a client of the BFF   *)
(* (external) while payments and credits go on being booked.               *)
(*                                                                         *)
(* Four things make a walk over the pages hard to get right.  The query    *)
(* runs on the read connection, which may be a replica that lags behind    *)
(* the database the journals are committed to.  A journal takes its        *)
(* booked_at before its transaction commits, so journals become visible    *)
(* out of the order they are listed in.  The listing is by booked_at       *)
(* alone, with limit and offset: journals with the same time come in any   *)
(* order, a new one at every query.  And the times a client asks with are  *)
(* cut to whole seconds on the way (RFC3339), whereas booked_at is not.    *)
(*                                                                         *)
(* One replica is behind the read connection: what it has shown once it    *)
(* goes on showing.  It may fall behind by any time and catches up journal *)
(* by journal, in any order.  Where the read connection is the write       *)
(* connection, every commit is followed by its Replicate at once.          *)
(***************************************************************************)
EXTENDS Integers, SequencesExt

CONSTANTS
    Accounts, Journals, None,
    Posting,     \* what each journal moves: [src, dst, amount], src None in a credit
    Froms,       \* the times clients ask from
    Sizes,       \* the page sizes they ask for
    Second,      \* clock ticks in a second
    MaxClock     \* bound on the clock

ASSUME PostingAssumption ==
    \A j \in Journals :
        /\ Posting[j].src \in Accounts \cup {None}
        /\ Posting[j].dst \in Accounts \ {Posting[j].src}
        /\ Posting[j].amount \in Nat \ {0}

ASSUME BoundsAssumption ==
    /\ None \notin Accounts
    /\ Second \in Nat \ {0}
    /\ MaxClock \in Nat
    /\ Froms \subseteq Nat
    /\ Sizes \subseteq Nat \ {0}

VARIABLES
    clock,
    bookedAt,    \* the time each journal was stamped with, None before
    committed,   \* the journals whose transaction committed
    readable,    \* those of them the read connection shows
    walk         \* the client's walk over the pages, None when there is none

vars == <<clock, bookedAt, committed, readable, walk>>

-----------------------------------------------------------------------------
\* What a journal says of an account.

\* The lines of a journal: one per account it moves, the funding line of a
\* credit has no counterparty_ref.
Lines(j) ==
    {[ref |-> Posting[j].src, debit |-> Posting[j].amount, credit |-> 0],
     [ref |-> Posting[j].dst, debit |-> 0, credit |-> Posting[j].amount]}

Touches(j, acc) == \E l \in Lines(j) : l.ref = acc

\* Fault: every line of the journal counts, whoever it belongs to.
FaultyOwnLines(j, acc) == Lines(j)

OwnLines(j, acc) == {l \in Lines(j) : l.ref = acc}

\* A statement item: the net of the account's own lines and the other account.
Item(j, acc) ==
    LET net    == SumFunction([l \in OwnLines(j, acc) |-> l.credit])
                  - SumFunction([l \in OwnLines(j, acc) |-> l.debit])
        others == {l.ref : l \in Lines(j)} \ {acc, None}
    IN  [journal      |-> j,
         direction    |-> IF net < 0 THEN "debit" ELSE "credit",
         amount       |-> IF net < 0 THEN -net ELSE net,
         counterparty |-> IF others = {} THEN None ELSE CHOOSE o \in others : TRUE]

-----------------------------------------------------------------------------
\* The query.

\* Formatting a time as RFC3339 drops what is below the second.
WholeSecond(t) == (t \div Second) * Second

\* The rows the read connection has for the query.
Matching(acc, from, to) ==
    {j \in readable : Touches(j, acc) /\ bookedAt[j] \in from .. to}

\* Fault: a page begins on the last row of the page before.
FaultyPageOf(rows, page, size) ==
    LET o == (IF page <= 0 THEN 0 ELSE page - 1) * size
        b == IF o = 0 THEN 1 ELSE o
    IN  SubSeq(rows, b, IF o + size < Len(rows) THEN o + size ELSE Len(rows))

\* The orders the database may list the journals of S in.
Listings(S) ==
    {s \in SetToSeqs(S) :
        \A m, n \in DOMAIN s : m < n => bookedAt[s[m]] >= bookedAt[s[n]]}

\* Fault: the offset of a page counted from zero.
FaultyOffset(page, size) == page * size

\* Pages are counted from one; page zero is page one.
Offset(page, size) == (IF page <= 0 THEN 0 ELSE page - 1) * size

\* Limit and offset.
PageOf(rows, page, size) ==
    LET o == Offset(page, size)
    IN  SubSeq(rows, o + 1, IF o + size < Len(rows) THEN o + size ELSE Len(rows))

-----------------------------------------------------------------------------
Walks ==
    [acc : Accounts, asked : 0 .. MaxClock, from : 0 .. MaxClock, to : 0 .. MaxClock,
     size : Sizes, base : {0, 1}, page : Nat, seen : Seq(readable),
     before : SUBSET readable, during : SUBSET readable,
     state : {"reading", "done", "failed"}]

TypeOK ==
    /\ clock \in 0 .. MaxClock
    /\ bookedAt \in [Journals -> 0 .. MaxClock \cup {None}]
    /\ committed \subseteq {j \in Journals : bookedAt[j] # None}
    /\ readable \subseteq committed
    /\ IsFiniteSet(readable)
    /\ walk # None => walk \in Walks

Init ==
    /\ clock = 0
    /\ bookedAt = [j \in Journals |-> None]
    /\ committed = {}
    /\ readable = {}
    /\ walk = None

Tick ==
    /\ clock < MaxClock
    /\ clock' = clock + 1
    /\ UNCHANGED <<bookedAt, committed, readable, walk>>

\* now := time.Now(), before the hold and the transaction.
Stamp(j) ==
    /\ bookedAt[j] = None
    /\ bookedAt' = [bookedAt EXCEPT ![j] = clock]
    /\ UNCHANGED <<clock, committed, readable, walk>>

\* The transaction that inserts the journal commits.
Commit(j) ==
    /\ bookedAt[j] # None
    /\ j \notin committed
    /\ committed' = committed \cup {j}
    /\ UNCHANGED <<clock, bookedAt, readable, walk>>

\* The read connection comes to show a committed journal.
Replicate(j) ==
    /\ j \in committed \ readable
    /\ readable' = readable \cup {j}
    /\ walk' = IF walk # None /\ walk.state = "reading" /\ Touches(j, walk.acc)
               THEN [walk EXCEPT !.during = @ \cup {j}]
               ELSE walk
    /\ UNCHANGED <<clock, bookedAt, committed>>

\* A client asks for everything from a time up to now, first page first.  A
\* client of the journal listing may start at page zero.
StartWalk(acc, from, size, base) ==
    /\ walk = None
    /\ from <= clock
    /\ walk' = [acc |-> acc, asked |-> clock,
                from |-> WholeSecond(from), to |-> WholeSecond(clock),
                size |-> size, base |-> base, page |-> base, seen |-> <<>>,
                before |-> {j \in readable : Touches(j, acc) /\ bookedAt[j] >= from},
                during |-> {}, state |-> "reading"]
    /\ UNCHANGED <<clock, bookedAt, committed, readable>>

\* One page: a query of its own.  A page that is not full is the last one.
ReadPage ==
    /\ walk # None
    /\ walk.state = "reading"
    /\ \E rows \in Listings(Matching(walk.acc, walk.from, walk.to)) :
           LET got == PageOf(rows, walk.page, walk.size)
           IN  walk' = [walk EXCEPT
                            !.seen = @ \o got,
                            !.page = @ + 1,
                            !.state = IF Len(got) < walk.size THEN "done" ELSE @]
    /\ UNCHANGED <<clock, bookedAt, committed, readable>>

\* The ledger or the connection to it fails: the BFF answers 502.
ReadFails ==
    /\ walk # None
    /\ walk.state = "reading"
    /\ walk' = [walk EXCEPT !.state = "failed"]
    /\ UNCHANGED <<clock, bookedAt, committed, readable>>

Next ==
    \/ Tick
    \/ \E j \in Journals : Stamp(j) \/ Commit(j) \/ Replicate(j)
    \/ \E acc \in Accounts, from \in Froms, size \in Sizes, base \in {0, 1} :
           StartWalk(acc, from, size, base)
    \/ ReadPage
    \/ ReadFails

Spec == Init /\ [][Next]_vars

-----------------------------------------------------------------------------
WalkDone == walk # None /\ walk.state = "done"

Shown == ToSet(walk.seen)

\* No two journals of the account share their booked_at.
Untied ==
    \A i, j \in readable :
        Touches(i, walk.acc) /\ Touches(j, walk.acc) /\ bookedAt[i] = bookedAt[j] => i = j

\* A finished walk has shown every journal that the read connection showed when
\* it began and that was booked before the second it began in, however many
\* journals became readable under it, in whatever order, and whether it counted
\* pages from zero or one; only journals with the same booked_at can hide each
\* other.  Of a journal that was committed but not yet readable it says nothing:
\* a replica that lags may keep it from the whole walk.
WalkMissesNothing ==
    WalkDone /\ Untied =>
        \A j \in walk.before : bookedAt[j] <= WholeSecond(walk.asked) => j \in Shown

\* A walk over pages counted from one repeats a journal only when it was
\* overtaken, at most once for each journal that became readable under it,
\* whether it was committed under the walk or before it.
RepeatsOnlyWhenOvertaken ==
    WalkDone /\ Untied /\ walk.base = 1 =>
        Len(walk.seen) - Cardinality(Shown) <= Cardinality(walk.during)

\* What the journals of S move into an account: the balance they make.
Moved(S, acc) ==
    LET In(j)  == IF Posting[j].dst = acc THEN Posting[j].amount ELSE 0
        Out(j) == IF Posting[j].src = acc THEN Posting[j].amount ELSE 0
    IN  SumFunction([j \in S |-> In(j)]) - SumFunction([j \in S |-> Out(j)])

\* The items of a finished walk nothing overtook add up, sign by direction, to
\* what the postings of the same time moved into the account.
StatementAddsUp ==
    WalkDone =>
        LET Signed(i) == IF i.direction = "debit" THEN -i.amount ELSE i.amount
        IN  SumFunction([j \in Shown |-> Signed(Item(j, walk.acc))])
            = Moved(Shown, walk.acc)

\* The two accounts of a payment see the same movement from its two sides.
Mirrored ==
    \A j \in committed :
        LET p == Posting[j]
        IN  /\ Item(j, p.dst) = [journal |-> j, direction |-> "credit",
                                 amount |-> p.amount, counterparty |-> p.src]
            /\ p.src # None =>
                   Item(j, p.src) = [journal |-> j, direction |-> "debit",
                                     amount |-> p.amount, counterparty |-> p.dst]

\* What the walk has shown lies before the page it asks for next: a journal that
\* did not become readable under it and is not shown yet has at least the rows of the
\* pages before it ahead of it, and those rows exist.
Window == Matching(walk.acc, walk.from, walk.to)

Ahead(j) == {i \in Window : bookedAt[i] > bookedAt[j]}

WalkFollows ==
    walk # None =>
        /\ walk.to = WholeSecond(walk.asked)
        /\ \A j \in walk.before : Touches(j, walk.acc) /\ bookedAt[j] >= walk.from
        /\ walk.before \cap walk.during = {}

PagesFollow ==
    walk # None /\ walk.state = "reading" =>
        LET passed == Offset(walk.page, walk.size)
        IN  /\ walk.page >= walk.base
            /\ passed <= Cardinality(Window)
            /\ walk.base = 1 => Len(walk.seen) = passed
            /\ Untied => \A j \in Window \ walk.during :
                             j \in Shown \/ Cardinality(Ahead(j)) >= passed

StatementsInv == TypeOK /\ StatementAddsUp /\ Mirrored /\ WalkFollows /\ PagesFollow

\* "refresca statement para ver el movimiento real" (home.ts line 239): a
\* statement asked for up to now shows what is already booked.  It does not,
\* for the second it is asked in.
RefreshShowsMovement ==
    WalkDone /\ Untied => walk.before \subseteq Shown

\* "page 0-based en tu proto actual" (ledger_validators.go line 91): pages
\* counted from zero do not overlap.  The first two are the same.
ZeroBasedPagesDisjoint ==
    WalkDone /\ Untied /\ walk.base = 0 /\ walk.during = {} =>
        Len(walk.seen) = Cardinality(Shown)

=============================================================================
