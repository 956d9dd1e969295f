----------------------------- MODULE Onboarding -----------------------------
(***************************************************************************)
(* One registration, from its uploads to an activated customer: the BFF,   *)
(* the identity service, the document store, and the account service as    *)
(* the identity service sees it.                                           *)
(*                                                                         *)
(* confirm and activate are transactions of the identity service that read *)
(* the registration, make remote calls, and write the whole row when they  *)
(* commit; nothing locks the row in between, and what was done remotely is *)
(* not undone when they roll back.  A login writes to the same row.        *)
(*                                                                         *)
(* A customer or an account is named by the activation that created it.    *)
(* The account service opens one account for the registration's key; an    *)
(* activation that finds none yet creates its own (module AccountOpening   *)
(* has the detail).                                                        *)
(***************************************************************************)
EXTENDS Naturals, FiniteSets

CONSTANTS
    Confirms, Activations, Logins,  \* the calls that are made
    IdFront, Selfie,                \* the two documents
    None

Ops == Confirms \cup Activations \cup Logins
Docs == {IdFront, Selfie}

ASSUME OnboardingAssumption ==
    /\ Confirms \cap Activations = {}
    /\ Logins \cap (Confirms \cup Activations) = {}
    /\ None \notin Activations

VARIABLES
    reg,        \* the row of registration_intents
    link,       \* the customer identity_links has for the user's identity
    staged,     \* documents in the staging prefix
    finals,     \* documents that have an object in the final prefix
    newest,     \* history: where the newest upload of each document is
    late,       \* history: documents whose newest upload came between the copy
                \* and the deletion by a confirm, and has not been copied since
    customers,  \* the account service: customers
    owner,      \* the account service: the customer of each account
    anchor,     \* the account the grant of the registration names
    pc,         \* where each call is
    read,       \* the row each call has read
    finalized,  \* the documents each confirm has finalized
    cust, acct, \* the customer and the account each activation works on
    linkFound,  \* whether it found a link to update
    told,       \* the customer and account in the 201 of each activation
    overwritten,\* history: a row was written that had changed since it was read
    disturbed   \* history: calls overlapped, or one failed with traces left

store == <<staged, finals, newest, late>>
remote == <<customers, owner, anchor>>
locals == <<read, finalized, cust, acct, linkFound>>
vars == <<reg, link, store, remote, pc, locals, told, overwritten, disturbed>>

CustomerOrNone == Activations \cup {None}

Row == [state: {"STARTED", "KYC_CONFIRMED", "ACTIVATED"},
        customer: CustomerOrNone, account: CustomerOrNone, identity: BOOLEAN]

TypeOK ==
    /\ reg \in Row
    /\ link \in CustomerOrNone
    /\ staged \subseteq Docs /\ finals \subseteq Docs /\ late \subseteq Docs
    /\ newest \in [Docs -> {"nowhere", "staged", "final", "deleted"}]
    /\ customers \subseteq Activations
    /\ owner \in [Activations -> CustomerOrNone]
    /\ anchor \in CustomerOrNone
    /\ pc \in [Ops -> {"idle", "read", "copy", "delete", "customer", "link", "open",
                       "opening", "save", "commit", "answer", "done"}]
    /\ read \in [Ops -> Row]
    /\ finalized \in [Confirms -> SUBSET Docs]
    /\ cust \in [Activations -> CustomerOrNone]
    /\ acct \in [Activations -> CustomerOrNone]
    /\ linkFound \in [Activations -> BOOLEAN]
    /\ told \in [Activations -> {None} \cup (CustomerOrNone \X CustomerOrNone)]
    /\ overwritten \in BOOLEAN /\ disturbed \in BOOLEAN

Started == [state |-> "STARTED", customer |-> None, account |-> None, identity |-> FALSE]

\* The registration has been started: its row is stored, two uploads are signed.
Init ==
    /\ reg = Started
    /\ link = None
    /\ staged = {} /\ finals = {} /\ late = {}
    /\ newest = [d \in Docs |-> "nowhere"]
    /\ customers = {}
    /\ owner = [a \in Activations |-> None]
    /\ anchor = None
    /\ pc = [o \in Ops |-> "idle"]
    /\ read = [o \in Ops |-> Started]
    /\ finalized = [c \in Confirms |-> {}]
    /\ cust = [a \in Activations |-> None]
    /\ acct = [a \in Activations |-> None]
    /\ linkFound = [a \in Activations |-> FALSE]
    /\ told = [a \in Activations |-> None]
    /\ overwritten = FALSE
    /\ disturbed = FALSE

-----------------------------------------------------------------------------
Goto(o, label) == pc' = [pc EXCEPT ![o] = label]

InFlight(o) == pc[o] \notin {"idle", "done"}

\* The document a confirm is at: first the front of the card, then the selfie.
Current(c) == IF IdFront \in finalized[c] THEN Selfie ELSE IdFront

\* A commit writes every column of the row.
WriteRow(o, row) ==
    /\ reg' = row
    /\ overwritten' = (overwritten \/ reg # read[o])

(* Faulty variants of definitions below, each a mistake that some property *)
(* must notice.                                                            *)

\* activate does not ask whether the documents were confirmed.
FaultyMayActivate(a) == TRUE

\* A new confirmation starts the registration over.
FaultyConfirmedRow(c) == [Started EXCEPT !.state = "KYC_CONFIRMED"]

\* The row of an activated registration is saved without its account.
FaultyActivatedRow(a) == [read[a] EXCEPT !.state = "ACTIVATED", !.customer = cust[a]]

\* activate leaves the link to the logins.
FaultyLinks(a) == FALSE

-----------------------------------------------------------------------------
(* The browser and the BFF. *)

\* The browser puts a document to its signed URL, as often as it likes while
\* the URL is valid: the object in the staging prefix is replaced.
Upload(d) ==
    /\ staged' = staged \cup {d}
    /\ newest' = [newest EXCEPT ![d] = "staged"]
    /\ late' = IF \E c \in Confirms : pc[c] = "delete" /\ Current(c) = d
               THEN late \cup {d} ELSE late \ {d}
    /\ UNCHANGED <<reg, link, finals, remote, pc, locals, told, overwritten, disturbed>>

\* The BFF calls the identity service; it hands no idempotency key on.
Begin(o) ==
    /\ pc[o] = "idle"
    /\ Goto(o, "read")
    /\ disturbed' = (disturbed \/ \E p \in Ops : InFlight(p))
    /\ UNCHANGED <<reg, link, store, remote, locals, told, overwritten>>

\* The answer reaches the browser: for an activation, a 201.
Answer(o) ==
    /\ pc[o] = "answer"
    /\ told' = IF o \in Activations THEN [told EXCEPT ![o] = <<cust[o], acct[o]>>] ELSE told
    /\ Goto(o, "done")
    /\ UNCHANGED <<reg, link, store, remote, locals, overwritten, disturbed>>

\* The connection to the browser is gone by then.
Unheard(o) ==
    /\ pc[o] = "answer"
    /\ Goto(o, "done")
    /\ UNCHANGED <<reg, link, store, remote, locals, told, overwritten, disturbed>>

\* A remote call or the database fails, or the process ends: the transaction is
\* rolled back, the caller is told 502.
Fail(o) ==
    /\ InFlight(o)
    /\ pc[o] # "answer"
    /\ Goto(o, "done")
    /\ disturbed' = (disturbed \/ o \in customers \cup Logins)
    /\ UNCHANGED <<reg, link, store, remote, locals, told, overwritten>>

-----------------------------------------------------------------------------
(* confirm: each document is copied to its final key and deleted. *)

ConfirmRead(c) ==
    /\ pc[c] = "read"
    /\ read' = [read EXCEPT ![c] = reg]
    /\ Goto(c, "copy")
    /\ UNCHANGED <<reg, link, store, remote, finalized, cust, acct, linkFound, told,
                   overwritten, disturbed>>

Copy(c) ==
    /\ pc[c] = "copy"
    /\ Current(c) \in staged
    /\ finals' = finals \cup {Current(c)}
    /\ newest' = [newest EXCEPT ![Current(c)] = "final"]
    /\ late' = late \ {Current(c)}
    /\ Goto(c, "delete")
    /\ UNCHANGED <<reg, link, staged, remote, locals, told, overwritten, disturbed>>

\* headObject finds nothing, also when an earlier confirm has moved it.
CopyRefused(c) ==
    /\ pc[c] = "copy"
    /\ Current(c) \notin staged
    /\ Goto(c, "done")
    /\ UNCHANGED <<reg, link, store, remote, locals, told, overwritten, disturbed>>

\* Whatever is under the key by now is deleted.
Delete(c) ==
    /\ pc[c] = "delete"
    /\ staged' = staged \ {Current(c)}
    /\ newest' = [newest EXCEPT ![Current(c)] = IF @ = "staged" THEN "deleted" ELSE @]
    /\ finalized' = [finalized EXCEPT ![c] = @ \cup {Current(c)}]
    /\ Goto(c, IF Current(c) = Selfie THEN "commit" ELSE "copy")
    /\ UNCHANGED <<reg, link, finals, late, remote, read, cust, acct, linkFound, told,
                   overwritten, disturbed>>

\* Whatever the state was.
ConfirmedRow(c) == [read[c] EXCEPT !.state = "KYC_CONFIRMED"]

ConfirmCommit(c) ==
    /\ pc[c] = "commit"
    /\ WriteRow(c, ConfirmedRow(c))
    /\ Goto(c, "answer")
    /\ UNCHANGED <<link, store, remote, locals, told, disturbed>>

-----------------------------------------------------------------------------
(* activate. *)

MayActivate(a) == reg.state = "KYC_CONFIRMED"

\* An activated registration is answered from its row.  The state ACTIVATING
\* is saved within the transaction and overwritten before it commits.
ActivateRead(a) ==
    /\ pc[a] = "read"
    /\ reg.state = "ACTIVATED" \/ MayActivate(a)
    /\ read' = [read EXCEPT ![a] = reg]
    /\ cust' = [cust EXCEPT ![a] = reg.customer]
    /\ acct' = [acct EXCEPT ![a] = reg.account]
    /\ Goto(a, IF reg.state = "ACTIVATED" THEN "answer"
               ELSE IF reg.customer = None THEN "customer" ELSE "open")
    /\ UNCHANGED <<reg, link, store, remote, finalized, linkFound, told, overwritten, disturbed>>

ActivateRefused(a) ==
    /\ pc[a] = "read"
    /\ reg.state # "ACTIVATED" /\ ~MayActivate(a)
    /\ Goto(a, "done")
    /\ UNCHANGED <<reg, link, store, remote, locals, told, overwritten, disturbed>>

\* The account service creates a customer at every call.
CreateCustomer(a) ==
    /\ pc[a] = "customer"
    /\ customers' = customers \cup {a}
    /\ cust' = [cust EXCEPT ![a] = a]
    /\ Goto(a, "link")
    /\ UNCHANGED <<reg, link, store, owner, anchor, read, finalized, acct, linkFound, told,
                   overwritten, disturbed>>

\* identityLinks.upsert: the row is looked up now and written at the commit.
UpsertLink(a) ==
    /\ pc[a] = "link"
    /\ linkFound' = [linkFound EXCEPT ![a] = link # None]
    /\ Goto(a, "open")
    /\ UNCHANGED <<reg, link, store, remote, read, finalized, cust, acct, told,
                   overwritten, disturbed>>

OpenSkipped(a) ==
    /\ pc[a] = "open"
    /\ acct[a] # None
    /\ Goto(a, "commit")
    /\ UNCHANGED <<reg, link, store, remote, locals, told, overwritten, disturbed>>

OpenRead(a) ==
    /\ pc[a] = "open"
    /\ acct[a] = None
    /\ acct' = [acct EXCEPT ![a] = anchor]
    /\ Goto(a, "opening")
    /\ UNCHANGED <<reg, link, store, remote, read, finalized, cust, linkFound, told,
                   overwritten, disturbed>>

\* The account of the grant is used whoever its customer is.
OpenAnchored(a) ==
    /\ pc[a] = "opening"
    /\ acct[a] # None
    /\ Goto(a, "commit")
    /\ UNCHANGED <<reg, link, store, remote, locals, told, overwritten, disturbed>>

OpenNew(a) ==
    /\ pc[a] = "opening"
    /\ acct[a] = None
    /\ acct' = [acct EXCEPT ![a] = a]
    /\ owner' = [owner EXCEPT ![a] = cust[a]]
    /\ anchor' = IF anchor = None THEN a ELSE anchor
    /\ Goto(a, "commit")
    /\ UNCHANGED <<reg, link, store, customers, read, finalized, cust, linkFound, told,
                   overwritten, disturbed>>

ActivatedRow(a) ==
    [read[a] EXCEPT !.state = "ACTIVATED", !.customer = cust[a], !.account = acct[a]]

\* It links the customer it created, when the identity was known.
Links(a) == read[a].identity /\ cust[a] = a

ActivateCommit(a) ==
    /\ pc[a] = "commit"
    /\ Links(a) => linkFound[a] \/ link = None
    /\ WriteRow(a, ActivatedRow(a))
    /\ link' = IF Links(a) THEN cust[a] ELSE link
    /\ Goto(a, "answer")
    /\ UNCHANGED <<store, remote, locals, told, disturbed>>

-----------------------------------------------------------------------------
(* linkIdentityToCustomerIfPossible, at the end of a login with the e-mail  *)
(* address of the registration: three transactions.                        *)

LoginRead(l) ==
    /\ pc[l] = "read"
    /\ read' = [read EXCEPT ![l] = reg]
    /\ Goto(l, IF ~reg.identity THEN "save" ELSE "link")
    /\ UNCHANGED <<reg, link, store, remote, finalized, cust, acct, linkFound, told,
                   overwritten, disturbed>>

\* The fields that were null when the row was read are not written.
Merged(l) ==
    [state    |-> read[l].state,
     customer |-> IF read[l].customer = None THEN reg.customer ELSE read[l].customer,
     account  |-> IF read[l].account = None THEN reg.account ELSE read[l].account,
     identity |-> TRUE]

LoginSave(l) ==
    /\ pc[l] = "save"
    /\ WriteRow(l, Merged(l))
    /\ Goto(l, "link")
    /\ UNCHANGED <<link, store, remote, locals, told, disturbed>>

LoginLink(l) ==
    /\ pc[l] = "link"
    /\ link' = IF read[l].customer = None THEN link ELSE read[l].customer
    /\ Goto(l, "answer")
    /\ UNCHANGED <<reg, store, remote, locals, told, overwritten, disturbed>>

-----------------------------------------------------------------------------
Confirm(c) == ConfirmRead(c) \/ Copy(c) \/ CopyRefused(c) \/ Delete(c) \/ ConfirmCommit(c)

Activate(a) ==
    \/ ActivateRead(a) \/ ActivateRefused(a) \/ CreateCustomer(a) \/ UpsertLink(a)
    \/ OpenSkipped(a) \/ OpenRead(a) \/ OpenAnchored(a) \/ OpenNew(a)
    \/ ActivateCommit(a)

Login(l) == LoginRead(l) \/ LoginSave(l) \/ LoginLink(l)

Next ==
    \/ \E d \in Docs : Upload(d)
    \/ \E o \in Ops : Begin(o) \/ Answer(o) \/ Unheard(o) \/ Fail(o)
    \/ \E c \in Confirms : Confirm(c)
    \/ \E a \in Activations : Activate(a)
    \/ \E l \in Logins : Login(l)

Spec == Init /\ [][Next]_vars

-----------------------------------------------------------------------------
(* Properties. *)

\* Some version of an uploaded document is in one of the two prefixes, and the
\* newest one is, unless it was put between the copy of the one before it and
\* its deletion.
Kept(d) ==
    /\ newest[d] # "nowhere" => d \in staged \cup finals
    /\ newest[d] = "staged" => d \in staged
    /\ newest[d] = "final" => d \in finals
    /\ newest[d] = "deleted" => d \in late

\* No document is lost, wherever the calls that move it stop; a registration past
\* its start has both finalized.
DocumentsKept ==
    /\ \A d \in Docs : Kept(d)
    /\ reg.state # "STARTED" => Docs \subseteq finals

\* A row names only what the account service has, and an activated row names
\* both a customer and an account.
Sound(row) ==
    /\ row.customer \in customers \cup {None}
    /\ row.account # None => row.customer # None /\ owner[row.account] \in customers
    /\ row.state = "ACTIVATED" => row.account # None

\* However calls overlap, fail and overwrite each other, the row is sound.
RowSound == Sound(reg)

\* Why these hold: the rows that the calls will write back are sound as well,
\* a confirmation has finalized what it says, and an activation works on a
\* customer and an account that exist, those of its row if that has any.
Confirming(c) ==
    /\ finalized[c] \subseteq finals
    /\ pc[c] = "delete" =>
           /\ Current(c) \in finals
           /\ newest[Current(c)] = "final" \/ Current(c) \in late
    /\ pc[c] = "commit" => finalized[c] = Docs

Activating(a) ==
    /\ pc[a] = "customer" => read[a].customer = None
    /\ pc[a] \in {"link", "open", "opening", "commit"} =>
           /\ cust[a] \in customers
           /\ read[a].customer \in {None, cust[a]}
           /\ read[a].account \in {None, acct[a]}
    /\ pc[a] = "opening" => read[a].account = None
    /\ pc[a] = "commit" => acct[a] # None
    /\ pc[a] \in {"customer", "link", "open", "opening", "commit"} =>
           read[a].state = "KYC_CONFIRMED"
    /\ acct[a] # None => owner[acct[a]] \in customers

Underway ==
    /\ \A o \in Ops : Sound(read[o]) /\ (read[o].state # "STARTED" => Docs \subseteq finals)
    /\ \A c \in Confirms : Confirming(c)
    /\ \A a \in Activations : Activating(a)
    /\ anchor # None => owner[anchor] \in customers

Consistent == TypeOK /\ DocumentsKept /\ RowSound /\ Underway

\* What an activation in progress keeps to.
Working == {"customer", "link", "open", "opening", "commit"}

\* When calls follow each other, the one under way has read the row as it is,
\* but for the identity a login has saved in it;
HasRead(o) ==
    /\ InFlight(o) /\ pc[o] \notin {"read", "answer"} /\ ~(o \in Logins /\ pc[o] = "link")
           => read[o] = reg
    /\ o \in Logins /\ pc[o] = "link" => read[o].customer = reg.customer

\* an activation of a row without a customer works on its own customer and
\* account, and an answer names those of the row;
OnItsOwn(a) ==
    /\ pc[a] \in Working /\ reg.customer = None =>
           /\ pc[a] # "customer" => cust[a] = a
           /\ IF pc[a] = "commit" THEN acct[a] = a /\ owner[a] = a ELSE acct[a] = None
    /\ pc[a] = "answer" =>
           reg.customer # None /\ cust[a] = reg.customer /\ acct[a] = reg.account
    /\ told[a] # None => reg.customer # None /\ told[a] = <<reg.customer, reg.account>>

\* and the account service has what the row names, or what the activation under
\* way has created; so has the link, once the login that saved the identity or
\* the activation that created the customer is over.
RemoteFollows ==
    /\ IF reg.customer = None
       THEN /\ \A a \in customers : pc[a] \in {"link", "open", "opening", "commit"}
            /\ anchor # None => pc[anchor] = "commit"
       ELSE /\ customers = {reg.customer}
            /\ reg.account # None /\ owner[reg.account] = reg.customer
    /\ reg.identity /\ reg.customer # None =>
           link = reg.customer \/ \E l \in Logins : pc[l] = "link"

SerialCalls ==
    ~disturbed =>
        /\ \A o, p \in Ops : InFlight(o) /\ InFlight(p) => o = p
        /\ \A o \in Ops : HasRead(o)
        /\ \A a \in Activations : OnItsOwn(a)
        /\ RemoteFollows

OnboardingInv == Consistent /\ SerialCalls

\* If calls follow each other and no activation is rolled back with a customer
\* created, one customer is created however often confirm and activate are
\* called again or answers are lost, the account is this customer's, and every
\* 201 names the two.
SerialActivation ==
    ~disturbed =>
        /\ Cardinality(customers) <= 1
        /\ reg.account # None => owner[reg.account] = reg.customer
        /\ \A a \in Activations :
               told[a] # None => told[a] = <<reg.customer, reg.account>>

\* When calls follow each other, a user whose identity the registration knows
\* is linked to its customer, whichever of the two came first.
LinkFollows ==
    /\ ~disturbed
    /\ \A o \in Ops : ~InFlight(o)
    /\ reg.identity /\ reg.customer # None
    => link = reg.customer

\* The customer and the account of a registration never change or go, unless a
\* call wrote a row that had changed since it was read.
CustomerStays ==
    [][ ~overwritten' =>
          /\ reg.customer # None => reg'.customer = reg.customer
          /\ reg.account # None => reg'.account = reg.account ]_vars

\* "CreateCustomer idempotente" (OnboardingService.java): the calls that activate
\* one registration create one customer.
CustomerOnce == Cardinality(customers) <= 1

=============================================================================
