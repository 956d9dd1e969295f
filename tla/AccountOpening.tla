--------------------------- MODULE AccountOpening ---------------------------
(***************************************************************************)
(* OpenAccountWithOpeningBonus of the account service, together with the   *)
(* ledger it calls.                                                        *)
(*                                                                         *)
(* An opening is one invocation of AccountOpeningService.open.  It runs    *)
(* outside of any transaction, so each of its steps commits on its own:    *)
(* read the grant of its key, insert it, read it again, create an account, *)
(* anchor the account in the grant, have the ledger book the bonus,        *)
(* complete the grant, add the bonus to the balance.  The grant is meant   *)
(* to make the sequence safe to retry and to run twice at the same time.   *)
(*                                                                         *)
(* An opening calls the ledger at most once, so it and its call bear one   *)
(* name: the attempt.  An account is named by the attempt that created it, *)
(* a journal by the attempt that booked it.                                *)
(***************************************************************************)
EXTENDS Integers, LedgerCredits

VARIABLES
    opc,       \* where each opening is
    account,   \* the account each opening works on
    journal,   \* the journal id each opening was given
    grants,    \* rows of account_opening_bonus_grants, by key
    accounts,  \* rows of accounts, each with its balances row
    credited,  \* how often the bonus was added to the balance of each account
    result,    \* what each opening returned: account and journal
    crossed    \* history: keys of openings that overlapped

openVars == <<opc, account, journal, grants, accounts, credited, result, crossed>>

vars == <<openVars, creditVars>>

Grant == [status: {"PENDING", "COMPLETED"},
          account: Attempts \cup {None},
          journal: Attempts \cup {None}]

ASSUME NoneAssumption == None \notin Grant

Ended == {"replied", "failed"}

TypeOK ==
    /\ opc \in [Attempts -> {"idle", "read", "acquire", "reread", "create",
                             "attach", "credit", "calling", "complete",
                             "apply", "reply"} \cup Ended]
    /\ account \in [Attempts -> Attempts \cup {None}]
    /\ journal \in [Attempts -> Attempts \cup {None}]
    /\ grants \in [Keys -> Grant \cup {None}]
    /\ accounts \subseteq Attempts
    /\ credited \in [Attempts -> Nat]
    /\ result \in [Attempts -> [account: Attempts, journal: Attempts] \cup {None}]
    /\ crossed \subseteq Keys
    /\ CreditsTypeOK

Init ==
    /\ opc = [o \in Attempts |-> "idle"]
    /\ account = [o \in Attempts |-> None]
    /\ journal = [o \in Attempts |-> None]
    /\ grants = [k \in Keys |-> None]
    /\ accounts = {}
    /\ credited = [o \in Attempts |-> 0]
    /\ result = [o \in Attempts |-> None]
    /\ crossed = {}
    /\ CreditsInit

-----------------------------------------------------------------------------
Goto(o, label) == opc' = [opc EXCEPT ![o] = label]

GrantOf(o) == grants[KeyOf[o]]

(* Faulty variants of definitions below, each a mistake that some property *)
(* must notice.                                                            *)

\* Anchoring replaces the account the grant names.
FaultyAttach(o) ==
    /\ opc[o] = "attach"
    /\ grants' = [grants EXCEPT ![KeyOf[o]].account = account[o]]
    /\ Goto(o, "credit")
    /\ UNCHANGED <<account, journal, accounts, credited, result, crossed>>
    /\ UNCHANGED <<cpc, journals, idem, answer>>

\* The bonus is added whether or not this opening completed the grant.
FaultyCompleteLost(o) ==
    /\ opc[o] = "complete"
    /\ GrantOf(o).status = "COMPLETED"
    /\ Goto(o, "apply")
    /\ UNCHANGED <<account, journal, grants, accounts, credited, result, crossed>>
    /\ UNCHANGED <<cpc, journals, idem, answer>>

\* The grant is completed before the ledger has booked the bonus.
FaultyCallFails(o) ==
    /\ opc[o] = "calling"
    /\ Goto(o, "complete")
    /\ UNCHANGED <<account, journal, grants, accounts, credited, result, crossed>>
    /\ UNCHANGED <<cpc, journals, idem, answer>>

\* A retry does not look for the anchored account.
FaultyAnchorOf(o) == None

-----------------------------------------------------------------------------
(* 0) Read the grant.                                                      *)

\* A retry may start before the openings of its key have ended.
Begin(o) ==
    /\ opc[o] = "idle"
    /\ crossed' = IF \E p \in Attempts \ {o} :
                          KeyOf[p] = KeyOf[o] /\ opc[p] \notin {"idle"} \cup Ended
                  THEN crossed \cup {KeyOf[o]} ELSE crossed
    /\ Goto(o, "read")
    /\ UNCHANGED <<account, journal, grants, accounts, credited, result>>
    /\ UNCHANGED <<cpc, journals, idem, answer>>

ReadCompleted(o) ==
    /\ opc[o] = "read"
    /\ GrantOf(o) # None
    /\ GrantOf(o).status = "COMPLETED"
    /\ account' = [account EXCEPT ![o] = GrantOf(o).account]
    /\ journal' = [journal EXCEPT ![o] = GrantOf(o).journal]
    /\ Goto(o, "reply")
    /\ UNCHANGED <<grants, accounts, credited, result, crossed>>
    /\ UNCHANGED <<cpc, journals, idem, answer>>

ReadAbsent(o) ==
    /\ opc[o] = "read"
    /\ GrantOf(o) = None
    /\ Goto(o, "acquire")
    /\ UNCHANGED <<account, journal, grants, accounts, credited, result, crossed>>
    /\ UNCHANGED <<cpc, journals, idem, answer>>

\* 1) The insert.  A duplicate is noticed when the transaction of tryAcquire
\* commits, which is after its catch block: the exception ends the opening.
Acquire(o) ==
    /\ opc[o] = "acquire"
    /\ IF GrantOf(o) = None
       THEN /\ grants' = [grants EXCEPT ![KeyOf[o]] =
                  [status |-> "PENDING", account |-> None, journal |-> None]]
            /\ Goto(o, "reread")
       ELSE /\ Goto(o, "failed")
            /\ UNCHANGED grants
    /\ UNCHANGED <<account, journal, accounts, credited, result, crossed>>
    /\ UNCHANGED <<cpc, journals, idem, answer>>

\* 2) The account anchored in the grant, if there is one.
AnchorOf(o) == GrantOf(o).account

UseAnchor(o) ==
    /\ account' = [account EXCEPT ![o] = AnchorOf(o)]
    /\ Goto(o, IF AnchorOf(o) = None THEN "create" ELSE "credit")
    /\ UNCHANGED <<journal, grants, accounts, credited, result, crossed>>
    /\ UNCHANGED <<cpc, journals, idem, answer>>

ReadPending(o) ==
    /\ opc[o] = "read"
    /\ GrantOf(o) # None
    /\ GrantOf(o).status = "PENDING"
    /\ UseAnchor(o)

Reread(o) == opc[o] = "reread" /\ UseAnchor(o)

CreateAccount(o) ==
    /\ opc[o] = "create"
    /\ accounts' = accounts \cup {o}
    /\ account' = [account EXCEPT ![o] = o]
    /\ Goto(o, "attach")
    /\ UNCHANGED <<journal, grants, credited, result, crossed>>
    /\ UNCHANGED <<cpc, journals, idem, answer>>

\* attachAccountIfEmpty.  Whether it changed the row is not looked at.
Attach(o) ==
    /\ opc[o] = "attach"
    /\ grants' = [grants EXCEPT ![KeyOf[o]].account =
                      IF @ = None THEN account[o] ELSE @]
    /\ Goto(o, "credit")
    /\ UNCHANGED <<account, journal, accounts, credited, result, crossed>>
    /\ UNCHANGED <<cpc, journals, idem, answer>>

-----------------------------------------------------------------------------
(* 3) The call to the ledger, which sets no deadline.                      *)

CallLedger(o) ==
    /\ opc[o] = "credit"
    /\ BeginCredit(o)
    /\ Goto(o, "calling")
    /\ UNCHANGED <<account, journal, grants, accounts, credited, result, crossed>>

LedgerStep(o) ==
    /\ Handler(o)
    /\ UNCHANGED openVars

LedgerAnswers(o) ==
    /\ opc[o] = "calling"
    /\ cpc[o] = "replied"
    /\ journal' = [journal EXCEPT ![o] = answer[o]]
    /\ Goto(o, "complete")
    /\ UNCHANGED <<account, grants, accounts, credited, result, crossed>>
    /\ UNCHANGED <<cpc, journals, idem, answer>>

LedgerRefuses(o) ==
    /\ opc[o] = "calling"
    /\ cpc[o] = "failed"
    /\ Goto(o, "failed")
    /\ UNCHANGED <<account, journal, grants, accounts, credited, result, crossed>>
    /\ UNCHANGED <<cpc, journals, idem, answer>>

\* The connection breaks; the ledger's handler may still go on.
CallFails(o) ==
    /\ opc[o] = "calling"
    /\ Goto(o, "failed")
    /\ UNCHANGED <<account, journal, grants, accounts, credited, result, crossed>>
    /\ UNCHANGED <<cpc, journals, idem, answer>>

-----------------------------------------------------------------------------
(* 4) completeIfPending, and 5) the balance of the opening that completed. *)

Complete(o) ==
    /\ opc[o] = "complete"
    /\ GrantOf(o).status = "PENDING"
    /\ grants' = [grants EXCEPT ![KeyOf[o]] =
           [status |-> "COMPLETED",
            account |-> IF @.account = None THEN account[o] ELSE @.account,
            journal |-> journal[o]]]
    /\ Goto(o, "apply")
    /\ UNCHANGED <<account, journal, accounts, credited, result, crossed>>
    /\ UNCHANGED <<cpc, journals, idem, answer>>

CompleteLost(o) ==
    /\ opc[o] = "complete"
    /\ GrantOf(o).status = "COMPLETED"
    /\ Goto(o, "reply")
    /\ UNCHANGED <<account, journal, grants, accounts, credited, result, crossed>>
    /\ UNCHANGED <<cpc, journals, idem, answer>>

ApplyCredit(o) ==
    /\ opc[o] = "apply"
    /\ credited' = [credited EXCEPT ![account[o]] = @ + 1]
    /\ Goto(o, "reply")
    /\ UNCHANGED <<account, journal, grants, accounts, result, crossed>>
    /\ UNCHANGED <<cpc, journals, idem, answer>>

Reply(o) ==
    /\ opc[o] = "reply"
    /\ result' = [result EXCEPT ![o] =
                     [account |-> account[o], journal |-> journal[o]]]
    /\ Goto(o, "replied")
    /\ UNCHANGED <<account, journal, grants, accounts, credited, crossed>>
    /\ UNCHANGED <<cpc, journals, idem, answer>>

\* A database error, a customer that does not exist, the end of the process:
\* nothing is undone.
Abandon(o) ==
    /\ opc[o] \notin {"idle"} \cup Ended
    /\ Goto(o, "failed")
    /\ UNCHANGED <<account, journal, grants, accounts, credited, result, crossed>>
    /\ UNCHANGED <<cpc, journals, idem, answer>>

-----------------------------------------------------------------------------
Next ==
    \E o \in Attempts :
        \/ Begin(o) \/ ReadCompleted(o) \/ ReadAbsent(o) \/ ReadPending(o)
        \/ Acquire(o) \/ Reread(o) \/ CreateAccount(o) \/ Attach(o)
        \/ CallLedger(o) \/ LedgerStep(o)
        \/ LedgerAnswers(o) \/ LedgerRefuses(o) \/ CallFails(o)
        \/ Complete(o) \/ CompleteLost(o) \/ ApplyCredit(o)
        \/ Reply(o) \/ Abandon(o)

Spec == Init /\ [][Next]_vars

-----------------------------------------------------------------------------
(* Safety.                                                                 *)

\* The accounts created for a key.
AccountsOf(k) == {o \in accounts : KeyOf[o] = k}

\* However openings overlap and fail, the bonus of a key reaches a balance at
\* most once: one balance, one time.
BonusOnce ==
    /\ \A o \in Attempts : credited[o] <= 1
    /\ \A o, p \in Attempts :
           SameKey(o, p) /\ credited[o] > 0 /\ credited[p] > 0 => o = p

\* A completed grant names an account that exists and a journal that was
\* booked, both for its key; every opening returns such a pair.
GrantsBacked ==
    /\ \A k \in Keys :
           grants[k] # None => /\ grants[k].account \in AccountsOf(k) \cup {None}
                               /\ grants[k].status = "COMPLETED" =>
                                      /\ grants[k].account # None
                                      /\ grants[k].journal \in journals
                                      /\ KeyOf[grants[k].journal] = k
    /\ \A o \in Attempts :
           result[o] # None => /\ result[o].account \in AccountsOf(KeyOf[o])
                               /\ result[o].journal \in journals
                               /\ KeyOf[result[o].journal] = KeyOf[o]

\* Why these hold: an opening past a step has what the step provides, for its
\* own key, and of the openings of a key one completes the grant, which is the
\* only one that adds the bonus.
StepsBacked ==
    \A o \in Attempts :
        /\ opc[o] \in {"reread", "create", "attach", "credit", "calling", "complete", "apply"}
               => GrantOf(o) # None
        /\ opc[o] \in {"attach", "credit", "calling", "complete", "apply", "reply"}
               => account[o] \in AccountsOf(KeyOf[o])
        /\ opc[o] \in {"complete", "apply", "reply"}
               => journal[o] \in journals /\ KeyOf[journal[o]] = KeyOf[o]
        /\ cpc[o] = "replied" => answer[o] # None

OneCompletes ==
    /\ \A o \in Attempts : opc[o] = "apply" =>
           /\ GrantOf(o).status = "COMPLETED"
           /\ \A p \in Attempts :
                  SameKey(o, p) => credited[p] = 0 /\ (opc[p] = "apply" => p = o)
    /\ \A o \in Attempts : credited[o] > 0 =>
           GrantOf(o) # None /\ GrantOf(o).status = "COMPLETED"

Backed ==
    /\ TypeOK /\ GrantsBacked /\ BonusOnce /\ StepsBacked /\ OneCompletes
    /\ CreditsInv

Running(o) == opc[o] \notin {"idle"} \cup Ended

\* Attempts of a key that wait for each other: one runs at a time, it works on
\* the account its grant names, as soon as that names one, it is the one to
\* complete the grant, and the bonus is on the account of the completed grant.
SerialSteps ==
    \A o \in Attempts : KeyOf[o] \notin crossed =>
        /\ \A p \in Attempts : SameKey(o, p) /\ Running(o) /\ Running(p) => o = p
        /\ opc[o] \in {"reread", "create", "attach", "credit", "calling", "complete"}
               => GrantOf(o).status = "PENDING"
        /\ opc[o] \in {"create", "attach"} => GrantOf(o).account = None
        /\ opc[o] \in {"credit", "calling", "complete", "apply", "reply"}
               => account[o] = GrantOf(o).account
        /\ opc[o] \in {"apply", "reply"}
               => /\ GrantOf(o) # None
                  /\ GrantOf(o).status = "COMPLETED"
                  /\ journal[o] = GrantOf(o).journal
        /\ credited[o] > 0 => GrantOf(o).account = o

OpeningInv == Backed /\ SerialSteps

\* The account anchored in a grant and a completed grant never change.
AnchorsStay ==
    [][ \A k \in Keys : grants[k] # None =>
          /\ grants'[k] # None
          /\ grants[k].account # None => grants'[k].account = grants[k].account
          /\ grants[k].status = "COMPLETED" => grants'[k] = grants[k] ]_vars

\* If retries wait for the openings before them, every opening of a key returns
\* the same account and journal, and the bonus is on that account or nowhere,
\* whatever failed in between.
SerialRetriesAgree ==
    \A o \in Attempts : result[o] # None /\ KeyOf[o] \notin crossed =>
        /\ GrantOf(o).status = "COMPLETED"
        /\ result[o].account = GrantOf(o).account
        /\ result[o].journal = GrantOf(o).journal
        /\ \A p \in Attempts :
               SameKey(o, p) /\ credited[p] > 0 => p = result[o].account

=============================================================================
