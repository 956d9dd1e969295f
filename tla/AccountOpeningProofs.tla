------------------------ MODULE AccountOpeningProofs ------------------------
(***************************************************************************)
(* Proofs about LedgerCredits and AccountOpening for any calls and keys.   *)
(*                                                                         *)
(* The credit operations come first, as a specification of their own; then *)
(* the openings, which are clients of them.                                *)
(***************************************************************************)
EXTENDS AccountOpening, TLAPS

-----------------------------------------------------------------------------
(* The ledger's credit operations, whoever calls them.                     *)

\* The steps that only move a handler on.
LedgerMoves(a) ==
    \/ BeginCredit(a) \/ LookupMiss(a) \/ ValidateOk(a)
    \/ ValidateRefused(a) \/ Fail(a)

(* A step moves a handler, books a journal, or answers. *)
LEMMA LedgerStepCases ==
    ASSUME CreditsNext
    PROVE  \E a \in Attempts : \/ LedgerMoves(a) \/ LookupHit(a) \/ ReplyCredit(a)
                               \/ Book(a) \/ BookUnacknowledged(a)
  BY DEF CreditsNext, Handler, LedgerMoves

-----------------------------------------------------------------------------
(* The record of a key stays what it is, and a booking leaves one behind. *)
LEMMA RecordStays ==
    ASSUME CreditsTypeOK, NEW a \in Attempts, PutRecord(a)
    PROVE  /\ idem' \in [Keys -> Attempts \cup {None}]
           /\ idem'[KeyOf[a]] # None
           /\ \A k \in Keys : idem[k] # None => idem'[k] = idem[k]
           /\ \A k \in Keys : idem'[k] # idem[k] => k = KeyOf[a] /\ idem'[k] = a
  BY AttemptsAssumption DEF CreditsTypeOK, PutRecord

\* Type correctness, and the records, journals and answers of a key name each
\* other: what CreditAccount and CreditAccountSystem answered can be looked up.
THEOREM CreditsInvariant == CreditsSpec => []CreditsInv
<1>1. CreditsInit => CreditsInv
  BY AttemptsAssumption
     DEF CreditsInit, CreditsInv, CreditsTypeOK, Records, AnswersBooked
<1>2. CreditsInv /\ [CreditsNext]_creditVars => CreditsInv'
  <2> SUFFICES ASSUME CreditsInv, [CreditsNext]_creditVars PROVE CreditsInv'
    OBVIOUS
  <2> USE AttemptsAssumption DEF CreditsInv
  <2>1. CASE UNCHANGED creditVars
    BY <2>1 DEF creditVars, CreditsTypeOK, Records, AnswersBooked, SameKey
  <2>2. ASSUME NEW a \in Attempts, LedgerMoves(a) PROVE CreditsInv'
    <3>1. UNCHANGED <<journals, idem, answer>>
      BY <2>2 DEF LedgerMoves, BeginCredit, LookupMiss, ValidateOk,
                  ValidateRefused, Fail
    <3>2. CreditsTypeOK'
      BY <2>2, <3>1 DEF CreditsTypeOK, LedgerMoves, BeginCredit, LookupMiss,
                        ValidateOk, ValidateRefused, Fail, CreditGoto
    <3>3. Records'
      BY <2>2, <3>1 DEF CreditsTypeOK, Records, LedgerMoves, BeginCredit,
                        LookupMiss, ValidateOk, ValidateRefused,
                        Fail, CreditGoto
    <3>4. AnswersBooked'
      BY <3>1 DEF AnswersBooked, SameKey
    <3>5. QED
      BY <3>2, <3>3, <3>4
  <2>3. ASSUME NEW a \in Attempts, LookupHit(a) PROVE CreditsInv'
    <3>1. idem[KeyOf[a]] \in journals /\ KeyOf[idem[KeyOf[a]]] = KeyOf[a]
      BY <2>3 DEF LookupHit, Records, CreditsTypeOK
    <3>2. CreditsTypeOK' /\ Records'
      BY <2>3, <3>1 DEF CreditsTypeOK, Records, LookupHit, CreditGoto
    <3>3. AnswersBooked'
      BY <2>3, <3>1 DEF CreditsTypeOK, AnswersBooked, LookupHit, SameKey
    <3>4. QED
      BY <3>2, <3>3
  <2>4. ASSUME NEW a \in Attempts, ReplyCredit(a) PROVE CreditsInv'
    <3>1. a \in journals
      BY <2>4 DEF ReplyCredit, Records
    <3>2. CreditsTypeOK' /\ Records'
      BY <2>4, <3>1 DEF CreditsTypeOK, Records, ReplyCredit, CreditGoto
    <3>3. AnswersBooked'
      BY <2>4, <3>1 DEF CreditsTypeOK, AnswersBooked, ReplyCredit, SameKey
    <3>4. QED
      BY <3>2, <3>3
  <2>5. ASSUME NEW a \in Attempts, Book(a) \/ BookUnacknowledged(a)
        PROVE  CreditsInv'
    <3>1. /\ PutRecord(a)
          /\ journals' = journals \cup {a}
          /\ answer' = answer
          /\ cpc[a] = "posting"
          /\ \/ cpc' = [cpc EXCEPT ![a] = "posted"]
             \/ cpc' = [cpc EXCEPT ![a] = "failed"]
      BY <2>5 DEF Book, BookUnacknowledged, CreditGoto
    <3>2. /\ idem' \in [Keys -> Attempts \cup {None}]
          /\ idem'[KeyOf[a]] # None
          /\ \A k \in Keys : idem[k] # None => idem'[k] = idem[k]
          /\ \A k \in Keys : idem'[k] # idem[k] => k = KeyOf[a] /\ idem'[k] = a
      BY <3>1, RecordStays
    <3>3. CreditsTypeOK'
      BY <3>1, <3>2 DEF CreditsTypeOK
    <3>4. Records'
      BY <3>1, <3>2 DEF CreditsTypeOK, Records
    <3>5. AnswersBooked'
      BY <3>1, <3>2 DEF CreditsTypeOK, Records, AnswersBooked, SameKey
    <3>6. QED
      BY <3>3, <3>4, <3>5
  <2>6. QED
    BY <2>1, <2>2, <2>3, <2>4, <2>5, LedgerStepCases
<1>3. QED
  BY <1>1, <1>2, PTL DEF CreditsSpec

-----------------------------------------------------------------------------
\* All calls answered from the record of a key return the same journal.
THEOREM CreditsHitsAgree == CreditsSpec => []HitsAgree
<1>1. CreditsInv => HitsAgree
  BY DEF CreditsInv, AnswersBooked, HitsAgree, SameKey
<1>2. QED
  BY <1>1, CreditsInvariant, PTL

\* Once a call was answered, a call with its key that reads the current records
\* finds one.
THEOREM CreditsRetriesHit == CreditsSpec => RetriesHit
<1>1. CreditsInv => \A a, b \in Attempts :
          SameKey(a, b) /\ answer[b] # None => idem[KeyOf[a]] # None
  BY DEF CreditsInv, CreditsTypeOK, Records, AnswersBooked, SameKey
<1>2. CreditsInv => \A a \in Attempts :
          LookupMiss(a) /\ idem[KeyOf[a]] = None =>
              \A b \in Attempts : SameKey(a, b) => answer[b] = None
  BY <1>1
<1>3. QED
  BY <1>2, CreditsInvariant, PTL DEF RetriesHit

-----------------------------------------------------------------------------
(* The openings as clients of the ledger.                                  *)

(* The steps of an opening that do not touch the ledger. *)
OpeningStep(o) ==
    \/ Begin(o) \/ ReadCompleted(o) \/ ReadAbsent(o) \/ ReadPending(o)
    \/ Acquire(o) \/ Reread(o) \/ CreateAccount(o) \/ Attach(o)
    \/ LedgerAnswers(o) \/ LedgerRefuses(o) \/ CallFails(o)
    \/ Complete(o) \/ CompleteLost(o) \/ ApplyCredit(o)
    \/ Reply(o) \/ Abandon(o)

LEMMA OpeningStepsAside ==
    ASSUME NEW o \in Attempts, OpeningStep(o)
    PROVE  UNCHANGED <<cpc, journals, idem, answer>>
  BY DEF OpeningStep, Begin, ReadCompleted, ReadAbsent, ReadPending, Acquire, Reread,
         UseAnchor, CreateAccount, Attach, LedgerAnswers, LedgerRefuses, CallFails,
         Complete, CompleteLost, ApplyCredit, Reply, Abandon

LEMMA StepCases ==
    ASSUME Next
    PROVE  \E o \in Attempts : OpeningStep(o) \/ CallLedger(o) \/ LedgerStep(o)
  BY DEF Next, OpeningStep

\* The openings use the ledger as any of its clients: what is proved of the
\* credit operations holds here.
THEOREM OpeningsUseLedger == Spec => []CreditsInv
<1>1. Init => CreditsInit
  BY DEF Init
<1>2. [Next]_vars => [CreditsNext]_creditVars
  <2> SUFFICES ASSUME [Next]_vars PROVE [CreditsNext]_creditVars
    OBVIOUS
  <2>1. CASE UNCHANGED vars
    BY <2>1 DEF vars, creditVars
  <2>2. ASSUME NEW o \in Attempts, OpeningStep(o) PROVE UNCHANGED creditVars
    BY <2>2, OpeningStepsAside DEF creditVars
  <2>3. ASSUME NEW o \in Attempts, CallLedger(o) \/ LedgerStep(o) PROVE CreditsNext
    BY <2>3 DEF CallLedger, LedgerStep, CreditsNext
  <2>4. QED
    BY <2>1, <2>2, <2>3, StepCases
<1>3. Spec => CreditsSpec
  BY <1>1, <1>2, PTL DEF Spec, CreditsSpec
<1>4. QED
  BY <1>3, CreditsInvariant, PTL

-----------------------------------------------------------------------------
\* What is around stays around: accounts, journals and grants.
Kept ==
    /\ accounts \subseteq accounts'
    /\ journals \subseteq journals'
    /\ \A k \in Keys : grants[k] # None => grants'[k] # None

\* What StepsBacked says of one opening.
BackedAt(o) ==
    /\ opc[o] \in {"reread", "create", "attach", "credit", "calling", "complete", "apply"}
           => GrantOf(o) # None
    /\ opc[o] \in {"attach", "credit", "calling", "complete", "apply", "reply"}
           => account[o] \in AccountsOf(KeyOf[o])
    /\ opc[o] \in {"complete", "apply", "reply"}
           => journal[o] \in journals /\ KeyOf[journal[o]] = KeyOf[o]

(* A step of another opening, or one that ends this one, leaves it backed. *)
LEMMA BackedStays ==
    ASSUME Backed, Kept, NEW o \in Attempts,
           opc'[o] = opc[o] \/ opc'[o] \in Ended,
           account'[o] = account[o], journal'[o] = journal[o]
    PROVE  BackedAt(o)'
<1>1. KeyOf[o] \in Keys
  BY AttemptsAssumption
<1>2. QED
  BY <1>1 DEF Backed, StepsBacked, BackedAt, Kept, GrantOf, AccountsOf, Ended

(* A step that leaves the grants and the results alone keeps them backed. *)
LEMMA GrantsStay ==
    ASSUME Backed, Kept, UNCHANGED <<grants, result>>
    PROVE  GrantsBacked'
  BY DEF Backed, GrantsBacked, Kept, AccountsOf

(* A step in which nothing is completed and no bonus is added. *)
LEMMA BonusStays ==
    ASSUME Backed, UNCHANGED <<grants, credited>>,
           \A o \in Attempts : opc'[o] = "apply" => opc[o] = "apply"
    PROVE  BonusOnce' /\ OneCompletes'
  BY DEF Backed, BonusOnce, OneCompletes, GrantOf

(* The ledger only adds journals, and its answers are not empty. *)
LEMMA LedgerAdds ==
    ASSUME Backed, NEW o \in Attempts, BeginCredit(o) \/ Handler(o)
    PROVE  /\ journals \subseteq journals'
           /\ \A p \in Attempts : cpc'[p] = "replied" => answer'[p] # None
<1>1. /\ cpc \in [Attempts -> {"idle", "lookup", "validate", "posting",
                               "posted", "replied", "failed"}]
      /\ answer \in [Attempts -> Attempts \cup {None}]
      /\ \A p \in Attempts : cpc[p] = "replied" => answer[p] # None
  BY DEF Backed, StepsBacked, CreditsInv, CreditsTypeOK
<1>2. QED
  BY <1>1, AttemptsAssumption
     DEF BeginCredit, Handler, LookupHit, LookupMiss, ValidateOk,
         ValidateRefused, Book, BookUnacknowledged, ReplyCredit,
         Fail, CreditGoto

(* The parts of the invariant, put together. *)
LEMMA Together ==
    ASSUME TypeOK', GrantsBacked', BonusOnce', OneCompletes', CreditsInv',
           \A o \in Attempts : BackedAt(o)',
           \A o \in Attempts : cpc'[o] = "replied" => answer'[o] # None
    PROVE  Backed'
  BY DEF Backed, StepsBacked, BackedAt

(* An opening that goes on alone: no grant, account or balance changes. *)
LEMMA GoesOn ==
    ASSUME Backed, CreditsInv', TypeOK', NEW o \in Attempts, BackedAt(o)',
           UNCHANGED <<grants, accounts, credited, result>>, Kept,
           \A p \in Attempts : cpc'[p] = "replied" => answer'[p] # None,
           \A p \in Attempts \ {o} :
               opc'[p] = opc[p] /\ account'[p] = account[p] /\ journal'[p] = journal[p],
           opc'[o] = "apply" => opc[o] = "apply"
    PROVE  Backed'
<1>1. \A p \in Attempts : BackedAt(p)'
  BY BackedStays
<1>2. QED
  BY <1>1, GrantsStay, BonusStays, Together

(* The steps that change no grant, account, balance or result. *)
Alone(o) ==
    \/ Begin(o) \/ ReadCompleted(o) \/ ReadAbsent(o) \/ ReadPending(o) \/ Reread(o)
    \/ CallLedger(o) \/ LedgerStep(o) \/ LedgerAnswers(o) \/ LedgerRefuses(o) \/ CallFails(o)
    \/ CompleteLost(o) \/ Abandon(o)

LEMMA AloneKeeps ==
    ASSUME Backed, CreditsInv', NEW o \in Attempts, Alone(o)
    PROVE  Backed'
<1> USE AttemptsAssumption
<1>0. TypeOK /\ GrantsBacked /\ StepsBacked /\ CreditsTypeOK' /\ KeyOf[o] \in Keys
  BY DEF Backed, CreditsInv
<1>1. UNCHANGED <<grants, accounts, credited, result>>
  BY DEF Alone, Begin, ReadCompleted, ReadAbsent, ReadPending, Reread, UseAnchor, CallLedger,
         LedgerStep, openVars, LedgerAnswers, LedgerRefuses, CallFails, CompleteLost, Abandon
<1>2. /\ journals \subseteq journals'
      /\ \A p \in Attempts : cpc'[p] = "replied" => answer'[p] # None
  <2>1. CASE CallLedger(o) \/ LedgerStep(o)
    BY <2>1, LedgerAdds DEF CallLedger, LedgerStep
  <2>2. CASE ~(CallLedger(o) \/ LedgerStep(o))
    BY <1>0, <2>2, OpeningStepsAside DEF Alone, OpeningStep, StepsBacked
  <2>3. QED
    BY <2>1, <2>2
<1>3. Kept
  BY <1>1, <1>2 DEF Kept
<1>4. /\ opc' \in [Attempts -> {"idle", "read", "acquire", "reread", "create", "attach",
                                "credit", "calling", "complete", "apply", "reply"} \cup Ended]
      /\ crossed' \subseteq Keys
      /\ \A p \in Attempts \ {o} :
             opc'[p] = opc[p] /\ account'[p] = account[p] /\ journal'[p] = journal[p]
      /\ opc'[o] = "apply" => opc[o] = "apply"
  BY <1>0 DEF TypeOK, Alone, Begin, ReadCompleted, ReadAbsent, ReadPending, Reread, UseAnchor,
              CallLedger, LedgerStep, openVars, LedgerAnswers, LedgerRefuses, CallFails,
              CompleteLost, Abandon, Goto, Ended
<1>5. CASE ReadCompleted(o)
  <2>1. /\ GrantOf(o) # None /\ GrantOf(o).status = "COMPLETED"
        /\ account' = [account EXCEPT ![o] = GrantOf(o).account]
        /\ journal' = [journal EXCEPT ![o] = GrantOf(o).journal]
        /\ opc'[o] = "reply"
        /\ UNCHANGED journals
    BY <1>0, <1>5 DEF ReadCompleted, Goto, TypeOK
  <2>2. /\ GrantOf(o).account \in AccountsOf(KeyOf[o])
        /\ GrantOf(o).journal \in journals /\ KeyOf[GrantOf(o).journal] = KeyOf[o]
    BY <1>0, <2>1 DEF GrantsBacked, GrantOf
  <2>3. CreditsTypeOK /\ journals \subseteq Attempts
    BY <1>0 DEF TypeOK, CreditsTypeOK
  <2>4. TypeOK'
    BY <1>0, <1>1, <1>4, <2>1, <2>2, <2>3 DEF TypeOK, AccountsOf
  <2>5. BackedAt(o)'
    BY <1>0, <1>1, <2>1, <2>2 DEF BackedAt, TypeOK, AccountsOf
  <2>6. QED
    BY <1>1, <1>2, <1>3, <1>4, <2>4, <2>5, GoesOn
<1>6. CASE ReadPending(o) \/ Reread(o)
  <2>1. /\ GrantOf(o) # None
        /\ account' = [account EXCEPT ![o] = GrantOf(o).account]
        /\ journal' = journal
        /\ opc'[o] = IF GrantOf(o).account = None THEN "create" ELSE "credit"
    BY <1>0, <1>6 DEF ReadPending, Reread, UseAnchor, AnchorOf, Goto, TypeOK, StepsBacked
  <2>2. /\ GrantOf(o).account \in AccountsOf(KeyOf[o]) \cup {None}
        /\ GrantOf(o).account \in Attempts \cup {None}
    BY <1>0, <2>1 DEF GrantsBacked, GrantOf, AccountsOf, TypeOK
  <2>3. TypeOK'
    BY <1>0, <1>1, <1>4, <2>1, <2>2 DEF TypeOK
  <2>4. BackedAt(o)'
    BY <1>0, <1>1, <2>1, <2>2 DEF BackedAt, TypeOK, AccountsOf, GrantOf
  <2>5. QED
    BY <1>1, <1>2, <1>3, <1>4, <2>3, <2>4, GoesOn
<1>7. CASE LedgerAnswers(o)
  <2>1. /\ journal' = [journal EXCEPT ![o] = answer[o]] /\ account' = account
        /\ opc[o] = "calling" /\ opc'[o] = "complete"
        /\ UNCHANGED journals
        /\ answer[o] # None
    BY <1>0, <1>7 DEF LedgerAnswers, Goto, TypeOK, StepsBacked
  <2>2. /\ answer[o] \in Attempts /\ answer[o] \in journals
        /\ KeyOf[answer[o]] = KeyOf[o]
    BY <2>1 DEF Backed, CreditsInv, AnswersBooked, CreditsTypeOK,
                SameKey
  <2>3. TypeOK'
    BY <1>0, <1>1, <1>4, <2>1, <2>2 DEF TypeOK
  <2>4. BackedAt(o)'
    BY <1>0, <1>1, <2>1, <2>2 DEF BackedAt, StepsBacked, TypeOK, AccountsOf, GrantOf
  <2>5. QED
    BY <1>1, <1>2, <1>3, <1>4, <2>3, <2>4, GoesOn
<1>8. CASE /\ ~ReadCompleted(o) /\ ~ReadPending(o) /\ ~Reread(o) /\ ~LedgerAnswers(o)
  <2>1. UNCHANGED <<account, journal>>
    BY <1>8 DEF Alone, Begin, ReadAbsent, CallLedger, LedgerStep, openVars, LedgerRefuses,
                CallFails, CompleteLost, Abandon
  <2>2. TypeOK'
    BY <1>0, <1>1, <1>4, <2>1 DEF TypeOK
  <2>3. \/ opc'[o] = opc[o] \/ opc'[o] \in Ended \cup {"read", "acquire"}
        \/ opc[o] = "credit" /\ opc'[o] = "calling"
        \/ opc[o] = "complete" /\ opc'[o] = "reply"
    BY <1>0, <1>8 DEF Alone, Begin, ReadAbsent, CallLedger, LedgerStep, openVars,
                      LedgerRefuses, CallFails, CompleteLost, Abandon, Goto, TypeOK, Ended
  <2>4. BackedAt(o)'
    BY <1>0, <1>1, <1>2, <2>1, <2>3 DEF BackedAt, StepsBacked, AccountsOf, GrantOf, Ended
  <2>5. QED
    BY <1>1, <1>2, <1>3, <1>4, <2>2, <2>4, GoesOn
<1>9. QED
  BY <1>5, <1>6, <1>7, <1>8

(* A new account belongs to the opening that created it. *)
LEMMA CreateKeeps ==
    ASSUME Backed, CreditsInv', NEW o \in Attempts, CreateAccount(o)
    PROVE  Backed'
<1> USE AttemptsAssumption
<1>0. TypeOK /\ StepsBacked /\ CreditsTypeOK'
  BY DEF Backed, CreditsInv
<1>1. /\ opc[o] = "create" /\ opc' = [opc EXCEPT ![o] = "attach"]
      /\ accounts' = accounts \cup {o} /\ account' = [account EXCEPT ![o] = o]
      /\ UNCHANGED <<journal, grants, credited, result, crossed, cpc, journals, idem, answer>>
  BY DEF CreateAccount, Goto
<1>2. Kept
  BY <1>1 DEF Kept
<1>3. TypeOK'
  BY <1>0, <1>1 DEF TypeOK
<1>4. \A p \in Attempts : BackedAt(p)'
  <2>1. BackedAt(o)'
    BY <1>0, <1>1 DEF BackedAt, StepsBacked, AccountsOf, GrantOf, TypeOK
  <2>2. ASSUME NEW p \in Attempts \ {o} PROVE BackedAt(p)'
    BY <1>0, <1>1, <1>2, BackedStays DEF TypeOK
  <2>3. QED
    BY <2>1, <2>2
<1>5. BonusOnce' /\ OneCompletes'
  BY <1>0, <1>1, BonusStays DEF TypeOK
<1>6. QED
  BY <1>0, <1>1, <1>2, <1>3, <1>4, <1>5, GrantsStay, Together DEF StepsBacked

(* The grant is inserted, anchored or completed, for the key of the opening. *)
LEMMA GrantKeeps ==
    ASSUME Backed, CreditsInv', NEW o \in Attempts,
           Acquire(o) \/ Attach(o) \/ Complete(o)
    PROVE  Backed'
<1> USE AttemptsAssumption, NoneAssumption
<1>0. /\ TypeOK /\ GrantsBacked /\ StepsBacked /\ BonusOnce /\ OneCompletes
      /\ CreditsTypeOK' /\ KeyOf[o] \in Keys
  BY DEF Backed, CreditsInv
<1>1. UNCHANGED <<account, journal, accounts, credited, result, crossed,
                  cpc, journals, idem, answer>>
  BY DEF Acquire, Attach, Complete
<1>2. CASE Acquire(o) /\ GrantOf(o) # None
  <2>1. UNCHANGED grants /\ opc' = [opc EXCEPT ![o] = "failed"]
    BY <1>2 DEF Acquire, Goto
  <2>2. TypeOK' /\ Kept /\ BackedAt(o)'
    BY <1>0, <1>1, <2>1 DEF TypeOK, Ended, Kept, BackedAt
  <2>3. QED
    BY <1>0, <1>1, <2>1, <2>2, GoesOn DEF TypeOK, StepsBacked
<1>3. CASE Acquire(o) /\ GrantOf(o) = None
  <2>1. /\ grants' = [grants EXCEPT ![KeyOf[o]] =
                 [status |-> "PENDING", account |-> None, journal |-> None]]
        /\ opc' = [opc EXCEPT ![o] = "reread"]
    BY <1>3 DEF Acquire, Goto
  <2>2. [status |-> "PENDING", account |-> None, journal |-> None] \in Grant
    BY DEF Grant
  <2>3. TypeOK' /\ Kept
    BY <1>0, <1>1, <2>1, <2>2 DEF TypeOK, Kept
  <2>4. \A p \in Attempts : BackedAt(p)'
    <3>1. BackedAt(o)'
      BY <1>0, <1>1, <2>1, <2>2 DEF BackedAt, GrantOf, TypeOK
    <3>2. ASSUME NEW p \in Attempts \ {o} PROVE BackedAt(p)'
      BY <1>0, <1>1, <2>1, <2>3, BackedStays DEF TypeOK
    <3>3. QED
      BY <3>1, <3>2
  <2>5. GrantsBacked'
    BY <1>0, <1>1, <2>1 DEF GrantsBacked, AccountsOf, TypeOK
  <2>6. BonusOnce' /\ OneCompletes'
    <3>1. BonusOnce'
      BY <1>0, <1>1 DEF BonusOnce
    <3>2. \A p \in Attempts : KeyOf[p] = KeyOf[o] => ~(credited[p] > 0) /\ opc[p] # "apply"
      BY <1>0, <1>3 DEF OneCompletes, GrantOf, StepsBacked
    <3>3. QED
      BY <1>0, <1>1, <2>1, <3>1, <3>2 DEF OneCompletes, GrantOf, TypeOK, SameKey
  <2>7. QED
    BY <1>0, <1>1, <2>3, <2>4, <2>5, <2>6, Together DEF StepsBacked
<1>4. CASE Attach(o)
  <2>1. /\ opc[o] = "attach" /\ opc' = [opc EXCEPT ![o] = "credit"]
        /\ GrantOf(o) # None /\ GrantOf(o) \in Grant
        /\ account[o] \in AccountsOf(KeyOf[o])
    BY <1>0, <1>4 DEF Attach, Goto, StepsBacked, TypeOK, GrantOf
  <2>2. PICK g \in Grant :
            /\ g = [GrantOf(o) EXCEPT !.account = IF @ = None THEN account[o] ELSE @]
            /\ grants' = [grants EXCEPT ![KeyOf[o]] = g]
    <3> DEFINE g == [GrantOf(o) EXCEPT !.account = IF @ = None THEN account[o] ELSE @]
    <3>1. grants' = [grants EXCEPT ![KeyOf[o]] = g]
      BY <1>4 DEF Attach, GrantOf
    <3>2. g \in Grant
      BY <1>0, <2>1 DEF Grant, AccountsOf, TypeOK
    <3>3. QED
      BY <3>1, <3>2
  <2>3. /\ g.status = GrantOf(o).status /\ g.journal = GrantOf(o).journal
        /\ g.account \in AccountsOf(KeyOf[o])
    BY <1>0, <2>1, <2>2 DEF Grant, GrantsBacked, GrantOf
  <2>4. TypeOK' /\ Kept
    BY <1>0, <1>1, <2>1, <2>2 DEF TypeOK, Kept
  <2>5. \A p \in Attempts : BackedAt(p)'
    <3>1. BackedAt(o)'
      BY <1>0, <1>1, <2>1, <2>2 DEF BackedAt, GrantOf, TypeOK, AccountsOf
    <3>2. ASSUME NEW p \in Attempts \ {o} PROVE BackedAt(p)'
      BY <1>0, <1>1, <2>1, <2>4, BackedStays DEF TypeOK
    <3>3. QED
      BY <3>1, <3>2
  <2>6. GrantsBacked'
    <3>1. ASSUME NEW k \in Keys, grants'[k] # None
          PROVE  /\ grants'[k].account \in AccountsOf(k) \cup {None}
                 /\ grants'[k].status = "COMPLETED" =>
                        /\ grants'[k].account # None
                        /\ grants'[k].journal \in journals
                        /\ KeyOf[grants'[k].journal] = k
      <4>1. CASE k = KeyOf[o]
        BY <1>0, <2>1, <2>2, <2>3, <4>1 DEF GrantsBacked, GrantOf, TypeOK, AccountsOf
      <4>2. CASE k # KeyOf[o]
        BY <1>0, <2>2, <3>1, <4>2 DEF GrantsBacked, TypeOK
      <4>3. QED
        BY <4>1, <4>2
    <3>2. QED
      BY <1>0, <1>1, <3>1 DEF GrantsBacked, AccountsOf
  <2>7. BonusOnce' /\ OneCompletes'
    BY <1>0, <1>1, <2>1, <2>2, <2>3 DEF BonusOnce, OneCompletes, GrantOf, TypeOK, SameKey
  <2>8. QED
    BY <1>0, <1>1, <2>4, <2>5, <2>6, <2>7, Together DEF StepsBacked
<1>5. CASE Complete(o)
  <2>1. /\ opc[o] = "complete" /\ opc' = [opc EXCEPT ![o] = "apply"]
        /\ GrantOf(o) # None /\ GrantOf(o) \in Grant /\ GrantOf(o).status = "PENDING"
        /\ account[o] \in AccountsOf(KeyOf[o])
        /\ journal[o] \in journals /\ KeyOf[journal[o]] = KeyOf[o]
        /\ journal[o] \in Attempts
    BY <1>0, <1>5 DEF Complete, Goto, StepsBacked, TypeOK, GrantOf, CreditsTypeOK
  <2>2. PICK g \in Grant :
            /\ g = [status |-> "COMPLETED",
                    account |-> IF GrantOf(o).account = None THEN account[o]
                                ELSE GrantOf(o).account,
                    journal |-> journal[o]]
            /\ grants' = [grants EXCEPT ![KeyOf[o]] = g]
    <3> DEFINE g == [status |-> "COMPLETED",
                     account |-> IF GrantOf(o).account = None THEN account[o]
                                 ELSE GrantOf(o).account,
                     journal |-> journal[o]]
    <3>1. grants' = [grants EXCEPT ![KeyOf[o]] = g]
      BY <1>5 DEF Complete, GrantOf
    <3>2. g \in Grant
      BY <1>0, <2>1 DEF Grant, AccountsOf, TypeOK
    <3>3. QED
      BY <3>1, <3>2
  <2>3. g.status = "COMPLETED" /\ g.journal = journal[o] /\ g.account \in AccountsOf(KeyOf[o])
    BY <1>0, <2>1, <2>2 DEF GrantsBacked, GrantOf
  <2>4. TypeOK' /\ Kept
    BY <1>0, <1>1, <2>1, <2>2 DEF TypeOK, Kept
  <2>5. \A p \in Attempts : BackedAt(p)'
    <3>1. BackedAt(o)'
      BY <1>0, <1>1, <2>1, <2>2 DEF BackedAt, GrantOf, TypeOK, AccountsOf
    <3>2. ASSUME NEW p \in Attempts \ {o} PROVE BackedAt(p)'
      BY <1>0, <1>1, <2>1, <2>4, BackedStays DEF TypeOK
    <3>3. QED
      BY <3>1, <3>2
  <2>6. GrantsBacked'
    <3>1. ASSUME NEW k \in Keys, grants'[k] # None
          PROVE  /\ grants'[k].account \in AccountsOf(k) \cup {None}
                 /\ grants'[k].status = "COMPLETED" =>
                        /\ grants'[k].account # None
                        /\ grants'[k].journal \in journals
                        /\ KeyOf[grants'[k].journal] = k
      <4>1. CASE k = KeyOf[o]
        BY <1>0, <2>1, <2>2, <2>3, <4>1 DEF TypeOK, AccountsOf
      <4>2. CASE k # KeyOf[o]
        BY <1>0, <2>2, <3>1, <4>2 DEF GrantsBacked, TypeOK
      <4>3. QED
        BY <4>1, <4>2
    <3>2. QED
      BY <1>0, <1>1, <3>1 DEF GrantsBacked, AccountsOf
  <2>7. BonusOnce' /\ OneCompletes'
    <3>1. BonusOnce'
      BY <1>0, <1>1 DEF BonusOnce
    <3>2. \A p \in Attempts : KeyOf[p] = KeyOf[o] => ~(credited[p] > 0) /\ opc[p] # "apply"
      BY <1>0, <2>1 DEF OneCompletes, GrantOf
    <3>3. \A p \in Attempts : KeyOf[p] = KeyOf[o] => credited[p] = 0
      BY <1>0, <3>2 DEF TypeOK
    <3>4. QED
      BY <1>0, <1>1, <2>1, <2>2, <2>3, <3>1, <3>2, <3>3
         DEF OneCompletes, GrantOf, TypeOK, SameKey
  <2>8. QED
    BY <1>0, <1>1, <2>4, <2>5, <2>6, <2>7, Together DEF StepsBacked
<1>6. QED
  BY <1>2, <1>3, <1>4, <1>5

(* The opening that completed the grant adds the bonus, and is done with it. *)
LEMMA ApplyKeeps ==
    ASSUME Backed, CreditsInv', NEW o \in Attempts, ApplyCredit(o)
    PROVE  Backed'
<1> USE AttemptsAssumption
<1>0. /\ TypeOK /\ StepsBacked /\ BonusOnce /\ OneCompletes
      /\ CreditsTypeOK' /\ KeyOf[o] \in Keys
  BY DEF Backed, CreditsInv
<1>1. /\ opc[o] = "apply" /\ opc' = [opc EXCEPT ![o] = "reply"]
      /\ credited' = [credited EXCEPT ![account[o]] = @ + 1]
      /\ UNCHANGED <<account, journal, grants, accounts, result, crossed,
                     cpc, journals, idem, answer>>
  BY DEF ApplyCredit, Goto
<1>2. account[o] \in Attempts /\ KeyOf[account[o]] = KeyOf[o] /\ GrantOf(o) # None
  BY <1>0, <1>1 DEF StepsBacked, AccountsOf, TypeOK
<1>3. TypeOK' /\ Kept
  BY <1>0, <1>1, <1>2 DEF TypeOK, Kept
<1>4. \A p \in Attempts : BackedAt(p)'
  <2>1. BackedAt(o)'
    BY <1>0, <1>1 DEF BackedAt, StepsBacked, TypeOK, AccountsOf
  <2>2. ASSUME NEW p \in Attempts \ {o} PROVE BackedAt(p)'
    BY <1>0, <1>1, <1>3, BackedStays DEF TypeOK
  <2>3. QED
    BY <2>1, <2>2
<1>5. \A p \in Attempts :
          KeyOf[p] = KeyOf[o] => credited'[p] = IF p = account[o] THEN 1 ELSE 0
  BY <1>0, <1>1, <1>2 DEF OneCompletes, SameKey, TypeOK
<1>6. \A p \in Attempts : KeyOf[p] # KeyOf[o] => credited'[p] = credited[p]
  BY <1>0, <1>1, <1>2 DEF TypeOK
<1>7. BonusOnce'
  BY <1>0, <1>5, <1>6 DEF BonusOnce, SameKey
<1>8. OneCompletes'
  <2>1. \A p \in Attempts : opc'[p] = "apply" => p # o /\ opc[p] = "apply"
    BY <1>0, <1>1 DEF TypeOK
  <2>2. \A p \in Attempts : opc'[p] = "apply" => KeyOf[p] # KeyOf[o]
    BY <1>0, <1>1, <2>1 DEF OneCompletes, SameKey
  <2>3. ASSUME NEW p \in Attempts, opc'[p] = "apply"
        PROVE  /\ GrantOf(p).status = "COMPLETED"
               /\ \A q \in Attempts : SameKey(p, q) =>
                      credited'[q] = 0 /\ (opc'[q] = "apply" => q = p)
    BY <1>0, <1>6, <2>1, <2>2, <2>3 DEF OneCompletes, SameKey
  <2>4. ASSUME NEW p \in Attempts, credited'[p] > 0
        PROVE  GrantOf(p) # None /\ GrantOf(p).status = "COMPLETED"
    <3>1. CASE KeyOf[p] = KeyOf[o]
      BY <1>0, <1>1, <1>2, <3>1 DEF OneCompletes, GrantOf
    <3>2. CASE KeyOf[p] # KeyOf[o]
      BY <1>0, <1>6, <2>4, <3>2 DEF OneCompletes
    <3>3. QED
      BY <3>1, <3>2
  <2>5. QED
    BY <1>1, <2>3, <2>4 DEF OneCompletes, GrantOf
<1>9. QED
  BY <1>0, <1>1, <1>3, <1>4, <1>7, <1>8, GrantsStay, Together DEF StepsBacked

(* What an opening returns is backed. *)
LEMMA ReplyKeeps ==
    ASSUME Backed, CreditsInv', NEW o \in Attempts, Reply(o)
    PROVE  Backed'
<1>0. TypeOK /\ StepsBacked /\ GrantsBacked /\ CreditsTypeOK'
  BY DEF Backed, CreditsInv
<1>1. /\ opc[o] = "reply" /\ opc' = [opc EXCEPT ![o] = "replied"]
      /\ result' = [result EXCEPT ![o] = [account |-> account[o], journal |-> journal[o]]]
      /\ UNCHANGED <<account, journal, grants, accounts, credited, crossed,
                     cpc, journals, idem, answer>>
  BY DEF Reply, Goto
<1>2. /\ account[o] \in AccountsOf(KeyOf[o]) /\ account[o] \in Attempts
      /\ journal[o] \in journals /\ KeyOf[journal[o]] = KeyOf[o] /\ journal[o] \in Attempts
  BY <1>0, <1>1 DEF StepsBacked, TypeOK, AccountsOf, CreditsTypeOK
<1>3. TypeOK' /\ Kept
  BY <1>0, <1>1, <1>2 DEF TypeOK, Kept, Ended
<1>4. \A p \in Attempts : BackedAt(p)'
  BY <1>0, <1>1, <1>3, BackedStays DEF TypeOK, Ended
<1>5. GrantsBacked'
  BY <1>0, <1>1, <1>2 DEF GrantsBacked, AccountsOf, TypeOK
<1>6. BonusOnce' /\ OneCompletes'
  BY <1>0, <1>1, BonusStays DEF TypeOK
<1>7. QED
  BY <1>0, <1>1, <1>3, <1>4, <1>5, <1>6, Together DEF StepsBacked

-----------------------------------------------------------------------------
(* Type correctness; grants and results name accounts and journals that exist, *)
(* for their key; one opening of a key adds the bonus.                         *)
LEMMA AlwaysBacked == Spec => []Backed
<1>1. Init => Backed
  <2> SUFFICES ASSUME Init PROVE Backed
    OBVIOUS
  <2> USE AttemptsAssumption
  <2>1. TypeOK
    BY DEF Init, TypeOK, CreditsInit, CreditsTypeOK
  <2>2. GrantsBacked /\ BonusOnce /\ StepsBacked /\ OneCompletes
    BY DEF Init, GrantsBacked, BonusOnce, StepsBacked, OneCompletes, CreditsInit
  <2>3. CreditsInv
    BY <2>1 DEF Init, CreditsInit, TypeOK, CreditsInv, Records,
                AnswersBooked
  <2>4. QED
    BY <2>1, <2>2, <2>3 DEF Backed
<1>2. Backed /\ [Next]_vars /\ CreditsInv' => Backed'
  <2> SUFFICES ASSUME Backed, [Next]_vars, CreditsInv' PROVE Backed'
    OBVIOUS
  <2>1. CASE UNCHANGED vars
    <3>1. UNCHANGED <<opc, account, journal, grants, accounts, credited, result, crossed,
                      cpc, journals, idem, answer>>
      BY <2>1 DEF vars, openVars, creditVars
    <3>2. TypeOK' /\ BonusOnce' /\ GrantsBacked'
      BY <3>1 DEF Backed, TypeOK, BonusOnce, GrantsBacked, AccountsOf, CreditsInv
    <3>3. StepsBacked' /\ OneCompletes'
      BY <3>1 DEF Backed, StepsBacked, OneCompletes, GrantOf, AccountsOf
    <3>4. QED
      BY <3>2, <3>3 DEF Backed
  <2>2. ASSUME NEW o \in Attempts, Alone(o) PROVE Backed'
    BY <2>2, AloneKeeps
  <2>3. ASSUME NEW o \in Attempts, CreateAccount(o) PROVE Backed'
    BY <2>3, CreateKeeps
  <2>4. ASSUME NEW o \in Attempts, Acquire(o) \/ Attach(o) \/ Complete(o) PROVE Backed'
    BY <2>4, GrantKeeps
  <2>5. ASSUME NEW o \in Attempts, ApplyCredit(o) PROVE Backed'
    BY <2>5, ApplyKeeps
  <2>6. ASSUME NEW o \in Attempts, Reply(o) PROVE Backed'
    BY <2>6, ReplyKeeps
  <2>7. QED
    BY <2>1, <2>2, <2>3, <2>4, <2>5, <2>6 DEF Next, Alone
<1>3. QED
  BY <1>1, <1>2, OpeningsUseLedger, PTL DEF Spec

-----------------------------------------------------------------------------
(* Attempts of a key that wait for each other.                             *)

\* What SerialSteps says of where one opening is.
SerialAt(o) ==
    /\ opc[o] \in {"reread", "create", "attach", "credit", "calling", "complete"}
           => GrantOf(o).status = "PENDING"
    /\ opc[o] \in {"create", "attach"} => GrantOf(o).account = None
    /\ opc[o] \in {"credit", "calling", "complete", "apply", "reply"}
           => account[o] = GrantOf(o).account
    /\ opc[o] \in {"apply", "reply"}
           => /\ GrantOf(o) # None
              /\ GrantOf(o).status = "COMPLETED"
              /\ journal[o] = GrantOf(o).journal

\* A step of an opening, but for those of the ledger's handler.
Steps(o) == OpeningStep(o) \/ CallLedger(o)

(* A step of an opening is its own: it moves nobody else, and it changes only *)
(* the grant and the balances of its key.                                     *)
LEMMA OwnStep ==
    ASSUME Backed, NEW o \in Attempts, Steps(o)
    PROVE  /\ \A p \in Attempts \ {o} :
                  opc'[p] = opc[p] /\ account'[p] = account[p] /\ journal'[p] = journal[p]
           /\ \A k \in Keys : k # KeyOf[o] => grants'[k] = grants[k]
           /\ \A p \in Attempts : KeyOf[p] # KeyOf[o] => credited'[p] = credited[p]
           /\ crossed \subseteq crossed'
           /\ Begin(o) \/ Running(o)
<1> USE AttemptsAssumption
<1>0. TypeOK /\ StepsBacked
  BY DEF Backed
<1>1. \A p \in Attempts \ {o} :
          opc'[p] = opc[p] /\ account'[p] = account[p] /\ journal'[p] = journal[p]
  BY <1>0 DEF TypeOK, Steps, OpeningStep, Begin, ReadCompleted, ReadAbsent, ReadPending, Acquire,
         Reread, UseAnchor, CreateAccount, Attach, CallLedger, LedgerAnswers, LedgerRefuses,
         CallFails, Complete, CompleteLost, ApplyCredit, Reply, Abandon, Goto
<1>2. \A k \in Keys : k # KeyOf[o] => grants'[k] = grants[k]
  BY <1>0 DEF TypeOK, Steps, OpeningStep, Begin, ReadCompleted, ReadAbsent, ReadPending, Acquire,
         Reread, UseAnchor, CreateAccount, Attach, CallLedger, LedgerAnswers, LedgerRefuses,
         CallFails, Complete, CompleteLost, ApplyCredit, Reply, Abandon
<1>3. \A p \in Attempts : KeyOf[p] # KeyOf[o] => credited'[p] = credited[p]
  <2>1. CASE ApplyCredit(o)
    BY <1>0, <2>1 DEF ApplyCredit, StepsBacked, AccountsOf, TypeOK
  <2>2. CASE ~ApplyCredit(o)
    BY <2>2 DEF Steps, OpeningStep, Begin, ReadCompleted, ReadAbsent, ReadPending, Acquire,
         Reread, UseAnchor, CreateAccount, Attach, CallLedger, LedgerAnswers, LedgerRefuses,
         CallFails, Complete, CompleteLost, Reply, Abandon
  <2>3. QED
    BY <2>1, <2>2
<1>4. crossed \subseteq crossed' /\ (Begin(o) \/ Running(o))
  BY DEF Steps, OpeningStep, Begin, ReadCompleted, ReadAbsent, ReadPending, Acquire,
         Reread, UseAnchor, CreateAccount, Attach, CallLedger, LedgerAnswers, LedgerRefuses,
         CallFails, Complete, CompleteLost, ApplyCredit, Reply, Abandon, Running, Ended
<1>5. QED
  BY <1>1, <1>2, <1>3, <1>4

(* What the steps that write a grant make of it. *)
LEMMA GrantWritten ==
    ASSUME Backed, NEW o \in Attempts
    PROVE  /\ Attach(o) => /\ GrantOf(o)'.status = GrantOf(o).status
                           /\ GrantOf(o)'.account = IF GrantOf(o).account = None
                                                    THEN account[o] ELSE GrantOf(o).account
           /\ Complete(o) => GrantOf(o)' =
                  [status |-> "COMPLETED",
                   account |-> IF GrantOf(o).account = None THEN account[o]
                               ELSE GrantOf(o).account,
                   journal |-> journal[o]]
<1> USE AttemptsAssumption
<1>0. TypeOK /\ StepsBacked /\ KeyOf[o] \in Keys
  BY DEF Backed
<1>1. CASE Attach(o)
  <2>1. GrantOf(o) \in Grant
    BY <1>0, <1>1 DEF Attach, StepsBacked, TypeOK, GrantOf
  <2>2. GrantOf(o)' = [GrantOf(o) EXCEPT !.account =
                           IF GrantOf(o).account = None THEN account[o] ELSE GrantOf(o).account]
    BY <1>0, <1>1 DEF Attach, TypeOK, GrantOf
  <2>3. QED
    BY <1>1, <2>1, <2>2 DEF Grant, Attach, Complete
<1>2. CASE Complete(o)
  BY <1>0, <1>2 DEF Complete, Attach, TypeOK, GrantOf
<1>3. QED
  BY <1>1, <1>2

(* Where the opening that steps ends up. *)
LEMMA SerialMoves ==
    ASSUME Backed, NEW o \in Attempts, SerialAt(o), Steps(o)
    PROVE  SerialAt(o)'
<1> USE AttemptsAssumption, NoneAssumption
<1>0. TypeOK /\ StepsBacked /\ KeyOf[o] \in Keys
  BY DEF Backed
<1>1. CASE Acquire(o)
  BY <1>0, <1>1 DEF Acquire, TypeOK, SerialAt, GrantOf, Goto
<1>2. CASE Attach(o)
  BY <1>0, <1>2, GrantWritten DEF Attach, TypeOK, SerialAt, Goto
<1>3. CASE Complete(o)
  <2>1. account[o] \in Attempts /\ journal[o] \in Attempts /\ GrantOf(o) \in Grant
    BY <1>0, <1>3 DEF Complete, StepsBacked, AccountsOf, TypeOK, CreditsTypeOK, GrantOf
  <2>2. GrantOf(o)' \in Grant
    BY <1>3, <2>1, GrantWritten DEF Grant
  <2>3. opc'[o] = "apply" /\ UNCHANGED <<account, journal>> /\ opc[o] = "complete"
    BY <1>0, <1>3 DEF Complete, TypeOK, Goto
  <2>4. GrantOf(o)'.account = account[o] /\ GrantOf(o)'.status = "COMPLETED"
        /\ GrantOf(o)'.journal = journal[o]
    BY <1>3, <2>3, GrantWritten DEF SerialAt
  <2>5. QED
    BY <2>2, <2>3, <2>4 DEF SerialAt
<1>4. CASE ~(Acquire(o) \/ Attach(o) \/ Complete(o))
  <2>1. GrantOf(o)' = GrantOf(o)
    BY <1>4 DEF Steps, OpeningStep, Begin, ReadCompleted, ReadAbsent, ReadPending, Reread,
         UseAnchor, CreateAccount, CallLedger, LedgerAnswers, LedgerRefuses, CallFails,
         CompleteLost, ApplyCredit, Reply, Abandon, GrantOf
  <2>2. CASE ReadCompleted(o)
    BY <1>0, <2>1, <2>2 DEF ReadCompleted, SerialAt, TypeOK, Goto
  <2>3. CASE ReadPending(o) \/ Reread(o)
    BY <1>0, <2>1, <2>3 DEF ReadPending, Reread, UseAnchor, AnchorOf, SerialAt, TypeOK, Goto
  <2>4. CASE ApplyCredit(o)
    BY <1>0, <2>1, <2>4 DEF ApplyCredit, SerialAt, TypeOK, Goto
  <2>5. CASE CreateAccount(o) \/ CallLedger(o) \/ LedgerAnswers(o)
    BY <1>0, <2>1, <2>5 DEF CreateAccount, CallLedger, LedgerAnswers, SerialAt, TypeOK, Goto
  <2>6. CASE CompleteLost(o)
    BY <1>0, <2>6 DEF CompleteLost, SerialAt
  <2>7. CASE Begin(o) \/ ReadAbsent(o) \/ LedgerRefuses(o) \/ CallFails(o) \/ Reply(o) \/ Abandon(o)
    BY <1>0, <2>7 DEF Begin, ReadAbsent, LedgerRefuses, CallFails, Reply, Abandon, SerialAt,
                      TypeOK, Goto
  <2>8. QED
    BY <1>4, <2>2, <2>3, <2>4, <2>5, <2>6, <2>7 DEF Steps, OpeningStep
<1>5. QED
  BY <1>1, <1>2, <1>3, <1>4

(* The bonus stays on the account the grant names. *)
LEMMA BonusAnchored ==
    ASSUME Backed, NEW o \in Attempts, SerialAt(o), Steps(o), NEW p \in Attempts, SameKey(o, p),
           credited[p] > 0 => GrantOf(o).account = p, credited'[p] > 0
    PROVE  GrantOf(o)'.account = p
<1> USE AttemptsAssumption, NoneAssumption
<1>0. TypeOK /\ StepsBacked /\ OneCompletes /\ GrantsBacked /\ KeyOf[o] \in Keys
  BY DEF Backed
<1>1. CASE ApplyCredit(o)
  <2>1. GrantOf(o)' = GrantOf(o) /\ GrantOf(o).account = account[o]
    BY <1>1 DEF ApplyCredit, GrantOf, SerialAt
  <2>2. p # account[o] => credited'[p] = credited[p]
    BY <1>0, <1>1 DEF ApplyCredit, TypeOK, StepsBacked, AccountsOf
  <2>3. QED
    BY <2>1, <2>2
<1>2. CASE ~ApplyCredit(o)
  <2>1. credited'[p] = credited[p]
    BY <1>2 DEF Steps, OpeningStep, Begin, ReadCompleted, ReadAbsent, ReadPending, Acquire,
         Reread, UseAnchor, CreateAccount, Attach, CallLedger, LedgerAnswers, LedgerRefuses,
         CallFails, Complete, CompleteLost, Reply, Abandon
  <2>2. GrantOf(o) # None /\ GrantOf(o).account = p /\ GrantOf(o).account # None
    BY <1>0, <2>1 DEF OneCompletes, GrantOf, SameKey
  <2>3. CASE Acquire(o)
    BY <2>2, <2>3 DEF Acquire, GrantOf
  <2>4. CASE Attach(o) \/ Complete(o)
    BY <2>2, <2>4, GrantWritten
  <2>5. CASE ~(Acquire(o) \/ Attach(o) \/ Complete(o))
    BY <1>2, <2>2, <2>5 DEF Steps, OpeningStep, Begin, ReadCompleted, ReadAbsent, ReadPending,
         Reread, UseAnchor, CreateAccount, CallLedger, LedgerAnswers, LedgerRefuses,
         CallFails, CompleteLost, ApplyCredit, Reply, Abandon, GrantOf
  <2>6. QED
    BY <2>3, <2>4, <2>5
<1>3. QED
  BY <1>1, <1>2

LEMMA SerialKeeps ==
    ASSUME Backed, SerialSteps, NEW o \in Attempts, Steps(o)
    PROVE  SerialSteps'
<1> USE AttemptsAssumption
<1>0. TypeOK
  BY DEF Backed
<1>1. \A q \in Attempts : KeyOf[q] \notin crossed => SerialAt(q)
  BY DEF SerialSteps, SerialAt
<1>2. SUFFICES ASSUME NEW p \in Attempts, KeyOf[p] \notin crossed'
               PROVE  /\ \A q \in Attempts : SameKey(p, q) /\ Running(p)' /\ Running(q)' => p = q
                      /\ SerialAt(p)'
                      /\ credited'[p] > 0 => GrantOf(p)'.account = p
  BY DEF SerialSteps, SerialAt, SameKey
<1>3. KeyOf[p] \notin crossed
  BY <1>2, OwnStep
<1>4. CASE KeyOf[p] # KeyOf[o]
  <2>1. /\ GrantOf(p)' = GrantOf(p) /\ opc'[p] = opc[p] /\ account'[p] = account[p]
        /\ journal'[p] = journal[p] /\ credited'[p] = credited[p]
    BY <1>4, OwnStep DEF GrantOf
  <2>2. \A q \in Attempts : SameKey(p, q) => opc'[q] = opc[q]
    BY <1>4, OwnStep DEF SameKey
  <2>3. SerialAt(p)'
    BY <1>1, <1>3, <2>1 DEF SerialAt
  <2>4. QED
    BY <1>3, <2>1, <2>2, <2>3 DEF SerialSteps, Running
<1>5. CASE KeyOf[p] = KeyOf[o]
  <2>1. ASSUME NEW q \in Attempts \ {o}, SameKey(o, q) PROVE ~Running(q)
    <3>1. CASE Begin(o)
      BY <1>2, <1>5, <2>1, <3>1 DEF Begin, Running, SameKey, Ended
    <3>2. CASE Running(o)
      BY <1>3, <1>5, <2>1, <3>2 DEF SerialSteps, SameKey
    <3>3. QED
      BY <3>1, <3>2, OwnStep
  <2>2. ASSUME NEW q \in Attempts \ {o}, SameKey(o, q) PROVE ~Running(q)'
    BY <2>1, <2>2, OwnStep DEF Running
  <2>3. SerialAt(p)'
    <3>1. CASE p = o
      BY <1>1, <1>3, <3>1, SerialMoves
    <3>2. CASE p # o
      BY <1>5, <2>2, <3>2 DEF Running, SerialAt, Ended, SameKey
    <3>3. QED
      BY <3>1, <3>2
  <2>4. credited'[p] > 0 => GrantOf(p)'.account = p
    <3>1. credited[p] > 0 => GrantOf(o).account = p
      BY <1>3, <1>5 DEF SerialSteps, GrantOf
    <3>2. GrantOf(p)' = GrantOf(o)'
      BY <1>5 DEF GrantOf
    <3>3. QED
      BY <1>1, <1>3, <1>5, <3>1, <3>2, BonusAnchored DEF SameKey
  <2>5. QED
    BY <1>5, <2>2, <2>3, <2>4 DEF SameKey
<1>6. QED
  BY <1>4, <1>5

\* Type correctness; grants and results name accounts and journals that exist,
\* for their key; one opening of a key adds the bonus; and openings of a key
\* that wait for each other go on with what the grant names.
THEOREM OpeningInvariant == Spec => []OpeningInv
<1>1. Init => SerialSteps
  BY AttemptsAssumption DEF Init, SerialSteps, Running
<1>2. Backed /\ SerialSteps /\ [Next]_vars => SerialSteps'
  <2> SUFFICES ASSUME Backed, SerialSteps, [Next]_vars PROVE SerialSteps'
    OBVIOUS
  <2>1. CASE UNCHANGED openVars
    BY <2>1 DEF openVars, SerialSteps, Running, GrantOf
  <2>2. ASSUME NEW o \in Attempts, Steps(o) PROVE SerialSteps'
    BY <2>2, SerialKeeps
  <2>3. QED
    BY <2>1, <2>2, StepCases DEF vars, Steps, LedgerStep
<1>3. QED
  BY <1>1, <1>2, AlwaysBacked, PTL DEF Spec, OpeningInv

\* The bonus of a key reaches one balance, one time.
THEOREM OpeningBonusOnce == Spec => []BonusOnce
<1>1. Backed => BonusOnce
  BY DEF Backed
<1>2. QED
  BY <1>1, AlwaysBacked, PTL

(* The account anchored in a grant, and a completed grant, stay. *)
LEMMA AnchorsKept ==
    ASSUME Backed, Next, NEW k \in Keys, grants[k] # None
    PROVE  /\ grants'[k] # None
           /\ grants[k].account # None => grants'[k].account = grants[k].account
           /\ grants[k].status = "COMPLETED" => grants'[k] = grants[k]
<1> USE AttemptsAssumption, NoneAssumption
<1>0. TypeOK /\ GrantsBacked /\ StepsBacked /\ grants[k] \in Grant
  BY DEF Backed, TypeOK
<1>1. ASSUME UNCHANGED grants
      PROVE  grants'[k] = grants[k]
  BY <1>1
<1>2. ASSUME NEW o \in Attempts, Acquire(o)
      PROVE  grants'[k] = grants[k]
  BY <1>0, <1>2 DEF Acquire, GrantOf, TypeOK
<1>3. ASSUME NEW o \in Attempts, Attach(o)
      PROVE  /\ grants'[k] # None
             /\ grants[k].account # None => grants'[k] = grants[k]
             /\ grants[k].status = "COMPLETED" => grants'[k] = grants[k]
  <2>1. grants' = [grants EXCEPT ![KeyOf[o]].account = IF @ = None THEN account[o] ELSE @]
    BY <1>3 DEF Attach
  <2>2. grants[k].status = "COMPLETED" => grants[k].account # None
    BY <1>0 DEF GrantsBacked
  <2>3. CASE k # KeyOf[o]
    BY <1>0, <2>1, <2>3 DEF TypeOK
  <2>4. CASE k = KeyOf[o]
    <3>1. grants'[k] = [grants[k] EXCEPT !.account =
                            IF grants[k].account = None THEN account[o]
                            ELSE grants[k].account]
      BY <1>0, <2>1, <2>4 DEF TypeOK
    <3>2. account[o] \in Attempts
      BY <1>0, <1>3 DEF Attach, StepsBacked, AccountsOf, TypeOK
    <3>3. grants'[k] \in Grant
      BY <1>0, <3>1, <3>2 DEF Grant
    <3>4. grants[k].account # None => grants'[k] = grants[k]
      BY <1>0, <3>1 DEF Grant
    <3>5. QED
      BY <2>2, <3>3, <3>4
  <2>5. QED
    BY <2>3, <2>4
<1>4. ASSUME NEW o \in Attempts, Complete(o)
      PROVE  /\ grants'[k] # None
             /\ grants[k].account # None => grants'[k].account = grants[k].account
             /\ grants[k].status = "COMPLETED" => grants'[k] = grants[k]
  <2>1. CASE k # KeyOf[o]
    BY <1>0, <1>4, <2>1 DEF Complete, TypeOK
  <2>2. CASE k = KeyOf[o]
    <3>1. /\ grants[k].status = "PENDING"
          /\ grants'[k] = [status |-> "COMPLETED",
                           account |-> IF grants[k].account = None THEN account[o]
                                       ELSE grants[k].account,
                           journal |-> journal[o]]
      BY <1>0, <1>4, <2>2 DEF Complete, GrantOf, TypeOK
    <3>2. account[o] \in Attempts /\ journal[o] \in Attempts
      BY <1>0, <1>4 DEF Complete, StepsBacked, AccountsOf, TypeOK, CreditsTypeOK
    <3>3. grants'[k] \in Grant
      BY <1>0, <3>1, <3>2 DEF Grant
    <3>4. QED
      BY <3>1, <3>3
  <2>3. QED
    BY <2>1, <2>2
<1>5. ASSUME NEW o \in Attempts,
             Alone(o) \/ CreateAccount(o) \/ ApplyCredit(o) \/ Reply(o)
      PROVE  UNCHANGED grants
  BY <1>5 DEF Alone, Begin, ReadCompleted, ReadAbsent, ReadPending, Reread, UseAnchor,
              CallLedger, LedgerStep, openVars, LedgerAnswers, LedgerRefuses, CallFails,
              CompleteLost, Abandon, CreateAccount, ApplyCredit, Reply
<1>6. QED
  BY <1>1, <1>2, <1>3, <1>4, <1>5 DEF Next, Alone

\* The account anchored in a grant, and a completed grant, never change.
THEOREM OpeningAnchorsStay == Spec => AnchorsStay
<1>1. Backed /\ [Next]_vars =>
          [ \A k \in Keys : grants[k] # None =>
                /\ grants'[k] # None
                /\ grants[k].account # None => grants'[k].account = grants[k].account
                /\ grants[k].status = "COMPLETED" => grants'[k] = grants[k] ]_vars
  BY AnchorsKept
<1>2. QED
  BY <1>1, AlwaysBacked, PTL DEF Spec, AnchorsStay

\* If retries wait for the openings before them, every opening of a key returns
\* what the completed grant names, and the bonus is on that account or nowhere.
THEOREM OpeningSerialRetriesAgree == Spec => []SerialRetriesAgree
<1> DEFINE Granted == \A o \in Attempts :
                          result[o] # None /\ KeyOf[o] \notin crossed => GrantOf(o) # None
           Agree == SerialRetriesAgree /\ Granted
<1>1. Init => Agree
  BY DEF Init, SerialRetriesAgree
<1>2. OpeningInv /\ OpeningInv' /\ Agree /\ [Next]_vars => Agree'
  <2> SUFFICES ASSUME OpeningInv, OpeningInv', Agree, [Next]_vars,
                      NEW p \in Attempts, result'[p] # None, KeyOf[p] \notin crossed'
               PROVE  /\ GrantOf(p)' # None
                      /\ GrantOf(p)'.status = "COMPLETED"
                      /\ result'[p].account = GrantOf(p)'.account
                      /\ result'[p].journal = GrantOf(p)'.journal
                      /\ \A q \in Attempts :
                             SameKey(p, q) /\ credited'[q] > 0 => q = result'[p].account
    BY DEF SerialRetriesAgree
  <2> USE AttemptsAssumption, NoneAssumption
  <2>0. TypeOK /\ GrantsBacked /\ StepsBacked /\ SerialSteps /\ KeyOf[p] \in Keys
    BY DEF OpeningInv, Backed
  <2>1. SUFFICES /\ GrantOf(p)' # None
                 /\ GrantOf(p)'.status = "COMPLETED"
                 /\ result'[p].account = GrantOf(p)'.account
                 /\ result'[p].journal = GrantOf(p)'.journal
    <3>1. \A q \in Attempts :
              SameKey(p, q) /\ credited'[q] > 0 => GrantOf(q)'.account = q
      BY <2>0 DEF OpeningInv, SerialSteps, SameKey
    <3>2. QED
      BY <2>1, <3>1 DEF SameKey, GrantOf
  <2>2. CASE UNCHANGED openVars
    BY <2>2 DEF openVars, SerialRetriesAgree, GrantOf
  <2>3. ASSUME NEW o \in Attempts, Reply(o)
        PROVE  <2>1!1
    <3>1. crossed' = crossed /\ GrantOf(p)' = GrantOf(p)
      BY <2>3 DEF Reply, GrantOf
    <3>2. CASE p = o
      <4>1. /\ opc[o] = "reply"
            /\ result'[o] = [account |-> account[o], journal |-> journal[o]]
        BY <2>0, <2>3 DEF Reply, TypeOK
      <4>2. QED
        BY <2>0, <3>1, <3>2, <4>1 DEF SerialSteps
    <3>3. CASE p # o
      BY <2>0, <2>3, <3>1, <3>3 DEF Reply, TypeOK, SerialRetriesAgree
    <3>4. QED
      BY <3>2, <3>3
  <2>4. ASSUME NEW o \in Attempts, Steps(o), ~Reply(o)
        PROVE  <2>1!1
    <3>1. result' = result
      BY <2>4 DEF Steps, OpeningStep, Begin, ReadCompleted, ReadAbsent, ReadPending, Acquire,
         Reread, UseAnchor, CreateAccount, Attach, CallLedger, LedgerAnswers, LedgerRefuses,
         CallFails, Complete, CompleteLost, ApplyCredit, Abandon
    <3>2. KeyOf[p] \notin crossed
      BY <2>4, OwnStep DEF OpeningInv
    <3>3. /\ GrantOf(p) # None
          /\ GrantOf(p).status = "COMPLETED"
          /\ result[p].account = GrantOf(p).account
          /\ result[p].journal = GrantOf(p).journal
      BY <3>1, <3>2 DEF SerialRetriesAgree
    <3>4. GrantOf(p)' = GrantOf(p)
      BY <2>0, <2>4, <3>3, AnchorsKept DEF OpeningInv, GrantOf, Next, Steps, OpeningStep
    <3>5. QED
      BY <3>1, <3>3, <3>4
  <2>5. QED
    BY <2>2, <2>3, <2>4, StepCases DEF vars, Steps, LedgerStep
<1>3. QED
  BY <1>1, <1>2, OpeningInvariant, PTL DEF Spec

=============================================================================
