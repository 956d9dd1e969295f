-------------------------- MODULE OnboardingProofs --------------------------
(***************************************************************************)
(* Proofs about Onboarding for any calls: first what holds however they    *)
(* overlap, then what holds while they follow each other.                  *)
(***************************************************************************)
EXTENDS Onboarding, FiniteSetTheorems, TLAPS

(* The clauses of the invariant about documents hold after a step that loses *)
(* no final document and no upload, and that writes back only states that    *)
(* were read.                                                                *)
LEMMA DocumentsStay ==
    ASSUME Consistent,
           finals \subseteq finals', \A d \in Docs : Kept(d)',
           reg'.state = "STARTED" \/ Docs \subseteq finals'
    PROVE  DocumentsKept'
  BY DEF DocumentsKept

(* What was sound stays so if the account service forgets nothing. *)
LEMMA RowsStay ==
    ASSUME Consistent, UNCHANGED <<reg, read>>, finals \subseteq finals',
           customers \subseteq customers', UNCHANGED anchor,
           \A x \in Activations : owner[x] \in customers => owner'[x] \in customers'
    PROVE  /\ RowSound'
           /\ \A o \in Ops : Sound(read[o])'
                             /\ (read[o]'.state # "STARTED" => Docs \subseteq finals')
           /\ anchor' # None => owner'[anchor'] \in customers'
           /\ reg'.state = "STARTED" \/ Docs \subseteq finals'
<1>1. /\ reg.account \in Activations \cup {None}
      /\ \A o \in Ops : read[o].account \in Activations \cup {None}
      /\ anchor \in Activations \cup {None}
  BY DEF Consistent, TypeOK, Row, CustomerOrNone
<1>2. RowSound'
  BY <1>1 DEF Consistent, RowSound, Sound
<1>3. ASSUME NEW o \in Ops PROVE Sound(read[o])'
  BY <1>1 DEF Consistent, Underway, Sound
<1>4. QED
  BY <1>1, <1>2, <1>3 DEF Consistent, Underway, DocumentsKept

(* A step of one call leaves what the invariant says of other activations. *)
LEMMA ActivatingStays ==
    ASSUME Consistent, NEW a \in Activations,
           pc'[a] = pc[a] \/ pc'[a] \notin Working, UNCHANGED <<cust, acct>>,
           read'[a] = read[a], customers \subseteq customers',
           \A x \in Activations : owner[x] \in customers => owner'[x] \in customers'
    PROVE  Activating(a)'
<1>1. acct[a] \in Activations \cup {None} /\ Activating(a)
  BY DEF Consistent, TypeOK, CustomerOrNone, Underway
<1>2. QED
  BY <1>1 DEF Activating, Working

(* A step that does not move a confirmation leaves it as it is. *)
LEMMA ConfirmingStays ==
    ASSUME Consistent, NEW c \in Confirms,
           pc'[c] = pc[c] \/ pc'[c] \notin {"delete", "commit"},
           finalized'[c] = finalized[c], finals \subseteq finals',
           \/ UNCHANGED <<newest, late>>
           \/ pc[c] = "delete" => newest'[Current(c)] = "final" \/ Current(c) \in late'
    PROVE  Confirming(c)'
  BY DEF Consistent, Underway, Confirming, Current

(* The steps of any call that leave the row, the remote services and what the *)
(* call knows as they are.                                                    *)
Moves(o) ==
    \/ Begin(o) \/ Answer(o) \/ Unheard(o) \/ Fail(o)
    \/ o \in Confirms /\ CopyRefused(o)
    \/ o \in Activations /\ ActivateRefused(o)

LEMMA MovesKeep ==
    ASSUME Consistent, NEW o \in Ops, Moves(o)
    PROVE  Consistent'
<1>1. /\ UNCHANGED <<reg, link, store, remote, locals, overwritten>>
      /\ \E l \in {"read", "done"} : pc' = [pc EXCEPT ![o] = l]
      /\ disturbed' \in BOOLEAN
      /\ told' = told \/ (o \in Activations /\ told' = [told EXCEPT ![o] = <<cust[o], acct[o]>>])
  BY DEF Moves, Begin, Answer, Unheard, Fail, CopyRefused, ActivateRefused, Goto,
         Consistent, TypeOK
<1>2. TypeOK'
  BY <1>1 DEF Consistent, TypeOK, store, remote, locals, Ops
<1>3. /\ DocumentsKept' /\ RowSound'
      /\ \A p \in Ops : Sound(read[p])'
                        /\ (read[p]'.state # "STARTED" => Docs \subseteq finals')
      /\ anchor' # None => owner'[anchor'] \in customers'
  BY <1>1, RowsStay, DocumentsStay DEF store, remote, locals, Consistent, DocumentsKept, Kept
<1>4. ASSUME NEW c \in Confirms PROVE Confirming(c)'
  BY <1>1, ConfirmingStays DEF store, locals, Consistent, TypeOK, Ops
<1>5. ASSUME NEW a \in Activations PROVE Activating(a)'
  BY <1>1, ActivatingStays DEF remote, locals, Consistent, TypeOK, Ops, Working
<1>6. QED
  BY <1>2, <1>3, <1>4, <1>5 DEF Consistent, Underway

(* The steps of a confirmation. *)
LEMMA ConfirmKeeps ==
    ASSUME Consistent, NEW c \in Confirms, Confirm(c)
    PROVE  Consistent'
<1> USE OnboardingAssumption DEF Ops
<1>1. CASE ConfirmRead(c)
  <2>1. TypeOK'
    BY <1>1 DEF ConfirmRead, Goto, Consistent, TypeOK, store, remote, Row
  <2>2. /\ RowSound' /\ DocumentsKept' /\ (anchor' # None => owner'[anchor'] \in customers')
        /\ \A o \in Ops : Sound(read[o])'
                          /\ (read[o]'.state # "STARTED" => Docs \subseteq finals')
    BY <1>1 DEF ConfirmRead, Consistent, TypeOK, store, remote, Underway, RowSound, Sound,
                DocumentsKept, Kept
  <2>3. ASSUME NEW d \in Confirms PROVE Confirming(d)'
    BY <1>1, ConfirmingStays DEF ConfirmRead, Goto, store, Consistent, TypeOK
  <2>4. ASSUME NEW a \in Activations PROVE Activating(a)'
    BY <1>1, ActivatingStays DEF ConfirmRead, Goto, remote, Consistent, TypeOK
  <2>5. QED
    BY <2>1, <2>2, <2>3, <2>4 DEF Consistent, Underway
<1>2. CASE Copy(c)
  <2>a. /\ finals' = finals \cup {Current(c)} /\ Current(c) \in Docs
        /\ newest' = [newest EXCEPT ![Current(c)] = "final"]
        /\ late' = late \ {Current(c)} /\ staged' = staged
        /\ newest \in [Docs -> {"nowhere", "staged", "final", "deleted"}]
    BY <1>2 DEF Copy, Current, Docs, Consistent, TypeOK
  <2>b. ASSUME NEW d \in Docs PROVE Kept(d)'
    <3>1. Kept(d)
      BY DEF Consistent, DocumentsKept
    <3>2. QED
      BY <2>a, <3>1 DEF Kept
  <2>1. TypeOK'
    BY <1>2 DEF Copy, Goto, Consistent, TypeOK, locals, remote, Current, Docs
  <2>2. /\ RowSound' /\ DocumentsKept' /\ (anchor' # None => owner'[anchor'] \in customers')
        /\ \A o \in Ops : Sound(read[o])'
                          /\ (read[o]'.state # "STARTED" => Docs \subseteq finals')
    <3>1. UNCHANGED <<reg, read, remote>>
      BY <1>2 DEF Copy, locals
    <3>2. /\ RowSound' /\ (anchor' # None => owner'[anchor'] \in customers')
          /\ reg'.state = "STARTED" \/ Docs \subseteq finals'
          /\ \A o \in Ops : Sound(read[o])'
                            /\ (read[o]'.state # "STARTED" => Docs \subseteq finals')
      BY <2>a, <3>1, RowsStay DEF remote
    <3>3. DocumentsKept'
      BY <2>b, <3>2 DEF DocumentsKept
    <3>4. QED
      BY <3>2, <3>3
  <2>3. ASSUME NEW d \in Confirms PROVE Confirming(d)'
    <3>1. CASE d = c
      <4>1. /\ pc'[c] = "delete" /\ finalized' = finalized
            /\ Current(c)' = Current(c) /\ finalized[c] \subseteq finals
        BY <1>2 DEF Copy, Goto, locals, Consistent, TypeOK, Underway, Confirming, Current
      <4>2. QED
        BY <2>a, <3>1, <4>1 DEF Confirming
    <3>2. CASE d # c
      <4>1. pc'[d] = pc[d] /\ finalized'[d] = finalized[d] /\ Current(d) \in Docs
        BY <1>2, <3>2 DEF Copy, Goto, locals, Consistent, TypeOK, Current, Docs
      <4>2. pc[d] = "delete" => newest[Current(d)] = "final" \/ Current(d) \in late
        BY DEF Consistent, Underway, Confirming
      <4>3. pc[d] = "delete" => newest'[Current(d)] = "final" \/ Current(d) \in late'
        BY <2>a, <4>1, <4>2
      <4>4. finals \subseteq finals'
        BY <2>a
      <4>5. QED
        BY <4>1, <4>3, <4>4, ConfirmingStays
    <3>3. QED
      BY <3>1, <3>2
  <2>4. ASSUME NEW a \in Activations PROVE Activating(a)'
    BY <1>2, ActivatingStays DEF Copy, Goto, remote, locals, Consistent, TypeOK
  <2>5. QED
    BY <2>1, <2>2, <2>3, <2>4 DEF Consistent, Underway
<1>3. CASE Delete(c)
  <2>0. /\ Current(c) \in finals
        /\ newest[Current(c)] = "final" \/ Current(c) \in late
    BY <1>3 DEF Delete, Consistent, Underway, Confirming
  <2>a. /\ staged' = staged \ {Current(c)} /\ Current(c) \in Docs
        /\ newest' = [newest EXCEPT ![Current(c)] = IF @ = "staged" THEN "deleted" ELSE @]
        /\ late' = late /\ finals' = finals
        /\ newest \in [Docs -> {"nowhere", "staged", "final", "deleted"}]
    BY <1>3 DEF Delete, Current, Docs, Consistent, TypeOK
  <2>b. ASSUME NEW d \in Docs PROVE Kept(d)'
    <3>1. Kept(d)
      BY DEF Consistent, DocumentsKept
    <3>2. CASE d = Current(c)
      BY <2>0, <2>a, <3>1, <3>2 DEF Kept
    <3>3. CASE d # Current(c)
      BY <2>a, <3>1, <3>3 DEF Kept
    <3>4. QED
      BY <3>2, <3>3
  <2>1. TypeOK'
    BY <1>3 DEF Delete, Goto, Consistent, TypeOK, remote, Current, Docs
  <2>2. /\ RowSound' /\ DocumentsKept' /\ (anchor' # None => owner'[anchor'] \in customers')
        /\ \A o \in Ops : Sound(read[o])'
                          /\ (read[o]'.state # "STARTED" => Docs \subseteq finals')
    <3>1. UNCHANGED <<reg, read, remote>>
      BY <1>3 DEF Delete
    <3>2. /\ RowSound' /\ (anchor' # None => owner'[anchor'] \in customers')
          /\ reg'.state = "STARTED" \/ Docs \subseteq finals'
          /\ \A o \in Ops : Sound(read[o])'
                            /\ (read[o]'.state # "STARTED" => Docs \subseteq finals')
      BY <2>a, <3>1, RowsStay DEF remote
    <3>3. DocumentsKept'
      BY <2>b, <3>2 DEF DocumentsKept
    <3>4. QED
      BY <3>2, <3>3
  <2>3. ASSUME NEW d \in Confirms PROVE Confirming(d)'
    <3>1. CASE d = c
      <4>1. /\ finalized'[c] = finalized[c] \cup {Current(c)}
            /\ pc'[c] = IF Current(c) = Selfie THEN "commit" ELSE "copy"
            /\ finals' = finals
        BY <1>3 DEF Delete, Goto, Consistent, TypeOK
      <4>2. finalized[c] \subseteq Docs /\ finalized[c] \subseteq finals
        BY DEF Consistent, TypeOK, Underway, Confirming
      <4>3. Current(c) = Selfie => finalized'[c] = Docs
        BY <4>1, <4>2 DEF Current, Docs
      <4>4. QED
        BY <2>0, <3>1, <4>1, <4>2, <4>3 DEF Confirming
    <3>2. CASE d # c
      <4>1. pc'[d] = pc[d] /\ finalized'[d] = finalized[d] /\ Current(d) \in Docs
        BY <1>3, <3>2 DEF Delete, Goto, Consistent, TypeOK, Current, Docs
      <4>2. pc[d] = "delete" => newest[Current(d)] = "final" \/ Current(d) \in late
        BY DEF Consistent, Underway, Confirming
      <4>3. pc[d] = "delete" => newest'[Current(d)] = "final" \/ Current(d) \in late'
        BY <2>a, <4>1, <4>2
      <4>4. QED
        BY <2>a, <4>1, <4>3, ConfirmingStays
    <3>3. QED
      BY <3>1, <3>2
  <2>4. ASSUME NEW a \in Activations PROVE Activating(a)'
    BY <1>3, ActivatingStays DEF Delete, Goto, remote, Consistent, TypeOK
  <2>5. QED
    BY <2>1, <2>2, <2>3, <2>4 DEF Consistent, Underway
<1>4. CASE ConfirmCommit(c)
  <2>0. /\ Docs \subseteq finals
        /\ reg' = [read[c] EXCEPT !.state = "KYC_CONFIRMED"]
        /\ UNCHANGED <<link, store, remote, locals, told, disturbed>>
        /\ pc' = [pc EXCEPT ![c] = "answer"]
        /\ overwritten' \in BOOLEAN
        /\ read[c] \in Row
    BY <1>4 DEF ConfirmCommit, ConfirmedRow, WriteRow, Goto, Consistent, TypeOK,
                Underway, Confirming
  <2>1. TypeOK'
    BY <2>0 DEF Consistent, TypeOK, store, remote, locals, Row
  <2>2. RowSound'
    BY <2>0 DEF RowSound, Sound, Consistent, Underway, Row, remote
  <2>3. /\ DocumentsKept' /\ (anchor' # None => owner'[anchor'] \in customers')
        /\ \A o \in Ops : Sound(read[o])'
                          /\ (read[o]'.state # "STARTED" => Docs \subseteq finals')
    BY <2>0 DEF DocumentsKept, Kept, Consistent, Underway, Sound, store, remote, locals
  <2>4. ASSUME NEW d \in Confirms PROVE Confirming(d)'
    BY <2>0, ConfirmingStays DEF store, locals, Consistent, TypeOK
  <2>5. ASSUME NEW a \in Activations PROVE Activating(a)'
    BY <2>0, ActivatingStays DEF remote, locals, Consistent, TypeOK
  <2>6. QED
    BY <2>1, <2>2, <2>3, <2>4, <2>5 DEF Consistent, Underway
<1>5. CASE CopyRefused(c)
  BY <1>5, MovesKeep DEF Moves
<1>6. QED
  BY <1>1, <1>2, <1>3, <1>4, <1>5 DEF Confirm

(* The steps of an activation.  None but the commit writes the row. *)
LEMMA ActivateKeeps ==
    ASSUME Consistent, NEW a \in Activations, Activate(a)
    PROVE  Consistent'
<1> USE OnboardingAssumption DEF Ops
<1>a. Activating(a) /\ a \notin Confirms
  BY DEF Consistent, Underway
<1>1. CASE ActivateRead(a)
  <2>1. TypeOK'
    BY <1>1 DEF ActivateRead, Goto, Consistent, TypeOK, store, remote, Row, CustomerOrNone
  <2>2. /\ RowSound' /\ DocumentsKept' /\ (anchor' # None => owner'[anchor'] \in customers')
        /\ \A o \in Ops : Sound(read[o])'
                          /\ (read[o]'.state # "STARTED" => Docs \subseteq finals')
    BY <1>1 DEF ActivateRead, Consistent, TypeOK, store, remote, Underway, RowSound, Sound,
                DocumentsKept, Kept
  <2>3. ASSUME NEW c \in Confirms PROVE Confirming(c)'
    BY <1>1, <1>a, ConfirmingStays DEF ActivateRead, Goto, store, Consistent, TypeOK
  <2>4. ASSUME NEW b \in Activations PROVE Activating(b)'
    <3>1. CASE b = a
      <4>1. /\ read'[a] = reg /\ cust'[a] = reg.customer /\ acct'[a] = reg.account
            /\ pc'[a] = IF reg.state = "ACTIVATED" THEN "answer"
                        ELSE IF reg.customer = None THEN "customer" ELSE "open"
            /\ reg.state = "ACTIVATED" \/ reg.state = "KYC_CONFIRMED"
            /\ UNCHANGED <<owner, customers>>
        BY <1>1 DEF ActivateRead, MayActivate, Goto, remote, Consistent, TypeOK
      <4>2. Sound(reg)
        BY DEF Consistent, RowSound
      <4>3. QED
        BY <3>1, <4>1, <4>2 DEF Activating, Sound
    <3>2. CASE b # a
      BY <1>1, <3>2, ActivatingStays DEF ActivateRead, Goto, remote, Consistent, TypeOK,
                                         Activating, Underway
    <3>3. QED
      BY <3>1, <3>2
  <2>5. QED
    BY <2>1, <2>2, <2>3, <2>4 DEF Consistent, Underway
<1>2. CASE CreateCustomer(a)
  <2>1. TypeOK'
    BY <1>2 DEF CreateCustomer, Goto, Consistent, TypeOK, store, CustomerOrNone
  <2>2. /\ RowSound' /\ DocumentsKept' /\ (anchor' # None => owner'[anchor'] \in customers')
        /\ \A o \in Ops : Sound(read[o])'
                          /\ (read[o]'.state # "STARTED" => Docs \subseteq finals')
    BY <1>2, RowsStay, DocumentsStay DEF CreateCustomer, store, Consistent, DocumentsKept, Kept
  <2>3. ASSUME NEW c \in Confirms PROVE Confirming(c)'
    BY <1>2, <1>a, ConfirmingStays DEF CreateCustomer, Goto, store, Consistent, TypeOK
  <2>4. ASSUME NEW b \in Activations PROVE Activating(b)'
    <3>1. /\ pc' = [pc EXCEPT ![a] = "link"] /\ cust' = [cust EXCEPT ![a] = a]
          /\ customers' = customers \cup {a} /\ UNCHANGED <<owner, read, acct>>
          /\ pc[a] = "customer"
      BY <1>2 DEF CreateCustomer, Goto
    <3>2. CASE b = a
      <4>1. read[a].customer = None /\ Sound(read[a]) /\ read[a].state = "KYC_CONFIRMED"
        BY <1>a, <3>1 DEF Activating, Consistent, Underway
      <4>2. QED
        BY <1>a, <3>1, <3>2, <4>1 DEF Consistent, TypeOK, Activating, Sound
    <3>3. CASE b # a
      BY <3>1, <3>3 DEF Consistent, TypeOK, Underway, Activating
    <3>4. QED
      BY <3>2, <3>3
  <2>5. QED
    BY <2>1, <2>2, <2>3, <2>4 DEF Consistent, Underway
<1>3. CASE UpsertLink(a) \/ OpenSkipped(a) \/ OpenRead(a) \/ OpenAnchored(a)
  <2>0. /\ UNCHANGED <<reg, link, store, remote, read, finalized, cust, told, overwritten,
                       disturbed>>
        /\ linkFound' \in [Activations -> BOOLEAN]
        /\ \/ /\ pc[a] = "link" /\ pc' = [pc EXCEPT ![a] = "open"] /\ acct' = acct
           \/ /\ pc[a] = "open" /\ acct[a] # None
              /\ pc' = [pc EXCEPT ![a] = "commit"] /\ acct' = acct
           \/ /\ pc[a] = "open" /\ acct[a] = None
              /\ pc' = [pc EXCEPT ![a] = "opening"] /\ acct' = [acct EXCEPT ![a] = anchor]
           \/ /\ pc[a] = "opening" /\ acct[a] # None
              /\ pc' = [pc EXCEPT ![a] = "commit"] /\ acct' = acct
    BY <1>3 DEF UpsertLink, OpenSkipped, OpenRead, OpenAnchored, Goto, locals,
                Consistent, TypeOK
  <2>1. TypeOK'
    BY <2>0 DEF Consistent, TypeOK, store, remote
  <2>2. /\ RowSound' /\ DocumentsKept' /\ (anchor' # None => owner'[anchor'] \in customers')
        /\ \A o \in Ops : Sound(read[o])'
                          /\ (read[o]'.state # "STARTED" => Docs \subseteq finals')
    BY <2>0, RowsStay, DocumentsStay DEF store, remote, Consistent, DocumentsKept, Kept
  <2>3. ASSUME NEW c \in Confirms PROVE Confirming(c)'
    BY <2>0, <1>a, ConfirmingStays DEF store, Consistent, TypeOK
  <2>4. ASSUME NEW b \in Activations PROVE Activating(b)'
    <3>1. CASE b = a
      <4>1. anchor # None => owner[anchor] \in customers
        BY DEF Consistent, Underway
      <4>2. QED
        BY <1>a, <2>0, <3>1, <4>1 DEF remote, Consistent, TypeOK, Activating
    <3>2. CASE b # a
      BY <2>0, <3>2 DEF remote, Consistent, TypeOK, Underway, Activating
    <3>3. QED
      BY <3>1, <3>2
  <2>5. QED
    BY <2>1, <2>2, <2>3, <2>4 DEF Consistent, Underway
<1>4. CASE OpenNew(a)
  <2>0. /\ UNCHANGED <<reg, link, store, customers, read, finalized, cust, linkFound, told,
                       overwritten, disturbed>>
        /\ pc[a] = "opening" /\ pc' = [pc EXCEPT ![a] = "commit"]
        /\ acct' = [acct EXCEPT ![a] = a]
        /\ owner' = [owner EXCEPT ![a] = cust[a]]
        /\ anchor' = IF anchor = None THEN a ELSE anchor
        /\ cust[a] \in customers
    BY <1>4, <1>a DEF OpenNew, Goto, Activating
  <2>1. TypeOK'
    BY <2>0 DEF Consistent, TypeOK, store, CustomerOrNone
  <2>2. \A x \in Activations : owner[x] \in customers => owner'[x] \in customers'
    BY <2>0 DEF Consistent, TypeOK
  <2>3. /\ RowSound' /\ DocumentsKept' /\ (anchor' # None => owner'[anchor'] \in customers')
        /\ \A o \in Ops : Sound(read[o])'
                          /\ (read[o]'.state # "STARTED" => Docs \subseteq finals')
    <3>1. RowSound' /\ DocumentsKept'
      <4>1. reg.account \in Activations \cup {None}
        BY DEF Consistent, TypeOK, Row, CustomerOrNone
      <4>2. QED
        BY <2>0, <2>2, <4>1 DEF Consistent, RowSound, Sound, DocumentsKept, Kept, store
    <3>2. anchor' # None => owner'[anchor'] \in customers'
      BY <2>0, <2>2 DEF Consistent, TypeOK, CustomerOrNone, Underway
    <3>3. ASSUME NEW o \in Ops
          PROVE Sound(read[o])' /\ (read[o]'.state # "STARTED" => Docs \subseteq finals')
      <4>1. read[o].account \in Activations \cup {None}
        BY DEF Consistent, TypeOK, Row, CustomerOrNone
      <4>2. QED
        BY <2>0, <2>2, <4>1 DEF Consistent, Underway, Sound, store
    <3>4. QED
      BY <3>1, <3>2, <3>3
  <2>4. ASSUME NEW c \in Confirms PROVE Confirming(c)'
    BY <2>0, <1>a, ConfirmingStays DEF store, Consistent, TypeOK
  <2>5. ASSUME NEW b \in Activations PROVE Activating(b)'
    <3>1. CASE b = a
      BY <1>a, <2>0, <3>1 DEF Consistent, TypeOK, Activating
    <3>2. CASE b # a
      BY <2>0, <2>2, <3>2 DEF Consistent, TypeOK, CustomerOrNone, Underway, Activating
    <3>3. QED
      BY <3>1, <3>2
  <2>6. QED
    BY <2>1, <2>3, <2>4, <2>5 DEF Consistent, Underway
<1>5. CASE ActivateCommit(a)
  <2>0. /\ Docs \subseteq finals
        /\ cust[a] \in customers /\ acct[a] # None /\ owner[acct[a]] \in customers
        /\ reg' = [read[a] EXCEPT !.state = "ACTIVATED", !.customer = cust[a], !.account = acct[a]]
        /\ UNCHANGED <<store, remote, locals, told, disturbed>>
        /\ pc' = [pc EXCEPT ![a] = "answer"]
        /\ overwritten' \in BOOLEAN
        /\ link' \in CustomerOrNone
        /\ read[a] \in Row /\ cust[a] \in CustomerOrNone /\ acct[a] \in CustomerOrNone
    BY <1>5, <1>a DEF ActivateCommit, ActivatedRow, WriteRow, Goto, Consistent, TypeOK,
                Underway, Activating
  <2>1. TypeOK'
    BY <2>0 DEF Consistent, TypeOK, store, remote, locals, Row
  <2>2. RowSound'
    BY <2>0 DEF RowSound, Sound, Row, remote, Consistent, TypeOK
  <2>3. /\ DocumentsKept' /\ (anchor' # None => owner'[anchor'] \in customers')
        /\ \A o \in Ops : Sound(read[o])'
                          /\ (read[o]'.state # "STARTED" => Docs \subseteq finals')
    BY <2>0 DEF DocumentsKept, Kept, Consistent, Underway, Sound, store, remote, locals
  <2>4. ASSUME NEW c \in Confirms PROVE Confirming(c)'
    BY <2>0, <1>a, ConfirmingStays DEF store, locals, Consistent, TypeOK
  <2>5. ASSUME NEW b \in Activations PROVE Activating(b)'
    BY <2>0, ActivatingStays DEF remote, locals, Consistent, TypeOK, Working
  <2>6. QED
    BY <2>1, <2>2, <2>3, <2>4, <2>5 DEF Consistent, Underway
<1>6. CASE ActivateRefused(a)
  BY <1>6, MovesKeep DEF Moves
<1>7. QED
  BY <1>1, <1>2, <1>3, <1>4, <1>5, <1>6 DEF Activate

(* The steps of a login. *)
LEMMA LoginKeeps ==
    ASSUME Consistent, NEW l \in Logins, Login(l)
    PROVE  Consistent'
<1> USE OnboardingAssumption DEF Ops
<1>a. l \notin Confirms /\ l \notin Activations
  OBVIOUS
<1>1. CASE LoginRead(l)
  <2>1. TypeOK'
    BY <1>1 DEF LoginRead, Goto, Consistent, TypeOK, store, remote, Row
  <2>2. /\ RowSound' /\ DocumentsKept' /\ (anchor' # None => owner'[anchor'] \in customers')
        /\ \A o \in Ops : Sound(read[o])'
                          /\ (read[o]'.state # "STARTED" => Docs \subseteq finals')
    BY <1>1 DEF LoginRead, Consistent, TypeOK, store, remote, Underway, RowSound, Sound,
                DocumentsKept, Kept
  <2>3. ASSUME NEW c \in Confirms PROVE Confirming(c)'
    BY <1>1, <1>a, ConfirmingStays DEF LoginRead, Goto, store, Consistent, TypeOK
  <2>4. ASSUME NEW a \in Activations PROVE Activating(a)'
    BY <1>1, <1>a, ActivatingStays DEF LoginRead, Goto, remote, Consistent, TypeOK
  <2>5. QED
    BY <2>1, <2>2, <2>3, <2>4 DEF Consistent, Underway
<1>2. CASE LoginSave(l)
  <2>0. /\ reg' = Merged(l)
        /\ UNCHANGED <<link, store, remote, locals, told, disturbed>>
        /\ pc' = [pc EXCEPT ![l] = "link"]
        /\ overwritten' \in BOOLEAN
        /\ read[l] \in Row /\ reg \in Row
        /\ Sound(read[l]) /\ Sound(reg)
        /\ read[l].state # "STARTED" => Docs \subseteq finals
    BY <1>2 DEF LoginSave, WriteRow, Goto, Consistent, TypeOK, Underway, RowSound
  <2>1. Merged(l) \in Row
    BY <2>0 DEF Merged, Row
  <2>2. TypeOK'
    BY <2>0, <2>1 DEF Consistent, TypeOK, store, remote, locals
  <2>3. RowSound'
    BY <2>0 DEF RowSound, Sound, Merged, remote
  <2>4. /\ DocumentsKept' /\ (anchor' # None => owner'[anchor'] \in customers')
        /\ \A o \in Ops : Sound(read[o])'
                          /\ (read[o]'.state # "STARTED" => Docs \subseteq finals')
    BY <2>0 DEF DocumentsKept, Kept, Merged, Consistent, Underway, Sound, store, remote, locals
  <2>5. ASSUME NEW c \in Confirms PROVE Confirming(c)'
    BY <1>a, <2>0, ConfirmingStays DEF store, locals, Consistent, TypeOK
  <2>6. ASSUME NEW a \in Activations PROVE Activating(a)'
    BY <1>a, <2>0, ActivatingStays DEF remote, locals, Consistent, TypeOK
  <2>7. QED
    BY <2>2, <2>3, <2>4, <2>5, <2>6 DEF Consistent, Underway
<1>3. CASE LoginLink(l)
  <2>0. /\ UNCHANGED <<reg, store, remote, locals, told, overwritten, disturbed>>
        /\ pc' = [pc EXCEPT ![l] = "answer"]
        /\ link' \in CustomerOrNone
    BY <1>3 DEF LoginLink, Goto, Consistent, TypeOK, Row
  <2>1. TypeOK'
    BY <2>0 DEF Consistent, TypeOK, store, remote, locals
  <2>2. /\ RowSound' /\ DocumentsKept' /\ (anchor' # None => owner'[anchor'] \in customers')
        /\ \A o \in Ops : Sound(read[o])'
                          /\ (read[o]'.state # "STARTED" => Docs \subseteq finals')
    BY <2>0, RowsStay, DocumentsStay DEF store, remote, locals, Consistent, DocumentsKept, Kept
  <2>3. ASSUME NEW c \in Confirms PROVE Confirming(c)'
    BY <1>a, <2>0, ConfirmingStays DEF store, locals, Consistent, TypeOK
  <2>4. ASSUME NEW a \in Activations PROVE Activating(a)'
    BY <1>a, <2>0, ActivatingStays DEF remote, locals, Consistent, TypeOK
  <2>5. QED
    BY <2>1, <2>2, <2>3, <2>4 DEF Consistent, Underway
<1>4. QED
  BY <1>1, <1>2, <1>3 DEF Login

(* An upload adds a document to the staging prefix and nothing else. *)
LEMMA UploadKeeps ==
    ASSUME Consistent, NEW d \in Docs, Upload(d)
    PROVE  Consistent'
<1>0. /\ UNCHANGED <<reg, finals, remote, pc, locals>> /\ staged' = staged \cup {d}
      /\ newest' = [newest EXCEPT ![d] = "staged"]
      /\ late' = IF \E c \in Confirms : pc[c] = "delete" /\ Current(c) = d
                 THEN late \cup {d} ELSE late \ {d}
      /\ newest \in [Docs -> {"nowhere", "staged", "final", "deleted"}]
  BY DEF Upload, Consistent, TypeOK
<1>1. TypeOK'
  BY DEF Upload, Consistent, TypeOK, remote, locals
<1>2. /\ RowSound' /\ DocumentsKept' /\ (anchor' # None => owner'[anchor'] \in customers')
      /\ \A o \in Ops : Sound(read[o])'
                        /\ (read[o]'.state # "STARTED" => Docs \subseteq finals')
  <2>1. /\ RowSound' /\ (anchor' # None => owner'[anchor'] \in customers')
        /\ reg'.state = "STARTED" \/ Docs \subseteq finals'
        /\ \A o \in Ops : Sound(read[o])'
                          /\ (read[o]'.state # "STARTED" => Docs \subseteq finals')
    BY <1>0, RowsStay DEF remote, locals
  <2>2. ASSUME NEW e \in Docs PROVE Kept(e)'
    <3>1. Kept(e)
      BY DEF Consistent, DocumentsKept
    <3>2. QED
      BY <1>0, <3>1 DEF Kept
  <2>3. DocumentsKept'
    BY <2>1, <2>2 DEF DocumentsKept
  <2>4. QED
    BY <2>1, <2>3
<1>3. ASSUME NEW c \in Confirms PROVE Confirming(c)'
  <2>1. pc[c] = "delete" => newest[Current(c)] = "final" \/ Current(c) \in late
    BY DEF Consistent, Underway, Confirming
  <2>2. Current(c) \in Docs
    BY DEF Current, Docs
  <2>3. pc[c] = "delete" => newest'[Current(c)] = "final" \/ Current(c) \in late'
    BY <1>0, <2>1, <2>2
  <2>4. QED
    BY <1>0, <2>3, ConfirmingStays DEF locals
<1>4. ASSUME NEW a \in Activations PROVE Activating(a)'
  BY ActivatingStays DEF Upload, remote, locals
<1>5. QED
  BY <1>1, <1>2, <1>3, <1>4 DEF Consistent, Underway

-----------------------------------------------------------------------------
\* Type correctness, no document lost, and a row that names only what exists,
\* for any number of overlapping calls.
THEOREM OnboardingConsistent == Spec => []Consistent
<1>1. Init => Consistent
  <2> SUFFICES ASSUME Init PROVE Consistent
    OBVIOUS
  <2>1. TypeOK
    BY DEF Init, TypeOK, Row, Started, CustomerOrNone
  <2>2. DocumentsKept /\ RowSound
    BY DEF Init, DocumentsKept, Kept, RowSound, Sound, Started
  <2>3. Underway
    BY DEF Init, Underway, Confirming, Activating, Sound, Started, Ops
  <2>4. QED
    BY <2>1, <2>2, <2>3 DEF Consistent
<1>2. Consistent /\ [Next]_vars => Consistent'
  <2> SUFFICES ASSUME Consistent, [Next]_vars PROVE Consistent'
    OBVIOUS
  <2>1. CASE UNCHANGED vars
    BY <2>1 DEF vars, store, remote, locals, Consistent, TypeOK, DocumentsKept, Kept, RowSound,
                Underway, Confirming, Activating, Sound, Current
  <2>2. CASE \E d \in Docs : Upload(d)
    BY <2>2, UploadKeeps
  <2>3. CASE \E o \in Ops : Begin(o) \/ Answer(o) \/ Unheard(o) \/ Fail(o)
    BY <2>3, MovesKeep DEF Moves
  <2>4. CASE \E c \in Confirms : Confirm(c)
    BY <2>4, ConfirmKeeps
  <2>5. CASE \E a \in Activations : Activate(a)
    BY <2>5, ActivateKeeps
  <2>6. CASE \E l \in Logins : Login(l)
    BY <2>6, LoginKeeps
  <2>7. QED
    BY <2>1, <2>2, <2>3, <2>4, <2>5, <2>6 DEF Next
<1>3. QED
  BY <1>1, <1>2, PTL DEF Spec

\* No document that was uploaded is lost, nor its newest version unless it came
\* between the copy and the deletion of the one before it.
THEOREM OnboardingDocumentsKept == Spec => []DocumentsKept
<1>1. Consistent => DocumentsKept
  BY DEF Consistent
<1>2. QED
  BY <1>1, OnboardingConsistent, PTL

\* The customer and the account of a registration stay, unless a call wrote
\* over a change it had not read.
THEOREM OnboardingCustomerStays == Spec => CustomerStays
<1>1. Consistent /\ [Next]_vars =>
          [~overwritten' =>
               /\ reg.customer # None => reg'.customer = reg.customer
               /\ reg.account # None => reg'.account = reg.account]_vars
  <2> SUFFICES ASSUME Consistent, Next, ~overwritten', reg' # reg
               PROVE  /\ reg.customer # None => reg'.customer = reg.customer
                      /\ reg.account # None => reg'.account = reg.account
    OBVIOUS
  <2> USE DEF Ops
  <2>0. reg \in Row /\ \A o \in Ops : read[o] \in Row
    BY DEF Consistent, TypeOK
  <2>1. ASSUME NEW c \in Confirms, ConfirmCommit(c)
        PROVE  /\ reg'.customer = reg.customer /\ reg'.account = reg.account
    BY <2>0, <2>1 DEF ConfirmCommit, ConfirmedRow, WriteRow, Row
  <2>2. ASSUME NEW a \in Activations, ActivateCommit(a)
        PROVE  /\ reg.customer # None => reg'.customer = reg.customer
               /\ reg.account # None => reg'.account = reg.account
    <3>1. /\ reg = read[a] /\ reg'.customer = cust[a] /\ reg'.account = acct[a]
          /\ pc[a] = "commit"
      BY <2>0, <2>2 DEF ActivateCommit, ActivatedRow, WriteRow, Row
    <3>2. QED
      BY <3>1 DEF Consistent, Underway, Activating
  <2>3. ASSUME NEW l \in Logins, LoginSave(l)
        PROVE  /\ reg'.customer = reg.customer /\ reg'.account = reg.account
    BY <2>0, <2>3 DEF LoginSave, Merged, WriteRow, Row
  <2>4. ASSUME NEW o \in Ops, Begin(o) \/ Answer(o) \/ Unheard(o) \/ Fail(o) PROVE FALSE
    BY <2>4 DEF Begin, Answer, Unheard, Fail
  <2>5. ASSUME NEW d \in Docs, Upload(d) PROVE FALSE
    BY <2>5 DEF Upload
  <2>6. ASSUME NEW c \in Confirms, Confirm(c), ~ConfirmCommit(c) PROVE FALSE
    BY <2>6 DEF Confirm, ConfirmRead, Copy, CopyRefused, Delete
  <2>7. ASSUME NEW a \in Activations, Activate(a), ~ActivateCommit(a) PROVE FALSE
    BY <2>7 DEF Activate, ActivateRead, ActivateRefused, CreateCustomer, UpsertLink,
                OpenSkipped, OpenRead, OpenAnchored, OpenNew
  <2>8. ASSUME NEW l \in Logins, Login(l), ~LoginSave(l) PROVE FALSE
    BY <2>8 DEF Login, LoginRead, LoginLink
  <2>9. QED
    BY <2>1, <2>2, <2>3, <2>4, <2>5, <2>6, <2>7, <2>8 DEF Next
<1>2. QED
  BY <1>1, OnboardingConsistent, PTL DEF Spec, CustomerStays

-----------------------------------------------------------------------------
(* Calls that follow each other.                                           *)

\* Nobody but o is under way.
Alone(o) == \A p \in Ops \ {o} : ~InFlight(p)

LEMMA OneUnderWay ==
    ASSUME SerialCalls, ~disturbed, NEW o \in Ops, InFlight(o)
    PROVE  Alone(o) /\ HasRead(o)
  BY DEF SerialCalls, Alone

(* A step of o, which nobody overlaps, need only be looked at where it is. *)
LEMMA SerialStepOf ==
    ASSUME Consistent, SerialCalls, ~disturbed, NEW o \in Ops, Alone(o),
           \A p \in Ops \ {o} : pc'[p] = pc[p],
           \A a \in Activations \ {o} : told'[a] = told[a],
           reg.customer # None => reg'.customer = reg.customer /\ reg'.account = reg.account,
           HasRead(o)', o \in Activations => OnItsOwn(o)', RemoteFollows'
    PROVE  SerialCalls'
<1>1. \A p \in Ops \ {o} : pc'[p] \in {"idle", "done"} /\ HasRead(p)'
  BY DEF Alone, InFlight, HasRead
<1>2. ASSUME NEW a \in Activations \ {o}
      PROVE  OnItsOwn(a)'
  <2>1. pc'[a] \notin Working \cup {"answer"}
    BY <1>1 DEF Ops, Working
  <2>2. OnItsOwn(a)
    BY DEF SerialCalls
  <2>3. QED
    BY <2>1, <2>2 DEF OnItsOwn
<1>3. \A p \in Ops \ {o} : ~InFlight(p)'
  BY <1>1 DEF InFlight
<1>4. QED
  BY <1>1, <1>2, <1>3 DEF SerialCalls

(* What the invariant says of the calls that are not under way, and of an    *)
(* activation at work on a row that has a customer.                          *)
LEMMA RestOf ==
    ASSUME Consistent, SerialCalls, ~disturbed, NEW o \in Ops, Alone(o)
    PROVE  /\ reg.customer = None => customers \subseteq {o} /\ anchor \in {o, None}
           /\ reg.identity /\ reg.customer # None =>
                  link = reg.customer \/ (o \in Logins /\ pc[o] = "link")
<1> USE OnboardingAssumption DEF Ops
<1>1. \A p \in Ops \ {o} : pc[p] \notin {"link", "open", "opening", "commit"}
  BY DEF Alone, InFlight
<1>2. customers \subseteq Activations /\ anchor \in Activations \cup {None}
  BY DEF Consistent, TypeOK, CustomerOrNone
<1>3. RemoteFollows
  BY DEF SerialCalls
<1>4. QED
  BY <1>1, <1>2, <1>3 DEF RemoteFollows

(* The steps that only move a call. *)
LEMMA MovesSerial ==
    ASSUME Consistent, SerialCalls, ~disturbed, ~disturbed', NEW o \in Ops, Moves(o)
    PROVE  SerialCalls'
<1> USE OnboardingAssumption DEF Ops
<1>0. TypeOK
  BY DEF Consistent
<1>1. Alone(o)
  BY OneUnderWay DEF Moves, Begin, Answer, Unheard, Fail, CopyRefused, ActivateRefused,
                     InFlight, Alone
<1>2. /\ UNCHANGED <<reg, link, store, remote, locals>>
      /\ pc'[o] \in {"read", "done"}
      /\ \A p \in Ops \ {o} : pc'[p] = pc[p]
  BY <1>0 DEF Moves, Begin, Answer, Unheard, Fail, CopyRefused, ActivateRefused, Goto, TypeOK
<1>3. ~(o \in Logins /\ pc[o] = "link")
  BY DEF Moves, Begin, Answer, Unheard, Fail, CopyRefused, ActivateRefused
<1>4. o \notin customers
      \/ (pc[o] \in {"idle", "answer"} \/ o \notin Activations \/ pc[o] = "read")
  BY DEF Moves, Begin, Answer, Unheard, Fail, CopyRefused, ActivateRefused
<1>5. reg.customer = None => customers = {} /\ anchor = None
  <2> SUFFICES ASSUME reg.customer = None PROVE customers = {} /\ anchor = None
    OBVIOUS
  <2>1. RemoteFollows /\ customers \subseteq {o} /\ anchor \in {o, None}
    BY <1>1, RestOf DEF SerialCalls
  <2>2. customers = {}
    BY <1>0, <1>4, <2>1 DEF RemoteFollows, TypeOK
  <2>3. ASSUME anchor # None PROVE FALSE
    <3>1. o \in Activations /\ pc[o] = "commit"
      BY <1>0, <2>1, <2>3 DEF RemoteFollows, TypeOK, CustomerOrNone
    <3>2. cust[o] \in customers
      BY <3>1 DEF Consistent, Underway, Activating
    <3>3. QED
      BY <2>2, <3>2
  <2>4. QED
    BY <2>2, <2>3
<1>6. RemoteFollows'
  <2>1. RemoteFollows
    BY DEF SerialCalls
  <2>2. reg.identity /\ reg.customer # None => link = reg.customer
    BY <1>1, <1>3, RestOf
  <2>3. QED
    BY <1>2, <1>5, <2>1, <2>2 DEF RemoteFollows, remote
<1>7. HasRead(o)'
  BY <1>2 DEF HasRead, InFlight
<1>8. /\ \A a \in Activations \ {o} : told'[a] = told[a]
      /\ o \in Activations => OnItsOwn(o)'
  <2>1. CASE UNCHANGED told
    <3>1. o \in Activations => OnItsOwn(o)
      BY DEF SerialCalls
    <3>2. QED
      BY <1>2, <2>1, <3>1 DEF OnItsOwn, Working
  <2>2. CASE /\ o \in Activations /\ pc[o] = "answer"
             /\ told' = [told EXCEPT ![o] = <<cust[o], acct[o]>>]
    <3>1. OnItsOwn(o)
      BY <2>2 DEF SerialCalls
    <3>2. told'[o] = <<reg.customer, reg.account>> /\ reg.customer # None
      BY <1>0, <2>2, <3>1 DEF OnItsOwn, TypeOK
    <3>3. OnItsOwn(o)'
      BY <1>2, <3>2 DEF OnItsOwn, Working
    <3>4. QED
      BY <1>0, <2>2, <3>3 DEF TypeOK
  <2>3. QED
    BY <2>1, <2>2 DEF Moves, Begin, Answer, Unheard, Fail, CopyRefused, ActivateRefused
<1>9. QED
  BY <1>1, <1>2, <1>6, <1>7, <1>8, SerialStepOf

(* A confirmation leaves customer, account and identity of the row alone. *)
LEMMA ConfirmSerial ==
    ASSUME Consistent, SerialCalls, ~disturbed, ~disturbed', NEW c \in Confirms, Confirm(c)
    PROVE  SerialCalls'
<1> USE OnboardingAssumption DEF Ops
<1>0. /\ TypeOK /\ Alone(c) /\ HasRead(c) /\ c \notin Activations /\ c \notin Logins
      /\ RemoteFollows
  BY OneUnderWay DEF Consistent, Confirm, ConfirmRead, Copy, CopyRefused, Delete,
     ConfirmCommit, InFlight, SerialCalls
<1>1. CASE CopyRefused(c)
  BY <1>1, MovesSerial DEF Moves
<1>2. CASE ConfirmRead(c) \/ Copy(c) \/ Delete(c) \/ ConfirmCommit(c)
  <2>1. /\ UNCHANGED <<link, customers, owner, anchor, told>>
        /\ \A p \in Ops \ {c} : pc'[p] = pc[p]
    BY <1>0, <1>2 DEF ConfirmRead, Copy, Delete, ConfirmCommit, Goto, TypeOK, remote
  <2>2. HasRead(c)'
    <3>1. CASE ConfirmRead(c)
      BY <1>0, <3>1 DEF ConfirmRead, HasRead, TypeOK
    <3>2. CASE Copy(c) \/ Delete(c)
      BY <1>0, <3>2 DEF Copy, Delete, Goto, HasRead, InFlight, TypeOK, locals
    <3>3. CASE ConfirmCommit(c)
      BY <1>0, <3>3 DEF ConfirmCommit, Goto, HasRead, TypeOK
    <3>4. QED
      BY <1>2, <3>1, <3>2, <3>3
  <2>3. /\ reg'.customer = reg.customer /\ reg'.account = reg.account
        /\ reg'.identity = reg.identity
    <3>1. CASE ConfirmCommit(c)
      <4>1. read[c] = reg
        BY <1>0, <3>1 DEF ConfirmCommit, HasRead, InFlight
      <4>2. QED
        BY <1>0, <3>1, <4>1 DEF ConfirmCommit, ConfirmedRow, WriteRow, TypeOK, Row
    <3>2. CASE UNCHANGED reg
      BY <3>2
    <3>3. QED
      BY <1>2, <3>1, <3>2 DEF ConfirmRead, Copy, Delete
  <2>4. RemoteFollows'
    <3>1. \A p \in Activations \cup Logins : pc'[p] = pc[p]
      BY <1>0, <2>1
    <3>2. customers \subseteq Activations /\ anchor \in Activations \cup {None}
      BY <1>0 DEF TypeOK, CustomerOrNone
    <3>3. QED
      BY <1>0, <2>1, <2>3, <3>1, <3>2 DEF RemoteFollows
  <2>5. QED
    BY <1>0, <2>1, <2>2, <2>3, <2>4, SerialStepOf
<1>3. QED
  BY <1>1, <1>2 DEF Confirm

(* A login adds the identity and, once it is over, the link. *)
LEMMA LoginSerial ==
    ASSUME Consistent, SerialCalls, ~disturbed, ~disturbed', NEW l \in Logins, Login(l)
    PROVE  SerialCalls'
<1> USE OnboardingAssumption DEF Ops
<1>0. /\ TypeOK /\ Alone(l) /\ HasRead(l) /\ l \notin Activations /\ RemoteFollows
  BY OneUnderWay DEF Consistent, Login, LoginRead, LoginSave, LoginLink, InFlight,
     SerialCalls
<1>1. /\ UNCHANGED <<customers, owner, anchor, told>>
      /\ \A p \in Ops \ {l} : pc'[p] = pc[p]
      /\ \A a \in Activations : pc'[a] = pc[a]
  BY <1>0 DEF Login, LoginRead, LoginSave, LoginLink, Goto, TypeOK, remote
<1>2. customers \subseteq Activations /\ anchor \in Activations \cup {None}
  BY <1>0 DEF TypeOK, CustomerOrNone
<1>3. CASE LoginRead(l)
  <2>1. read'[l] = reg /\ UNCHANGED <<reg, link>> /\ pc[l] = "read"
    BY <1>0, <1>3 DEF LoginRead, TypeOK
  <2>2. HasRead(l)'
    BY <2>1 DEF HasRead
  <2>3. RemoteFollows'
    BY <1>0, <1>1, <1>2, <2>1 DEF RemoteFollows
  <2>4. QED
    BY <1>0, <1>1, <2>1, <2>2, <2>3, SerialStepOf
<1>4. CASE LoginSave(l)
  <2>1. read[l] = reg /\ read' = read /\ pc'[l] = "link"
    BY <1>0, <1>4 DEF LoginSave, HasRead, InFlight, Goto, TypeOK, locals
  <2>2. reg'.customer = reg.customer /\ reg'.account = reg.account
    BY <1>4, <2>1 DEF LoginSave, WriteRow, Merged
  <2>3. HasRead(l)'
    BY <2>1, <2>2 DEF HasRead
  <2>4. RemoteFollows'
    BY <1>0, <1>1, <1>2, <2>1, <2>2 DEF RemoteFollows
  <2>5. QED
    BY <1>0, <1>1, <2>2, <2>3, <2>4, SerialStepOf
<1>5. CASE LoginLink(l)
  <2>1. /\ pc[l] = "link" /\ pc'[l] = "answer" /\ reg' = reg
        /\ read[l].customer = reg.customer
        /\ link' = IF reg.customer = None THEN link ELSE reg.customer
    BY <1>0, <1>5 DEF LoginLink, HasRead, Goto, TypeOK
  <2>2. HasRead(l)'
    BY <2>1 DEF HasRead
  <2>3. RemoteFollows'
    BY <1>0, <1>1, <1>2, <2>1 DEF RemoteFollows
  <2>4. QED
    BY <1>0, <1>1, <2>1, <2>2, <2>3, SerialStepOf
<1>6. QED
  BY <1>3, <1>4, <1>5 DEF Login

(* An activation creates one customer and one account, and leaves those of a *)
(* row that has them alone.                                                  *)
LEMMA ActivateSerial ==
    ASSUME Consistent, SerialCalls, ~disturbed, ~disturbed', NEW a \in Activations, Activate(a)
    PROVE  SerialCalls'
<1> USE OnboardingAssumption DEF Ops
<1>0. /\ TypeOK /\ Alone(a) /\ HasRead(a) /\ a \notin Logins
      /\ Activating(a) /\ OnItsOwn(a) /\ RemoteFollows /\ Sound(reg)
      /\ a # None /\ a \in CustomerOrNone
  BY OneUnderWay DEF Consistent, Underway, RowSound, Activate, ActivateRead, ActivateRefused,
     CreateCustomer, UpsertLink, OpenSkipped, OpenRead, OpenAnchored, OpenNew, ActivateCommit,
     InFlight, SerialCalls, CustomerOrNone
<1>1. /\ pc[a] \in Working => read[a] = reg
      /\ reg.customer = None => customers \subseteq {a} /\ anchor \in {a, None}
      /\ reg.customer = None /\ pc[a] \notin {"link", "open", "opening", "commit"}
             => customers = {}
      /\ reg.customer = None /\ pc[a] # "commit" => anchor = None
      /\ reg.identity /\ reg.customer # None => link = reg.customer
  <2>1. pc[a] \in Working => read[a] = reg
    BY <1>0 DEF HasRead, InFlight, Working
  <2>2. QED
    BY <1>0, <2>1, RestOf DEF RemoteFollows
<1>2. /\ UNCHANGED told
      /\ \A p \in Ops \ {a} : pc'[p] = pc[p]
      /\ pc[a] \in Working \cup {"read"}
  BY <1>0 DEF Activate, ActivateRead, ActivateRefused, CreateCustomer, UpsertLink, OpenSkipped,
     OpenRead, OpenAnchored, OpenNew, ActivateCommit, Goto, TypeOK, Working
<1>3. ASSUME UNCHANGED reg, HasRead(a)', OnItsOwn(a)', RemoteFollows'
      PROVE  SerialCalls'
  BY <1>0, <1>2, <1>3, SerialStepOf
<1>4. ASSUME UNCHANGED <<reg, read>>, pc[a] \in Working, pc'[a] \in Working
      PROVE  HasRead(a)'
  BY <1>0, <1>1, <1>4 DEF HasRead
<1>5. CASE ActivateRead(a)
  <2>1. /\ pc[a] = "read" /\ read'[a] = reg /\ cust'[a] = reg.customer /\ acct'[a] = reg.account
        /\ pc'[a] = IF reg.state = "ACTIVATED" THEN "answer"
                    ELSE IF reg.customer = None THEN "customer" ELSE "open"
        /\ UNCHANGED <<reg, link, customers, owner, anchor>>
    BY <1>0, <1>5 DEF ActivateRead, Goto, TypeOK, remote
  <2>2. HasRead(a)'
    BY <1>0, <2>1 DEF HasRead
  <2>3. OnItsOwn(a)'
    BY <1>0, <1>2, <2>1 DEF OnItsOwn, Sound, Working
  <2>4. RemoteFollows'
    BY <1>0, <1>1, <2>1 DEF RemoteFollows
  <2>5. QED
    BY <1>3, <2>1, <2>2, <2>3, <2>4
<1>6. CASE CreateCustomer(a)
  <2>1. /\ pc[a] = "customer" /\ pc'[a] = "link" /\ cust'[a] = a /\ acct'[a] = acct[a]
        /\ customers' = customers \cup {a} /\ UNCHANGED <<reg, link, owner, anchor, read>>
    BY <1>0, <1>6 DEF CreateCustomer, Goto, TypeOK
  <2>2. reg.customer = None
    BY <1>0, <1>1, <2>1 DEF Activating, Working
  <2>3. OnItsOwn(a)'
    BY <1>0, <1>2, <2>1 DEF OnItsOwn, Working
  <2>4. RemoteFollows'
    BY <1>1, <2>1, <2>2 DEF RemoteFollows
  <2>5. HasRead(a)'
    BY <1>4, <2>1 DEF Working
  <2>6. QED
    BY <1>3, <2>1, <2>3, <2>4, <2>5
<1>7. CASE UpsertLink(a) \/ OpenSkipped(a) \/ OpenRead(a) \/ OpenAnchored(a)
  <2>1. /\ UNCHANGED <<reg, link, customers, owner, anchor, read, cust>>
        /\ \/ pc[a] = "link" /\ pc'[a] = "open" /\ acct' = acct
           \/ pc[a] \in {"open", "opening"} /\ pc'[a] = "commit" /\ acct' = acct /\ acct[a] # None
           \/ pc[a] = "open" /\ pc'[a] = "opening" /\ acct'[a] = anchor
    BY <1>0, <1>7 DEF UpsertLink, OpenSkipped, OpenRead, OpenAnchored, Goto, TypeOK, remote, locals
  <2>2. OnItsOwn(a)'
    BY <1>0, <1>1, <1>2, <2>1 DEF OnItsOwn, Working
  <2>3. RemoteFollows'
    BY <1>0, <1>1, <2>1 DEF RemoteFollows
  <2>4. HasRead(a)'
    BY <1>4, <2>1 DEF Working
  <2>5. QED
    BY <1>3, <2>1, <2>2, <2>3, <2>4
<1>8. CASE OpenNew(a)
  <2>1. /\ pc[a] = "opening" /\ pc'[a] = "commit" /\ acct'[a] = a
        /\ owner'[a] = cust[a]
        /\ anchor' = IF anchor = None THEN a ELSE anchor
        /\ UNCHANGED <<reg, link, customers, read, cust>>
    BY <1>0, <1>8 DEF OpenNew, Goto, TypeOK
  <2>2. reg.customer = None
    BY <1>0, <1>1, <2>1 DEF Activating, RemoteFollows, Working
  <2>3. cust[a] = a
    BY <1>0, <2>1, <2>2 DEF OnItsOwn, Working
  <2>4. OnItsOwn(a)'
    BY <1>0, <1>2, <2>1, <2>2, <2>3 DEF OnItsOwn
  <2>5. RemoteFollows'
    BY <1>1, <2>1, <2>2 DEF RemoteFollows
  <2>6. HasRead(a)'
    BY <1>4, <2>1 DEF Working
  <2>7. QED
    BY <1>3, <2>1, <2>4, <2>5, <2>6
<1>9. CASE ActivateCommit(a)
  <2>1. /\ pc[a] = "commit" /\ pc'[a] = "answer"
        /\ UNCHANGED <<customers, owner, anchor, cust, acct, read>>
        /\ link' = IF reg.identity /\ cust[a] = a THEN cust[a] ELSE link
        /\ read[a] = reg
    BY <1>0, <1>1, <1>9 DEF ActivateCommit, Links, Goto, TypeOK, remote, locals, Working
  <2>2. /\ reg'.customer = cust[a] /\ reg'.account = acct[a] /\ reg'.identity = reg.identity
    BY <1>0, <1>9, <2>1 DEF ActivateCommit, ActivatedRow, WriteRow, TypeOK, Row
  <2>3. /\ cust[a] \in customers /\ acct[a] # None /\ cust[a] # None
        /\ reg.customer \in {None, cust[a]} /\ reg.account \in {None, acct[a]}
    BY <1>0, <2>1 DEF Activating, TypeOK
  <2>4. /\ customers = {cust[a]} /\ owner[acct[a]] = cust[a]
        /\ reg.customer # None => reg.customer = cust[a] /\ reg.account = acct[a]
        /\ reg.identity => link' = cust[a]
    <3>1. CASE reg.customer = None
      BY <1>0, <1>1, <2>1, <2>3, <3>1 DEF OnItsOwn, Working
    <3>2. CASE reg.customer # None
      BY <1>0, <1>1, <2>1, <2>3, <3>2 DEF RemoteFollows
    <3>3. QED
      BY <3>1, <3>2
  <2>5. OnItsOwn(a)'
    BY <1>0, <1>2, <2>1, <2>2, <2>3, <2>4 DEF OnItsOwn, Working
  <2>6. RemoteFollows'
    BY <2>1, <2>2, <2>3, <2>4 DEF RemoteFollows
  <2>7. HasRead(a)'
    BY <1>0, <2>1 DEF HasRead
  <2>8. QED
    BY <1>0, <1>2, <2>2, <2>4, <2>5, <2>6, <2>7, SerialStepOf
<1>10. CASE ActivateRefused(a)
  BY <1>10, MovesSerial DEF Moves
<1>11. QED
  BY <1>5, <1>6, <1>7, <1>8, <1>9, <1>10 DEF Activate

\* Consistent, and while calls follow each other the row, the account service
\* and the link agree as SerialCalls says.
THEOREM OnboardingInvariant == Spec => []OnboardingInv
<1>1. Init => SerialCalls
  BY DEF Init, SerialCalls, InFlight, HasRead, OnItsOwn, RemoteFollows, Working, Started, Ops
<1>2. Consistent /\ SerialCalls /\ [Next]_vars => SerialCalls'
  <2> SUFFICES ASSUME Consistent, SerialCalls, [Next]_vars, ~disturbed'
               PROVE  SerialCalls'
    BY DEF SerialCalls
  <2>1. CASE UNCHANGED vars
    BY <2>1 DEF vars, remote, locals, SerialCalls, InFlight, HasRead, OnItsOwn, RemoteFollows
  <2>2. ~disturbed
    BY DEF Next, vars, Upload, Begin, Answer, Unheard, Fail, Confirm, ConfirmRead, Copy,
       CopyRefused, Delete, ConfirmCommit, Activate, ActivateRead, ActivateRefused,
       CreateCustomer, UpsertLink, OpenSkipped, OpenRead, OpenAnchored, OpenNew,
       ActivateCommit, Login, LoginRead, LoginSave, LoginLink
  <2>3. ASSUME NEW d \in Docs, Upload(d)
        PROVE  SerialCalls'
    BY <2>2, <2>3 DEF Upload, remote, locals, SerialCalls, InFlight, HasRead, OnItsOwn,
       RemoteFollows
  <2>4. CASE \E o \in Ops : Begin(o) \/ Answer(o) \/ Unheard(o) \/ Fail(o)
    BY <2>2, <2>4, MovesSerial DEF Moves
  <2>5. QED
    BY <2>1, <2>2, <2>3, <2>4, ConfirmSerial, ActivateSerial, LoginSerial DEF Next
<1>3. Spec => []SerialCalls
  BY <1>1, <1>2, OnboardingConsistent, PTL DEF Spec
<1>4. Consistent /\ SerialCalls => OnboardingInv
  BY DEF OnboardingInv
<1>5. QED
  BY <1>3, <1>4, OnboardingConsistent, PTL

\* Calls that follow each other create one customer, with its account, and
\* every 201 names the two.
THEOREM OnboardingSerialActivation == Spec => []SerialActivation
<1>1. OnboardingInv => SerialActivation
  <2> SUFFICES ASSUME OnboardingInv, ~disturbed
               PROVE  /\ Cardinality(customers) <= 1
                      /\ reg.account # None => owner[reg.account] = reg.customer
                      /\ \A a \in Activations :
                             told[a] # None => told[a] = <<reg.customer, reg.account>>
    BY DEF SerialActivation
  <2>1. /\ RemoteFollows /\ Sound(reg) /\ \A a \in Activations : OnItsOwn(a)
        /\ \A o, p \in Ops : InFlight(o) /\ InFlight(p) => o = p
        /\ customers \subseteq Activations
    BY DEF OnboardingInv, Consistent, RowSound, SerialCalls, TypeOK
  <2>2. customers = {} \/ \E x : customers = {x}
    <3>1. CASE reg.customer = None
      <4>1. \A x \in customers : x \in Ops /\ InFlight(x)
        BY <2>1, <3>1 DEF RemoteFollows, InFlight, Ops
      <4>2. \A x, y \in customers : x = y
        BY <2>1, <4>1
      <4>3. QED
        BY <4>2
    <3>2. CASE reg.customer # None
      BY <2>1, <3>2 DEF RemoteFollows
    <3>3. QED
      BY <3>1, <3>2
  <2>3. Cardinality(customers) = 0 \/ Cardinality(customers) = 1
    BY <2>2, FS_EmptySet, FS_Singleton, Zenon
  <2>4. reg.account # None => owner[reg.account] = reg.customer
    BY <2>1 DEF RemoteFollows, Sound
  <2>5. QED
    BY <2>1, <2>3, <2>4 DEF OnItsOwn
<1>2. QED
  BY <1>1, OnboardingInvariant, PTL

\* When calls follow each other, a user whose identity the registration knows
\* is linked to its customer.
THEOREM OnboardingLinkFollows == Spec => []LinkFollows
<1>1. OnboardingInv => LinkFollows
  BY DEF OnboardingInv, SerialCalls, RemoteFollows, LinkFollows, InFlight, Ops
<1>2. QED
  BY <1>1, OnboardingInvariant, PTL

=============================================================================
