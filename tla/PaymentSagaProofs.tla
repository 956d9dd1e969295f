-------------------------- MODULE PaymentSagaProofs --------------------------
(***************************************************************************)
(* Proofs about PaymentSaga for any number of attempts, accounts, keys and *)
(* requests, and any faults: the parts of SagaInv one after the other,     *)
(* then the safety properties, then the implementation of the abstract     *)
(* payments.  Last, the circuit breaker the calls of the payments go       *)
(* through (AccountsBreaker), for any callers and settings.                *)
(***************************************************************************)
EXTENDS PaymentSaga, AccountsBreaker, FunctionTheorems, FiniteSetTheorems, TLAPS

-----------------------------------------------------------------------------
(* What the total of a set of requests is, for sets that grow and shrink.  *)

\* Requests whose amounts are natural numbers.
HaveAmounts(S, rq) == \A i \in S : rq[i].amount \in Nat

(* One request of amount n consists of n units. *)
LEMMA UnitsOfOne ==
    ASSUME NEW i, NEW rq, rq[i].amount \in Nat
    PROVE  /\ IsFiniteSet(UnitsOf(i, rq))
           /\ Cardinality(UnitsOf(i, rq)) = rq[i].amount
<1> DEFINE n == rq[i].amount
<1>1. IsFiniteSet({i}) /\ Cardinality({i}) = 1
  BY FS_Singleton, Zenon
<1>2. IsFiniteSet(1 .. n) /\ Cardinality(1 .. n) = n
  <2>1. 1 \in Int /\ n \in Int
    OBVIOUS
  <2>2. /\ IsFiniteSet(1 .. n)
        /\ Cardinality(1 .. n) = IF 1 > n THEN 0 ELSE n - 1 + 1
    BY <2>1, FS_Interval, Zenon
  <2>3. QED
    BY <2>2
<1>3. /\ IsFiniteSet({i} \X (1 .. n))
      /\ Cardinality({i} \X (1 .. n)) = Cardinality({i}) * Cardinality(1 .. n)
  BY <1>1, <1>2, FS_Product, Zenon
<1>4. QED
  BY <1>1, <1>2, <1>3 DEF UnitsOf

(* The units of finitely many requests are finitely many. *)
LEMMA UnitsFinite ==
    ASSUME NEW S, NEW rq, IsFiniteSet(S), HaveAmounts(S, rq)
    PROVE  IsFiniteSet(Units(S, rq)) /\ Total(S, rq) \in Nat
<1> DEFINE f == [i \in S |-> UnitsOf(i, rq)]
           T == {UnitsOf(i, rq) : i \in S}
<1>1. f \in Surjection(S, T)
  BY DEF Surjection
<1>2. IsFiniteSet(T)
  BY <1>1, FS_Surjection, Zenon
<1>3. \A U \in T : IsFiniteSet(U)
  BY UnitsOfOne DEF HaveAmounts
<1>4. IsFiniteSet(UNION T)
  BY <1>2, <1>3, FS_UNION, Zenon
<1>5. IsFiniteSet(Units(S, rq))
  BY <1>4 DEF Units
<1>6. Total(S, rq) \in Nat
  BY <1>5, FS_CardinalityType, Zenon DEF Total
<1>7. QED
  BY <1>5, <1>6

(* No requests, no money. *)
LEMMA TotalEmpty == ASSUME NEW rq PROVE Total({}, rq) = 0
<1>1. Units({}, rq) = {}
  BY DEF Units
<1>2. QED
  BY <1>1, FS_EmptySet, Zenon DEF Total

(* A new request adds its amount. *)
LEMMA TotalAdd ==
    ASSUME NEW S, NEW rq, NEW i, i \notin S,
           IsFiniteSet(S), HaveAmounts(S \cup {i}, rq)
    PROVE  Total(S \cup {i}, rq) = Total(S, rq) + rq[i].amount
<1> DEFINE U == Units(S, rq)
           V == UnitsOf(i, rq)
<1>1. HaveAmounts(S, rq) /\ rq[i].amount \in Nat
  BY DEF HaveAmounts
<1>2. IsFiniteSet(U) /\ Cardinality(U) \in Nat
  BY <1>1, UnitsFinite DEF Total
<1>3. IsFiniteSet(V) /\ Cardinality(V) = rq[i].amount
  BY <1>1, UnitsOfOne
<1>4. Units(S \cup {i}, rq) = U \cup V
  BY DEF Units
<1>5. U \cap V = {}
  BY DEF Units, UnitsOf
<1>6. Cardinality(U \cap V) = 0
  BY <1>5, FS_EmptySet, Zenon
<1>7. Cardinality(U \cup V)
        = Cardinality(U) + Cardinality(V) - Cardinality(U \cap V)
  BY <1>2, <1>3, FS_Union, Zenon
<1> HIDE DEF U, V
<1>8. Cardinality(U \cup V) = Cardinality(U) + rq[i].amount
  BY <1>1, <1>2, <1>3, <1>6, <1>7
<1>9. QED
  BY <1>4, <1>8 DEF Total, U

(* Taking a request out takes its amount out. *)
LEMMA TotalRemove ==
    ASSUME NEW S, NEW rq, NEW i \in S, IsFiniteSet(S), HaveAmounts(S, rq)
    PROVE  /\ Total(S \ {i}, rq) = Total(S, rq) - rq[i].amount
           /\ rq[i].amount <= Total(S, rq)
<1> DEFINE R == S \ {i}
<1>1. IsFiniteSet(R)
  BY FS_RemoveElement, Zenon
<1>2. R \cup {i} = S /\ i \notin R
  OBVIOUS
<1>3. HaveAmounts(R, rq) /\ HaveAmounts(R \cup {i}, rq)
  BY <1>2 DEF HaveAmounts
<1>4. Total(R \cup {i}, rq) = Total(R, rq) + rq[i].amount
  BY <1>1, <1>2, <1>3, TotalAdd
<1>5. Total(R, rq) \in Nat /\ rq[i].amount \in Nat
  BY <1>1, <1>3, UnitsFinite DEF HaveAmounts
<1>6. Total(S, rq) = Total(R, rq) + rq[i].amount
  BY <1>2, <1>4
<1> HIDE DEF R
<1>7. QED
  BY <1>5, <1>6 DEF R

(* Fewer requests ask for no more money. *)
LEMMA TotalMonotonic ==
    ASSUME NEW S, NEW T, NEW rq, S \subseteq T,
           IsFiniteSet(T), HaveAmounts(T, rq)
    PROVE  Total(S, rq) <= Total(T, rq)
<1>1. IsFiniteSet(Units(T, rq))
  BY UnitsFinite
<1>2. Units(S, rq) \in SUBSET Units(T, rq)
  BY DEF Units
<1>3. Cardinality(Units(S, rq)) <= Cardinality(Units(T, rq))
  BY <1>1, <1>2, FS_Subset, Zenon
<1>4. QED
  BY <1>3 DEF Total

-----------------------------------------------------------------------------
(* The steps of the saga.                                                  *)

\* The steps that change neither a balance nor a call.
Bookkeeping(a) ==
    \/ Begin(a) \/ LookupHit(a) \/ LookupMiss(a) \/ ValidateRefused(a)
    \/ AbortEarly(a) \/ ReserveAccepted(a) \/ ReserveRefused(a)
    \/ CallTimeout(a) \/ Commit(a) \/ CommitUnacknowledged(a) \/ Rollback(a)
    \/ SkipRelease(a) \/ ReleaseReply(a) \/ Reply(a) \/ Crash(a)

(* A step is bookkeeping, the sending of a call, or its service. *)
LEMMA NextCases ==
    ASSUME Next
    PROVE  \E a \in Attempts : \/ Bookkeeping(a) \/ ValidateOk(a)
                               \/ SendRelease(a)
                               \/ ServeReserve(a) \/ ServeRelease(a)
  BY DEF Next, Handler, AccountService, Bookkeeping

-----------------------------------------------------------------------------
(* A granted or returned hold keeps the row a row of balances. *)
LEMMA RowTypes ==
    ASSUME NEW row \in BalancesRow, NEW n \in Nat
    PROVE  /\ Reserve(row, n) \in BalancesRow
           /\ Reserve(row, n).ledger = row.ledger
           /\ Reserve(row, n).available = row.available - n
           /\ Reserve(row, n).hold = row.hold + n
           /\ Release(row, n) \in BalancesRow
           /\ Release(row, n).ledger = row.ledger
           /\ Release(row, n).available = row.available + n
           /\ Release(row, n).hold = row.hold - n
  BY DEF BalancesRow, Reserve, Release

(* Every attempt makes a well-formed request. *)
LEMMA RequestFacts ==
    ASSUME TypeOK, NEW a \in Attempts
    PROVE  /\ req[a].src \in Accounts
           /\ req[a].key \in Keys
           /\ req[a].amount \in Nat \ {0}
  BY RequestsAssumption DEF TypeOK

\* Type correctness: every variable keeps its shape in every reachable state.
THEOREM TypeCorrect == Spec => []TypeOK
<1>1. Init => TypeOK
  <2>1. \A acc \in Accounts : FundedRow(Funding[acc]) \in BalancesRow
    BY AccountsAssumption DEF FundedRow, BalancesRow
  <2>2. QED
    BY <2>1 DEF Init, TypeOK, Running, Ended, Errors, CallStates
<1>2. TypeOK /\ [Next]_vars => TypeOK'
  <2> SUFFICES ASSUME TypeOK, [Next]_vars PROVE TypeOK'
    OBVIOUS
  <2>1. CASE UNCHANGED vars
    BY <2>1 DEF vars, TypeOK
  <2>2. ASSUME NEW a \in Attempts, Bookkeeping(a) PROVE TypeOK'
    BY <2>2, RequestFacts
       DEF TypeOK, Bookkeeping, Begin, LookupHit, LookupMiss, ValidateRefused,
           AbortEarly, ReserveAccepted, ReserveRefused, CallTimeout, Commit,
           CommitUnacknowledged, StorePayment, Rollback, SkipRelease,
           ReleaseReply, Reply, Crash, Goto, Running, Ended, Errors
  <2>3. ASSUME NEW a \in Attempts, ValidateOk(a) PROVE TypeOK'
    BY <2>3 DEF TypeOK, ValidateOk, Goto, Running, Ended, Errors, CallStates
  <2>4. ASSUME NEW a \in Attempts, SendRelease(a) PROVE TypeOK'
    BY <2>4 DEF TypeOK, SendRelease, Goto, Running, Ended, Errors, CallStates
  <2>5. ASSUME NEW a \in Attempts, ServeReserve(a) PROVE TypeOK'
    <3>1. req[a].src \in Accounts /\ req[a].amount \in Nat
      BY RequestFacts
    <3>2. Reserve(balances[req[a].src], req[a].amount) \in BalancesRow
      BY <3>1, RowTypes DEF TypeOK
    <3>3. QED
      BY <2>5, <3>1, <3>2 DEF TypeOK, ServeReserve, CallStates
  <2>6. ASSUME NEW a \in Attempts, ServeRelease(a) PROVE TypeOK'
    <3>1. req[a].src \in Accounts /\ req[a].amount \in Nat
      BY RequestFacts
    <3>2. Release(balances[req[a].src], req[a].amount) \in BalancesRow
      BY <3>1, RowTypes DEF TypeOK
    <3>3. QED
      BY <2>6, <3>1, <3>2 DEF TypeOK, ServeRelease, CallStates
  <2>7. QED
    BY <2>1, <2>2, <2>3, <2>4, <2>5, <2>6, NextCases
<1>3. QED
  BY <1>1, <1>2, PTL DEF Spec

-----------------------------------------------------------------------------
\* The order of a handler's calls: hold after validation, release after hold.
THEOREM CallsInOrder == Spec => []CallOrder
<1>1. Init => CallOrder
  BY DEF Init, CallOrder, Errors
<1>2. TypeOK /\ CallOrder /\ [Next]_vars => CallOrder'
  <2> SUFFICES ASSUME TypeOK, CallOrder, [Next]_vars PROVE CallOrder'
    OBVIOUS
  <2>1. CASE UNCHANGED vars
    BY <2>1 DEF vars, CallOrder, Errors
  <2>2. ASSUME NEW a \in Attempts, Bookkeeping(a) PROVE CallOrder'
    BY <2>2
       DEF TypeOK, CallOrder, Errors, Bookkeeping, Begin, LookupHit, LookupMiss,
           ValidateRefused, AbortEarly, ReserveAccepted, ReserveRefused,
           CallTimeout, Commit, CommitUnacknowledged, StorePayment, Rollback,
           SkipRelease, ReleaseReply, Reply, Crash, Goto, Running
  <2>3. ASSUME NEW a \in Attempts, ValidateOk(a) PROVE CallOrder'
    BY <2>3 DEF TypeOK, CallOrder, Errors, ValidateOk, Goto
  <2>4. ASSUME NEW a \in Attempts, SendRelease(a) PROVE CallOrder'
    BY <2>4 DEF TypeOK, CallOrder, Errors, SendRelease, Goto
  <2>5. ASSUME NEW a \in Attempts, ServeReserve(a) PROVE CallOrder'
    BY <2>5 DEF TypeOK, CallOrder, Errors, ServeReserve
  <2>6. ASSUME NEW a \in Attempts, ServeRelease(a) PROVE CallOrder'
    BY <2>6 DEF TypeOK, CallOrder, Errors, ServeRelease
  <2>7. QED
    BY <2>1, <2>2, <2>3, <2>4, <2>5, <2>6, NextCases
<1>3. QED
  BY <1>1, <1>2, TypeCorrect, PTL DEF Spec

-----------------------------------------------------------------------------
(* Storing a payment keeps payments, records and answers consistent. *)
LEMMA StoreKeepsBooking ==
    ASSUME TypeOK, CallOrder, Booking, NEW a \in Attempts, pc[a] = "posting",
           StorePayment(a),
           \/ Goto(a, "posted")
           \/ Goto(a, "compensating"),
           UNCHANGED <<req, reserve, answer>>
    PROVE  Booking'
<1>1. \A p \in payments : req[p].key # req[a].key
  BY DEF StorePayment, KeyIsFree
<1>2. idem[req[a].key] = None
  BY <1>1, RequestFacts DEF Booking
<1>3. idem' = [idem EXCEPT ![req[a].key] = a] /\ payments' = payments \cup {a}
  BY <1>2 DEF StorePayment, TypeOK
<1>4. reserve[a] = "applied"
  BY DEF CallOrder, Errors
<1>5. \A b \in Attempts : b # a => pc'[b] = pc[b]
  BY DEF Goto, TypeOK
<1>6. pc'[a] \in {"posted", "compensating"}
  BY DEF Goto, TypeOK
<1>7. \A b \in Attempts : req[b].key \in Keys
  BY RequestFacts
<1>8. None \notin Attempts /\ payments \subseteq Attempts
  BY AttemptsAssumption DEF TypeOK
<1>9. (\A p \in payments :
          /\ reserve[p] = "applied"
          /\ pc[p] \notin {"idle", "lookup", "validate", "reserving", "posting"}
          /\ idem[req[p].key] = p)'
  BY <1>1, <1>3, <1>4, <1>5, <1>6, <1>7, <1>8 DEF Booking, TypeOK
<1>10. (\A k \in Keys : idem[k] # None =>
          idem[k] \in payments /\ req[idem[k]].key = k)'
  BY <1>3, <1>8 DEF Booking, TypeOK
<1>11. (\A b \in Attempts : pc[b] = "posted" => b \in payments)'
  BY <1>3, <1>5 DEF Booking
<1>12. (\A b \in Attempts : answer[b] # None =>
           pc[b] = "replied" /\ idem[req[b].key] = answer[b])'
  <2> SUFFICES ASSUME NEW b \in Attempts, answer[b] # None
               PROVE  pc'[b] = "replied" /\ idem'[req[b].key] = answer[b]
    OBVIOUS
  <2>1. pc[b] = "replied" /\ idem[req[b].key] = answer[b]
    BY DEF Booking
  <2>2. b # a /\ req[b].key # req[a].key
    BY <1>2, <2>1
  <2>3. QED
    BY <1>3, <1>5, <1>7, <2>1, <2>2 DEF TypeOK
<1>13. QED
  BY <1>9, <1>10, <1>11, <1>12 DEF Booking

\* At most one payment per key, and records and answers that name it.
THEOREM BookingConsistent == Spec => []Booking
<1>1. Init => Booking
  BY DEF Init, Booking
<1>2. TypeOK /\ CallOrder /\ Booking /\ [Next]_vars => Booking'
  <2> SUFFICES ASSUME TypeOK, CallOrder, Booking, [Next]_vars PROVE Booking'
    OBVIOUS
  <2> USE AttemptsAssumption
  <2>1. CASE UNCHANGED vars
    BY <2>1 DEF vars, Booking
  <2>2. ASSUME NEW a \in Attempts, Commit(a) \/ CommitUnacknowledged(a)
        PROVE  Booking'
    BY <2>2, StoreKeepsBooking DEF Commit, CommitUnacknowledged
  <2>3. ASSUME NEW a \in Attempts,
               \/ Begin(a) \/ LookupMiss(a) \/ ValidateRefused(a)
               \/ AbortEarly(a) \/ ReserveAccepted(a) \/ ReserveRefused(a)
               \/ CallTimeout(a) \/ Rollback(a) \/ SkipRelease(a)
               \/ ReleaseReply(a) \/ Crash(a) \/ SendRelease(a)
        PROVE  Booking'
    BY <2>3 DEF TypeOK, Booking, Begin, LookupMiss, ValidateRefused, AbortEarly,
                ReserveAccepted, ReserveRefused, CallTimeout, Rollback,
                SkipRelease, ReleaseReply, Crash, SendRelease, Goto, Running
  <2>4. ASSUME NEW a \in Attempts, LookupHit(a) \/ Reply(a) PROVE Booking'
    <3>1. idem[req[a].key] # None \/ a \in payments
      BY <2>4 DEF LookupHit, Reply, Booking
    <3>2. QED
      BY <2>4, <3>1 DEF TypeOK, Booking, LookupHit, Reply, Goto
  <2>5. ASSUME NEW a \in Attempts, ValidateOk(a) PROVE Booking'
    BY <2>5 DEF TypeOK, Booking, ValidateOk, Goto
  <2>6. ASSUME NEW a \in Attempts, ServeReserve(a) \/ ServeRelease(a)
        PROVE  Booking'
    BY <2>6 DEF TypeOK, Booking, ServeReserve, ServeRelease
  <2>7. QED
    BY <2>1, <2>2, <2>3, <2>4, <2>5, <2>6, NextCases DEF Bookkeeping
<1>3. QED
  BY <1>1, <1>2, TypeCorrect, CallsInOrder, PTL DEF Spec

\* All answers for one key agree, and name a payment booked for that key.
THEOREM SagaAnswersAgree == Spec => []AnswersAgree
<1>1. TypeOK /\ Booking => AnswersAgree
  <2> SUFFICES ASSUME TypeOK, Booking, NEW a \in Attempts, answer[a] # None
               PROVE  /\ answer[a] \in payments
                      /\ req[answer[a]].key = req[a].key
                      /\ \A p \in payments :
                             req[p].key = req[a].key => p = answer[a]
    BY DEF AnswersAgree
  <2>1. idem[req[a].key] = answer[a] /\ req[a].key \in Keys
    BY RequestFacts DEF Booking
  <2>2. QED
    BY <2>1 DEF Booking
<1>2. QED
  BY <1>1, TypeCorrect, BookingConsistent, PTL

-----------------------------------------------------------------------------
\* Without lost acknowledgements, the handler of a booked payment knows that it
\* was booked and never compensates.
THEOREM BookedIsKnown == Spec => []Acknowledged
<1>1. Init => Acknowledged
  BY DEF Init, Acknowledged
<1>2. TypeOK /\ CallOrder /\ Booking /\ Acknowledged /\ [Next]_vars
      => Acknowledged'
  <2> SUFFICES ASSUME TypeOK, CallOrder, Booking, Acknowledged, [Next]_vars,
                      "lost_commit_ack" \notin Faults
               PROVE  (\A p \in payments :
                          /\ pc[p] \in {"posted", "replied", "crashed"}
                          /\ release[p] = "none")'
    BY DEF Acknowledged
  <2> DEFINE Known(p) == /\ pc[p] \in {"posted", "replied", "crashed"}
                         /\ release[p] = "none"
  <2>1. \A p \in payments : Known(p)
    BY DEF Acknowledged
  <2>2. payments \subseteq Attempts
    BY DEF TypeOK
  <2>3. CASE UNCHANGED vars
    BY <2>1, <2>3 DEF vars
  <2>4. ASSUME NEW a \in Attempts, Bookkeeping(a)
        PROVE  \A p \in payments' : Known(p)'
    BY <2>1, <2>2, <2>4
       DEF TypeOK, CallOrder, Errors, Bookkeeping, Begin, LookupHit, LookupMiss,
           ValidateRefused, AbortEarly, ReserveAccepted, ReserveRefused,
           CallTimeout, Commit, CommitUnacknowledged, StorePayment, Rollback,
           SkipRelease, ReleaseReply, Reply, Crash, Goto, Running
  <2>5. ASSUME NEW a \in Attempts, ValidateOk(a) \/ SendRelease(a)
        PROVE  \A p \in payments' : Known(p)'
    BY <2>1, <2>2, <2>5 DEF TypeOK, ValidateOk, SendRelease, Goto
  <2>6. ASSUME NEW a \in Attempts, ServeReserve(a) \/ ServeRelease(a)
        PROVE  \A p \in payments' : Known(p)'
    BY <2>1, <2>2, <2>6 DEF TypeOK, ServeReserve, ServeRelease
  <2>7. QED
    BY <2>3, <2>4, <2>5, <2>6, NextCases
<1>3. QED
  BY <1>1, <1>2, TypeCorrect, CallsInOrder, BookingConsistent, PTL DEF Spec

\* A posted payment keeps its hold, if commits are acknowledged.
THEOREM SagaPostedFundsHeld ==
    ASSUME "lost_commit_ack" \notin Faults
    PROVE  Spec => []PostedFundsHeld
<1>1. Booking /\ Acknowledged => PostedFundsHeld
  BY DEF Booking, Acknowledged, PostedFundsHeld
<1>2. QED
  BY <1>1, BookingConsistent, BookedIsKnown, PTL

\* A handler that returned an error booked nothing, if commits are acknowledged.
THEOREM SagaFailedMeansUnposted ==
    ASSUME "lost_commit_ack" \notin Faults
    PROVE  Spec => []FailedMeansUnposted
<1>1. Acknowledged => FailedMeansUnposted
  BY DEF Acknowledged, FailedMeansUnposted, Errors
<1>2. QED
  BY <1>1, BookedIsKnown, PTL

-----------------------------------------------------------------------------
(* The sets of holds are finite and have amounts. *)
LEMMA HeldFacts ==
    ASSUME TypeOK, NEW S, S \subseteq Attempts
    PROVE  /\ IsFiniteSet(S)
           /\ HaveAmounts(S, req)
           /\ Total(S, req) \in Nat
<1>1. IsFiniteSet(S)
  BY AttemptsAssumption, FS_Subset, Zenon
<1>2. HaveAmounts(S, req)
  BY RequestFacts DEF HaveAmounts
<1>3. QED
  BY <1>1, <1>2, UnitsFinite

(* A step that changes no call and no balance keeps the holds matched. *)
LEMMA HoldsUndisturbed ==
    ASSUME HoldsMatch, UNCHANGED <<req, balances>>,
           \A acc \in Accounts : HeldOn(acc)' = HeldOn(acc),
           \A a \in Attempts : release'[a] # "refused"
    PROVE  HoldsMatch'
  BY DEF HoldsMatch

(* A granted hold is added to the holds of its account and to no other. *)
LEMMA ReserveKeepsHolds ==
    ASSUME TypeOK, CallOrder, HoldsMatch, NEW a \in Attempts, ServeReserve(a)
    PROVE  HoldsMatch'
<1>1. PICK src \in Accounts, n \in Nat : src = req[a].src /\ n = req[a].amount
  BY RequestFacts
<1>2. reserve[a] = "sent" /\ release[a] = "none" /\ UNCHANGED <<req, release>>
  BY DEF ServeReserve, CallOrder, Errors, TypeOK
<1>3. \A b \in Attempts : b # a => reserve'[b] = reserve[b]
  BY DEF ServeReserve, TypeOK
<1>4. CASE CanReserve(balances[src], n)
  <2>1. /\ balances' = [balances EXCEPT ![src] = Reserve(@, n)]
        /\ reserve'[a] = "applied"
    BY <1>1, <1>4 DEF ServeReserve, TypeOK
  <2>2. HeldOn(src)' = HeldOn(src) \cup {a} /\ a \notin HeldOn(src)
    BY <1>1, <1>2, <1>3, <2>1 DEF HeldOn
  <2>3. \A acc \in Accounts \ {src} : HeldOn(acc)' = HeldOn(acc)
    BY <1>1, <1>2, <1>3, <2>1 DEF HeldOn
  <2>4. Total(HeldOn(src) \cup {a}, req) = Total(HeldOn(src), req) + n
    <3>1. HeldOn(src) \subseteq Attempts
      BY DEF HeldOn
    <3>2. IsFiniteSet(HeldOn(src)) /\ HaveAmounts(HeldOn(src) \cup {a}, req)
      BY <3>1, HeldFacts
    <3>3. Total(HeldOn(src) \cup {a}, req)
              = Total(HeldOn(src), req) + req[a].amount
      BY <2>2, <3>2, TotalAdd
    <3>4. QED
      BY <1>1, <3>3
  <2>5. balances'[src].hold = balances[src].hold + n
    BY <1>1, <2>1, RowTypes DEF TypeOK
  <2>6. \A acc \in Accounts \ {src} : balances'[acc] = balances[acc]
    BY <2>1 DEF TypeOK
  <2>7. ASSUME NEW acc \in Accounts
        PROVE  balances'[acc].hold = Total(HeldOn(acc)', req)
    <3>1. CASE acc = src
      BY <1>1, <2>2, <2>4, <2>5, <3>1 DEF HoldsMatch
    <3>2. CASE acc # src
      BY <2>3, <2>6, <3>2 DEF HoldsMatch
    <3>3. QED
      BY <3>1, <3>2
  <2>8. \A b \in Attempts : release'[b] # "refused"
    BY <1>2 DEF HoldsMatch
  <2>9. QED
    BY <1>2, <2>7, <2>8 DEF HoldsMatch
<1>5. CASE ~CanReserve(balances[src], n)
  <2>1. UNCHANGED balances /\ reserve'[a] = "refused"
    BY <1>1, <1>5 DEF ServeReserve, TypeOK
  <2>2. \A acc \in Accounts : HeldOn(acc)' = HeldOn(acc)
    BY <1>1, <1>2, <1>3, <2>1 DEF HeldOn
  <2>3. QED
    BY <1>2, <2>1, <2>2, HoldsUndisturbed DEF HoldsMatch
<1>6. QED
  BY <1>4, <1>5

(* A release finds its hold in the counter, and takes exactly it out. *)
LEMMA ReleaseKeepsHolds ==
    ASSUME TypeOK, CallOrder, HoldsMatch, NEW a \in Attempts, ServeRelease(a)
    PROVE  /\ CanRelease(balances[req[a].src], req[a].amount)
           /\ HoldsMatch'
<1>1. PICK src \in Accounts, n \in Nat : src = req[a].src /\ n = req[a].amount
  BY RequestFacts
<1>2. /\ release[a] = "sent" /\ reserve[a] = "applied"
      /\ UNCHANGED <<req, reserve>>
  BY DEF ServeRelease, CallOrder, Errors
<1>3. a \in HeldOn(src) /\ HeldOn(src) \subseteq Attempts
  BY <1>1, <1>2 DEF HeldOn
<1>4. /\ Total(HeldOn(src) \ {a}, req) = Total(HeldOn(src), req) - n
      /\ n <= Total(HeldOn(src), req)
  <2>1. IsFiniteSet(HeldOn(src)) /\ HaveAmounts(HeldOn(src), req)
    BY <1>3, HeldFacts
  <2>2. QED
    BY <1>1, <1>3, <2>1, TotalRemove
<1>5. balances[src].hold = Total(HeldOn(src), req)
  BY <1>1 DEF HoldsMatch
<1>6. CanRelease(balances[src], n)
  BY <1>4, <1>5 DEF CanRelease
<1>7. /\ balances' = [balances EXCEPT ![src] = Release(@, n)]
      /\ release' = [release EXCEPT ![a] = "applied"]
  BY <1>1, <1>6 DEF ServeRelease
<1>8. HeldOn(src)' = HeldOn(src) \ {a}
  BY <1>1, <1>2, <1>7 DEF HeldOn, TypeOK
<1>9. \A acc \in Accounts \ {src} : HeldOn(acc)' = HeldOn(acc)
  BY <1>1, <1>2, <1>7 DEF HeldOn, TypeOK
<1>10. balances'[src].hold = balances[src].hold - n
  BY <1>1, <1>7, RowTypes DEF TypeOK
<1>11. ASSUME NEW acc \in Accounts
       PROVE  balances'[acc].hold = Total(HeldOn(acc)', req)
  <2>1. CASE acc = src
    BY <1>1, <1>4, <1>5, <1>8, <1>10, <2>1
  <2>2. CASE acc # src
    BY <1>7, <1>9, <2>2 DEF HoldsMatch, TypeOK
  <2>3. QED
    BY <2>1, <2>2
<1>12. \A b \in Attempts : release'[b] # "refused"
  BY <1>7 DEF HoldsMatch, TypeOK
<1>13. QED
  BY <1>1, <1>2, <1>6, <1>11, <1>12 DEF HoldsMatch

\* The hold of an account is the sum of its holds, and no release is refused.
THEOREM SagaHoldsMatch == Spec => []HoldsMatch
<1>1. Init => HoldsMatch
  <2> SUFFICES ASSUME Init PROVE HoldsMatch
    OBVIOUS
  <2>1. \A acc \in Accounts : HeldOn(acc) = {}
    BY DEF Init, HeldOn
  <2>2. \A acc \in Accounts : balances[acc].hold = 0
    BY DEF Init, FundedRow
  <2>3. \A a \in Attempts : release[a] # "refused"
    BY DEF Init
  <2>4. QED
    BY <2>1, <2>2, <2>3, TotalEmpty DEF HoldsMatch
<1>2. TypeOK /\ CallOrder /\ HoldsMatch /\ [Next]_vars => HoldsMatch'
  <2> SUFFICES ASSUME TypeOK, CallOrder, HoldsMatch, [Next]_vars
               PROVE  HoldsMatch'
    OBVIOUS
  <2>1. CASE UNCHANGED vars
    BY <2>1, HoldsUndisturbed DEF vars, HeldOn, HoldsMatch
  <2>2. ASSUME NEW a \in Attempts, Bookkeeping(a) PROVE HoldsMatch'
    <3>1. UNCHANGED <<req, reserve, release, balances>>
      BY <2>2
         DEF Bookkeeping, Begin, LookupHit, LookupMiss, ValidateRefused,
             AbortEarly, ReserveAccepted, ReserveRefused, CallTimeout, Commit,
             CommitUnacknowledged, StorePayment, Rollback, SkipRelease,
             ReleaseReply, Reply, Crash
    <3>2. QED
      BY <3>1, HoldsUndisturbed DEF HeldOn, HoldsMatch
  <2>3. ASSUME NEW a \in Attempts, ValidateOk(a) PROVE HoldsMatch'
    <3>1. reserve[a] = "none"
      BY <2>3 DEF ValidateOk, CallOrder, Errors
    <3>2. \A acc \in Accounts : HeldOn(acc)' = HeldOn(acc)
      BY <2>3, <3>1 DEF ValidateOk, HeldOn, TypeOK
    <3>3. QED
      BY <2>3, <3>2, HoldsUndisturbed DEF ValidateOk, HoldsMatch
  <2>4. ASSUME NEW a \in Attempts, SendRelease(a) PROVE HoldsMatch'
    <3>1. release[a] = "none" /\ release' = [release EXCEPT ![a] = "sent"]
      BY <2>4 DEF SendRelease, CallOrder, Errors
    <3>2. \A acc \in Accounts : HeldOn(acc)' = HeldOn(acc)
      BY <2>4, <3>1 DEF SendRelease, HeldOn, TypeOK
    <3>3. \A b \in Attempts : release'[b] # "refused"
      BY <3>1 DEF HoldsMatch, TypeOK
    <3>4. QED
      BY <2>4, <3>2, <3>3, HoldsUndisturbed DEF SendRelease
  <2>5. ASSUME NEW a \in Attempts, ServeReserve(a) PROVE HoldsMatch'
    BY <2>5, ReserveKeepsHolds
  <2>6. ASSUME NEW a \in Attempts, ServeRelease(a) PROVE HoldsMatch'
    BY <2>6, ReleaseKeepsHolds
  <2>7. QED
    BY <2>1, <2>2, <2>3, <2>4, <2>5, <2>6, NextCases
<1>3. QED
  BY <1>1, <1>2, TypeCorrect, CallsInOrder, PTL DEF Spec

-----------------------------------------------------------------------------
(* Granting a hold leaves the source account with what it needs. *)
LEMMA ServeReserveKeepsFunds ==
    ASSUME TypeOK, Funds, NEW a \in Attempts, ServeReserve(a)
    PROVE  Funds'
<1>1. PICK src \in Accounts, n \in Nat : src = req[a].src /\ n = req[a].amount
  BY RequestFacts
<1>2. CASE CanReserve(balances[src], n)
  <2>1. balances' = [balances EXCEPT ![src] = Reserve(@, n)]
    BY <1>1, <1>2 DEF ServeReserve
  <2>2. balances[src] \in BalancesRow /\ balances[src].available >= n
    BY <1>2 DEF CanReserve, TypeOK
  <2>3. balances'[src] = Reserve(balances[src], n)
    BY <2>1 DEF TypeOK
  <2>4. /\ balances[src].available \in Int /\ balances[src].hold \in Int
        /\ balances[src].ledger = balances[src].available + balances[src].hold
        /\ balances[src].ledger = Funding[src]
    BY <2>2 DEF BalancesRow, Funds
  <2>5. /\ balances'[src].ledger = Funding[src]
        /\ balances'[src].ledger = balances'[src].available + balances'[src].hold
        /\ balances'[src].available >= 0
    <3>1. balances[src] \in BalancesRow
      BY <2>2
    <3>2. /\ balances'[src].ledger = balances[src].ledger
          /\ balances'[src].available = balances[src].available - n
          /\ balances'[src].hold = balances[src].hold + n
      BY <2>3, <3>1, RowTypes
    <3>3. QED
      BY <2>2, <2>4, <3>2
  <2>6. \A acc \in Accounts \ {src} : balances'[acc] = balances[acc]
    BY <2>1 DEF TypeOK
  <2>7. QED
    BY <2>5, <2>6 DEF Funds
<1>3. CASE ~CanReserve(balances[src], n)
  BY <1>1, <1>3 DEF ServeReserve, Funds
<1>4. QED
  BY <1>2, <1>3

(* Releasing a hold leaves the rows balanced. *)
LEMMA ServeReleaseKeepsFunds ==
    ASSUME TypeOK, Funds, NEW a \in Attempts, ServeRelease(a)
    PROVE  Funds'
<1>1. PICK src \in Accounts, n \in Nat : src = req[a].src /\ n = req[a].amount
  BY RequestFacts
<1>2. CASE CanRelease(balances[src], n)
  <2>1. balances' = [balances EXCEPT ![src] = Release(@, n)]
    BY <1>1, <1>2 DEF ServeRelease
  <2>2. balances[src] \in BalancesRow
    BY DEF TypeOK
  <2>3. balances'[src] = Release(balances[src], n)
    BY <2>1 DEF TypeOK
  <2>4. /\ balances[src].available \in Int /\ balances[src].hold \in Int
        /\ balances[src].ledger = balances[src].available + balances[src].hold
        /\ balances[src].ledger = Funding[src]
        /\ balances[src].available >= 0
    BY <2>2 DEF BalancesRow, Funds
  <2>5. /\ balances'[src].ledger = Funding[src]
        /\ balances'[src].ledger = balances'[src].available + balances'[src].hold
        /\ balances'[src].available >= 0
    <3>1. /\ balances'[src].ledger = balances[src].ledger
          /\ balances'[src].available = balances[src].available + n
          /\ balances'[src].hold = balances[src].hold - n
      BY <2>2, <2>3, RowTypes
    <3>2. QED
      BY <2>4, <3>1
  <2>6. \A acc \in Accounts \ {src} : balances'[acc] = balances[acc]
    BY <2>1 DEF TypeOK
  <2>7. QED
    BY <2>5, <2>6 DEF Funds
<1>3. CASE ~CanRelease(balances[src], n)
  BY <1>1, <1>3 DEF ServeRelease, Funds
<1>4. QED
  BY <1>2, <1>3

\* Money only moves between what is available and what is held.
THEOREM SagaFunds == Spec => []Funds
<1>1. Init => Funds
  BY AccountsAssumption DEF Init, Funds, FundedRow
<1>2. TypeOK /\ Funds /\ [Next]_vars => Funds'
  <2> SUFFICES ASSUME TypeOK, Funds, [Next]_vars PROVE Funds'
    OBVIOUS
  <2>1. CASE UNCHANGED vars
    BY <2>1 DEF vars, Funds
  <2>2. ASSUME NEW a \in Attempts,
               Bookkeeping(a) \/ ValidateOk(a) \/ SendRelease(a)
        PROVE  Funds'
    <3>1. UNCHANGED balances
      BY <2>2
         DEF Bookkeeping, Begin, LookupHit, LookupMiss, ValidateRefused,
             AbortEarly, ReserveAccepted, ReserveRefused, CallTimeout, Commit,
             CommitUnacknowledged, StorePayment, Rollback, SkipRelease,
             ReleaseReply, Reply, Crash, ValidateOk, SendRelease
    <3>2. QED
      BY <3>1 DEF Funds
  <2>3. ASSUME NEW a \in Attempts, ServeReserve(a) PROVE Funds'
    BY <2>3, ServeReserveKeepsFunds
  <2>4. ASSUME NEW a \in Attempts, ServeRelease(a) PROVE Funds'
    BY <2>4, ServeReleaseKeepsFunds
  <2>5. QED
    BY <2>1, <2>2, <2>3, <2>4, NextCases
<1>3. QED
  BY <1>1, <1>2, TypeCorrect, PTL DEF Spec

\* The inductive invariant holds in every reachable state.
THEOREM SagaInvariant == Spec => []SagaInv
  BY TypeCorrect, CallsInOrder, BookingConsistent, BookedIsKnown, SagaFunds,
     SagaHoldsMatch, PTL DEF SagaInv

\* No account goes below zero, and its row always adds up.
THEOREM SagaBalancesSound == Spec => []BalancesSound
<1>1. TypeOK /\ Funds /\ HoldsMatch => BalancesSound
  <2> SUFFICES ASSUME TypeOK, Funds, HoldsMatch, NEW acc \in Accounts
               PROVE  /\ balances[acc].available >= 0
                      /\ balances[acc].hold >= 0
                      /\ balances[acc].ledger
                           = balances[acc].available + balances[acc].hold
    BY DEF BalancesSound
  <2>1. HeldOn(acc) \subseteq Attempts
    BY DEF HeldOn
  <2>2. Total(HeldOn(acc), req) \in Nat
    BY <2>1, HeldFacts
  <2>3. QED
    BY <2>2 DEF Funds, HoldsMatch
<1>2. QED
  BY <1>1, TypeCorrect, SagaFunds, SagaHoldsMatch, PTL

(* What holds back: the holds on an account never exceed its funding. *)
LEMMA HoldsWithinFunding ==
    ASSUME TypeOK, Funds, HoldsMatch, NEW acc \in Accounts
    PROVE  Total(HeldOn(acc), req) <= Funding[acc]
<1>1. balances[acc] \in BalancesRow /\ Funding[acc] \in Nat
  BY AccountsAssumption DEF TypeOK
<1>2. balances[acc].available \in Int /\ balances[acc].hold \in Int
  BY <1>1 DEF BalancesRow
<1>3. QED
  BY <1>1, <1>2 DEF Funds, HoldsMatch

\* Booked payments never exceed what the account was funded with, if commits
\* are acknowledged: each of them still has its hold.
THEOREM SagaNeverOverspent ==
    ASSUME "lost_commit_ack" \notin Faults
    PROVE  Spec => []NeverOverspent
<1>1. SagaInv => NeverOverspent
  <2> SUFFICES ASSUME SagaInv, NEW acc \in Accounts
               PROVE  Total(PaidFrom(acc), req) <= Funding[acc]
    BY DEF NeverOverspent
  <2> USE DEF SagaInv
  <2>1. PaidFrom(acc) \subseteq HeldOn(acc)
    BY DEF PaidFrom, HeldOn, Booking, Acknowledged, TypeOK
  <2>2. HeldOn(acc) \subseteq Attempts
    BY DEF HeldOn
  <2>3. IsFiniteSet(HeldOn(acc)) /\ HaveAmounts(HeldOn(acc), req)
        /\ Total(HeldOn(acc), req) \in Nat
    BY <2>2, HeldFacts
  <2>4. Total(PaidFrom(acc), req) <= Total(HeldOn(acc), req)
    BY <2>1, <2>3, TotalMonotonic
  <2>5. PaidFrom(acc) \subseteq Attempts
    BY <2>1, <2>2
  <2>6. Total(PaidFrom(acc), req) \in Nat
    BY <2>5, HeldFacts
  <2>7. Total(HeldOn(acc), req) <= Funding[acc] /\ Funding[acc] \in Nat
    BY HoldsWithinFunding, AccountsAssumption
  <2>8. QED
    BY <2>3, <2>4, <2>6, <2>7
<1>2. QED
  BY <1>1, SagaInvariant, PTL

-----------------------------------------------------------------------------
(* A payment is booked while its hold is in force, so the source account can *)
(* afford it together with everything booked before.                         *)
LEMMA PostingIsAffordable ==
    ASSUME SagaInv, "lost_commit_ack" \notin Faults,
           NEW a \in Attempts, pc[a] = "posting"
    PROVE  Total(PaidFrom(req[a].src) \cup {a}, req) <= Funding[req[a].src]
<1> USE DEF SagaInv
<1>1. PICK src \in Accounts : src = req[a].src
  BY RequestFacts
<1>2. reserve[a] = "applied" /\ release[a] = "none"
  BY DEF CallOrder, Errors, TypeOK
<1>3. PaidFrom(src) \cup {a} \subseteq HeldOn(src)
  BY <1>1, <1>2 DEF PaidFrom, HeldOn, Booking, Acknowledged, TypeOK
<1>4. HeldOn(src) \subseteq Attempts
  BY DEF HeldOn
<1>5. IsFiniteSet(HeldOn(src)) /\ HaveAmounts(HeldOn(src), req)
      /\ Total(HeldOn(src), req) \in Nat
  BY <1>4, HeldFacts
<1>6. Total(PaidFrom(src) \cup {a}, req) <= Total(HeldOn(src), req)
  BY <1>3, <1>5, TotalMonotonic
<1>7. Total(PaidFrom(src) \cup {a}, req) \in Nat
  BY <1>3, <1>4, HeldFacts
<1>8. Total(HeldOn(src), req) <= Funding[src] /\ Funding[src] \in Nat
  BY HoldsWithinFunding, AccountsAssumption
<1>9. Total(PaidFrom(src) \cup {a}, req) <= Funding[src]
  BY <1>5, <1>6, <1>7, <1>8
<1>10. QED
  BY <1>1, <1>9

(* Every step of the saga books a payment, answers a request, or changes     *)
(* nothing the abstract specification sees.                                  *)
LEMMA StepImplements ==
    ASSUME SagaInv, "lost_commit_ack" \notin Faults, [Next]_vars
    PROVE  [Abstract!Next]_(Abstract!vars)
<1> USE DEF SagaInv
<1>1. CASE UNCHANGED vars
  BY <1>1 DEF vars, Abstract!vars
<1>2. ASSUME NEW a \in Attempts, Commit(a)
      PROVE  Abstract!Next
  <2>1. Total(PaidFrom(req[a].src) \cup {a}, req) <= Funding[req[a].src]
    BY <1>2, PostingIsAffordable DEF Commit
  <2>2. \A p \in payments : req[p].key # req[a].key
    BY <1>2 DEF Commit, StorePayment, KeyIsFree
  <2>3. payments' = payments \cup {a} /\ UNCHANGED <<req, answer>>
    BY <1>2 DEF Commit, StorePayment
  <2>4. Abstract!BookedFrom(req[a].src) = PaidFrom(req[a].src)
    BY DEF Abstract!BookedFrom, PaidFrom
  <2>5. Abstract!Total(PaidFrom(req[a].src) \cup {a}, req)
            = Total(PaidFrom(req[a].src) \cup {a}, req)
    BY Zenon DEF Abstract!Total, Abstract!Units, Abstract!UnitsOf,
                 Abstract!Cardinality, Total, Units, UnitsOf, Cardinality
  <2>6. Abstract!Book(a)
    BY <2>1, <2>2, <2>3, <2>4, <2>5 DEF Abstract!Book
  <2>7. QED
    BY <2>6 DEF Abstract!Next
<1>3. ASSUME NEW a \in Attempts, LookupHit(a) \/ Reply(a)
      PROVE  Abstract!Next
  <2>1. answer[a] = None
    BY <1>3 DEF LookupHit, Reply, Booking
  <2>2. \E p \in payments : /\ req[p].key = req[a].key
                            /\ answer' = [answer EXCEPT ![a] = p]
    <3>1. CASE LookupHit(a)
      BY <3>1, RequestFacts DEF LookupHit, Booking
    <3>2. CASE Reply(a)
      BY <3>2 DEF Reply, Booking
    <3>3. QED
      BY <1>3, <3>1, <3>2
  <2>3. UNCHANGED <<req, payments>>
    BY <1>3 DEF LookupHit, Reply
  <2>4. QED
    BY <2>1, <2>2, <2>3 DEF Abstract!Next, Abstract!Answer
<1>4. ASSUME NEW a \in Attempts,
             \/ Begin(a) \/ LookupMiss(a) \/ ValidateRefused(a)
             \/ AbortEarly(a) \/ ReserveAccepted(a) \/ ReserveRefused(a)
             \/ CallTimeout(a) \/ Rollback(a) \/ SkipRelease(a)
             \/ ReleaseReply(a) \/ Crash(a) \/ ValidateOk(a)
             \/ SendRelease(a) \/ ServeReserve(a) \/ ServeRelease(a)
      PROVE  UNCHANGED Abstract!vars
  BY <1>4 DEF Abstract!vars, Begin, LookupMiss, ValidateRefused, AbortEarly,
              ReserveAccepted, ReserveRefused, CallTimeout, Rollback,
              SkipRelease, ReleaseReply, Crash, ValidateOk, SendRelease,
              ServeReserve, ServeRelease
<1>5. \A a \in Attempts : ~CommitUnacknowledged(a)
  BY DEF CommitUnacknowledged
<1>6. QED
  BY <1>1, <1>2, <1>3, <1>4, <1>5, NextCases DEF Bookkeeping

\* The saga implements the abstract payments, if commits are acknowledged.
THEOREM SagaImplementsIdempotentPayments ==
    ASSUME "lost_commit_ack" \notin Faults
    PROVE  Spec => ImplementsIdempotentPayments
<1>1. Init => Abstract!Init
  BY DEF Init, Abstract!Init
<1>2. SagaInv /\ [Next]_vars => [Abstract!Next]_(Abstract!vars)
  BY StepImplements
<1>3. QED
  BY <1>1, <1>2, SagaInvariant, PTL
     DEF Spec, ImplementsIdempotentPayments, Abstract!Spec

-----------------------------------------------------------------------------
(* The breaker.                                                            *)

\* What BreakerInv says of a breaker b whose generation has the calls C.
Sound(b, C) ==
    /\ b \in [state : States, due : BOOLEAN, requests : 0 .. MaxRequests,
              successes : 0 .. MaxRequests - 1, failures : 0 .. MaxFailures - 1]
    /\ IsFiniteSet(C)
    /\ b.state = "half_open" =>
           /\ b.requests = b.successes + Cardinality(C)
           /\ b.requests = MaxRequests => C # {}
    /\ b.state = "open" => C = {}

(* BreakerInv is about the breaker and its generation only. *)
LEMMA InvIsSound ==
    BreakerInv <=> /\ up \in BOOLEAN
                   /\ flying \subseteq Callers
                   /\ current \subseteq flying
                   /\ Sound(breaker, current)
<1>1. current \subseteq Callers => IsFiniteSet(current)
  BY BreakerAssumption, FS_Subset
<1>2. QED
  BY <1>1 DEF BreakerInv, BreakerTypeOK, ProbesAccountedFor, OpenWaitsForClock, Sound

(* A new generation has no calls and no counts. *)
LEMMA NewGeneration ==
    ASSUME NEW s \in States
    PROVE  Sound(Generation(s), {})
<1>1. IsFiniteSet({}) /\ Cardinality({}) = 0
  BY FS_EmptySet
<1>2. QED
  BY <1>1, BreakerAssumption DEF Sound, Generation

(* Looking at the clock keeps the breaker sound. *)
LEMMA LookedSound ==
    ASSUME BreakerInv
    PROVE  Sound(Looked, CurrentLooked) /\ CurrentLooked \subseteq current
<1>1. CASE breaker.due
  <2>1. Looked = Generation(IF breaker.state = "open" THEN "half_open" ELSE "closed")
    BY <1>1 DEF Looked
  <2>2. QED
    BY <1>1, <2>1, NewGeneration DEF CurrentLooked, States
<1>2. CASE ~breaker.due
  BY <1>2, InvIsSound DEF Looked, CurrentLooked
<1>3. QED
  BY <1>1, <1>2

(* A call that is let through is counted as a probe that is under way. *)
LEMMA CountedSound ==
    ASSUME NEW b, NEW C, NEW c, Sound(b, C), c \notin C, ~TurnsAway(b)
    PROVE  Sound(Counted(b), C \cup {c})
<1>1. /\ IsFiniteSet(C \cup {c})
      /\ Cardinality(C) \in Nat
      /\ Cardinality(C \cup {c}) = Cardinality(C) + 1
  BY FS_AddElement, FS_CardinalityType DEF Sound
<1>2. CASE b.state = "half_open"
  BY <1>1, <1>2, BreakerAssumption DEF Sound, Counted, TurnsAway
<1>3. CASE b.state # "half_open"
  BY <1>1, <1>3 DEF Sound, Counted, TurnsAway
<1>4. QED
  BY <1>2, <1>3

(* A result of the current generation counts its probe as done, or starts a *)
(* new generation.                                                          *)
LEMMA ResultSound ==
    ASSUME NEW b, NEW C, NEW c \in C, Sound(b, C),
           NEW r, r = Succeeded(b) \/ r = Failed(b)
    PROVE  Sound(r, IF r.state = b.state THEN C \ {c} ELSE {})
<1>1. /\ IsFiniteSet(C \ {c})
      /\ Cardinality(C) \in Nat
      /\ Cardinality(C \ {c}) = Cardinality(C) - 1
      /\ Cardinality(C \ {c}) = 0 <=> C \ {c} = {}
  BY FS_RemoveElement, FS_CardinalityType, FS_EmptySet DEF Sound
<1>2. b.state \in {"closed", "half_open"}
  BY DEF Sound, States
<1>3. CASE r = Generation("open") \/ (r = Generation("closed") /\ b.state = "half_open")
  <2>1. r.state # b.state
    BY <1>2, <1>3 DEF Generation, Sound
  <2>2. QED
    BY <1>3, <2>1, NewGeneration DEF States
<1>4. CASE b.state = "closed" /\ r # Generation("open")
  <2>1. \/ r = [b EXCEPT !.failures = 0]
        \/ b.failures + 1 < MaxFailures /\ r = [b EXCEPT !.failures = @ + 1]
    BY <1>4 DEF Succeeded, Failed
  <2>2. QED
    BY <1>1, <1>4, <2>1, BreakerAssumption DEF Sound
<1>5. CASE /\ b.state = "half_open"
           /\ r \notin {Generation("open"), Generation("closed")}
  <2>1. /\ r = [b EXCEPT !.successes = @ + 1]
        /\ ~(b.successes + 1 >= MaxRequests)
    BY <1>5 DEF Succeeded, Failed
  <2>2. r.state = b.state
    BY <2>1 DEF Sound
  <2>3. /\ r.successes = b.successes + 1 /\ r.requests = b.requests
        /\ r.successes \in 0 .. MaxRequests - 1
        /\ b.requests = b.successes + Cardinality(C)
    BY <1>5, <2>1, BreakerAssumption DEF Sound
  <2>4. r.requests = MaxRequests => C \ {c} # {}
    BY <1>1, <2>3, BreakerAssumption DEF Sound
  <2>5. QED
    BY <1>1, <1>5, <2>1, <2>2, <2>3, <2>4 DEF Sound
<1>6. QED
  BY <1>2, <1>3, <1>4, <1>5

-----------------------------------------------------------------------------
\* Type correctness; a half-open breaker accounts for every probe it let
\* through, and an open one waits for the clock only.
THEOREM BreakerInvariant == BreakerSpec => []BreakerInv
<1>1. BreakerInit => BreakerInv
  BY InvIsSound, NewGeneration DEF BreakerInit, States
<1>2. BreakerInv /\ [BreakerNext]_breakerVars => BreakerInv'
  <2> SUFFICES ASSUME BreakerInv, [BreakerNext]_breakerVars PROVE BreakerInv'
    OBVIOUS
  <2>0. /\ up \in BOOLEAN /\ flying \subseteq Callers /\ current \subseteq flying
        /\ Sound(breaker, current)
        /\ Sound(Looked, CurrentLooked) /\ CurrentLooked \subseteq current
    BY InvIsSound, LookedSound
  <2>1. SUFFICES /\ up' \in BOOLEAN
                 /\ flying' \subseteq Callers
                 /\ current' \subseteq flying'
                 /\ Sound(breaker', current')
    <3>1. current' \subseteq Callers => IsFiniteSet(current')
      BY BreakerAssumption, FS_Subset
    <3>2. QED
      BY <3>1 DEF BreakerInv, BreakerTypeOK, ProbesAccountedFor, OpenWaitsForClock, Sound
  <2>2. CASE UNCHANGED breakerVars
    BY <2>0, <2>2 DEF breakerVars
  <2>3. CASE Expire
    BY <2>0, <2>3 DEF Expire, Sound
  <2>4. CASE GoesDown \/ ComesBack
    BY <2>0, <2>4 DEF GoesDown, ComesBack
  <2>5. ASSUME NEW c \in Callers, Call(c) PROVE <2>1!1
    <3>1. Sound(Counted(Looked), CurrentLooked \cup {c})
      BY <2>0, <2>5, CountedSound DEF Call
    <3>2. QED
      BY <2>0, <2>5, <3>1 DEF Call
  <2>6. ASSUME NEW c \in Callers, Refuse(c) PROVE <2>1!1
    BY <2>0, <2>6 DEF Refuse
  <2>7. ASSUME NEW c \in Callers, Answered(c) \/ Errored(c) PROVE <2>1!1
    <3>1. PICK r : /\ Settle(c, r)
                   /\ IF Counts(c) THEN r = Succeeded(Looked) \/ r = Failed(Looked)
                      ELSE r = Looked
      BY <2>7 DEF Answered, Errored
    <3>2. Sound(r, IF r.state = Looked.state THEN CurrentLooked \ {c} ELSE {})
      <4>1. CASE Counts(c)
        BY <2>0, <3>1, <4>1, ResultSound DEF Counts
      <4>2. CASE ~Counts(c)
        <5>1. CurrentLooked \ {c} = CurrentLooked
          BY <4>2 DEF Counts
        <5>2. QED
          BY <2>0, <3>1, <4>2, <5>1
      <4>3. QED
        BY <4>1, <4>2
    <3>3. QED
      BY <2>0, <3>1, <3>2 DEF Settle
  <2>8. QED
    BY <2>2, <2>3, <2>4, <2>5, <2>6, <2>7 DEF BreakerNext
<1>3. QED
  BY <1>1, <1>2, PTL DEF BreakerSpec

\* Only failures of calls of its own generation open a closed breaker, and it
\* takes MaxFailures of them.
THEOREM BreakerOpensOnOwnFailures == BreakerSpec => OpensOnOwnFailures
<1>1. BreakerInv /\ [BreakerNext]_breakerVars =>
          [breaker.state = "closed" /\ breaker'.state = "open" =>
               /\ breaker.failures = MaxFailures - 1
               /\ \E c \in current : c \notin flying']_breakerVars
  <2> SUFFICES ASSUME BreakerInv, BreakerNext, breaker.state = "closed", breaker'.state = "open"
               PROVE  /\ breaker.failures = MaxFailures - 1
                      /\ \E c \in current : c \notin flying'
    OBVIOUS
  <2>1. breaker.failures \in 0 .. MaxFailures - 1
    BY DEF BreakerInv, BreakerTypeOK
  <2>2. /\ Looked.state = "closed"
        /\ breaker.due => CurrentLooked = {}
        /\ ~breaker.due => Looked = breaker /\ CurrentLooked = current
    BY DEF Looked, CurrentLooked, Generation
  <2>3. PICK c \in Callers : Settle(c, Failed(Looked)) /\ Counts(c)
    <3>1. ~Expire
      BY DEF Expire, BreakerInv, BreakerTypeOK
    <3>2. ~GoesDown /\ ~ComesBack
      BY DEF GoesDown, ComesBack
    <3>3. ASSUME NEW c \in Callers PROVE ~Call(c) /\ ~Refuse(c)
      BY <2>2 DEF Call, Refuse, Counted
    <3>4. ASSUME NEW c \in Callers, Answered(c) PROVE FALSE
      <4>1. breaker' = Looked \/ breaker' = Succeeded(Looked)
        BY <3>4 DEF Answered, Settle
      <4>2. Succeeded(Looked) = [Looked EXCEPT !.failures = 0]
        BY <2>2 DEF Succeeded
      <4>3. Sound(Looked, CurrentLooked)
        BY LookedSound
      <4>4. QED
        BY <2>2, <4>1, <4>2, <4>3 DEF Sound
    <3>5. ASSUME NEW c \in Callers, Errored(c), ~Counts(c) PROVE FALSE
      BY <2>2, <3>5 DEF Errored, Settle
    <3>6. QED
      BY <3>1, <3>2, <3>3, <3>4, <3>5 DEF BreakerNext, Errored
  <2>4. ~breaker.due
    BY <2>2, <2>3 DEF Counts
  <2>5. breaker' = Failed(breaker)
    BY <2>2, <2>3, <2>4 DEF Settle
  <2>6. ~(breaker.failures + 1 < MaxFailures)
    BY <2>5 DEF Failed, BreakerInv, BreakerTypeOK
  <2>7. c \in current /\ c \notin flying'
    BY <2>2, <2>3, <2>4 DEF Counts, Settle
  <2>8. QED
    BY <2>1, <2>6, <2>7, BreakerAssumption
<1>2. QED
  BY <1>1, BreakerInvariant, PTL DEF BreakerSpec, OpensOnOwnFailures

=============================================================================
