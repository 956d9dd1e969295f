-------------------------- MODULE StatementsProofs --------------------------
(***************************************************************************)
(* Proofs about Statements for any accounts, journals, postings, times and *)
(* page sizes: what the items of a statement add up to, and what a walk    *)
(* over the pages shows.                                                   *)
(*                                                                         *)
(* The sums of the items are folds, so facts about them need induction     *)
(* over a finite set.  Here that is an argument by a smallest              *)
(* counterexample (LeastNatural, SmallestSubset): the set of the           *)
(* counterexamples is written down and shown to have no least element.     *)
(***************************************************************************)
EXTENDS Statements, FiniteSetTheorems, SequenceTheorems, TLAPS

-----------------------------------------------------------------------------
(* Least elements.                                                         *)

LEMMA LeastNatural ==
    ASSUME NEW T \in SUBSET Nat, T # {}
    PROVE  \E n \in T : \A m \in T : n <= m
<1>1. PICK n \in T : \A m \in T : <<m, n>> \notin OpToRel(<, Nat)
  BY WFMin, NatLessThanWellFounded
<1>2. \A m \in T : ~(m < n)
  BY <1>1 DEF OpToRel
<1>3. QED
  BY <1>2

LEMMA SmallestSubset ==
    ASSUME NEW S, IsFiniteSet(S), NEW T \in SUBSET (SUBSET S), T # {}
    PROVE  \E t \in T : \A u \in T : u \subseteq t => u = t
<1>1. /\ FiniteSubsetsOf(S) = SUBSET S
      /\ IsWellFoundedOn(StrictSubsetOrdering(S), SUBSET S)
  BY FS_FiniteSubsetsOfFinite, FS_StrictSubsetOrderingWellFounded
<1>2. PICK t \in T : \A u \in T : <<u, t>> \notin StrictSubsetOrdering(S)
  BY <1>1, WFMin
<1>3. ASSUME NEW u \in T, u \subseteq t PROVE u = t
  BY <1>2, <1>3 DEF StrictSubsetOrdering
<1>4. QED
  BY <1>3

-----------------------------------------------------------------------------
(* Sums over finite sets.                                                  *)

Pick(s) == CHOOSE x \in s : TRUE

\* What the fold of SumFunction makes of f, given the sums g of smaller sets.
Step(f, g, s) == IF s = {} THEN 0 ELSE f[Pick(s)] + g[s \ {Pick(s)}]

\* g has the sum of f over every subset of S.
Adds(g, f, S) == g = [s \in SUBSET S |-> Step(f, g, s)]

LEMMA PickIn == \A s : s # {} => Pick(s) \in s
  BY DEF Pick

(* The sums of a finite set exist, size by size. *)
LEMMA SumsExist ==
    ASSUME NEW S, IsFiniteSet(S), NEW f
    PROVE  \E g : Adds(g, f, S)
<1> DEFINE Upto(n) == {s \in SUBSET S : Cardinality(s) <= n}
           Good(n) == \E g : g = [s \in Upto(n) |-> Step(f, g, s)]
           Bad == {n \in Nat : ~Good(n)}
<1>0. \A s \in SUBSET S : IsFiniteSet(s) /\ Cardinality(s) \in Nat
  BY FS_Subset, FS_CardinalityType
<1>1. Good(0)
  <2>1. \A s \in Upto(0) : s = {}
    BY <1>0, FS_EmptySet
  <2>2. [s \in Upto(0) |-> 0] = [s \in Upto(0) |-> Step(f, [u \in Upto(0) |-> 0], s)]
    BY <2>1 DEF Step
  <2>3. QED
    BY <2>2
<1>2. ASSUME NEW n \in Nat, Good(n) PROVE Good(n + 1)
  <2>1. PICK g : g = [s \in Upto(n) |-> Step(f, g, s)]
    BY <1>2
  <2> DEFINE h == [s \in Upto(n + 1) |-> Step(f, g, s)]
  <2>2. ASSUME NEW s \in Upto(n + 1) PROVE Step(f, g, s) = Step(f, h, s)
    <3>1. CASE s = {}
      BY <3>1 DEF Step
    <3>2. CASE s # {}
      <4> DEFINE r == s \ {Pick(s)}
      <4>1. r \in Upto(n)
        <5>1. Cardinality(r) = Cardinality(s) - 1
          BY <1>0, <3>2, PickIn, FS_RemoveElement
        <5>2. QED
          BY <1>0, <5>1
      <4>2. r \in Upto(n + 1)
        BY <1>0, <4>1
      <4>3. g[r] = Step(f, g, r)
        BY <2>1, <4>1
      <4>4. h[r] = Step(f, g, r)
        BY <4>2
      <4>5. QED
        BY <3>2, <4>3, <4>4 DEF Step
    <3>3. QED
      BY <3>1, <3>2
  <2>3. h = [s \in Upto(n + 1) |-> Step(f, h, s)]
    BY <2>2
  <2>4. QED
    BY <2>3
<1>3. Bad = {}
  <2>1. SUFFICES ASSUME Bad # {} PROVE FALSE
    OBVIOUS
  <2>2. PICK n \in Bad : \A m \in Bad : n <= m
    <3>1. Bad \in SUBSET Nat
      OBVIOUS
    <3> HIDE DEF Bad
    <3>2. QED
      BY <2>1, <3>1, LeastNatural
  <2>3. n \in Nat /\ ~Good(n)
    BY <2>2
  <2>4. ASSUME NEW m \in Nat, m < n PROVE Good(m)
    <3>1. m \notin Bad
      <4> HIDE DEF Bad
      <4>1. QED
        BY <2>2, <2>3, <2>4
    <3>2. QED
      BY <3>1
  <2> HIDE DEF Good
  <2>5. n # 0
    BY <1>1, <2>3
  <2>6. n - 1 \in Nat /\ n - 1 < n /\ (n - 1) + 1 = n
    BY <2>3, <2>5
  <2>7. QED
    BY <1>2, <2>3, <2>4, <2>6
<1>4. Good(Cardinality(S))
  BY <1>0, <1>3
<1>5. Upto(Cardinality(S)) = SUBSET S
  BY FS_Subset
<1>6. QED
  BY <1>4, <1>5 DEF Adds

(* SumFunction is such a sum. *)
LEMMA SumFunctionAdds ==
    ASSUME NEW f, IsFiniteSet(DOMAIN f)
    PROVE  \E g : Adds(g, f, DOMAIN f) /\ SumFunction(f) = g[DOMAIN f]
<1> DEFINE g == CHOOSE g : g = [s \in SUBSET DOMAIN f |->
                                    IF s = {} THEN 0
                                    ELSE LET x == CHOOSE x \in s : TRUE
                                         IN  f[x] + g[s \ {x}]]
<1>1. SumFunction(f) = g[DOMAIN f]
  BY Zenon DEF SumFunction, SumFunctionOnSet, FoldFunctionOnSet, MapThenFoldSet
<1>2. Adds(g, f, DOMAIN f)
  <2>1. \E h : h = [s \in SUBSET DOMAIN f |->
                        IF s = {} THEN 0
                        ELSE LET x == CHOOSE x \in s : TRUE IN f[x] + h[s \ {x}]]
    <3>1. PICK h : Adds(h, f, DOMAIN f)
      BY SumsExist
    <3>2. h = [s \in SUBSET DOMAIN f |->
                  IF s = {} THEN 0
                  ELSE LET x == CHOOSE x \in s : TRUE IN f[x] + h[s \ {x}]]
      BY <3>1, Zenon DEF Adds, Step, Pick
    <3>3. QED
      BY <3>2
  <2>2. QED
    BY <2>1, Zenon DEF Adds, Step, Pick
<1>3. QED
  BY <1>1, <1>2

(* The sum of differences is the difference of the sums. *)
LEMMA SumOfDifferences ==
    ASSUME NEW S, IsFiniteSet(S), NEW a \in [S -> Int], NEW b \in [S -> Int]
    PROVE  SumFunction([x \in S |-> a[x] - b[x]]) = SumFunction(a) - SumFunction(b)
<1> DEFINE f == [x \in S |-> a[x] - b[x]]
<1>1. PICK g : Adds(g, f, S) /\ SumFunction(f) = g[S]
  BY SumFunctionAdds
<1>2. PICK ga : Adds(ga, a, S) /\ SumFunction(a) = ga[S]
  BY SumFunctionAdds
<1>3. PICK gb : Adds(gb, b, S) /\ SumFunction(b) = gb[S]
  BY SumFunctionAdds
<1> DEFINE Right(s) == ga[s] \in Int /\ gb[s] \in Int /\ g[s] = ga[s] - gb[s]
           Wrong == {s \in SUBSET S : ~Right(s)}
<1>4. ASSUME NEW s \in SUBSET S
      PROVE  g[s] = Step(f, g, s) /\ ga[s] = Step(a, ga, s) /\ gb[s] = Step(b, gb, s)
  BY <1>1, <1>2, <1>3, <1>4 DEF Adds
<1>5. Wrong = {}
  <2>1. SUFFICES ASSUME Wrong # {} PROVE FALSE
    OBVIOUS
  <2>2. PICK s \in Wrong : \A u \in Wrong : u \subseteq s => u = s
    <3>1. Wrong \in SUBSET (SUBSET S)
      OBVIOUS
    <3> HIDE DEF Wrong
    <3>2. QED
      BY <2>1, <3>1, SmallestSubset
  <2>3. s # {}
    <3>1. Right({})
      <4>1. g[{}] = 0 /\ ga[{}] = 0 /\ gb[{}] = 0
        <5>1. {} \in SUBSET S
          OBVIOUS
        <5>2. QED
          BY <1>4, <5>1 DEF Step
      <4>2. QED
        BY <4>1
    <3>2. QED
      BY <2>2, <3>1
  <2> DEFINE x == Pick(s)
             r == s \ {x}
  <2>4. x \in s /\ x \in S /\ r \in SUBSET S /\ r \subseteq s /\ r # s
    BY <2>2, <2>3, PickIn
  <2>5. Right(r)
    BY <2>2, <2>4
  <2>6. /\ g[s] = (a[x] - b[x]) + g[r]
        /\ ga[s] = a[x] + ga[r]
        /\ gb[s] = b[x] + gb[r]
    BY <1>4, <2>2, <2>3, <2>4 DEF Step
  <2>7. a[x] \in Int /\ b[x] \in Int
    BY <2>4
  <2>8. Right(s)
    BY <2>5, <2>6, <2>7
  <2>9. QED
    BY <2>2, <2>8
<1>6. QED
  BY <1>1, <1>2, <1>3, <1>5

(* Sums of nothing and of one. *)
LEMMA SumOfNothing ==
    ASSUME NEW f, DOMAIN f = {}
    PROVE  SumFunction(f) = 0
<1>1. PICK g : Adds(g, f, {}) /\ SumFunction(f) = g[{}]
  BY SumFunctionAdds, FS_EmptySet
<1>2. QED
  BY <1>1 DEF Adds, Step

LEMMA SumOfOne ==
    ASSUME NEW x, NEW f, DOMAIN f = {x}, f[x] \in Int
    PROVE  SumFunction(f) = f[x]
<1>1. PICK g : Adds(g, f, {x}) /\ SumFunction(f) = g[{x}]
  <2>1. IsFiniteSet({x})
    BY FS_Singleton
  <2>2. QED
    BY <2>1, SumFunctionAdds
<1>2. Pick({x}) = x /\ {x} \ {Pick({x})} = {}
  BY PickIn
<1>3. g[{}] = 0 /\ g[{x}] = f[x] + g[{}]
  BY <1>1, <1>2 DEF Adds, Step
<1>4. QED
  BY <1>1, <1>3

-----------------------------------------------------------------------------
(* What a journal is to an account: money in, money out, or nothing.       *)

LEMMA PostingOf ==
    ASSUME NEW j \in Journals
    PROVE  /\ Posting[j].dst \in Accounts
           /\ Posting[j].src # Posting[j].dst
           /\ Posting[j].src = None \/ Posting[j].src \in Accounts
           /\ Posting[j].dst # None
           /\ Posting[j].amount \in Int
           /\ Posting[j].amount > 0
  BY PostingAssumption, BoundsAssumption

LEMMA ItemOfPayee ==
    ASSUME NEW j \in Journals
    PROVE  Item(j, Posting[j].dst) =
               [journal |-> j, direction |-> "credit",
                amount |-> Posting[j].amount, counterparty |-> Posting[j].src]
<1> DEFINE p == Posting[j]
           line == [ref |-> p.dst, debit |-> 0, credit |-> p.amount]
           own == OwnLines(j, p.dst)
           others == {l.ref : l \in Lines(j)} \ {p.dst, None}
           net == SumFunction([l \in own |-> l.credit])
                  - SumFunction([l \in own |-> l.debit])
<1>1. own = {line}
  BY PostingOf DEF OwnLines, Lines
<1>2. SumFunction([l \in own |-> l.credit]) = p.amount
  <2> DEFINE f == [l \in own |-> l.credit]
  <2>1. DOMAIN f = {line} /\ f[line] = p.amount /\ p.amount \in Int
    BY <1>1, PostingOf
  <2>2. SumFunction(f) = p.amount
    <3> HIDE DEF f, line
    <3>1. QED
      BY <2>1, SumOfOne
  <2>3. QED
    BY <2>2
<1>3. SumFunction([l \in own |-> l.debit]) = 0
  BY <1>1, SumOfOne
<1>4. others = IF p.src = None THEN {} ELSE {p.src}
  BY PostingOf DEF Lines
<1>5. (IF others = {} THEN None ELSE CHOOSE o \in others : TRUE) = p.src
  BY <1>4
<1>6. Item(j, p.dst) =
          [journal |-> j,
           direction |-> IF net < 0 THEN "debit" ELSE "credit",
           amount |-> IF net < 0 THEN -net ELSE net,
           counterparty |-> IF others = {} THEN None ELSE CHOOSE o \in others : TRUE]
  BY Zenon DEF Item
<1>7. net = p.amount /\ p.amount \in Int /\ p.amount > 0
  BY <1>2, <1>3, PostingOf
<1>8. Item(j, p.dst) = [journal |-> j, direction |-> "credit",
                       amount |-> p.amount, counterparty |-> p.src]
  <2> HIDE DEF net, others, p
  <2>1. Item(j, p.dst) =
            [journal |-> j,
             direction |-> IF net < 0 THEN "debit" ELSE "credit",
             amount |-> IF net < 0 THEN -net ELSE net,
             counterparty |-> p.src]
    BY <1>5, <1>6, Zenon
  <2>2. QED
    BY <1>7, <2>1
<1>9. QED
  BY <1>8

LEMMA ItemOfPayer ==
    ASSUME NEW j \in Journals, Posting[j].src # None
    PROVE  Item(j, Posting[j].src) =
               [journal |-> j, direction |-> "debit",
                amount |-> Posting[j].amount, counterparty |-> Posting[j].dst]
<1> DEFINE p == Posting[j]
           line == [ref |-> p.src, debit |-> p.amount, credit |-> 0]
           own == OwnLines(j, p.src)
           others == {l.ref : l \in Lines(j)} \ {p.src, None}
           net == SumFunction([l \in own |-> l.credit])
                  - SumFunction([l \in own |-> l.debit])
<1>1. own = {line}
  BY PostingOf DEF OwnLines, Lines
<1>2. SumFunction([l \in own |-> l.credit]) = 0
  BY <1>1, SumOfOne
<1>3. SumFunction([l \in own |-> l.debit]) = p.amount
  <2> DEFINE f == [l \in own |-> l.debit]
  <2>1. DOMAIN f = {line} /\ f[line] = p.amount /\ p.amount \in Int
    BY <1>1, PostingOf
  <2>2. SumFunction(f) = p.amount
    <3> HIDE DEF f, line
    <3>1. QED
      BY <2>1, SumOfOne
  <2>3. QED
    BY <2>2
<1>4. others = {p.dst}
  BY PostingOf DEF Lines
<1>5. (IF others = {} THEN None ELSE CHOOSE o \in others : TRUE) = p.dst
  BY <1>4
<1>6. Item(j, p.src) =
          [journal |-> j,
           direction |-> IF net < 0 THEN "debit" ELSE "credit",
           amount |-> IF net < 0 THEN -net ELSE net,
           counterparty |-> IF others = {} THEN None ELSE CHOOSE o \in others : TRUE]
  BY Zenon DEF Item
<1>7. net = -p.amount /\ p.amount \in Int /\ p.amount > 0
  BY <1>2, <1>3, PostingOf
<1>8. Item(j, p.src) = [journal |-> j, direction |-> "debit",
                       amount |-> p.amount, counterparty |-> p.dst]
  <2> HIDE DEF net, others, p
  <2>1. Item(j, p.src) =
            [journal |-> j,
             direction |-> IF net < 0 THEN "debit" ELSE "credit",
             amount |-> IF net < 0 THEN -net ELSE net,
             counterparty |-> p.dst]
    BY <1>5, <1>6, Zenon
  <2>2. QED
    BY <1>7, <2>1
<1>9. QED
  BY <1>8

LEMMA ItemOfOther ==
    ASSUME NEW j \in Journals, NEW acc,
           acc # Posting[j].src, acc # Posting[j].dst
    PROVE  Item(j, acc).amount = 0 /\ Item(j, acc).direction = "credit"
<1>1. OwnLines(j, acc) = {}
  BY DEF OwnLines, Lines
<1>2. /\ SumFunction([l \in OwnLines(j, acc) |-> l.credit]) = 0
      /\ SumFunction([l \in OwnLines(j, acc) |-> l.debit]) = 0
  BY <1>1, SumOfNothing
<1>3. QED
  BY <1>2 DEF Item

(* The amount of an item with the sign of its direction is what its journal *)
(* moved.                                                                   *)
LEMMA SignedItem ==
    ASSUME NEW j \in Journals, NEW acc \in Accounts
    PROVE  (IF Item(j, acc).direction = "debit" THEN -Item(j, acc).amount
                                                ELSE Item(j, acc).amount)
           = (IF Posting[j].dst = acc THEN Posting[j].amount ELSE 0)
             - (IF Posting[j].src = acc THEN Posting[j].amount ELSE 0)
<1>1. CASE acc = Posting[j].dst
  <2>1. Item(j, acc).direction = "credit" /\ Item(j, acc).amount = Posting[j].amount
    <3>1. Item(j, Posting[j].dst) =
              [journal |-> j, direction |-> "credit",
               amount |-> Posting[j].amount, counterparty |-> Posting[j].src]
      BY ItemOfPayee
    <3>2. QED
      BY <1>1, <3>1
  <2>2. QED
    BY <1>1, <2>1, PostingOf
<1>2. CASE acc = Posting[j].src
  <2>1. acc # None
    BY BoundsAssumption
  <2>2. Item(j, acc).direction = "debit" /\ Item(j, acc).amount = Posting[j].amount
    <3>1. Item(j, Posting[j].src) =
              [journal |-> j, direction |-> "debit",
               amount |-> Posting[j].amount, counterparty |-> Posting[j].dst]
      BY <1>2, <2>1, ItemOfPayer
    <3>2. QED
      BY <1>2, <3>1
  <2>3. QED
    BY <1>2, <2>2, PostingOf
<1>3. CASE acc # Posting[j].src /\ acc # Posting[j].dst
  BY <1>3, ItemOfOther
<1>4. QED
  BY <1>1, <1>2, <1>3

(* Whatever a walk shows adds up. *)
LEMMA ItemsAddUp ==
    ASSUME NEW S \in SUBSET Journals, IsFiniteSet(S), NEW acc \in Accounts
    PROVE  LET Signed(i) == IF i.direction = "debit" THEN -i.amount ELSE i.amount
           IN  SumFunction([j \in S |-> Signed(Item(j, acc))]) = Moved(S, acc)
<1> DEFINE Signed(i) == IF i.direction = "debit" THEN -i.amount ELSE i.amount
           in == [j \in S |-> IF Posting[j].dst = acc THEN Posting[j].amount ELSE 0]
           out == [j \in S |-> IF Posting[j].src = acc THEN Posting[j].amount ELSE 0]
<1>1. in \in [S -> Int] /\ out \in [S -> Int]
  BY PostingOf
<1>2. \A j \in S : Signed(Item(j, acc)) = in[j] - out[j]
  BY SignedItem
<1>3. [j \in S |-> Signed(Item(j, acc))] = [j \in S |-> in[j] - out[j]]
  BY <1>2
<1>4. Moved(S, acc) = SumFunction(in) - SumFunction(out)
  BY DEF Moved
<1> HIDE DEF in, out
<1>5. QED
  BY <1>1, <1>3, <1>4, SumOfDifferences

-----------------------------------------------------------------------------
(* One query and one page of it.                                           *)

\* The journals of W that are listed before j.
AheadIn(W, j) == {i \in W : bookedAt[i] > bookedAt[j]}

\* Journals whose times order them.
Ordered(W) ==
    /\ \A i \in W : bookedAt[i] \in Int
    /\ \A i, k \in W : bookedAt[i] = bookedAt[k] => i = k

LEMMA ListingIsSeq ==
    ASSUME NEW W, IsFiniteSet(W), NEW rows \in Listings(W)
    PROVE  /\ Cardinality(W) \in Nat
           /\ rows \in [1 .. Cardinality(W) -> W]
           /\ rows \in Seq(W)
           /\ Len(rows) = Cardinality(W)
           /\ \A m, n \in 1 .. Cardinality(W) : m # n => rows[m] # rows[n]
           /\ \A m, n \in 1 .. Cardinality(W) :
                  m < n => bookedAt[rows[m]] >= bookedAt[rows[n]]
<1>1. Cardinality(W) \in Nat
  BY FS_CardinalityType
<1>2. /\ rows \in [1 .. Cardinality(W) -> W]
      /\ \A m, n \in 1 .. Cardinality(W) : m # n => rows[m] # rows[n]
      /\ \A m, n \in DOMAIN rows : m < n => bookedAt[rows[m]] >= bookedAt[rows[n]]
  BY DEF Listings, SetToSeqs
<1>3. QED
  BY <1>1, <1>2

(* In a listing of journals that have times of their own, the place of a   *)
(* journal is the number of the journals ahead of it.                      *)
LEMMA PlaceInListing ==
    ASSUME NEW W, IsFiniteSet(W), Ordered(W), NEW rows \in Listings(W), NEW j \in W
    PROVE  \E m \in 1 .. Cardinality(W) :
               rows[m] = j /\ Cardinality(AheadIn(W, j)) = m - 1
<1> DEFINE N == Cardinality(W)
<1>1. /\ N \in Nat
      /\ rows \in [1 .. N -> W]
      /\ \A m, n \in 1 .. N : m # n => rows[m] # rows[n]
      /\ \A m, n \in 1 .. N : m < n => bookedAt[rows[m]] >= bookedAt[rows[n]]
  BY ListingIsSeq
<1>2. IsFiniteSet(1 .. N) /\ Cardinality(1 .. N) = N
  BY <1>1, FS_Interval
<1>3. rows \in Injection(1 .. N, W)
  BY <1>1 DEF Injection, IsInjective
<1>4. rows \in Surjection(1 .. N, W)
  BY <1>2, <1>3, FS_Injection
<1>5. PICK m \in 1 .. N : rows[m] = j
  BY <1>4 DEF Surjection
<1> DEFINE h == [n \in 1 .. m - 1 |-> rows[n]]
<1>6. \A n \in 1 .. N : bookedAt[rows[n]] > bookedAt[j] <=> n < m
  <2>1. SUFFICES ASSUME NEW n \in 1 .. N
                 PROVE  bookedAt[rows[n]] > bookedAt[j] <=> n < m
    OBVIOUS
  <2>2. rows[n] \in W /\ bookedAt[rows[n]] \in Int /\ bookedAt[j] \in Int
    BY <1>1 DEF Ordered
  <2>3. CASE n < m
    <3>1. bookedAt[rows[n]] >= bookedAt[j] /\ rows[n] # j
      BY <1>1, <1>5, <2>3
    <3>2. bookedAt[rows[n]] # bookedAt[j]
      BY <2>2, <3>1 DEF Ordered
    <3>3. QED
      BY <2>2, <2>3, <3>1, <3>2
  <2>4. CASE n = m
    BY <1>5, <2>2, <2>4
  <2>5. CASE n > m
    <3>1. bookedAt[j] >= bookedAt[rows[n]]
      BY <1>1, <1>5, <2>5
    <3>2. QED
      BY <2>2, <2>5, <3>1
  <2>6. QED
    BY <1>1, <2>3, <2>4, <2>5
<1>7. h \in Bijection(1 .. m - 1, AheadIn(W, j))
  <2>1. 1 .. m - 1 \subseteq 1 .. N
    BY <1>1
  <2>2. h \in [1 .. m - 1 -> AheadIn(W, j)]
    BY <1>1, <1>6, <2>1 DEF AheadIn
  <2>3. \A a, b \in 1 .. m - 1 : h[a] = h[b] => a = b
    BY <1>1, <2>1
  <2>4. \A i \in AheadIn(W, j) : \E n \in 1 .. m - 1 : h[n] = i
    <3>1. SUFFICES ASSUME NEW i \in AheadIn(W, j) PROVE \E n \in 1 .. m - 1 : h[n] = i
      OBVIOUS
    <3>2. i \in W /\ bookedAt[i] > bookedAt[j]
      BY DEF AheadIn
    <3>3. PICK n \in 1 .. N : rows[n] = i
      BY <1>4, <3>2 DEF Surjection
    <3>4. n \in 1 .. m - 1
      BY <1>1, <1>6, <3>2, <3>3
    <3>5. QED
      BY <3>3, <3>4
  <2>5. QED
    BY <2>2, <2>3, <2>4 DEF Bijection, Injection, Surjection, IsInjective
<1>8. Cardinality(AheadIn(W, j)) = m - 1
  <2>1. m - 1 \in Nat
    BY <1>1
  <2>2. QED
    BY <1>7, <2>1, FS_CountingElements DEF ExistsBijection
<1>9. QED
  BY <1>5, <1>8

LEMMA OffsetOfNext ==
    ASSUME NEW page \in Nat, NEW size \in Nat \ {0}
    PROVE  /\ Offset(page, size) \in Nat
           /\ Offset(page + 1, size) = IF page = 0 THEN 0 ELSE Offset(page, size) + size
<1>1. CASE page = 0
  BY <1>1 DEF Offset
<1>2. CASE page > 0
  <2>1. /\ Offset(page, size) = (page - 1) * size
        /\ Offset(page + 1, size) = page * size
    BY <1>2 DEF Offset
  <2>2. page * size = (page - 1) * size + size
    BY <1>2
  <2>3. (page - 1) * size \in Nat
    BY <1>2
  <2>4. QED
    BY <1>2, <2>1, <2>2, <2>3
<1>3. QED
  BY <1>1, <1>2

(* The rows of a page. *)
LEMMA PageRows ==
    ASSUME NEW W, NEW rows \in Seq(W), NEW page \in Nat, NEW size \in Nat \ {0},
           Offset(page, size) <= Len(rows)
    PROVE  LET o   == Offset(page, size)
               got == PageOf(rows, page, size)
           IN  /\ got \in Seq(W)
               /\ Len(got) = IF o + size < Len(rows) THEN size ELSE Len(rows) - o
               /\ \A m \in 1 .. Len(rows) :
                      m > o /\ m <= o + size => rows[m] \in ToSet(got)
<1> DEFINE o == Offset(page, size)
           last == IF o + size < Len(rows) THEN o + size ELSE Len(rows)
           got == PageOf(rows, page, size)
<1>1. o \in Nat /\ Len(rows) \in Nat /\ last \in Int /\ o <= last /\ last <= Len(rows)
  <2>1. o \in Nat /\ Len(rows) \in Nat /\ o <= Len(rows)
    BY OffsetOfNext, LenProperties
  <2> HIDE DEF o
  <2>2. QED
    BY <2>1
<1>2. got = SubSeq(rows, o + 1, last)
  BY DEF PageOf
<1> HIDE DEF o, last, got
<1>3. \A i \in o + 1 .. last : rows[i] \in W
  BY <1>1, ElementOfSeq
<1>4. /\ got \in Seq(W)
      /\ Len(got) = IF o + 1 <= last THEN last - (o + 1) + 1 ELSE 0
      /\ \A i \in 1 .. last - (o + 1) + 1 : got[i] = rows[(o + 1) + i - 1]
  <2>1. o + 1 \in Int /\ last \in Int
    BY <1>1
  <2>2. QED
    BY <1>2, <1>3, <2>1, SubSeqProperties
<1>5. Len(got) = last - o
  <2>1. CASE o + 1 <= last
    BY <1>1, <1>4, <2>1
  <2>2. CASE ~(o + 1 <= last)
    <3>1. last = o
      BY <1>1, <2>2
    <3>2. Len(got) = 0
      BY <1>4, <2>2
    <3>3. QED
      BY <1>1, <3>1, <3>2
  <2>3. QED
    BY <2>1, <2>2
<1>6. ASSUME NEW m \in 1 .. Len(rows), m > o, m <= last PROVE rows[m] \in ToSet(got)
  <2>1. m - o \in 1 .. Len(got) /\ got[m - o] = rows[m]
    BY <1>1, <1>4, <1>5, <1>6
  <2>2. DOMAIN got = 1 .. Len(got)
    BY <1>4, LenProperties
  <2>3. QED
    BY <2>1, <2>2 DEF ToSet
<1>7. QED
  BY <1>1, <1>4, <1>5, <1>6 DEF o, last, got

(* A page shows what comes next: what was to come stays to come, or is     *)
(* shown, and a page that is not full leaves nothing to come.              *)
LEMMA PageShows ==
    ASSUME NEW W, IsFiniteSet(W), Ordered(W), NEW rows \in Listings(W),
           NEW page \in Nat, NEW size \in Nat \ {0},
           Offset(page, size) <= Cardinality(W),
           NEW j \in W, Cardinality(AheadIn(W, j)) >= Offset(page, size),
           j \notin ToSet(PageOf(rows, page, size))
    PROVE  /\ Cardinality(AheadIn(W, j)) >= Offset(page, size) + size
           /\ Len(PageOf(rows, page, size)) >= size
<1> DEFINE o == Offset(page, size)
           got == PageOf(rows, page, size)
<1>1. rows \in Seq(W) /\ Len(rows) = Cardinality(W) /\ Cardinality(W) \in Nat /\ o \in Nat
  BY ListingIsSeq, OffsetOfNext
<1>2. PICK m \in 1 .. Cardinality(W) :
          rows[m] = j /\ Cardinality(AheadIn(W, j)) = m - 1
  BY PlaceInListing
<1>3. /\ Len(got) = IF o + size < Len(rows) THEN size ELSE Len(rows) - o
      /\ \A n \in 1 .. Len(rows) : n > o /\ n <= o + size => rows[n] \in ToSet(got)
  BY <1>1, PageRows
<1> HIDE DEF o, got
<1>4. m > o /\ ~(m <= o + size)
  <2>1. Cardinality(AheadIn(W, j)) >= o /\ j \notin ToSet(got)
    BY DEF o, got
  <2>2. QED
    BY <1>1, <1>2, <1>3, <2>1
<1>5. Cardinality(AheadIn(W, j)) >= o + size /\ Len(got) >= size
  BY <1>1, <1>2, <1>3, <1>4
<1>6. QED
  BY <1>5 DEF o, got

-----------------------------------------------------------------------------
(* The invariant of the walk.                                              *)

\* What is inductive about a walk.
WalkInv ==
    TypeOK /\ WalkFollows /\ PagesFollow /\ WalkMissesNothing /\ RepeatsOnlyWhenOvertaken

LEMMA WholeSecondBounds ==
    ASSUME NEW t \in Nat
    PROVE  WholeSecond(t) \in 0 .. t
<1> DEFINE q == t \div Second
<1>1. q \in Nat /\ q * Second <= t
  BY BoundsAssumption
<1>2. QED
  BY <1>1, BoundsAssumption DEF WholeSecond

LEMMA BookedTimes ==
    ASSUME TypeOK
    PROVE  \A j \in readable : j \in Journals /\ bookedAt[j] \in 0 .. MaxClock
  BY DEF TypeOK

LEMMA WindowFacts ==
    ASSUME TypeOK, walk # None
    PROVE  /\ Window \subseteq readable
           /\ IsFiniteSet(Window)
           /\ Cardinality(Window) \in Nat
           /\ Untied => Ordered(Window)
           /\ \A j : Ahead(j) = AheadIn(Window, j)
<1>1. Window \subseteq readable
  BY DEF Window, Matching
<1>2. IsFiniteSet(Window) /\ Cardinality(Window) \in Nat
  BY <1>1, FS_Subset, FS_CardinalityType DEF TypeOK
<1>3. Untied => Ordered(Window)
  <2>1. \A j \in Window : Touches(j, walk.acc) /\ bookedAt[j] \in Int
    BY <1>1, BookedTimes, BoundsAssumption DEF Window, Matching
  <2>2. QED
    BY <1>1, <2>1 DEF Untied, Ordered
<1>4. QED
  BY <1>1, <1>2, <1>3 DEF Ahead, AheadIn

(* Shown is a finite set of readable journals. *)
LEMMA ShownFacts ==
    ASSUME TypeOK, walk # None
    PROVE  /\ Shown \subseteq readable
           /\ IsFiniteSet(Shown)
<1>1. walk.seen \in Seq(readable)
  BY DEF TypeOK, Walks
<1>2. Shown \subseteq readable
  BY <1>1, LenProperties DEF Shown, ToSet
<1>3. QED
  BY <1>2, FS_Subset DEF TypeOK

(* Journals that are stamped or become readable leave the walk what it     *)
(* was, but for the journals that become readable under it.                *)
LEMMA BookingKeepsWalk ==
    ASSUME WalkInv, TypeOK', readable \subseteq readable',
           \A i \in readable : bookedAt'[i] = bookedAt[i],
           NEW D \in SUBSET (readable' \ readable),
           walk = None => walk' = None,
           walk # None => walk' = [walk EXCEPT !.during = @ \cup D],
           walk # None /\ walk.state = "reading" =>
               \A k \in readable' \ readable : Touches(k, walk.acc) => k \in D
    PROVE  WalkInv'
<1>0. SUFFICES ASSUME walk # None, walk' # None
               PROVE  (/\ WalkFollows /\ PagesFollow
                       /\ WalkMissesNothing /\ RepeatsOnlyWhenOvertaken)'
  BY DEF WalkInv, WalkFollows, PagesFollow, WalkMissesNothing, WalkDone,
         RepeatsOnlyWhenOvertaken
<1>1. walk \in Walks /\ TypeOK
  BY <1>0 DEF WalkInv, TypeOK
<1>2. /\ walk'.acc = walk.acc /\ walk'.asked = walk.asked
      /\ walk'.from = walk.from /\ walk'.to = walk.to
      /\ walk'.size = walk.size /\ walk'.base = walk.base /\ walk'.page = walk.page
      /\ walk'.seen = walk.seen /\ walk'.before = walk.before
      /\ walk'.during = walk.during \cup D /\ walk'.state = walk.state
  BY <1>0, <1>1 DEF Walks
<1>3. Shown' = Shown
  BY <1>2 DEF Shown
<1>4. Untied' => Untied
  BY <1>2 DEF Untied
<1>5. IsFiniteSet(readable')
  BY DEF TypeOK
<1>6. WalkFollows'
  <2>1. /\ walk.to = WholeSecond(walk.asked)
        /\ \A j \in walk.before : Touches(j, walk.acc) /\ bookedAt[j] >= walk.from
        /\ walk.before \cap walk.during = {}
        /\ walk.before \subseteq readable
    BY <1>0, <1>1 DEF WalkInv, WalkFollows, Walks
  <2>2. \A j \in walk.before : Touches(j, walk.acc)' = Touches(j, walk.acc)
    BY <1>2 DEF Touches, Lines
  <2>3. QED
    BY <1>2, <2>1, <2>2 DEF WalkFollows, Touches, Lines, WholeSecond
<1>7. PagesFollow'
  <2>1. SUFFICES ASSUME walk.state = "reading"
                 PROVE  LET passed == Offset(walk.page, walk.size)
                        IN  /\ walk.page >= walk.base
                            /\ passed <= Cardinality(Window')
                            /\ walk.base = 1 => Len(walk.seen) = passed
                            /\ Untied' => \A j \in Window' \ walk'.during :
                                   j \in Shown \/ Cardinality(Ahead(j)') >= passed
    BY <1>2, <1>3 DEF PagesFollow, Offset
  <2> DEFINE passed == Offset(walk.page, walk.size)
  <2>2. /\ walk.page >= walk.base
        /\ passed <= Cardinality(Window)
        /\ walk.base = 1 => Len(walk.seen) = passed
        /\ Untied => \A j \in Window \ walk.during :
                         j \in Shown \/ Cardinality(Ahead(j)) >= passed
    BY <1>0, <2>1 DEF WalkInv, PagesFollow
  <2>3. Window \subseteq Window' /\ Window' \subseteq readable'
    BY <1>2 DEF Window, Matching, Touches, Lines
  <2>4. IsFiniteSet(Window')
    BY <1>5, <2>3, FS_Subset
  <2>5. passed \in Int
    BY <1>1, OffsetOfNext, BoundsAssumption DEF Walks
  <2>6. passed <= Cardinality(Window')
    <3>1. /\ Cardinality(Window) <= Cardinality(Window')
          /\ Cardinality(Window) \in Nat /\ Cardinality(Window') \in Nat
      BY <1>0, <1>1, <2>3, <2>4, FS_Subset, FS_CardinalityType, WindowFacts
    <3>2. QED
      BY <2>2, <2>5, <3>1
  <2>7. ASSUME NEW j \in Window' \ walk'.during PROVE j \in Window \ walk.during
    BY <1>0, <1>2, <2>1, <2>7 DEF Window, Matching, Touches, Lines
  <2>8. ASSUME NEW j \in Window, Cardinality(Ahead(j)) >= passed
        PROVE  Cardinality(Ahead(j)') >= passed
    <3>1. Ahead(j) \subseteq Ahead(j)' /\ Ahead(j)' \subseteq Window'
      BY <2>3, <2>8 DEF Ahead, Window, Matching
    <3>2. IsFiniteSet(Ahead(j)') /\ IsFiniteSet(Ahead(j))
      BY <2>4, <3>1, FS_Subset
    <3>3. /\ Cardinality(Ahead(j)) <= Cardinality(Ahead(j)')
          /\ Cardinality(Ahead(j)) \in Nat /\ Cardinality(Ahead(j)') \in Nat
      BY <3>1, <3>2, FS_Subset, FS_CardinalityType
    <3>4. QED
      BY <2>5, <2>8, <3>3
  <2>9. QED
    BY <1>4, <2>2, <2>6, <2>7, <2>8
<1>8. WalkMissesNothing'
  <2>1. walk.before \subseteq readable
    BY <1>1 DEF Walks
  <2>2. QED
    BY <1>0, <1>2, <1>3, <1>4, <2>1
    DEF WalkInv, WalkMissesNothing, WalkDone, WholeSecond
<1>9. RepeatsOnlyWhenOvertaken'
  <2>1. IsFiniteSet(walk.during \cup D)
    <3>1. walk.during \cup D \subseteq readable'
      BY <1>1 DEF Walks
    <3>2. QED
      BY <1>5, <3>1, FS_Subset
  <2>2. /\ Cardinality(walk.during) <= Cardinality(walk.during \cup D)
        /\ Cardinality(walk.during) \in Nat /\ Cardinality(walk.during \cup D) \in Nat
    BY <2>1, FS_Subset, FS_CardinalityType
  <2>3. Len(walk.seen) \in Nat /\ Cardinality(Shown) \in Nat
    BY <1>0, <1>1, ShownFacts, FS_CardinalityType, LenProperties DEF Walks
  <2>4. QED
    BY <1>0, <1>2, <1>3, <1>4, <2>2, <2>3
    DEF WalkInv, RepeatsOnlyWhenOvertaken, WalkDone
<1>10. QED
  BY <1>6, <1>7, <1>8, <1>9

LEMMA TickKeepsWalk ==
    ASSUME WalkInv, Tick
    PROVE  WalkInv'
<1>1. TypeOK'
  BY BoundsAssumption DEF WalkInv, TypeOK, Tick, Walks
<1>2. walk # None => walk' = [walk EXCEPT !.during = @ \cup {}]
  BY DEF Tick, WalkInv, TypeOK, Walks
<1>3. readable' = readable /\ bookedAt' = bookedAt /\ walk' = walk
  BY DEF Tick
<1>4. QED
  BY <1>1, <1>2, <1>3, BookingKeepsWalk

LEMMA StampKeepsWalk ==
    ASSUME WalkInv, NEW j \in Journals, Stamp(j)
    PROVE  WalkInv'
<1>1. /\ committed' = committed /\ readable' = readable
      /\ walk' = walk /\ clock' = clock
      /\ bookedAt[j] = None
      /\ bookedAt' = [bookedAt EXCEPT ![j] = clock]
      /\ TypeOK
  BY DEF Stamp, WalkInv
<1>2. bookedAt' \in [Journals -> 0 .. MaxClock \cup {None}]
  BY <1>1 DEF TypeOK
<1>3. \A i \in committed : i \in Journals /\ bookedAt'[i] = bookedAt[i] /\ bookedAt[i] # None
  BY <1>1 DEF TypeOK
<1>4. TypeOK'
  BY <1>1, <1>2, <1>3 DEF TypeOK, Walks
<1>5. walk # None => walk' = [walk EXCEPT !.during = @ \cup {}]
  BY <1>1 DEF TypeOK, Walks
<1>6. \A i \in readable : bookedAt'[i] = bookedAt[i]
  BY <1>1, <1>3 DEF TypeOK
<1>7. QED
  BY <1>1, <1>4, <1>5, <1>6, BookingKeepsWalk

LEMMA CommitKeepsWalk ==
    ASSUME WalkInv, NEW j \in Journals, Commit(j)
    PROVE  WalkInv'
<1>1. /\ committed' = committed \cup {j} /\ bookedAt[j] # None
      /\ readable' = readable /\ bookedAt' = bookedAt
      /\ walk' = walk /\ clock' = clock
      /\ TypeOK
  BY DEF Commit, WalkInv
<1>2. TypeOK'
  BY <1>1 DEF TypeOK, Walks
<1>3. walk # None => walk' = [walk EXCEPT !.during = @ \cup {}]
  BY <1>1 DEF TypeOK, Walks
<1>4. QED
  BY <1>1, <1>2, <1>3, BookingKeepsWalk

LEMMA ReplicateKeepsWalk ==
    ASSUME WalkInv, NEW j \in Journals, Replicate(j)
    PROVE  WalkInv'
<1>1. /\ readable' = readable \cup {j} /\ bookedAt' = bookedAt /\ clock' = clock
      /\ j \in committed \ readable /\ committed' = committed
      /\ TypeOK
  BY DEF Replicate, WalkInv
<1> DEFINE D == IF walk # None /\ walk.state = "reading" /\ Touches(j, walk.acc)
                THEN {j} ELSE {}
<1>2. walk # None => walk' = [walk EXCEPT !.during = @ \cup D]
  BY <1>1 DEF Replicate, TypeOK, Walks
<1>3. walk = None => walk' = None
  BY DEF Replicate
<1>4. TypeOK'
  <2>1. IsFiniteSet(readable')
    BY <1>1, FS_AddElement DEF TypeOK
  <2>2. walk' # None => walk' \in Walks'
    <3>1. SUFFICES ASSUME walk # None PROVE walk' \in Walks'
      BY <1>3
    <3>2. walk \in Walks /\ walk.during \cup D \subseteq readable'
      BY <1>1, <3>1 DEF TypeOK, Walks
    <3>3. walk.seen \in Seq(readable')
      <4>1. walk.seen \in Seq(readable)
        BY <3>2 DEF Walks
      <4>2. QED
        BY <1>1, <4>1
    <3>4. QED
      BY <1>1, <1>2, <3>1, <3>2, <3>3 DEF Walks
  <2>3. QED
    BY <1>1, <2>1, <2>2 DEF TypeOK
<1>5. D \in SUBSET (readable' \ readable)
  BY <1>1
<1>6. walk # None /\ walk.state = "reading" =>
          \A k \in readable' \ readable : Touches(k, walk.acc) => k \in D
  BY <1>1
<1> HIDE DEF D
<1>7. QED
  BY <1>1, <1>2, <1>3, <1>4, <1>5, <1>6, BookingKeepsWalk

(* A walk begins with nothing passed. *)
LEMMA StartKeepsWalk ==
    ASSUME WalkInv,
           NEW acc \in Accounts, NEW from \in Froms, NEW size \in Sizes, NEW base \in {0, 1},
           StartWalk(acc, from, size, base)
    PROVE  WalkInv'
<1>1. /\ readable' = readable /\ committed' = committed
      /\ bookedAt' = bookedAt /\ clock' = clock
      /\ from <= clock
      /\ walk' = [acc |-> acc, asked |-> clock,
                  from |-> WholeSecond(from), to |-> WholeSecond(clock),
                  size |-> size, base |-> base, page |-> base, seen |-> <<>>,
                  before |-> {j \in readable : Touches(j, acc) /\ bookedAt[j] >= from},
                  during |-> {}, state |-> "reading"]
      /\ TypeOK
  BY DEF StartWalk, WalkInv
<1>2. /\ clock \in 0 .. MaxClock /\ from \in Nat /\ MaxClock \in Nat
      /\ WholeSecond(from) \in 0 .. from /\ WholeSecond(clock) \in 0 .. clock
  BY <1>1, WholeSecondBounds, BoundsAssumption DEF TypeOK
<1>3. TypeOK'
  <2>1. walk' \in Walks'
    <3>1. WholeSecond(from) \in 0 .. MaxClock /\ WholeSecond(clock) \in 0 .. MaxClock
      BY <1>1, <1>2
    <3>2. <<>> \in Seq(readable') /\ base \in Nat
      BY EmptySeq
    <3>3. QED
      BY <1>1, <1>2, <3>1, <3>2 DEF Walks
  <2>2. QED
    BY <1>1, <2>1 DEF TypeOK
<1>4. WalkFollows'
  <2>1. \A j \in readable :
            bookedAt[j] >= from => bookedAt[j] >= WholeSecond(from)
    <3>1. \A j \in readable : bookedAt[j] \in Int
      BY <1>1, BookedTimes, BoundsAssumption
    <3>2. QED
      BY <1>2, <3>1
  <2>2. \A j \in readable : Touches(j, acc)' = Touches(j, acc)
    BY DEF Touches, Lines
  <2> HIDE DEF WholeSecond
  <2>3. QED
    BY <1>1, <2>1, <2>2 DEF WalkFollows, Touches, Lines, WholeSecond
<1>5. PagesFollow'
  <2>1. Offset(base, size) = 0
    BY BoundsAssumption DEF Offset
  <2>2. /\ IsFiniteSet(Window') /\ Cardinality(Window') \in Nat
        /\ \A j : IsFiniteSet(Ahead(j)') /\ Cardinality(Ahead(j)') \in Nat
    <3>1. Window' \subseteq readable /\ \A j : Ahead(j)' \subseteq readable
      BY <1>1 DEF Window, Matching, Ahead
    <3>2. QED
      BY <1>1, <3>1, FS_Subset, FS_CardinalityType DEF TypeOK
  <2>3. /\ walk'.page = base /\ walk'.base = base /\ walk'.size = size
        /\ walk'.seen = <<>>
    BY <1>1
  <2>4. QED
    BY <2>1, <2>2, <2>3 DEF PagesFollow, Offset
<1>6. ~WalkDone'
  BY <1>1 DEF WalkDone
<1>7. QED
  BY <1>3, <1>4, <1>5, <1>6 DEF WalkInv, WalkMissesNothing, RepeatsOnlyWhenOvertaken

LEMMA FailKeepsWalk ==
    ASSUME WalkInv, ReadFails
    PROVE  WalkInv'
<1>1. /\ readable' = readable /\ committed' = committed
      /\ bookedAt' = bookedAt /\ clock' = clock
      /\ walk # None
      /\ walk' = [walk EXCEPT !.state = "failed"]
      /\ TypeOK /\ walk \in Walks /\ WalkFollows
  BY DEF ReadFails, WalkInv, TypeOK
<1>2. TypeOK'
  BY <1>1 DEF TypeOK, Walks
<1>3. /\ walk'.acc = walk.acc /\ walk'.asked = walk.asked
      /\ walk'.from = walk.from /\ walk'.to = walk.to
      /\ walk'.before = walk.before /\ walk'.during = walk.during
      /\ walk'.state = "failed"
  BY <1>1 DEF Walks
<1>4. WalkFollows'
  BY <1>1, <1>3 DEF WalkFollows, WholeSecond, Touches, Lines
<1>5. QED
  BY <1>2, <1>3, <1>4
  DEF WalkInv, PagesFollow, WalkMissesNothing, RepeatsOnlyWhenOvertaken, WalkDone

(* A page that is read moves the walk over what it shows. *)
LEMMA ReadKeepsWalk ==
    ASSUME WalkInv, ReadPage
    PROVE  WalkInv'
<1>1. /\ walk # None /\ walk.state = "reading"
      /\ readable' = readable /\ committed' = committed
      /\ bookedAt' = bookedAt /\ clock' = clock
      /\ TypeOK /\ walk \in Walks /\ WalkFollows
  BY DEF ReadPage, WalkInv, TypeOK
<1>2. PICK rows \in Listings(Window) :
          walk' = [walk EXCEPT
                       !.seen = @ \o PageOf(rows, walk.page, walk.size),
                       !.page = @ + 1,
                       !.state = IF Len(PageOf(rows, walk.page, walk.size)) < walk.size
                                 THEN "done" ELSE @]
  BY DEF ReadPage, Window
<1> DEFINE W == Window
           o == Offset(walk.page, walk.size)
           got == PageOf(rows, walk.page, walk.size)
<1>3. /\ walk.page \in Nat /\ walk.size \in Nat \ {0} /\ walk.base \in {0, 1}
      /\ walk.seen \in Seq(readable)
      /\ walk.before \subseteq readable /\ walk.during \subseteq readable
      /\ walk.from \in Nat /\ walk.to \in Nat
  BY <1>1, BoundsAssumption DEF Walks
<1>4. /\ W \subseteq readable /\ IsFiniteSet(W) /\ Cardinality(W) \in Nat
      /\ Untied => Ordered(W)
      /\ \A j : Ahead(j) = AheadIn(W, j)
  BY <1>1, WindowFacts
<1>5. /\ walk.page >= walk.base
      /\ o <= Cardinality(W)
      /\ walk.base = 1 => Len(walk.seen) = o
      /\ Untied => \A j \in W \ walk.during : j \in Shown \/ Cardinality(AheadIn(W, j)) >= o
  BY <1>1, <1>4 DEF WalkInv, PagesFollow
<1>6. /\ o \in Nat
      /\ Offset(walk.page + 1, walk.size) = IF walk.page = 0 THEN 0 ELSE o + walk.size
  BY <1>3, OffsetOfNext
<1>7. /\ got \in Seq(W)
      /\ Len(got) = IF o + walk.size < Cardinality(W) THEN walk.size ELSE Cardinality(W) - o
  <2>1. rows \in Seq(W) /\ Len(rows) = Cardinality(W)
    BY <1>4, ListingIsSeq
  <2>2. QED
    BY <1>3, <1>5, <2>1, PageRows
<1>8. ASSUME Untied, NEW j \in W \ walk.during, j \notin Shown \cup ToSet(got)
      PROVE  Cardinality(AheadIn(W, j)) >= o + walk.size /\ Len(got) >= walk.size
  BY <1>3, <1>4, <1>5, <1>8, PageShows
<1> HIDE DEF W, o, got
<1>9. /\ walk'.acc = walk.acc /\ walk'.asked = walk.asked
      /\ walk'.from = walk.from /\ walk'.to = walk.to
      /\ walk'.size = walk.size /\ walk'.base = walk.base
      /\ walk'.before = walk.before /\ walk'.during = walk.during
      /\ walk'.seen = walk.seen \o got
      /\ walk'.page = walk.page + 1
      /\ walk'.state = IF Len(got) < walk.size THEN "done" ELSE "reading"
  BY <1>1, <1>2 DEF Walks, got
<1>10. walk.seen \o got \in Seq(readable) /\ Len(walk.seen \o got) = Len(walk.seen) + Len(got)
  <2>1. got \in Seq(readable)
    BY <1>4, <1>7
  <2>2. QED
    BY <1>3, <2>1, ConcatProperties
<1>11. TypeOK'
  <2>1. walk' \in Walks
    <3> DEFINE seen == walk.seen \o got
               state == IF Len(got) < walk.size THEN "done" ELSE walk.state
    <3>1. walk' = [walk EXCEPT !.seen = seen, !.page = walk.page + 1, !.state = state]
      BY <1>2 DEF got
    <3>2. /\ seen \in Seq(readable) /\ walk.page + 1 \in Nat
          /\ state \in {"reading", "done", "failed"}
      BY <1>1, <1>3, <1>10
    <3> HIDE DEF seen, state
    <3>3. QED
      BY <1>1, <3>1, <3>2 DEF Walks
  <2>2. QED
    BY <1>1, <2>1 DEF TypeOK, Walks
<1>12. Shown' = Shown \cup ToSet(got)
  <2>1. got \in Seq(readable)
    BY <1>4, <1>7
  <2>2. /\ DOMAIN walk.seen = 1 .. Len(walk.seen) /\ DOMAIN got = 1 .. Len(got)
        /\ DOMAIN (walk.seen \o got) = 1 .. Len(walk.seen) + Len(got)
        /\ Len(walk.seen) \in Nat /\ Len(got) \in Nat
    BY <1>3, <1>10, <2>1, LenProperties
  <2>3. \A i \in 1 .. Len(walk.seen) + Len(got) :
            (walk.seen \o got)[i] = IF i <= Len(walk.seen) THEN walk.seen[i]
                                    ELSE got[i - Len(walk.seen)]
    BY <1>3, <2>1, ConcatProperties
  <2>4. ToSet(walk.seen \o got) \subseteq ToSet(walk.seen) \cup ToSet(got)
    BY <2>2, <2>3 DEF ToSet
  <2>5. ToSet(walk.seen) \subseteq ToSet(walk.seen \o got)
    BY <2>2, <2>3 DEF ToSet
  <2>6. ASSUME NEW i \in 1 .. Len(got) PROVE got[i] \in ToSet(walk.seen \o got)
    <3>1. /\ Len(walk.seen) + i \in 1 .. Len(walk.seen) + Len(got)
          /\ ~(Len(walk.seen) + i <= Len(walk.seen))
          /\ (Len(walk.seen) + i) - Len(walk.seen) = i
      BY <2>2
    <3>2. (walk.seen \o got)[Len(walk.seen) + i] = got[i]
      BY <2>3, <3>1
    <3>3. QED
      BY <2>2, <3>1, <3>2 DEF ToSet
  <2>7. ToSet(got) \subseteq ToSet(walk.seen \o got)
    BY <2>2, <2>6 DEF ToSet
  <2>8. QED
    BY <1>9, <2>4, <2>5, <2>7 DEF Shown
<1>13. Untied' = Untied /\ Window' = W /\ \A j : Ahead(j)' = AheadIn(W, j)
  <2>1. Window' = W
    BY <1>1, <1>9 DEF Window, Matching, Touches, Lines, W
  <2>2. \A j : Ahead(j)' = AheadIn(W, j)
    BY <1>1, <2>1 DEF Ahead, AheadIn
  <2>3. QED
    BY <1>1, <1>9, <2>1, <2>2 DEF Untied, Touches, Lines
<1>14. WalkFollows'
  BY <1>1, <1>9 DEF WalkFollows, WholeSecond, Touches, Lines
<1>15. PagesFollow'
  <2>1. SUFFICES ASSUME walk'.state = "reading" PROVE PagesFollow'
    BY DEF PagesFollow
  <2>2. Len(got) = walk.size /\ o + walk.size <= Cardinality(W)
    BY <1>3, <1>4, <1>6, <1>7, <1>9, <2>1
  <2> DEFINE next == Offset(walk.page + 1, walk.size)
  <2>3. next \in Nat /\ next <= o + walk.size /\ walk.page + 1 >= walk.base
    BY <1>3, <1>5, <1>6
  <2>4. walk.base = 1 => Len(walk.seen \o got) = next
    BY <1>3, <1>5, <1>6, <1>10, <2>2
  <2>5. ASSUME Untied, NEW j \in W \ walk.during, j \notin Shown \cup ToSet(got)
        PROVE  Cardinality(AheadIn(W, j)) >= next
    <3>1. Cardinality(AheadIn(W, j)) \in Nat
      BY <1>4, FS_Subset, FS_CardinalityType DEF AheadIn
    <3>2. QED
      BY <1>3, <1>6, <1>8, <2>3, <2>5, <3>1
  <2>6. next <= Cardinality(W)
    BY <1>3, <1>4, <1>6, <2>2, <2>3
  <2>7. Offset(walk.page, walk.size)' = next
    BY <1>9 DEF Offset
  <2> HIDE DEF next
  <2>8. QED
    BY <1>9, <1>12, <1>13, <2>3, <2>4, <2>5, <2>6, <2>7 DEF PagesFollow
<1>16. ASSUME walk'.state = "done"
       PROVE  /\ Untied => W \ walk.during \subseteq Shown'
              /\ walk.base = 1 => Len(walk.seen \o got) = Cardinality(W)
  <2>1. Len(got) < walk.size
    BY <1>9, <1>16
  <2>2. Len(got) = Cardinality(W) - o
    BY <1>3, <1>7, <2>1
  <2>3. Untied => W \ walk.during \subseteq Shown'
    BY <1>3, <1>4, <1>6, <1>8, <1>12, <2>1, <2>2
  <2>4. QED
    BY <1>4, <1>5, <1>6, <1>10, <2>2, <2>3
<1>17. WalkMissesNothing'
  <2>1. SUFFICES ASSUME walk'.state = "done", Untied,
                        NEW j \in walk.before, bookedAt[j] <= WholeSecond(walk.asked)
                 PROVE  j \in Shown'
    BY <1>1, <1>9, <1>13 DEF WalkMissesNothing, WalkDone, WholeSecond
  <2>2. bookedAt[j] \in Int /\ j \in readable
    BY <1>1, <1>3, BookedTimes, BoundsAssumption
  <2>3. /\ bookedAt[j] <= walk.to /\ bookedAt[j] >= walk.from
        /\ Touches(j, walk.acc) /\ j \notin walk.during
    BY <1>1, <2>1 DEF WalkFollows
  <2>4. j \in W
    BY <1>3, <2>2, <2>3 DEF W, Window, Matching
  <2>5. QED
    BY <1>16, <2>1, <2>3, <2>4
<1>18. RepeatsOnlyWhenOvertaken'
  <2>1. SUFFICES ASSUME walk'.state = "done", Untied, walk.base = 1
                 PROVE  Len(walk.seen \o got) - Cardinality(Shown')
                            <= Cardinality(walk.during)
    BY <1>9, <1>13 DEF RepeatsOnlyWhenOvertaken, WalkDone
  <2>2. W \ walk.during \subseteq Shown' /\ Len(walk.seen \o got) = Cardinality(W)
    BY <1>16, <2>1
  <2>3. Shown' \subseteq readable
    <3>1. Shown \subseteq readable /\ ToSet(got) \subseteq readable
      BY <1>1, <1>4, <1>7, ShownFacts, LenProperties DEF ToSet
    <3>2. QED
      BY <1>12, <3>1
  <2>4. /\ IsFiniteSet(Shown') /\ IsFiniteSet(walk.during)
        /\ Cardinality(Shown') \in Nat /\ Cardinality(walk.during) \in Nat
    BY <1>1, <1>3, <2>3, FS_Subset, FS_CardinalityType DEF TypeOK
  <2>5. Cardinality(W \ walk.during) = Cardinality(W) - Cardinality(W \cap walk.during)
    BY <1>4, FS_Difference
  <2>6. /\ Cardinality(W \cap walk.during) <= Cardinality(walk.during)
        /\ Cardinality(W \cap walk.during) \in Nat
    BY <2>4, FS_Subset, FS_CardinalityType
  <2>7. Cardinality(W \ walk.during) <= Cardinality(Shown')
    BY <2>2, <2>4, FS_Subset
  <2>8. QED
    BY <1>4, <2>2, <2>4, <2>5, <2>6, <2>7
<1>19. QED
  BY <1>11, <1>14, <1>15, <1>17, <1>18 DEF WalkInv

-----------------------------------------------------------------------------
(* The invariant holds, and what it says of the pages does.                *)
LEMMA WalkInvariant == Spec => []WalkInv
<1>1. Init => WalkInv
  BY FS_EmptySet, BoundsAssumption
  DEF Init, WalkInv, TypeOK, WalkFollows, PagesFollow, WalkMissesNothing,
      RepeatsOnlyWhenOvertaken, WalkDone
<1>2. WalkInv /\ [Next]_vars => WalkInv'
  <2> SUFFICES ASSUME WalkInv, [Next]_vars PROVE WalkInv'
    OBVIOUS
  <2>1. CASE Tick
    BY <2>1, TickKeepsWalk
  <2>2. ASSUME NEW j \in Journals, Stamp(j) PROVE WalkInv'
    BY <2>2, StampKeepsWalk
  <2>3. ASSUME NEW j \in Journals, Commit(j) PROVE WalkInv'
    BY <2>3, CommitKeepsWalk
  <2>4. ASSUME NEW j \in Journals, Replicate(j) PROVE WalkInv'
    BY <2>4, ReplicateKeepsWalk
  <2>5. ASSUME NEW acc \in Accounts, NEW from \in Froms,
               NEW size \in Sizes, NEW base \in {0, 1}, StartWalk(acc, from, size, base)
        PROVE  WalkInv'
    BY <2>5, StartKeepsWalk
  <2>6. CASE ReadPage
    BY <2>6, ReadKeepsWalk
  <2>7. CASE ReadFails
    BY <2>7, FailKeepsWalk
  <2>8. CASE UNCHANGED vars
    BY <2>8
    DEF vars, WalkInv, TypeOK, Walks, WalkFollows, PagesFollow, WalkMissesNothing,
        RepeatsOnlyWhenOvertaken, WalkDone, Untied, Window, Matching, Ahead, Shown,
        Touches, Lines, WholeSecond, Offset
  <2>9. QED
    BY <2>1, <2>2, <2>3, <2>4, <2>5, <2>6, <2>7, <2>8 DEF Next
<1>3. QED
  BY <1>1, <1>2, PTL DEF Spec

\* The type invariant; the items of a finished walk add up to what the postings
\* moved; the two sides of a payment mirror each other; what a walk has shown
\* lies before the page it asks for next.
THEOREM StatementsInvariant == Spec => []StatementsInv
<1>1. WalkInv => StatementsInv
  <2> SUFFICES ASSUME WalkInv PROVE StatementsInv
    OBVIOUS
  <2>1. TypeOK /\ WalkFollows /\ PagesFollow
    BY DEF WalkInv
  <2>2. StatementAddsUp
    <3>1. SUFFICES ASSUME WalkDone PROVE StatementAddsUp
      BY DEF StatementAddsUp
    <3>2. walk # None /\ walk.acc \in Accounts
      BY <2>1, <3>1 DEF WalkDone, TypeOK, Walks
    <3>3. Shown \in SUBSET Journals /\ IsFiniteSet(Shown)
      BY <2>1, <3>2, ShownFacts, BookedTimes
    <3>4. QED
      BY <3>2, <3>3, ItemsAddUp DEF StatementAddsUp
  <2>3. Mirrored
    <3>1. \A j \in committed : j \in Journals
      BY <2>1 DEF TypeOK
    <3>2. QED
      BY <3>1, ItemOfPayee, ItemOfPayer DEF Mirrored
  <2>4. QED
    BY <2>1, <2>2, <2>3 DEF StatementsInv
<1>2. QED
  BY <1>1, WalkInvariant, PTL

\* A finished walk shows every journal that the read connection showed when it
\* began and that was booked before its second, if no two journals of the
\* account share their time.
THEOREM StatementsMissNothing == Spec => []WalkMissesNothing
<1>1. WalkInv => WalkMissesNothing
  BY DEF WalkInv
<1>2. QED
  BY <1>1, WalkInvariant, PTL

\* A walk counted from one repeats at most one journal for each that became
\* readable under it, if no two journals of the account share their time.
THEOREM StatementsRepeatOvertaken == Spec => []RepeatsOnlyWhenOvertaken
<1>1. WalkInv => RepeatsOnlyWhenOvertaken
  BY DEF WalkInv
<1>2. QED
  BY <1>1, WalkInvariant, PTL

=============================================================================
