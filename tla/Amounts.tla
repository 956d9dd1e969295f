------------------------------ MODULE Amounts ------------------------------
(***************************************************************************)
(* Amounts of money, counted in units of the smallest currency step.  The  *)
(* databases keep them as numeric(20,6); a natural number of units stands  *)
(* for one of those values.                                                *)
(*                                                                         *)
(* The total of a set of requests is the number of units the requests are  *)
(* made of.  Counting units instead of folding over the set keeps the      *)
(* operator within what the proofs can reason about.                       *)
(***************************************************************************)
EXTENDS Integers, FiniteSets

\* The units request i asks for, each tagged with the request it belongs to.
UnitsOf(i, req) == {i} \X (1 .. req[i].amount)

\* The units of all the requests in S.
Units(S, req) == UNION {UnitsOf(i, req) : i \in S}

\* The sum of the amounts of the requests in S.
Total(S, req) == Cardinality(Units(S, req))

=============================================================================
