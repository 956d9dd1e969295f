-------------------------- MODULE AccountBalances --------------------------
(***************************************************************************)
(* The account_balances row of the account service and the statements that *)
(* change it.  Each of them is one UPDATE ... WHERE, so the database runs  *)
(* it atomically: the condition of the WHERE clause is the operator Can*,  *)
(* the SET clause the operator of the same name without Can.  A statement  *)
(* whose condition is false updates no row, and the adapter turns that     *)
(* into an IllegalArgumentException.                                       *)
(***************************************************************************)
EXTENDS Integers

BalancesRow == [ledger: Int, available: Int, hold: Int]

\* A row that was credited n and on which nothing is held.
FundedRow(n) == [ledger |-> n, available |-> n, hold |-> 0]

-----------------------------------------------------------------------------
(* A faulty variant, a mistake that some property must notice.             *)
FaultyCanRelease(row, n) == row.hold > n      \* the whole hold is too much

-----------------------------------------------------------------------------
CanReserve(row, n) == row.available >= n

Reserve(row, n) ==
    [ledger |-> row.ledger, available |-> row.available - n, hold |-> row.hold + n]

CanRelease(row, n) == row.hold >= n

Release(row, n) ==
    [ledger |-> row.ledger, available |-> row.available + n, hold |-> row.hold - n]

(***************************************************************************)
(* AccountService.validate for a transfer: the source can pay the amount   *)
(* now, and the amount alone does not exceed dailyOut, where 0 means that  *)
(* there is no limit.  Nothing is added up over a day.  Accounts are       *)
(* created active and no code changes their status, so the status and      *)
(* currency checks are left out.                                           *)
(***************************************************************************)
TransferOk(row, dailyOut, n) ==
    /\ n > 0
    /\ row.available >= n
    /\ dailyOut > 0 => n <= dailyOut

=============================================================================
