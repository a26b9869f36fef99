-------------------------------- MODULE Money --------------------------------
(***************************************************************************)
(* Sums of money, as src/modules/payment computes them with Prisma.Decimal:*)
(* amounts are exact, so an amount is a natural number of minor units.     *)
(*                                                                         *)
(* The sum of a column over a set of rows is the number of units those     *)
(* rows stand for, one pair <<row, i>> for the i-th unit of a row. It is   *)
(* the usual sum, written so that finite-set lemmas apply to it.           *)
(***************************************************************************)
EXTENDS Integers, FiniteSets

\* The units of the rows S, when row k holds amount[k] of them.
Units(amount, S) == UNION {{k} \X (1 .. amount[k]) : k \in S}

\* SELECT sum(amount) FROM rows S.
SumOf(amount, S) == Cardinality(Units(amount, S))

\* isPositiveMoney(value).
IsPositiveMoney(value) == value > 0

\* Mutated form: the bound is not checked.
IsRefundWithinPaidAmount_Always(paidAmount, alreadyReserved, requested) == TRUE

\* isRefundWithinPaidAmount({paidAmount, alreadyReserved, requested}).
IsRefundWithinPaidAmount(paidAmount, alreadyReserved, requested) ==
    alreadyReserved + requested <= paidAmount
=============================================================================
