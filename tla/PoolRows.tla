------------------------------ MODULE PoolRows ------------------------------
(***************************************************************************)
(* The rows of parsed_tx as amounts: what a row adds to the two assets and *)
(* to the LP tokens of its pair.  A row is a record of its height, its     *)
(* pair and the three amounts.                                             *)
(***************************************************************************)
EXTENDS Integers, Sequences, SequencesExt

Zero       == <<0, 0, 0>>
Plus(a, b)  == <<a[1] + b[1], a[2] + b[2], a[3] + b[3]>>
Minus(a, b) == <<a[1] - b[1], a[2] - b[2], a[3] - b[3]>>

(* The sum of some of the amounts of a function. *)
Total(amounts, indices) == FoldFunctionOnSet(Plus, Zero, amounts, indices)

(* What the rows of pair p between two heights add up to. *)
Amounts(rows) == [i \in DOMAIN rows |-> rows[i].amt]
RowsOf(rows, p, from, to) == {i \in DOMAIN rows : rows[i].pair = p /\ rows[i].height \in from..to}
SumOf(rows, p, from, to) == Total(Amounts(rows), RowsOf(rows, p, from, to))
=============================================================================
