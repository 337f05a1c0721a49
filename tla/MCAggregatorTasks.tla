-------------------------- MODULE MCAggregatorTasks --------------------------
(* Small instances of AggregatorTasks. *)
EXTENDS AggregatorTasks

(* A swap with two prices, a provision and a swap with one price: a height *)
(* that can be broken off, one that only the liquidity history and the     *)
(* statistics know, and one to wait for.                                   *)
MCActivity  == <<"swap", "provide", "swap">>
MCPriceRows == <<2, 0, 1>>

(* The shorter chain of the liveness run. *)
MCShortActivity  == <<"provide", "swap">>
MCShortPriceRows == <<0, 2>>
=============================================================================
