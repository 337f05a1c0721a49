----------------------------- MODULE MCCollector -----------------------------
(***************************************************************************)
(* Instances of Collector: an endless collector and one that is bounded,   *)
(* started at height 2 of 4, with snapshots at even heights.               *)
(***************************************************************************)
EXTENDS Collector

MCUntil == [c \in Collectors |-> IF c = "backfill" THEN 3 ELSE 0]
=============================================================================
