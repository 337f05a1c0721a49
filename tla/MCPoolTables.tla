---------------------------- MODULE MCPoolTables ----------------------------
(* PoolTables for TLC. *)
EXTENDS PoolTables

(* A swap, a withdrawal and a transfer of both tokens to the pair. *)
MCDeltas == {<<1, -1, 0>>, <<-1, -1, -1>>, <<1, 1, 0>>}
=============================================================================
