----------------------------- MODULE Checkpoint -----------------------------
(***************************************************************************)
(* The checkpoint builder (parser/checkpoint/builder.go): a tool that      *)
(* moves the parser's cursor forward by storing, for every pair, one row   *)
(* with the difference between the pool of the node at a target height and *)
(* what the parsed rows add up to, instead of the blocks between.          *)
(*                                                                         *)
(* An action is a database transaction or a read; "pool" is what the node  *)
(* answers, by height.  The node's reads fail as the others do.            *)
(***************************************************************************)
EXTENDS PoolRows, FiniteSets

CONSTANTS
    Pair,
    MaxHeight,   \* bound: the heights of the chain
    MaxFaults    \* bound: transient failures

VARIABLES
    pool,        \* the node: pool[h][p], NoPool before the pair exists
    tip,         \* its synced height
    rows, pairs, synced,   \* the tables parsed_tx, pair and synced_height
    build,       \* the tool: where it is, its heights and what it will insert
    faults

NoPool == <<>>
NoBuild == [at |-> "off", target |-> 0, dbHeight |-> 0, txs |-> {}, pairs |-> {}]
Fault == faults < MaxFaults /\ faults' = faults + 1

(* Somebody runs the tool. *)
Launch(h) ==
    /\ build.at = "off"
    /\ build' = [NoBuild EXCEPT !.at = "validate", !.target = h]
    /\ UNCHANGED <<rows, pairs, synced, faults>>

(* Mutant: the node's height is not looked at. *)
validateWithoutSource ==
    /\ build.at = "validate"
    /\ build' = [build EXCEPT !.dbHeight = synced,
                              !.at = IF synced < build.target THEN "generate" ELSE "refused"]
    /\ UNCHANGED <<rows, pairs, synced, faults>>

(* The target lies after the cursor and not beyond the node. *)
validateAndGetDbHeight ==
    /\ build.at = "validate"
    /\ build' = [build EXCEPT !.dbHeight = synced,
                              !.at = IF synced < build.target /\ build.target <= tip
                                     THEN "generate" ELSE "refused"]
    /\ UNCHANGED <<rows, pairs, synced, faults>>

Tx(type, p, amt) == [type |-> type, pair |-> p, amt |-> amt]

(* Mutant: a pair whose assets are as they were has not changed. *)
createDiffTxOfAssets(p, src, rdb) ==
    LET diff == Minus(src, rdb)
        type == IF diff[1] <= 0 /\ diff[2] <= 0 THEN "withdraw"
                ELSE IF diff[1] >= 0 /\ diff[2] >= 0 THEN "provide" ELSE "swap"
    IN IF diff[1] = 0 /\ diff[2] = 0 THEN {} ELSE {Tx(type, p, diff)}

(* The row that makes up the difference, if there is one.  Its type        *)
(* follows the signs of the assets; none positive makes it a withdrawal.   *)
(* A pool is two assets and a share here, so that the error for another    *)
(* number of differences has no counterpart.                               *)
createDiffTx(p, src, rdb) ==
    LET diff == Minus(src, rdb)
        type == IF diff[1] <= 0 /\ diff[2] <= 0 THEN "withdraw"
                ELSE IF diff[1] >= 0 /\ diff[2] >= 0 THEN "provide" ELSE "swap"
    IN IF diff = Zero THEN {} ELSE {Tx(type, p, diff)}

createNewPairTxs(p, src) == {Tx("create_pair", p, Zero), Tx("initial_provide", p, src)}

(* generateCheckpointData: the pools of the node against the sums of the   *)
(* rows, pair by pair.  A pair without rows is a new one.                  *)
Parsed(h)   == {p \in Pair : \E i \in DOMAIN rows : rows[i].pair = p /\ rows[i].height <= h}
Existing(h) == {p \in Pair : pool[h][p] # NoPool}
NewTxs(h) ==
    UNION {IF p \in Parsed(h) THEN createDiffTx(p, pool[h][p], SumOf(rows, p, 0, h))
                               ELSE createNewPairTxs(p, pool[h][p]) : p \in Existing(h)}
generateCheckpointData ==
    /\ build.at = "generate"
    /\ build' = [build EXCEPT !.at = "insert", !.txs = NewTxs(build.target),
                              !.pairs = Existing(build.target) \ Parsed(build.target)]
    /\ UNCHANGED <<rows, pairs, synced, faults>>

(* A withdrawal's LP amount is stored with a "-" in front of it.  In front *)
(* of a negative amount that is no number, and the database refuses it.    *)
Storable(tx)  == tx.type = "withdraw" => tx.amt[3] >= 0
StoredAmt(tx) == IF tx.type = "withdraw" THEN [tx.amt EXCEPT ![3] = 0 - @] ELSE tx.amt
toParsedTxModel(h, tx) == [height |-> h, pair |-> tx.pair, amt |-> StoredAmt(tx)]

InsertRuns == build.pairs \cap pairs = {} /\ \A tx \in build.txs : Storable(tx)
NewRows == SetToSeq({toParsedTxModel(build.target, tx) : tx \in build.txs})
(* Mutant: the cursor is set wherever it is. *)
InsertedAnyway ==
    /\ rows' = rows \o NewRows
    /\ pairs' = pairs \cup build.pairs
    /\ synced' = build.target
Inserted ==
    /\ rows' = rows \o NewRows
    /\ pairs' = pairs \cup build.pairs
    /\ synced' = IF synced = build.dbHeight THEN build.target ELSE synced

(* Everything in one transaction; the cursor moves from the height that    *)
(* was read, if it still is there.                                         *)
Insert ==
    /\ build.at = "insert"
    /\ InsertRuns
    /\ Inserted
    /\ build' = [build EXCEPT !.at = "done"]
    /\ UNCHANGED faults
InsertRefused ==
    /\ build.at = "insert"
    /\ ~InsertRuns
    /\ build' = [build EXCEPT !.at = "failed"]
    /\ UNCHANGED <<rows, pairs, synced, faults>>

(* A read fails, an insert is rolled back, or it is committed and the tool *)
(* only sees an error; main panics.                                        *)
BuildFails ==
    /\ build.at \in {"validate", "generate", "insert"}
    /\ Fault
    /\ \/ UNCHANGED <<rows, pairs, synced>>
       \/ build.at = "insert" /\ InsertRuns /\ Inserted
    /\ build' = NoBuild

(* The tool has ended, one way or the other. *)
Ends ==
    /\ build.at \in {"done", "failed", "refused"}
    /\ build' = NoBuild
    /\ UNCHANGED <<rows, pairs, synced, faults>>
=============================================================================
