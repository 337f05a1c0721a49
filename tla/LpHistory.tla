----------------------------- MODULE LpHistory ------------------------------
(***************************************************************************)
(* The aggregator's liquidity history (lpHistoryTask): the parsed rows     *)
(* summed up per pair and height, batch by batch, each batch starting from *)
(* the sums of the last one.  AggregatorTasks has the task among the       *)
(* others; here are the sums.                                              *)
(***************************************************************************)
EXTENDS PoolRows, FiniteSets

CONSTANTS
    Pair,
    Limit,       \* LpHistoryUpdateLimit: rows that decide how far a batch goes
    MaxFaults    \* bound: failures of the task

VARIABLES
    rows, pairs, \* the parser's tables
    lp,          \* the table lp_history: a set of rows
    task,        \* the task: where it is, its position, its sums and its batch
    faults

NoTask == [at |-> "down", pos |-> 0, latest |-> <<>>, batch |-> {}]
Fault == faults < MaxFaults /\ faults' = faults + 1

Start ==
    /\ task.at = "down"
    /\ task' = [NoTask EXCEPT !.at = "idle"]
    /\ UNCHANGED <<lp, faults>>

(* The last row of every pair, as amounts. *)
LastLpHistory ==
    [p \in {r.pair : r \in lp} |->
        (CHOOSE r \in lp : r.pair = p /\ \A s \in lp : s.pair = p => s.height <= r.height).amt]

Execute ==
    /\ task.at = "idle"
    /\ task' = [task EXCEPT !.at = "read", !.latest = LastLpHistory,
                            !.pos = Max({task.pos} \cup {r.height : r \in lp})]
    /\ UNCHANGED <<lp, faults>>

(* A batch is a set of rows, by their places in the table, which they      *)
(* keep.  The first "Limit" rows from a height on:                         *)
FirstFrom(start) ==
    LET from == {i \in DOMAIN rows : rows[i].height >= start}
        Before(i) == {j \in from : \/ rows[j].height < rows[i].height
                                   \/ rows[j].height = rows[i].height /\ j < i}
    IN {i \in from : Cardinality(Before(i)) < Limit}

(* Mutant: the batch ends with the row the limit says. *)
RowsUpToLimit(start) ==
    {i \in FirstFrom(start) : rows[i].pair \in pairs}

(* All rows of the heights the first "Limit" rows from the start reach     *)
(* into, of pairs the parser knows.                                        *)
GetParsedTxsWithLimit(start) ==
    LET last == Max({0} \cup {rows[i].height : i \in FirstFrom(start)})
    IN {i \in DOMAIN rows : rows[i].height \in start..last /\ rows[i].pair \in pairs}

Read ==
    /\ task.at = "read"
    /\ LET batch == GetParsedTxsWithLimit(task.pos + 1)
       IN task' = [task EXCEPT !.batch = batch, !.at = IF batch = {} THEN "idle" ELSE "write"]
    /\ UNCHANGED <<lp, faults>>

(* One row per pair and height of the batch: the pair's sum so far and its *)
(* rows of the batch up to that height.                                    *)
Heights(batch) == {rows[i].height : i \in batch}
BatchSum(batch, p, h) == Total(Amounts(rows), {i \in batch : rows[i].pair = p /\ rows[i].height <= h})
Of(latest, p) == IF p \in DOMAIN latest THEN latest[p] ELSE Zero
Liquidity(amt) == <<amt[1], amt[2], 0>>   \* the table has the assets only

(* Mutant: every row starts from the sums of the last batch. *)
historyPerHeight(latest, batch) ==
    {[height |-> k[1], pair |-> k[2],
      amt |-> Plus(Of(latest, k[2]), Liquidity(BatchSum({i \in batch : rows[i].height = k[1]}, k[2], k[1])))] :
        k \in {<<rows[i].height, rows[i].pair>> : i \in batch}}
generateHistory(latest, batch) ==
    {[height |-> k[1], pair |-> k[2],
      amt |-> Plus(Of(latest, k[2]), Liquidity(BatchSum(batch, k[2], k[1])))] :
        k \in {<<rows[i].height, rows[i].pair>> : i \in batch}}
LatestAfter(latest, batch) ==
    [p \in DOMAIN latest \cup {rows[i].pair : i \in batch} |->
        Plus(Of(latest, p), Liquidity(BatchSum(batch, p, Max(Heights(batch)))))]

UpdateLpHistory ==
    /\ task.at = "write"
    /\ lp' = lp \cup generateHistory(task.latest, task.batch)
    /\ task' = [task EXCEPT !.at = "read", !.batch = {},
                            !.pos = Max(Heights(task.batch)),
                            !.latest = LatestAfter(task.latest, task.batch)]
    /\ UNCHANGED faults

(* The process ends, with the batch stored or not. *)
Stops ==
    /\ task.at # "down"
    /\ Fault
    /\ \/ UNCHANGED lp
       \/ task.at = "write" /\ lp' = lp \cup generateHistory(task.latest, task.batch)
    /\ task' = NoTask
=============================================================================
