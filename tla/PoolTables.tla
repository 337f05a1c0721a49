----------------------------- MODULE PoolTables -----------------------------
(***************************************************************************)
(* The three writers around parsed_tx put together: the parser appends the *)
(* rows of one block after the other (ParserRun has it in detail), replays *)
(* what it quarantined, the checkpoint builder may be run beside it, and   *)
(* the aggregator sums the rows up.  Every pool is a triple of two assets  *)
(* and the LP tokens; a block changes one pool.                            *)
(***************************************************************************)
EXTENDS PoolRows, FiniteSets

CONSTANTS
    Pair,
    MaxHeight,   \* bound: the blocks of the chain
    Limit,       \* the aggregator's LpHistoryUpdateLimit
    Deltas,      \* bound: what a block may do to an existing pool
    MaxHeld,     \* bound: blocks the parser quarantines
    MaxFaults    \* bound: failures of the builder and of the aggregator

Amount == Int
ASSUME PairAssumption   == IsFiniteSet(Pair)
ASSUME BoundsAssumption == MaxHeight \in Nat /\ MaxFaults \in Nat
(* A block that is listed changes its pool. *)
ASSUME DeltasAssumption == \A d \in Deltas : d \in Amount \X Amount \X Amount /\ d # <<0, 0, 0>>

VARIABLES
    pool, tip,             \* the chain
    rows, pairs, synced, held,   \* the database; held: the quarantined heights
    cur,                   \* the height the parser is at, 0 between runs
    build,                 \* the checkpoint builder
    lp, task,              \* the aggregator's table and its task
    faults,
    hist                   \* history: which rows and heights met in which order

vars == <<pool, tip, rows, pairs, synced, held, cur, build, lp, task, faults, hist>>

CP == INSTANCE Checkpoint
LH == INSTANCE LpHistory

NoPool == CP!NoPool
NoHist == [late |-> {}, read |-> 0, absorbed |-> {}, seen |-> {}, counted |-> 0,
           misstated |-> {}, raced |-> FALSE]
Created == <<2, 2, 2>>

Init ==
    /\ pool = [h \in 0..MaxHeight |-> [p \in Pair |-> NoPool]]
    /\ tip = 0
    /\ rows = <<>> /\ pairs = {} /\ synced = 0 /\ held = {}
    /\ cur = 0
    /\ build = CP!NoBuild
    /\ lp = {} /\ task = LH!NoTask
    /\ faults = 0
    /\ hist = NoHist

----------------------------------------------------------------------------
(* What is remembered of a step: which rows the aggregator had read, which *)
(* rows came too late for it; what was quarantined when the builder looked *)
(* and when its checkpoint was stored, and the pairs it misstated; whether *)
(* two inserts overlapped.                                                 *)
Committed == /\ build.at = "insert" /\ build' # build
             /\ (build'.at = "done" \/ rows' # rows \/ synced' # synced)
LastLp(t) == Max({0} \cup {r.height : r \in t})
Late ==
    {i \in DOMAIN rows' : \/ i > Len(rows) /\ rows'[i].height <= LastLp(lp)
                          \/ lp' # lp /\ i > hist.read /\ rows'[i].height <= LastLp(lp')}
(* The row of a pair of which LP tokens came in and no asset is stored as  *)
(* a withdrawal, and takes away what came in.                              *)
Misstates(p) == \E tx \in build.txs : tx.pair = p /\ tx.type = "withdraw" /\ tx.amt[3] > 0
Reads      == task.at = "read" /\ task'.at = "write"
Generates  == build.at = "generate" /\ build'.at = "insert"
Inserts    == cur # 0 /\ cur' = 0 /\ (rows' # rows \/ held' # held)
Overlaps   == \/ Committed /\ synced # build.dbHeight
              \/ Inserts /\ synced # cur - 1
Remember ==
    hist' = [late     |-> hist.late \cup Late,
             read     |-> IF Reads THEN Len(rows) ELSE IF task'.at = "write" THEN hist.read ELSE 0,
             absorbed |-> IF Committed THEN hist.seen ELSE hist.absorbed,
             seen     |-> IF Generates THEN held ELSE IF build'.at = "insert" THEN hist.seen ELSE {},
             counted  |-> IF Generates THEN Len(rows) ELSE IF build'.at = "insert" THEN hist.counted ELSE 0,
             misstated |-> IF Committed THEN {p \in Pair : Misstates(p)} ELSE hist.misstated,
             raced    |-> hist.raced \/ Overlaps]

----------------------------------------------------------------------------
(* The chain. *)
Grow ==
    /\ tip < MaxHeight
    /\ \E p \in Pair :
         \/ /\ pool[tip][p] = NoPool
            /\ pool' = [pool EXCEPT ![tip + 1] = [pool[tip] EXCEPT ![p] = Created]]
         \/ /\ pool[tip][p] # NoPool
            /\ \E d \in Deltas :
                 LET after == Plus(pool[tip][p], d)
                 IN /\ \A k \in 1..3 : after[k] > 0
                    /\ pool' = [pool EXCEPT ![tip + 1] = [pool[tip] EXCEPT ![p] = after]]
    /\ tip' = tip + 1
    /\ UNCHANGED <<rows, pairs, synced, held, cur, build, lp, task, faults>>
    /\ Remember

Before(h, p)  == IF pool[h - 1][p] = NoPool THEN Zero ELSE pool[h - 1][p]
Effect(h, p)  == IF pool[h][p] = NoPool THEN Zero ELSE Minus(pool[h][p], Before(h, p))
Touched(h)    == CHOOSE p \in Pair : pool[h][p] # pool[h - 1][p]
Creates(h)    == pool[h - 1][Touched(h)] = NoPool

----------------------------------------------------------------------------
(* The parser: a run reads the cursor, and inserts what the block holds,   *)
(* moving the cursor if it is where it was read.                           *)
Row(h, amt) == [height |-> h, pair |-> Touched(h), amt |-> amt]
BlockRows(h) ==
    LET changes == Row(h, Effect(h, Touched(h)))
    IN IF Creates(h) THEN <<Row(h, Zero), changes>> ELSE <<changes>>

BeginRun ==
    /\ cur = 0 /\ synced < tip
    /\ cur' = synced + 1
    /\ UNCHANGED <<pool, tip, rows, pairs, synced, held, build, lp, task, faults>>
    /\ Remember

MoveCursor == synced' = IF synced = cur - 1 THEN cur ELSE synced

(* A pair that is there already makes the insert fail; the next run starts *)
(* from the cursor again.                                                  *)
ParserInsert ==
    /\ cur # 0
    /\ cur' = 0
    /\ IF Creates(cur) /\ Touched(cur) \in pairs
       THEN UNCHANGED <<rows, pairs, synced>>
       ELSE /\ rows' = rows \o BlockRows(cur)
            /\ pairs' = pairs \cup {Touched(cur)}
            /\ MoveCursor
    /\ UNCHANGED <<pool, tip, held, build, lp, task, faults>>
    /\ Remember

(* The block's transaction fails to parse and is quarantined.  (The        *)
(* creation of a pair is left to ParserRun.)                               *)
Quarantine ==
    /\ cur # 0 /\ ~Creates(cur)
    /\ Cardinality(held \cup {cur}) <= MaxHeld
    /\ held' = held \cup {cur}
    /\ cur' = 0
    /\ MoveCursor
    /\ UNCHANGED <<pool, tip, rows, pairs, build, lp, task, faults>>
    /\ Remember

(* A replayed transaction is stored at the height of its block. *)
Replay(h) ==
    /\ h \in held
    /\ rows' = rows \o BlockRows(h)
    /\ held' = held \ {h}
    /\ UNCHANGED <<pool, tip, pairs, synced, cur, build, lp, task, faults>>
    /\ Remember

----------------------------------------------------------------------------
(* The checkpoint builder and the aggregator's task, each in its module. *)
Builds(action)     == action /\ UNCHANGED <<pool, tip, held, cur, lp, task>> /\ Remember
Aggregates(action) == action /\ UNCHANGED <<pool, tip, rows, pairs, synced, held, cur, build>> /\ Remember

Next ==
    \/ Grow
    \/ BeginRun \/ ParserInsert \/ Quarantine \/ \E h \in held : Replay(h)
    \/ \E h \in 1..MaxHeight : Builds(CP!Launch(h))
    \/ Builds(CP!validateAndGetDbHeight) \/ Builds(CP!generateCheckpointData)
    \/ Builds(CP!Insert) \/ Builds(CP!InsertRefused) \/ Builds(CP!BuildFails) \/ Builds(CP!Ends)
    \/ Aggregates(LH!Start) \/ Aggregates(LH!Execute) \/ Aggregates(LH!Read)
    \/ Aggregates(LH!UpdateLpHistory) \/ Aggregates(LH!Stops)

Spec == Init /\ [][Next]_vars

----------------------------------------------------------------------------
Rec(S) == [height : 1..MaxHeight, pair : Pair, amt : S]
TypeOK ==
    /\ tip \in 0..MaxHeight
    /\ \A h \in 1..tip, p \in Pair : pool[h][p] = NoPool \/ \A k \in 1..3 : pool[h][p][k] > 0
    /\ \A i \in DOMAIN rows : rows[i] \in Rec(Amount \X Amount \X Amount)
    /\ pairs \subseteq Pair
    /\ synced \in 0..tip /\ cur \in 0..tip /\ held \subseteq 1..tip
    /\ build.at \in {"off", "validate", "generate", "insert", "done", "failed", "refused"}
    /\ \A r \in lp : r \in Rec(Amount \X Amount \X {0})
    /\ task.at \in {"down", "idle", "read", "write"} /\ task.pos \in 0..tip
    /\ faults \in 0..MaxFaults

(* What the rows of each pair add up to is its pool at the cursor, but for *)
(* what is quarantined; a block that was quarantined when a checkpoint     *)
(* took the node's pools is in them already, and counts twice once it is   *)
(* replayed (there is nothing in the checkpoint's rows to tell).  Nothing  *)
(* else can be wrong, as long as the last checkpoint did not misstate the  *)
(* pair and the builder's insert and the parser's did not overlap.         *)
Effects(S, p) == Total([h \in S |-> Effect(h, p)], S)
PoolsAddUp ==
    ~hist.raced =>
        \A p \in Pair \ hist.misstated :
            LET at == IF pool[synced][p] = NoPool THEN Zero ELSE pool[synced][p]
            IN SumOf(rows, p, 0, MaxHeight) =
               Plus(Minus(at, Effects(held \ hist.absorbed, p)),
                    Effects(hist.absorbed \ held, p))

(* Each row of the liquidity history is the sum of the parsed rows of its  *)
(* pair up to its height, in all batches and over all restarts, and no     *)
(* height is left out or written twice; all but the rows that were stored  *)
(* at a height the history had already passed, which it never takes in.    *)
InTime == DOMAIN rows \ hist.late
LpHistoryIsExact ==
    /\ \A r \in lp :
         /\ r.amt = LH!Liquidity(LH!BatchSum(InTime, r.pair, r.height))
         /\ \A s \in lp : s.pair = r.pair /\ s.height = r.height => s = r
    /\ \A i \in InTime :
         rows[i].height <= LastLp(lp) =>
             \E r \in lp : r.pair = rows[i].pair /\ r.height = rows[i].height

(* A checkpoint settles the accounts whatever they were: if nothing was    *)
(* stored since the builder added the rows up, they add up to the node's   *)
(* pools at the target after it, even when replays or overlapping inserts  *)
(* had made them wrong before -- all but those of a pair it misstates.     *)
CheckpointSettles ==
    [][Committed /\ hist.counted = Len(rows) =>
         \A p \in CP!Existing(build.target) :
             Misstates(p) \/ SumOf(rows', p, 0, build.target) = pool[build.target][p]]_vars

(* Neither of the two that move the cursor ever takes it back, however     *)
(* their reads and their inserts interleave.                               *)
CursorMovesForward == [][synced' >= synced]_vars

(* cmd/parser/checkpoint/README.md, 12-14: validate heights, query pool    *)
(* states, "Save checkpoint to database".  From valid heights the tool gets *)
(* there, whatever the pools are, when the cursor stays where it read it.  *)
CheckpointIsSaved == build.at = "failed" => synced # build.dbHeight
=============================================================================
