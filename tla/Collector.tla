------------------------------ MODULE Collector ------------------------------
(***************************************************************************)
(* The height collector: the loop collectHeights of collector/collector.go,*)
(* CollectHeight of collector/height_runner.go, and the transaction        *)
(* SaveHeight of collector/repo/repository.go.  Nothing keeps two of these *)
(* processes from running on the same chain (SaveHeight takes the greatest *)
(* of both heights), so the position of a loop may be stale.               *)
(***************************************************************************)
EXTENDS Integers

CONSTANTS
    Collectors,            \* collector processes
    MaxHeight,             \* bound: the last height of the chain
    StartHeight,           \* start_height, the same for all
    UntilHeight,           \* UntilHeight[c]: until_height of c, 0 for none
    PoolSnapshotInterval,  \* pool_snapshot_interval, 0 for none
    MaxFaults              \* bound: failures and crashes in a behaviour

ASSUME CollectorAssumption ==
    /\ MaxHeight \in Nat
    /\ StartHeight \in Nat
    /\ UntilHeight \in [Collectors -> Nat]
    /\ \A c \in Collectors : UntilHeight[c] > 0 => UntilHeight[c] >= StartHeight
    /\ PoolSnapshotInterval \in Nat
    /\ MaxFaults \in Nat

VARIABLES
    \* the database
    blocks,     \* heights with a row in collector_blocks
    snapshots,  \* heights with a row in collector_pool_snapshots
    synced,     \* collector_synced_heights.height, 0 while it has no row
    \* the processes
    pc,         \* pc[c]: where c is
    local,      \* local[c]: localHeight
    height,     \* height[c]: the height being collected
    target,     \* target[c]: targetHeight
    \* the node
    tip,        \* the height it reports
    indexed,    \* the last height whose transactions it can serve
    faults      \* failures so far

dbVars   == <<blocks, snapshots, synced>>
procVars == <<pc, local, height, target>>
nodeVars == <<tip, indexed>>
vars     == <<dbVars, procVars, nodeVars, faults>>

Greatest(a, b) == IF a > b THEN a ELSE b

FirstHeight == Greatest(StartHeight, 1)

SnapshotDue(h) == PoolSnapshotInterval > 0 /\ h % PoolSnapshotInterval = 0

(* Mutant: the bound is only looked at to stop. *)
UnboundedTargetHeight(c) == tip

BoundedTargetHeight(c) ==
    IF UntilHeight[c] > 0 /\ UntilHeight[c] < tip THEN UntilHeight[c] ELSE tip

ReachedUntilHeight(c) == UntilHeight[c] > 0 /\ local[c] >= UntilHeight[c]

Fault == faults < MaxFaults /\ faults' = faults + 1

Init ==
    /\ blocks = {} /\ snapshots = {} /\ synced = 0
    /\ pc = [c \in Collectors |-> "down"]
    /\ local = [c \in Collectors |-> 0]
    /\ height = [c \in Collectors |-> 0]
    /\ target = [c \in Collectors |-> 0]
    /\ tip = 0 /\ indexed = 0 /\ faults = 0

-----------------------------------------------------------------------------
(* The node: it reports a block before its transactions are indexed *)

NewBlock ==
    /\ tip < MaxHeight
    /\ indexed = tip
    /\ tip' = tip + 1
    /\ UNCHANGED <<dbVars, procVars, indexed, faults>>

IndexBlock ==
    /\ indexed < tip
    /\ indexed' = tip
    /\ UNCHANGED <<dbVars, procVars, tip, faults>>

-----------------------------------------------------------------------------
(* A process *)

Goto(c, place) == pc' = [pc EXCEPT ![c] = place]

Start(c) ==
    /\ pc[c] = "down"
    /\ Goto(c, "local")
    /\ UNCHANGED <<dbVars, local, height, target, nodeVars, faults>>

(* Mutant: the first height is taken for collected. *)
LocalHeightIncludesStart(c) ==
    /\ pc[c] = "local"
    /\ local' = [local EXCEPT ![c] = IF synced > 0 THEN synced ELSE StartHeight]
    /\ Goto(c, "source")
    /\ UNCHANGED <<dbVars, height, target, nodeVars, faults>>

(* No row, or no table yet, counts as everything before the start height.  *)
LocalHeight(c) ==
    /\ pc[c] = "local"
    /\ local' = [local EXCEPT ![c] = IF synced > 0 THEN synced
                                     ELSE IF StartHeight = 0 THEN 0 ELSE StartHeight - 1]
    /\ Goto(c, "source")
    /\ UNCHANGED <<dbVars, height, target, nodeVars, faults>>

(* Mutant: reaching the bound exactly is not noticed. *)
StopsBeyondUntil(c) ==
    /\ pc[c] = "source"
    /\ local[c] > BoundedTargetHeight(c)
    /\ ReachedUntilHeight(c)
    /\ Goto(c, "done")
    /\ UNCHANGED <<dbVars, local, height, target, nodeVars, faults>>

(* The whole configured range is there: DoCollect returns. *)
Stops(c) ==
    /\ pc[c] = "source"
    /\ local[c] >= BoundedTargetHeight(c)
    /\ ReachedUntilHeight(c)
    /\ Goto(c, "done")
    /\ UNCHANGED <<dbVars, local, height, target, nodeVars, faults>>

NextHeight(c) == Greatest(local[c] + 1, StartHeight)

(* Nothing to collect: poll again. *)
Waits(c) ==
    /\ pc[c] = "source"
    /\ \/ local[c] >= BoundedTargetHeight(c) /\ ~ReachedUntilHeight(c)
       \/ local[c] < BoundedTargetHeight(c) /\ NextHeight(c) > BoundedTargetHeight(c)
    /\ Goto(c, "local")
    /\ UNCHANGED <<dbVars, local, height, target, nodeVars, faults>>

Collects(c) ==
    /\ pc[c] = "source"
    /\ local[c] < BoundedTargetHeight(c)
    /\ NextHeight(c) <= BoundedTargetHeight(c)
    /\ height' = [height EXCEPT ![c] = NextHeight(c)]
    /\ target' = [target EXCEPT ![c] = BoundedTargetHeight(c)]
    /\ Goto(c, "fetch")
    /\ UNCHANGED <<dbVars, local, nodeVars, faults>>

(* CollectHeight: transactions, and pools when a snapshot is due. *)
Fetch(c) ==
    /\ pc[c] = "fetch"
    /\ height[c] <= indexed
    /\ Goto(c, "save")
    /\ UNCHANGED <<dbVars, local, height, target, nodeVars, faults>>

(* Mutant: the synced height is committed before the block. *)
SaveInTwoTransactions(h) ==
    /\ blocks' \in {blocks, blocks \cup {h}}
    /\ snapshots' = IF SnapshotDue(h) THEN snapshots \cup {h} ELSE snapshots
    /\ synced' = Greatest(synced, h)

(* Mutant: the last writer wins. *)
SaveOverwrites(h) ==
    /\ blocks' = blocks \cup {h}
    /\ snapshots' = IF SnapshotDue(h) THEN snapshots \cup {h} ELSE snapshots
    /\ synced' = h

(* One transaction; the synced height never goes back. *)
SaveHeight(h) ==
    /\ blocks' = blocks \cup {h}
    /\ snapshots' = IF SnapshotDue(h) THEN snapshots \cup {h} ELSE snapshots
    /\ synced' = Greatest(synced, h)

Saves(c) ==
    /\ pc[c] = "save"
    /\ SaveHeight(height[c])
    /\ height' = [height EXCEPT ![c] = @ + 1]
    /\ Goto(c, IF height[c] + 1 > target[c] THEN "local" ELSE "fetch")
    /\ UNCHANGED <<local, target, nodeVars, faults>>

(* Any error ends DoCollect, and the process: a failing query or node, a   *)
(* crash, a transaction that may have been committed.                      *)
Fails(c) ==
    /\ pc[c] \notin {"down", "done"}
    /\ Fault
    /\ \/ UNCHANGED dbVars
       \/ pc[c] = "save" /\ SaveHeight(height[c])
    /\ Goto(c, "down")
    /\ UNCHANGED <<local, height, target, nodeVars>>

(* The reported height is not indexed yet. *)
FailsOnIndexing(c) ==
    /\ pc[c] = "fetch"
    /\ height[c] > indexed
    /\ Goto(c, "down")
    /\ UNCHANGED <<dbVars, local, height, target, nodeVars, faults>>

-----------------------------------------------------------------------------
Step(c) ==
    \/ Start(c) \/ LocalHeight(c) \/ Stops(c) \/ Waits(c) \/ Collects(c)
    \/ Fetch(c) \/ FailsOnIndexing(c) \/ Saves(c)

Next ==
    \/ NewBlock \/ IndexBlock
    \/ \E c \in Collectors : Step(c) \/ Fails(c)

Spec == Init /\ [][Next]_vars

(* Processes are scheduled and restarted, the node indexes what it has.    *)
FairSpec ==
    /\ Spec
    /\ \A c \in Collectors : WF_vars(Step(c))
    /\ WF_vars(NewBlock) /\ WF_vars(IndexBlock)

-----------------------------------------------------------------------------
(* Properties *)

Place == {"down", "local", "source", "fetch", "save", "done"}

(* The type of the state: among it, that a bounded collector never aims    *)
(* beyond its bound.                                                       *)
TypeOK ==
    /\ blocks \subseteq 1..MaxHeight
    /\ snapshots \subseteq 1..MaxHeight
    /\ synced \in 0..MaxHeight
    /\ pc \in [Collectors -> Place]
    /\ local \in [Collectors -> Nat]
    /\ height \in [Collectors -> 0..(MaxHeight + 1)]
    /\ target \in [Collectors -> 0..MaxHeight]
    /\ \A c \in Collectors : UntilHeight[c] > 0 => target[c] <= UntilHeight[c]
    /\ indexed \in 0..tip /\ tip \in 0..MaxHeight
    /\ faults \in 0..MaxFaults

(* What the parser relies on when it prefers the collector to the node:    *)
(* every height up to the synced one is there, with its snapshot, however  *)
(* processes overlap, die and restart.                                     *)
NoHoles ==
    /\ blocks = {h \in 1..MaxHeight : FirstHeight <= h /\ h <= synced}
    /\ snapshots = {h \in blocks : SnapshotDue(h)}

(* The parser sees the height appear once and then grow one by one: the    *)
(* environment step CollectorSaves of ParserRun.                           *)
SyncedMovesByOne == [][synced' # synced => synced = 0 \/ synced' = synced + 1]_vars

(* A collector with a bound the chain reaches stops there, and the others  *)
(* follow the chain, although each error costs the process.                *)
RangeIsCollected ==
    /\ \A c \in Collectors : UntilHeight[c] \in 1..MaxHeight => <>(pc[c] = "done")
    /\ (\E c \in Collectors : UntilHeight[c] = 0) => <>[](synced = MaxHeight)

(* The inductive invariant: a process may be behind the database but never *)
(* ahead of it by more than the height it collects.                        *)
NobodyJumps ==
    /\ \A c \in Collectors :
          /\ pc[c] = "source" =>
                local[c] <= (IF synced = 0 THEN FirstHeight - 1 ELSE synced)
          /\ pc[c] \in {"fetch", "save"} =>
                /\ FirstHeight <= height[c] /\ height[c] <= target[c]
                /\ height[c] <= (IF synced = 0 THEN FirstHeight ELSE synced + 1)
    /\ synced > 0 => synced >= FirstHeight

IInv == TypeOK /\ NoHoles /\ NobodyJumps
=============================================================================
