---------------------------- MODULE CollectorProofs ----------------------------
(***************************************************************************)
(* Machine-checked proofs about Collector, for every number of processes,  *)
(* every range and every snapshot interval.                                *)
(***************************************************************************)
EXTENDS Collector, TLAPS

USE DEF Place

LEMMA ConstantTypes ==
    /\ MaxHeight \in Nat /\ StartHeight \in Nat /\ MaxFaults \in Nat
    /\ \A c \in Collectors : UntilHeight[c] \in Nat
    /\ PoolSnapshotInterval \in Nat
    /\ FirstHeight \in Nat /\ FirstHeight >= 1 /\ FirstHeight >= StartHeight
    /\ (StartHeight = 0 => FirstHeight = 1) /\ (StartHeight > 0 => FirstHeight = StartHeight)
BY CollectorAssumption DEF FirstHeight, Greatest

(* What a transaction writes has the types of its tables. *)
LEMMA SaveTypes ==
    ASSUME IInv, NEW c \in Collectors, pc[c] = "save", SaveHeight(height[c])
    PROVE  /\ blocks' \subseteq 1..MaxHeight /\ snapshots' \subseteq 1..MaxHeight
           /\ synced' \in 0..MaxHeight
           /\ height[c] \in 1..MaxHeight
<1>1. height[c] \in 1..MaxHeight
  BY ConstantTypes DEF IInv, TypeOK, NobodyJumps
<1>2. blocks' \subseteq 1..MaxHeight
  BY <1>1 DEF SaveHeight, IInv, TypeOK
<1>3. snapshots' \subseteq 1..MaxHeight
  BY <1>1 DEF SaveHeight, IInv, TypeOK
<1>4. synced' \in 0..MaxHeight
  BY <1>1, ConstantTypes DEF SaveHeight, Greatest, IInv, TypeOK
<1>5. QED
  BY <1>1, <1>2, <1>3, <1>4

(* Every step keeps the types. *)
LEMMA NextTypes ==
    ASSUME IInv, [Next]_vars
    PROVE  TypeOK'
<1> USE ConstantTypes
<1>1. CASE NewBlock
  BY <1>1 DEF NewBlock, dbVars, nodeVars, procVars, Goto, IInv, TypeOK, NobodyJumps
<1>2. CASE IndexBlock
  BY <1>2 DEF IndexBlock, dbVars, nodeVars, procVars, Goto, IInv, TypeOK, NobodyJumps
<1>3. ASSUME NEW c \in Collectors, Start(c) PROVE TypeOK'
  BY <1>3 DEF Start, dbVars, nodeVars, procVars, Goto, IInv, TypeOK, NobodyJumps
<1>4. ASSUME NEW c \in Collectors, LocalHeight(c) PROVE TypeOK'
  BY <1>4 DEF LocalHeight, dbVars, nodeVars, procVars, Goto, IInv, TypeOK, NobodyJumps
<1>5. ASSUME NEW c \in Collectors, Stops(c) PROVE TypeOK'
  BY <1>5 DEF Stops, dbVars, nodeVars, procVars, Goto, IInv, TypeOK, NobodyJumps
<1>6. ASSUME NEW c \in Collectors, Waits(c) PROVE TypeOK'
  BY <1>6 DEF Waits, dbVars, nodeVars, procVars, Goto, IInv, TypeOK, NobodyJumps
<1>7. ASSUME NEW c \in Collectors, Collects(c) PROVE TypeOK'
  BY <1>7 DEF Collects, BoundedTargetHeight, NextHeight, Greatest, dbVars, nodeVars, procVars, Goto, IInv, TypeOK, NobodyJumps
<1>8. ASSUME NEW c \in Collectors, Fetch(c) PROVE TypeOK'
  BY <1>8 DEF Fetch, dbVars, nodeVars, procVars, Goto, IInv, TypeOK, NobodyJumps
<1>9. ASSUME NEW c \in Collectors, Saves(c) PROVE TypeOK'
  <2>1. /\ blocks' \subseteq 1..MaxHeight /\ snapshots' \subseteq 1..MaxHeight
        /\ synced' \in 0..MaxHeight /\ height[c] \in 1..MaxHeight
    BY <1>9, SaveTypes DEF Saves
  <2>2. pc' \in [Collectors -> Place] /\ height' \in [Collectors -> 0..(MaxHeight + 1)]
    BY <1>9, <2>1 DEF Saves, Goto, IInv, TypeOK
  <2>3. QED
    BY <1>9, <2>1, <2>2 DEF Saves, nodeVars, IInv, TypeOK
<1>10. ASSUME NEW c \in Collectors, Fails(c) PROVE TypeOK'
  <2>1. /\ blocks' \subseteq 1..MaxHeight /\ snapshots' \subseteq 1..MaxHeight
        /\ synced' \in 0..MaxHeight
    BY <1>10, SaveTypes DEF Fails, dbVars, IInv, TypeOK
  <2>2. pc' \in [Collectors -> Place] /\ faults' \in 0..MaxFaults
    BY <1>10 DEF Fails, Fault, Goto, IInv, TypeOK
  <2>3. QED
    BY <1>10, <2>1, <2>2 DEF Fails, nodeVars, IInv, TypeOK
<1>11. ASSUME NEW c \in Collectors, FailsOnIndexing(c) PROVE TypeOK'
  BY <1>11 DEF FailsOnIndexing, dbVars, nodeVars, procVars, Goto, IInv, TypeOK, NobodyJumps
<1>12. CASE UNCHANGED vars
  BY <1>12 DEF vars, dbVars, nodeVars, procVars, Goto, IInv, TypeOK, NobodyJumps
<1>13. QED
  BY <1>1, <1>2, <1>3, <1>4, <1>5, <1>6, <1>7, <1>8, <1>9, <1>10, <1>11, <1>12 DEF Next, Step

(* Every step keeps the positions of the loops close to the database. *)
LEMMA NextNobodyJumps ==
    ASSUME IInv, [Next]_vars
    PROVE  NobodyJumps'
<1> USE ConstantTypes
<1>1. CASE NewBlock
  BY <1>1 DEF NewBlock, dbVars, nodeVars, procVars, Goto, IInv, TypeOK, NobodyJumps
<1>2. CASE IndexBlock
  BY <1>2 DEF IndexBlock, dbVars, nodeVars, procVars, Goto, IInv, TypeOK, NobodyJumps
<1>3. ASSUME NEW c \in Collectors, Start(c) PROVE NobodyJumps'
  BY <1>3 DEF Start, dbVars, nodeVars, procVars, Goto, IInv, TypeOK, NobodyJumps
<1>4. ASSUME NEW c \in Collectors, LocalHeight(c) PROVE NobodyJumps'
  BY <1>4 DEF LocalHeight, dbVars, nodeVars, procVars, Goto, IInv, TypeOK, NobodyJumps
<1>5. ASSUME NEW c \in Collectors, Stops(c) PROVE NobodyJumps'
  BY <1>5 DEF Stops, dbVars, nodeVars, procVars, Goto, IInv, TypeOK, NobodyJumps
<1>6. ASSUME NEW c \in Collectors, Waits(c) PROVE NobodyJumps'
  BY <1>6 DEF Waits, dbVars, nodeVars, procVars, Goto, IInv, TypeOK, NobodyJumps
<1>7. ASSUME NEW c \in Collectors, Collects(c) PROVE NobodyJumps'
  BY <1>7 DEF Collects, BoundedTargetHeight, NextHeight, Greatest, dbVars, nodeVars, procVars, Goto, IInv, TypeOK, NobodyJumps
<1>8. ASSUME NEW c \in Collectors, Fetch(c) PROVE NobodyJumps'
  BY <1>8 DEF Fetch, dbVars, nodeVars, procVars, Goto, IInv, TypeOK, NobodyJumps
<1>9. ASSUME NEW c \in Collectors, Saves(c) PROVE NobodyJumps'
  BY <1>9 DEF Saves, SaveHeight, Greatest, dbVars, nodeVars, procVars, Goto, IInv, TypeOK, NobodyJumps
<1>10. ASSUME NEW c \in Collectors, Fails(c) PROVE NobodyJumps'
  BY <1>10 DEF Fails, SaveHeight, Greatest, dbVars, nodeVars, procVars, Goto, IInv, TypeOK, NobodyJumps
<1>11. ASSUME NEW c \in Collectors, FailsOnIndexing(c) PROVE NobodyJumps'
  BY <1>11 DEF FailsOnIndexing, dbVars, nodeVars, procVars, Goto, IInv, TypeOK, NobodyJumps
<1>12. CASE UNCHANGED vars
  BY <1>12 DEF vars, dbVars, nodeVars, procVars, Goto, IInv, TypeOK, NobodyJumps
<1>13. QED
  BY <1>1, <1>2, <1>3, <1>4, <1>5, <1>6, <1>7, <1>8, <1>9, <1>10, <1>11, <1>12 DEF Next, Step

(* Saving a height next to the synced range extends it by that height, or  *)
(* repeats one that is there.                                              *)
LEMMA SaveKeepsRange ==
    ASSUME IInv, NEW c \in Collectors, pc[c] = "save", SaveHeight(height[c])
    PROVE  NoHoles' /\ (synced' = synced \/ synced = 0 \/ synced' = synced + 1)
<1> USE ConstantTypes
<1> DEFINE h == height[c]
<1>1. /\ h \in 1..MaxHeight /\ FirstHeight <= h
      /\ h <= (IF synced = 0 THEN FirstHeight ELSE synced + 1)
      /\ synced \in Nat /\ (synced > 0 => synced >= FirstHeight)
  BY DEF IInv, TypeOK, NobodyJumps
<1>2. synced' = IF synced > h THEN synced ELSE h
  BY DEF SaveHeight, Greatest
<1>3. blocks' = {x \in 1..MaxHeight : FirstHeight <= x /\ x <= synced'}
  BY <1>1, <1>2 DEF SaveHeight, IInv, NoHoles
<1>4. snapshots' = {x \in blocks' : SnapshotDue(x)}
  BY <1>1 DEF SaveHeight, IInv, NoHoles
<1>5. QED
  BY <1>1, <1>2, <1>3, <1>4 DEF NoHoles, SnapshotDue

(* Which steps write the tables. *)
LEMMA StepsOfTheTables ==
    ASSUME [Next]_vars
    PROVE  \/ UNCHANGED dbVars
           \/ \E c \in Collectors : pc[c] = "save" /\ SaveHeight(height[c])
BY DEF Next, Step, vars, NewBlock, IndexBlock, Start, LocalHeight, Stops, Waits, Collects, Fetch,
   Saves, Fails, FailsOnIndexing

THEOREM CollectorInvariant == Spec => []IInv
<1>1. Init => IInv
  BY ConstantTypes DEF Init, IInv, TypeOK, NoHoles, NobodyJumps
<1>2. IInv /\ [Next]_vars => NoHoles'
  <2> SUFFICES ASSUME IInv, [Next]_vars PROVE NoHoles'
    OBVIOUS
  <2>1. CASE UNCHANGED dbVars
    BY <2>1 DEF dbVars, IInv, NoHoles, SnapshotDue
  <2>2. QED
    BY <2>1, StepsOfTheTables, SaveKeepsRange
<1>3. IInv /\ [Next]_vars => IInv'
  BY <1>2, NextTypes, NextNobodyJumps DEF IInv
<1>4. QED
  BY <1>1, <1>3, PTL DEF Spec

(* Type correctness; no collector aims beyond its bound. *)
THEOREM CollectorTypes == Spec => []TypeOK
<1>1. IInv => TypeOK
  BY DEF IInv
<1>2. QED
  BY <1>1, CollectorInvariant, PTL

(* The collected range has no holes, for any number of processes that      *)
(* overlap, die and restart in any order.                                  *)
THEOREM RangeHasNoHoles == Spec => []NoHoles
<1>1. IInv => NoHoles
  BY DEF IInv
<1>2. QED
  BY <1>1, CollectorInvariant, PTL

(* The synced height appears once and then moves by one: what ParserRun    *)
(* assumes of its source.                                                  *)
THEOREM SourceMovesByOne == Spec => SyncedMovesByOne
<1>1. IInv /\ [Next]_vars => (synced' # synced => synced = 0 \/ synced' = synced + 1)
  <2> SUFFICES ASSUME IInv, [Next]_vars PROVE synced' = synced \/ synced = 0 \/ synced' = synced + 1
    OBVIOUS
  <2>1. CASE UNCHANGED dbVars
    BY <2>1 DEF dbVars
  <2>2. QED
    BY <2>1, StepsOfTheTables, SaveKeepsRange
<1>2. QED
  BY <1>1, CollectorInvariant, PTL DEF Spec, SyncedMovesByOne
=============================================================================
