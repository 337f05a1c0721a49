--------------------------- MODULE ParserRunProofs ---------------------------
(***************************************************************************)
(* Machine-checked proofs about ParserRun, for every chain, every set of   *)
(* pairs, every outcome of parsing, every configuration.                   *)
(***************************************************************************)
EXTENDS ParserRun, TLAPS

USE DEF Forms, QuarantineStatus

(* The facts about the constants that the steps below need. *)
LEMMA ConstantTypes ==
    /\ MaxHeight \in Nat
    /\ \A t \in Tx : Height[t] \in 1..MaxHeight /\ Creates[t] \in Pair \cup {NoPair}
    /\ NoPair \notin Pair
    /\ MaxBuild \in Nat \ {0}
    /\ SameHeightTolerance \in Nat /\ ErrTolerance \in Nat
    /\ SnapshotInterval \in Nat \ {0} /\ MaxFaults \in Nat
BY ChainAssumption, PairAssumption, ParserAssumption, ConfigAssumption

(* Created is a monotone set of pairs. *)
LEMMA CreatedMonotone ==
    ASSUME NEW S, NEW T \in SUBSET Tx, S \subseteq T
    PROVE  Created(S) \subseteq Created(T) /\ Created(T) \subseteq Pair
BY ConstantTypes DEF Created

(* A pair used by t and created by anyone is created no later than t. *)
LEMMA UsedPairIsCreatedEarlier ==
    ASSUME NEW t \in Tx, Uses[t] # NoPair, Uses[t] \in Created(Tx)
    PROVE  Uses[t] \in Created({u \in Tx : Height[u] <= Height[t]})
<1>1. PICK u \in Tx : Creates[u] = Uses[t]
  BY DEF Created
<1>2. Height[u] <= Height[t]
  BY <1>1, CausalityAssumption, ConstantTypes DEF Before
<1>3. QED
  BY <1>1, <1>2 DEF Created

(* How a transaction is recorded: with its pair only if a known set has it. *)
LEMMA RecordedForms ==
    ASSUME NEW t, NEW found, NEW known
    PROVE  /\ RecordedAs(t, found, known) \in Forms
           /\ RecordedAs(t, found, known) \in {"action", "transfer"}
                 => Uses[t] # NoPair /\ Uses[t] \in found \cup known
           /\ Uses[t] # NoPair /\ Uses[t] \in found => RecordedAs(t, found, known) = "action"
BY DEF RecordedAs

-----------------------------------------------------------------------------
(* Leaving Run keeps the types of the locals. *)
LEMMA RunFailsTypes ==
    ASSUME IInv, RunFails, pc # "down"
    PROVE  /\ pc' \in {"idle", "down"}
           /\ errCount' \in 0..ErrTolerance + 1
           /\ pc' # "down" => errCount' <= ErrTolerance
           /\ excepted' = {} /\ todo' = {} /\ cur' = 0 /\ src' = 0 /\ filter' = {}
BY ConstantTypes DEF IInv, TypeOK, RunIsInStep, RunFails, ForgetLocals

(* Pairs created in a block, or by any part of one. *)
LEMMA CreatedOfBlock ==
    ASSUME NEW h
    PROVE  /\ Created(Block(h)) \subseteq Created(Tx)
           /\ Created(Block(h)) \subseteq Pair
<1>1. Block(h) \subseteq Tx
  BY DEF Block
<1>2. QED
  BY <1>1, CreatedMonotone

(* A block that fails to parse only teaches the process existing pairs. *)
LEMMA ParseFailsLearns ==
    ASSUME ParseFails
    PROVE  pairs \subseteq pairs' /\ pairs' \subseteq pairs \cup Created(Tx)
BY CreatedMonotone DEF ParseFails, Block, Created

(* What an insert writes has the types of its tables. *)
InsertTypesKept ==
    /\ synced' \in 0..MaxHeight
    /\ copies' \in [Tx -> Nat]
    /\ form' \in [Tx -> Forms]
    /\ quarantine' \in [Tx -> QuarantineStatus]
    /\ dbPairs' \subseteq Pair
    /\ snapshots' \subseteq 1..MaxHeight

LEMMA InsertTypes ==
    ASSUME IInv, pc = "insert", Insert
    PROVE  InsertTypesKept
<1>1. cur = synced + 1 /\ cur <= src /\ src \in 0..MaxHeight /\ synced \in 0..MaxHeight
  BY DEF IInv, TypeOK, RunIsInStep
<1>2. synced' \in 0..MaxHeight /\ snapshots' \subseteq 1..MaxHeight
  BY <1>1, ConstantTypes DEF Insert, InsertPools, IInv, TypeOK
<1>3. copies' \in [Tx -> Nat] /\ quarantine' \in [Tx -> QuarantineStatus]
  BY DEF Insert, InsertRows, InsertQuarantines, IInv, TypeOK
<1>4. form' \in [Tx -> Forms]
  BY RecordedForms DEF Insert, InsertRows, IInv, TypeOK
<1>5. dbPairs' \subseteq Pair
  BY CreatedOfBlock DEF Insert, IInv, TypeOK
<1>6. QED
  BY <1>2, <1>3, <1>4, <1>5 DEF InsertTypesKept

LEMMA InitIInv == Init => IInv
<1> SUFFICES ASSUME Init PROVE IInv
  OBVIOUS
<1>1. TypeOK
  <2>1. copies \in [Tx -> Nat] /\ form \in [Tx -> Forms] /\ quarantine \in [Tx -> QuarantineStatus]
    BY DEF Init
  <2>2. synced \in 0..MaxHeight /\ build \in 1..MaxBuild /\ tip \in 0..MaxHeight /\ faults \in 0..MaxFaults
    BY ConstantTypes DEF Init
  <2>3. lastSrc \in 0..MaxHeight /\ sameCount \in 0..SameHeightTolerance + 1
    BY ConstantTypes DEF Init
  <2>4. errCount \in 0..ErrTolerance + 1 /\ cur \in 0..MaxHeight + 1 /\ src \in 0..MaxHeight
    BY ConstantTypes DEF Init
  <2>5. collected \in 0..tip
    BY DEF Init
  <2>6. retried \in BOOLEAN
    BY Zenon DEF Init
  <2>7. pc \in {"down", "idle", "retry", "sync", "parse", "insert"}
    BY DEF Init
  <2>8. QED
    BY <2>1, <2>2, <2>3, <2>4, <2>5, <2>6, <2>7 DEF Init, TypeOK
<1>2. ExactPrefix
  BY ConstantTypes DEF Init, ExactPrefix, Created
<1>3. RowsHaveTheirPair /\ EarlierPairsAreFound /\ PairMapIsFresh /\ RunIsInStep
  BY DEF Init, RowsHaveTheirPair, EarlierPairsAreFound, PairMapIsFresh, RunIsInStep
<1>4. QED
  BY <1>1, <1>2, <1>3 DEF IInv

(* A step that leaves the database alone keeps what is said of it. *)
LEMMA DatabaseUntouched ==
    ASSUME IInv, UNCHANGED dbVars
    PROVE  (ExactPrefix /\ RowsHaveTheirPair /\ EarlierPairsAreFound)'
BY DEF IInv, ExactPrefix, RowsHaveTheirPair, EarlierPairsAreFound, dbVars, Created


-----------------------------------------------------------------------------
(* Every step keeps the types. *)
LEMMA NextTypeOK ==
    ASSUME IInv, [Next]_vars
    PROVE  TypeOK'
<1> USE ConstantTypes
<1>1. CASE ChainGrows
  BY <1>1 DEF ChainGrows, dbVars, appVars, locals, envVars, IInv, TypeOK, RunIsInStep
<1>2. CASE CollectorSaves
  BY <1>2 DEF CollectorSaves, dbVars, appVars, locals, envVars, IInv, TypeOK, RunIsInStep
<1>3. CASE \E t \in Tx : RegisterException(t)
  BY <1>3 DEF RegisterException, dbVars, appVars, locals, envVars, IInv, TypeOK, RunIsInStep
<1>4. CASE ReadFails
  BY <1>4, RunFailsTypes DEF ReadFails, Fault, dbVars, appVars, locals, envVars, IInv, TypeOK, RunIsInStep
<1>5. CASE Crash
  BY <1>5 DEF Crash, Fault, ForgetLocals, dbVars, appVars, locals, envVars, IInv, TypeOK, RunIsInStep
<1>6. CASE Start
  <2>1. retried' \in BOOLEAN
    BY <1>6, Zenon DEF Start
  <2>2. QED
    BY <1>6, <2>1 DEF Start, dbVars, locals, envVars, IInv, TypeOK
<1>7. CASE BeginRun
  BY <1>7 DEF BeginRun, Replayable, dbVars, appVars, locals, envVars, IInv, TypeOK, RunIsInStep
<1>8. CASE \E t \in Tx : ReplaySkips(t)
  BY <1>8 DEF ReplaySkips, dbVars, appVars, locals, envVars, IInv, TypeOK, RunIsInStep
<1>9. CASE \E t \in Tx : ReplayErrs(t)
  BY <1>9, RunFailsTypes DEF ReplayErrs, dbVars, appVars, locals, envVars, IInv, TypeOK, RunIsInStep
<1>10. CASE \E t \in Tx : ReplayResolves(t)
  BY <1>10, RecordedForms DEF ReplayResolves, ResolveParseQuarantine, dbVars, appVars, locals, envVars, IInv, TypeOK, RunIsInStep
<1>11. CASE \E t \in Tx : ReplayUnacknowledged(t)
  BY <1>11, RecordedForms, RunFailsTypes DEF ReplayUnacknowledged, Fault, ResolveParseQuarantine, dbVars, appVars, locals, envVars, IInv, TypeOK, RunIsInStep
<1>12. CASE ReplayDone
  BY <1>12 DEF ReplayDone, dbVars, appVars, locals, envVars, IInv, TypeOK, RunIsInStep
<1>13. CASE SourceBehind
  BY <1>13, RunFailsTypes DEF SourceBehind, dbVars, appVars, locals, envVars, IInv, TypeOK, RunIsInStep
<1>14. CASE NoNewHeight
  BY <1>14 DEF NoNewHeight, SameHeightCount, SourceHeight, ForgetLocals, dbVars, appVars, locals, envVars, IInv, TypeOK, RunIsInStep
<1>15. CASE ReadHeights
  BY <1>15 DEF ReadHeights, SameHeightCount, SourceHeight, dbVars, appVars, locals, envVars, IInv, TypeOK, RunIsInStep
<1>16. CASE SourceIndexing
  BY <1>16 DEF SourceIndexing, Fault, RunReturns, ForgetLocals, dbVars, appVars, locals, envVars, IInv, TypeOK, RunIsInStep
<1>17. CASE ParseHeight
  <2>1. Created(Block(cur)) \subseteq Pair
    BY CreatedOfBlock
  <2>2. QED
    BY <1>17, <2>1 DEF ParseHeight, dbVars, appVars, locals, envVars, IInv, TypeOK
<1>18. CASE ParseFails
  <2>1. pairs' \subseteq pairs \cup Created(Tx)
    BY <1>18, ParseFailsLearns
  <2>2. Created(Tx) \subseteq Pair
    BY CreatedMonotone
  <2>3. QED
    BY <1>18, <2>1, <2>2, RunFailsTypes DEF ParseFails, dbVars, appVars, locals, envVars, IInv, TypeOK
<1>19. CASE CommitHeight
  <2>1. InsertTypesKept
    BY <1>19, InsertTypes DEF CommitHeight
  <2>2. cur' \in 0..MaxHeight + 1
    BY <1>19 DEF CommitHeight, IInv, TypeOK, RunIsInStep
  <2>3. QED
    BY <1>19, <2>1, <2>2
    DEF CommitHeight, InsertTypesKept, appVars, locals, envVars, IInv, TypeOK
<1>20. CASE CommitUnacknowledged
  <2>1. InsertTypesKept
    BY <1>20, InsertTypes DEF CommitUnacknowledged
  <2>2. QED
    BY <1>20, <2>1, RunFailsTypes
    DEF CommitUnacknowledged, Fault, InsertTypesKept, appVars, locals, envVars, IInv, TypeOK
<1>21. CASE InsertRolledBack
  BY <1>21, RunFailsTypes DEF InsertRolledBack, Fault, dbVars, appVars, locals, envVars, IInv, TypeOK, RunIsInStep
<1>22. CASE RunDone
  BY <1>22 DEF RunDone, RunReturns, ForgetLocals, dbVars, appVars, locals, envVars, IInv, TypeOK, RunIsInStep
<1>23. CASE UNCHANGED vars
  BY <1>23 DEF vars, dbVars, appVars, locals, envVars, IInv, TypeOK
<1>24. QED
  BY <1>1, <1>2, <1>3, <1>4, <1>5, <1>6, <1>7, <1>8, <1>9, <1>10, <1>11, <1>12, <1>13, <1>14, <1>15, <1>16, <1>17, <1>18, <1>19, <1>20, <1>21, <1>22, <1>23 DEF Next, Progress, Failures, Environment

-----------------------------------------------------------------------------
(* What the two transactions that write rows do to the database. *)

(* Insert moves from one exact prefix to the next. *)
LEMMA InsertKeepsPrefix ==
    ASSUME IInv, pc = "insert", Insert
    PROVE  ExactPrefix' /\ synced' = synced + 1
<1>1. /\ cur = synced + 1 /\ synced \in Nat /\ synced' = synced + 1
      /\ \A t \in Tx : Height[t] \in Nat
  BY ConstantTypes DEF IInv, TypeOK, RunIsInStep, Insert
<1>2. \A t \in Tx :
         IF Height[t] > synced'
         THEN copies'[t] = 0 /\ quarantine'[t] = "none"
         ELSE copies'[t] = (IF quarantine'[t] = "pending" THEN 0 ELSE 1)
  <2> TAKE t \in Tx
  <2>1. CASE Height[t] = cur
    BY <1>1, <2>1 DEF Insert, InsertRows, InsertQuarantines, HeldNow, FlaggedNow, Block, IInv, ExactPrefix
  <2>2. CASE Height[t] # cur
    BY <1>1, <2>2 DEF Insert, InsertRows, InsertQuarantines, HeldNow, FlaggedNow, Block, IInv, ExactPrefix
  <2>3. QED
    BY <2>1, <2>2
<1>3. dbPairs' = Created({t \in Tx : Height[t] <= synced'})
  BY <1>1 DEF Insert, IInv, ExactPrefix, Created, Block
<1>4. snapshots' = {h \in 1..synced' : h % SnapshotInterval = 0}
  BY <1>1, ConstantTypes DEF Insert, InsertPools, IInv, ExactPrefix
<1>5. QED
  BY <1>1, <1>2, <1>3, <1>4 DEF ExactPrefix

(* The pair of an inserted row is in the table pair by then, whether the   *)
(* filter or the live map knew it.                                         *)
LEMMA InsertKeepsRows ==
    ASSUME IInv, pc = "insert", Insert
    PROVE  RowsHaveTheirPair' /\ EarlierPairsAreFound'
<1>1. /\ cur = synced + 1 /\ synced \in Nat
      /\ \A t \in Tx : Height[t] \in Nat
  BY ConstantTypes DEF IInv, TypeOK, RunIsInStep
<1>2. /\ dbPairs' = Created({t \in Tx : Height[t] <= cur})
      /\ dbPairs = Created({t \in Tx : Height[t] < cur})
      /\ dbPairs \subseteq dbPairs'
  <2>1. {t \in Tx : Height[t] <= synced} = {t \in Tx : Height[t] < cur}
    BY <1>1
  <2>2. QED
    BY <1>1, <2>1, InsertKeepsPrefix DEF Insert, IInv, ExactPrefix
<1>3. ASSUME NEW t \in Tx, form'[t] \in {"action", "transfer"}
      PROVE  Uses[t] \in dbPairs'
  <2>1. CASE t \in Block(cur) \ HeldNow
    <3>1. Height[t] = cur /\ form'[t] = RecordedAs(t, filter, Known(t))
      BY <2>1 DEF Insert, InsertRows, Block
    <3>2. filter \cup Known(t) \subseteq Created(Tx)
      <4>1. filter \subseteq Created(Tx)
        BY DEF IInv, RunIsInStep
      <4>2. QED
        BY <4>1 DEF Known, Created, Block
    <3>3. Uses[t] # NoPair /\ Uses[t] \in Created(Tx)
      BY <1>3, <3>1, <3>2, RecordedForms
    <3>4. QED
      BY <1>2, <3>1, <3>3, UsedPairIsCreatedEarlier
  <2>2. CASE t \notin Block(cur) \ HeldNow
    BY <1>2, <1>3, <2>2 DEF Insert, InsertRows, IInv, RowsHaveTheirPair
  <2>3. QED
    BY <2>1, <2>2
<1>4. ASSUME NEW t \in Tx, copies'[t] > 0, Uses[t] \in Created({u \in Tx : Height[u] < Height[t]})
      PROVE  form'[t] = "action"
  <2>1. CASE t \in Block(cur) \ HeldNow
    <3>1. Height[t] = cur /\ form'[t] = RecordedAs(t, filter, Known(t))
      BY <2>1 DEF Insert, InsertRows, Block
    <3>2. Uses[t] \in filter
      BY <1>2, <1>4, <3>1 DEF IInv, RunIsInStep
    <3>3. Uses[t] # NoPair
      BY <1>4 DEF Created
    <3>4. QED
      BY <3>1, <3>2, <3>3, RecordedForms
  <2>2. CASE t \notin Block(cur) \ HeldNow
    BY <1>4, <2>2 DEF Insert, InsertRows, IInv, EarlierPairsAreFound
  <2>3. QED
    BY <2>1, <2>2
<1>5. QED
  BY <1>3, <1>4 DEF RowsHaveTheirPair, EarlierPairsAreFound

(* Resolving touches one held transaction of the prefix and no other. *)
LEMMA ResolveKeepsDatabase ==
    ASSUME IInv, pc = "retry", NEW t \in Tx, ResolveParseQuarantine(t)
    PROVE  (ExactPrefix /\ RowsHaveTheirPair /\ EarlierPairsAreFound)'
<1>1. Height[t] <= synced /\ copies[t] = 0
  BY ConstantTypes DEF IInv, TypeOK, ExactPrefix, ResolveParseQuarantine
<1>2. /\ synced' = synced /\ dbPairs' = dbPairs /\ snapshots' = snapshots
      /\ copies'[t] = 1 /\ quarantine'[t] = "resolved"
      /\ form'[t] = RecordedAs(t, pairs, pairs)
      /\ \A u \in Tx \ {t} :
            copies'[u] = copies[u] /\ quarantine'[u] = quarantine[u] /\ form'[u] = form[u]
  BY <1>1 DEF IInv, TypeOK, ResolveParseQuarantine
<1>3. ExactPrefix'
  BY <1>1, <1>2, ConstantTypes DEF IInv, TypeOK, ExactPrefix, Created
<1>4. RowsHaveTheirPair'
  <2>1. form'[t] \in {"action", "transfer"} => Uses[t] \in dbPairs
    <3> SUFFICES ASSUME form'[t] \in {"action", "transfer"} PROVE Uses[t] \in dbPairs
      OBVIOUS
    <3>1. Uses[t] # NoPair /\ Uses[t] \in Created(Tx)
      BY <1>2, RecordedForms DEF IInv, RunIsInStep
    <3>2. Uses[t] \in Created({u \in Tx : Height[u] <= Height[t]})
      BY <3>1, UsedPairIsCreatedEarlier
    <3>3. QED
      BY <1>1, <3>2, ConstantTypes DEF IInv, TypeOK, ExactPrefix, Created
  <2>2. QED
    BY <1>2, <2>1 DEF IInv, RowsHaveTheirPair
<1>5. EarlierPairsAreFound'
  <2>1. ASSUME Uses[t] \in Created({u \in Tx : Height[u] < Height[t]})
        PROVE  form'[t] = "action"
    <3>1. Uses[t] # NoPair /\ Uses[t] \in dbPairs
      BY <1>1, <2>1, ConstantTypes DEF IInv, TypeOK, ExactPrefix, Created
    <3>2. Uses[t] \in pairs
      BY <3>1 DEF IInv, PairMapIsFresh
    <3>3. QED
      BY <1>2, <3>1, <3>2, RecordedForms
  <2>2. QED
    BY <1>2, <2>1 DEF IInv, EarlierPairsAreFound
<1>6. QED
  BY <1>3, <1>4, <1>5

(* Every step keeps the database an exact, consistent prefix. *)
LEMMA NextDatabase ==
    ASSUME IInv, [Next]_vars
    PROVE  (ExactPrefix /\ RowsHaveTheirPair /\ EarlierPairsAreFound)'
<1>1. CASE CommitHeight \/ CommitUnacknowledged
  BY <1>1, InsertKeepsPrefix, InsertKeepsRows DEF CommitHeight, CommitUnacknowledged
<1>2. CASE \E t \in Tx : ReplayResolves(t) \/ ReplayUnacknowledged(t)
  BY <1>2, ResolveKeepsDatabase DEF ReplayResolves, ReplayUnacknowledged
<1>3. CASE UNCHANGED dbVars
  BY <1>3, DatabaseUntouched
<1>4. QED
  BY <1>1, <1>2, <1>3 DEF Next, Progress, Failures, Environment, vars,
     ChainGrows, CollectorSaves, RegisterException, ReadFails, Crash, Start, BeginRun,
     ReplaySkips, ReplayErrs, ReplayDone, SourceBehind, NoNewHeight, ReadHeights,
     SourceIndexing, ParseHeight, ParseFails, InsertRolledBack, RunDone

-----------------------------------------------------------------------------
(* A step of the surroundings leaves the process as it was. *)
LEMMA MemoryUntouched ==
    ASSUME IInv, UNCHANGED <<dbVars, appVars, locals, pc, errCount>>
    PROVE  PairMapIsFresh' /\ RunIsInStep'
<1>1. Replayable' = Replayable /\ \A t \in Tx : Blocking(t)' = Blocking(t)
  BY DEF dbVars, appVars, locals, Replayable, Blocking, IsAmbiguous, Result
<1>2. Block(cur)' = Block(cur) /\ Block(cur) \subseteq Tx
  BY DEF locals, Block
<1>3. Created(Block(cur))' = Created(Block(cur)) /\ Created(Tx)' = Created(Tx)
  BY <1>2 DEF Created
<1>4. QED
  BY <1>1, <1>2, <1>3 DEF dbVars, appVars, locals, IInv, PairMapIsFresh, RunIsInStep

(* Every step keeps what the process holds in memory in step with the      *)
(* database.                                                               *)
LEMMA NextMemory ==
    ASSUME IInv, [Next]_vars
    PROVE  PairMapIsFresh' /\ RunIsInStep'
<1> USE ConstantTypes
<1>1. CASE ChainGrows
  BY <1>1, MemoryUntouched DEF ChainGrows
<1>2. CASE CollectorSaves
  BY <1>2, MemoryUntouched DEF CollectorSaves
<1>3. CASE \E t \in Tx : RegisterException(t)
  BY <1>3, MemoryUntouched DEF RegisterException
<1>4. CASE ReadFails
  BY <1>4, RunFailsTypes DEF ReadFails, dbVars, appVars, locals, envVars, IInv, TypeOK, PairMapIsFresh, RunIsInStep
<1>5. CASE Crash
  BY <1>5 DEF Crash, ForgetLocals, dbVars, appVars, locals, envVars, IInv, TypeOK, PairMapIsFresh, RunIsInStep
<1>6. CASE Start
  <2>1. pairs' = dbPairs /\ dbPairs \subseteq Created(Tx)
    BY <1>6 DEF Start, IInv, ExactPrefix, Created
  <2>2. pc' = "idle" /\ errCount' = 0 /\ lastSrc' = 0
    BY <1>6 DEF Start
  <2>3. QED
    BY <1>6, <2>1, <2>2 DEF Start, dbVars, IInv, TypeOK, PairMapIsFresh, RunIsInStep
<1>7. CASE BeginRun
  BY <1>7 DEF BeginRun, Replayable, dbVars, appVars, locals, envVars, IInv, TypeOK, PairMapIsFresh, RunIsInStep
<1>8. CASE \E t \in Tx : ReplaySkips(t)
  BY <1>8 DEF ReplaySkips, Replayable, dbVars, appVars, locals, envVars, IInv, TypeOK, PairMapIsFresh, RunIsInStep
<1>9. CASE \E t \in Tx : ReplayErrs(t)
  BY <1>9, RunFailsTypes DEF ReplayErrs, dbVars, appVars, locals, envVars, IInv, TypeOK, PairMapIsFresh, RunIsInStep
<1>10. CASE \E t \in Tx : ReplayResolves(t)
  BY <1>10 DEF ReplayResolves, Replayable, ResolveParseQuarantine, dbVars, appVars, locals, envVars, IInv, TypeOK, PairMapIsFresh, RunIsInStep
<1>11. CASE \E t \in Tx : ReplayUnacknowledged(t)
  BY <1>11, RunFailsTypes DEF ReplayUnacknowledged, ResolveParseQuarantine, dbVars, appVars, locals, envVars, IInv, TypeOK, PairMapIsFresh, RunIsInStep
<1>12. CASE ReplayDone
  BY <1>12 DEF ReplayDone, dbVars, appVars, locals, envVars, IInv, TypeOK, PairMapIsFresh, RunIsInStep
<1>13. CASE SourceBehind
  BY <1>13, RunFailsTypes DEF SourceBehind, dbVars, appVars, locals, envVars, IInv, TypeOK, PairMapIsFresh, RunIsInStep
<1>14. CASE NoNewHeight
  BY <1>14 DEF NoNewHeight, ForgetLocals, dbVars, appVars, locals, envVars, IInv, TypeOK, PairMapIsFresh, RunIsInStep
<1>15. CASE ReadHeights
  BY <1>15 DEF ReadHeights, SourceHeight, dbVars, appVars, locals, envVars, IInv, TypeOK, PairMapIsFresh, RunIsInStep
<1>16. CASE SourceIndexing
  BY <1>16 DEF SourceIndexing, RunReturns, ForgetLocals, dbVars, appVars, locals, envVars, IInv, TypeOK, PairMapIsFresh, RunIsInStep
<1>17. CASE ParseHeight
  <2>1. Created(Block(cur)) \subseteq Created(Tx)
    BY CreatedOfBlock
  <2>2. \A t \in Block(cur)' : ~Blocking(t)'
    BY <1>17 DEF ParseHeight, Block, Blocking, IsAmbiguous, Result
  <2>3. (filter \cup Created(Block(cur)) \subseteq pairs)'
    BY <1>17 DEF ParseHeight, Block, Created
  <2>4. QED
    BY <1>17, <2>1, <2>2, <2>3
    DEF ParseHeight, dbVars, appVars, locals, envVars, IInv, TypeOK, PairMapIsFresh, RunIsInStep
<1>18. CASE ParseFails
  <2>1. pairs \subseteq pairs' /\ pairs' \subseteq pairs \cup Created(Tx)
    BY <1>18, ParseFailsLearns
  <2>2. Created(Tx)' = Created(Tx)
    BY DEF Created
  <2>3. QED
    BY <1>18, <2>1, <2>2, RunFailsTypes
    DEF ParseFails, dbVars, appVars, locals, envVars, IInv, TypeOK, PairMapIsFresh, RunIsInStep
<1>19. CASE CommitHeight
  <2>1. synced' = synced + 1 /\ dbPairs' \subseteq pairs
    BY <1>19, InsertKeepsPrefix DEF CommitHeight, Insert, IInv, RunIsInStep
  <2>2. QED
    BY <1>19, <2>1
    DEF CommitHeight, appVars, locals, envVars, IInv, TypeOK, PairMapIsFresh, RunIsInStep
<1>20. CASE CommitUnacknowledged
  <2>1. synced' = synced + 1 /\ dbPairs' \subseteq pairs
    BY <1>20, InsertKeepsPrefix DEF CommitUnacknowledged, Insert, IInv, RunIsInStep
  <2>2. QED
    BY <1>20, <2>1, RunFailsTypes
    DEF CommitUnacknowledged, appVars, locals, envVars, IInv, TypeOK, PairMapIsFresh, RunIsInStep
<1>21. CASE InsertRolledBack
  BY <1>21, RunFailsTypes DEF InsertRolledBack, dbVars, appVars, locals, envVars, IInv, TypeOK, PairMapIsFresh, RunIsInStep
<1>22. CASE RunDone
  BY <1>22 DEF RunDone, RunReturns, ForgetLocals, dbVars, appVars, locals, envVars, IInv, TypeOK, PairMapIsFresh, RunIsInStep
<1>23. CASE UNCHANGED vars
  BY <1>23, MemoryUntouched DEF vars
<1>24. QED
  BY <1>1, <1>2, <1>3, <1>4, <1>5, <1>6, <1>7, <1>8, <1>9, <1>10, <1>11, <1>12, <1>13, <1>14, <1>15, <1>16, <1>17, <1>18, <1>19, <1>20, <1>21, <1>22, <1>23
     DEF Next, Progress, Failures, Environment

-----------------------------------------------------------------------------
(* The strengthened invariant holds in every reachable state.  Each part   *)
(* needs the others: rows have their pair only because the filter and the  *)
(* map hold database pairs, those because the map is fresh, and the prefix *)
(* is exact only because the height parsed is the one after the cursor.    *)
THEOREM ParserInvariant == Spec => []IInv
<1>1. Init => IInv
  BY InitIInv
<1>2. IInv /\ [Next]_vars => IInv'
  BY NextTypeOK, NextDatabase, NextMemory DEF IInv
<1>3. QED
  BY <1>1, <1>2, PTL DEF Spec

(* Type correctness of the parser process and its tables. *)
THEOREM ParserTypes == Spec => []TypeOK
<1>1. IInv => TypeOK
  BY DEF IInv
<1>2. QED
  BY <1>1, ParserInvariant, PTL

(* The database is the exact image of a prefix of the chain, whatever      *)
(* crashes, rollbacks, lost acknowledgements and replays happened.         *)
THEOREM DatabaseIsExactPrefix == Spec => []ExactPrefix
<1>1. IInv => ExactPrefix
  BY DEF IInv
<1>2. QED
  BY <1>1, ParserInvariant, PTL

(* parsed_tx never refers to a contract that is not in the table pair.     *)
THEOREM StoredRowsHavePairs == Spec => []RowsHaveTheirPair
<1>1. IInv => RowsHaveTheirPair
  BY DEF IInv
<1>2. QED
  BY <1>1, ParserInvariant, PTL

(* Pairs of earlier blocks are never missed, neither by the parse of a     *)
(* block nor by a replay.                                                  *)
THEOREM EarlierPairsNeverMissed == Spec => []EarlierPairsAreFound
<1>1. IInv => EarlierPairsAreFound
  BY DEF IInv
<1>2. QED
  BY <1>1, ParserInvariant, PTL

(* The in-memory map of a running process covers the table pair.           *)
THEOREM MapCoversTable == Spec => []PairMapIsFresh
<1>1. IInv => PairMapIsFresh
  BY DEF IInv
<1>2. QED
  BY <1>1, ParserInvariant, PTL

(* Run never reports "no new height" while heights wait to be parsed:      *)
(* lastSrcHeight is only ever a height the cursor has passed.              *)
THEOREM NothingHidden == Spec => NoNewHeightHidesNothing
<1>1. IInv /\ [Next]_vars => [NoNewHeight => synced = SourceHeight]_vars
  <2> SUFFICES ASSUME IInv, NoNewHeight PROVE synced = SourceHeight
    OBVIOUS
  <2>1. SourceHeight >= synced /\ SourceHeight \in Nat /\ synced \in Nat /\ lastSrc \in Nat
    BY ConstantTypes DEF NoNewHeight, SourceHeight, IInv, TypeOK
  <2>2. SourceHeight = lastSrc
    BY ConstantTypes DEF NoNewHeight, SameHeightCount
  <2>3. QED
    BY <2>1, <2>2 DEF IInv, RunIsInStep
<1>2. QED
  BY <1>1, ParserInvariant, PTL DEF Spec, NoNewHeightHidesNothing

-----------------------------------------------------------------------------
(* Which steps write the tables: one height, one release, or nothing.      *)
LEMMA StepsOfTheTables ==
    ASSUME IInv, [Next]_vars
    PROVE  \/ pc = "insert" /\ Insert
           \/ pc = "retry" /\ \E t \in Tx : ResolveParseQuarantine(t)
           \/ UNCHANGED dbVars
BY DEF Next, Progress, Failures, Environment, vars,
   ChainGrows, CollectorSaves, RegisterException, ReadFails, Crash, Start, BeginRun,
   ReplaySkips, ReplayErrs, ReplayResolves, ReplayUnacknowledged, ReplayDone,
   SourceBehind, NoNewHeight, ReadHeights, SourceIndexing, ParseHeight, ParseFails,
   CommitHeight, CommitUnacknowledged, InsertRolledBack, RunDone

(* A resolved entry is never reopened and its rows are never written again. *)
THEOREM ResolutionIsFinal == Spec => ResolvedIsFinal
<1> DEFINE Final == \A t \in Tx : quarantine[t] = "resolved" =>
                       quarantine'[t] = "resolved" /\ copies'[t] = copies[t]
<1>1. IInv /\ [Next]_vars => Final
  <2> SUFFICES ASSUME IInv, [Next]_vars, NEW t \in Tx, quarantine[t] = "resolved"
               PROVE  quarantine'[t] = "resolved" /\ copies'[t] = copies[t]
    OBVIOUS
  <2>1. CASE pc = "insert" /\ Insert
    <3>1. Height[t] <= synced /\ cur = synced + 1
      BY <2>1, ConstantTypes DEF IInv, TypeOK, ExactPrefix, RunIsInStep
    <3>2. t \notin Block(cur)
      BY <3>1, ConstantTypes DEF Block, IInv, TypeOK
    <3>3. QED
      BY <2>1, <3>2 DEF Insert, InsertRows, InsertQuarantines, HeldNow, FlaggedNow
  <2>2. CASE pc = "retry" /\ \E u \in Tx : ResolveParseQuarantine(u)
    BY <2>2 DEF ResolveParseQuarantine, IInv, TypeOK
  <2>3. CASE UNCHANGED dbVars
    BY <2>3 DEF dbVars
  <2>4. QED
    BY <2>1, <2>2, <2>3, StepsOfTheTables
<1>2. QED
  BY <1>1, ParserInvariant, PTL DEF Spec, ResolvedIsFinal

-----------------------------------------------------------------------------
(* An insert is the consumption of the next block. *)
LEMMA InsertConsumes ==
    ASSUME IInv, IInv', pc = "insert", Insert
    PROVE  Ledger!ConsumeBlock
<1>1. cur = synced + 1 /\ synced' = synced + 1 /\ synced < MaxHeight /\ synced \in Nat
  BY InsertKeepsPrefix, ConstantTypes DEF IInv, TypeOK, RunIsInStep
<1>2. [t \in Tx |-> StatusOf(t)]' \in [Tx -> Ledger!Status]
  <2>1. \A t \in Tx : StatusOf(t)' \in Ledger!Status
    BY ConstantTypes DEF IInv, TypeOK, ExactPrefix, StatusOf, Ledger!Status
  <2>2. QED
    BY <2>1
<1>3. ASSUME NEW t \in Tx, Height[t] = synced + 1
      PROVE  StatusOf(t)' \in {"stored", "held", "flagged"}
  <2>1. copies'[t] = IF quarantine'[t] = "pending" THEN 0 ELSE 1
    BY <1>1, <1>3 DEF IInv, ExactPrefix
  <2>2. QED
    BY <2>1 DEF StatusOf
<1>4. ASSUME NEW t \in Tx, Height[t] # synced + 1
      PROVE  StatusOf(t)' = StatusOf(t)
  BY <1>1, <1>4 DEF Insert, InsertRows, InsertQuarantines, HeldNow, FlaggedNow, Block, StatusOf
<1>5. QED
  BY <1>1, <1>2, <1>3, <1>4 DEF Ledger!ConsumeBlock

(* Resolving a quarantine is the release of a held transaction. *)
LEMMA ResolveReleases ==
    ASSUME IInv, NEW t \in Tx, ResolveParseQuarantine(t)
    PROVE  Ledger!Release(t)
<1>1. copies[t] = 0 /\ copies'[t] = 1 /\ quarantine'[t] = "resolved" /\ synced' = synced
  BY ConstantTypes DEF IInv, TypeOK, ExactPrefix, ResolveParseQuarantine
<1>2. \A u \in Tx \ {t} : copies'[u] = copies[u] /\ quarantine'[u] = quarantine[u]
  BY DEF IInv, TypeOK, ResolveParseQuarantine
<1>3. StatusOf(t) = "held" /\ StatusOf(t)' = "stored"
  BY <1>1 DEF StatusOf, ResolveParseQuarantine
<1>4. \A u \in Tx \ {t} : StatusOf(u)' = StatusOf(u)
  BY <1>2 DEF StatusOf
<1>5. QED
  BY <1>1, <1>3, <1>4 DEF Ledger!Release

(* The parser implements the abstract ledger, for every chain and every    *)
(* outcome of parsing: a block is consumed whole or not at all, and a held *)
(* transaction is released at most once.                                   *)
THEOREM ParserImplementsLedger == Spec => ImplementsLedger
<1>1. Init => Ledger!LedgerInit
  BY DEF Init, Ledger!LedgerInit, StatusOf
<1>2. IInv /\ IInv' /\ [Next]_vars => [Ledger!LedgerNext]_Ledger!LedgerVars
  <2> SUFFICES ASSUME IInv, IInv', [Next]_vars
               PROVE  [Ledger!LedgerNext]_Ledger!LedgerVars
    OBVIOUS
  <2>1. CASE pc = "insert" /\ Insert
    BY <2>1, InsertConsumes DEF Ledger!LedgerNext
  <2>2. CASE pc = "retry" /\ \E t \in Tx : ResolveParseQuarantine(t)
    BY <2>2, ResolveReleases DEF Ledger!LedgerNext
  <2>3. CASE UNCHANGED dbVars
    BY <2>3 DEF dbVars, Ledger!LedgerVars, StatusOf
  <2>4. QED
    BY <2>1, <2>2, <2>3, StepsOfTheTables
<1>3. QED
  BY <1>1, <1>2, ParserInvariant, PTL DEF Spec, ImplementsLedger, Ledger!LedgerSpec
=============================================================================
