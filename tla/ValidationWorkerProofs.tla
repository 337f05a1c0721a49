------------------------ MODULE ValidationWorkerProofs ------------------------
(***************************************************************************)
(* Machine-checked proofs about ValidationWorker, for every interval, every *)
(* width of a height, every placing of taxed and held transactions.        *)
(***************************************************************************)
EXTENDS ValidationWorker, TLAPS

USE DEF MainAt, WorkerAt

LEMMA ConstantTypes ==
    /\ MaxHeight \in Nat /\ Interval \in Nat \ {0} /\ Modulus \in Nat
    /\ MaxHeight < Modulus /\ Interval < Modulus
    /\ SameHeightTolerance \in Nat /\ MaxFaults \in Nat
    /\ \A h \in 1..MaxHeight : TaxedAt[h] \subseteq Pair /\ HeldAt[h] \subseteq Pair
BY ValidationAssumption

(* The same of the constants that are about pairs and their tokens.        *)
LEMMA PairConstants ==
    /\ \A h \in 1..MaxHeight : TaxesOf(h) \subseteq Token
    /\ \A p \in Pair : CreatedAt[p] \in Nat
BY ValidationAssumption DEF TaxesOf

(* A sum of uint64 heights either does not wrap, or wraps below its first  *)
(* term.                                                                   *)
LEMMA SumWraps ==
    ASSUME NEW a \in 0..(Modulus - 1)
    PROVE  /\ (a + Interval) % Modulus \in 0..(Modulus - 1)
           /\ a + Interval < Modulus => (a + Interval) % Modulus = a + Interval
           /\ a + Interval >= Modulus => (a + Interval) % Modulus < a
<1>1. CASE a + Interval < Modulus
  BY <1>1, ConstantTypes
<1>2. CASE a + Interval >= Modulus
  <2>1. (a + Interval) % Modulus = a + Interval - Modulus
    BY <1>2, ConstantTypes
  <2>2. QED
    BY <1>2, <2>1, ConstantTypes
<1>3. QED
  BY <1>1, <1>2, ConstantTypes

(* Zero is a boundary, and so is the height one interval after another. *)
LEMMA NextBoundary ==
    /\ 0 % Interval = 0
    /\ \A a \in Nat : a % Interval = 0 => (a + Interval) % Interval = 0
<1>1. Interval \in Nat \ {0}
  BY ConstantTypes
<1>2. 0 % Interval = 0
  BY <1>1
<1>3. ASSUME NEW a \in Nat, a % Interval = 0
      PROVE  (a + Interval) % Interval = 0
  BY <1>3, ConstantTypes
<1>4. QED
  BY <1>2, <1>3

(* The worker moves the cursor, or clears it, only from the height it has  *)
(* validated; failing it may do so or not.                                 *)
LEMMA AdvanceMoves ==
    ASSUME IInv, Advance \/ WorkerFails
    PROVE  /\ cursor' \in 0..(Modulus - 1) /\ cursor' % Interval = 0
           /\ cursor' # cursor => wpc = "advance" /\ cursor' \in {0, cursor + Interval}
<1> USE ConstantTypes
<1>1. cursor \in 0..(Modulus - 1) /\ cursor % Interval = 0 /\ cursor \in Nat
      /\ (wpc = "advance" => wHeight = cursor)
  BY DEF IInv, TypeOK, ThreadsAgree, CursorsAgree
<1>2. (cursor + Interval) % Interval = 0 /\ 0 % Interval = 0
  BY <1>1, NextBoundary
<1>3. CASE Advance
  <2> DEFINE next == (cursor + Interval) % Modulus
  <2>1. cursor' = IF next <= cursor THEN 0 ELSE next
    BY <1>1, <1>3 DEF Advance
  <2>2. next \in 0..(Modulus - 1) /\ (next > cursor => next = cursor + Interval)
    <3>1. next \in 0..(Modulus - 1)
      BY <1>1, SumWraps
    <3>2. cursor + Interval < Modulus => next = cursor + Interval
      BY <1>1, SumWraps
    <3>3. cursor + Interval >= Modulus => next < cursor
      BY <1>1, SumWraps
    <3> HIDE DEF next
    <3>4. QED
      BY <1>1, <3>1, <3>2, <3>3
  <2>3. wpc = "advance"
    BY <1>3 DEF Advance
  <2> HIDE DEF next
  <2>4. QED
    BY <1>1, <1>2, <2>1, <2>2, <2>3
<1>4. CASE WorkerFails
  <2>1. cursor' \in (IF wpc = "advance" THEN {cursor, 0} \cup
                       (IF cursor + Interval < Modulus THEN {cursor + Interval} ELSE {})
                     ELSE {cursor})
    BY <1>1, <1>4 DEF WorkerFails
  <2>2. CASE cursor' = cursor
    BY <1>1, <2>2
  <2>3. CASE cursor' = 0 /\ wpc = "advance"
    BY <1>2, <2>3
  <2>4. CASE cursor' = cursor + Interval /\ cursor + Interval < Modulus /\ wpc = "advance"
    BY <1>1, <1>2, <2>4
  <2>5. QED
    BY <2>1, <2>2, <2>3, <2>4
<1>5. QED
  BY <1>3, <1>4

(* Every step keeps the types. *)
LEMMA NextTypes ==
    ASSUME IInv, [Next]_vars
    PROVE  TypeOK'
<1> USE ConstantTypes
<1>1. CASE ChainGrows
  BY <1>1 DEF ChainGrows, dbVars, chanVars, mainVars, workVars, IInv, TypeOK, ThreadsAgree, CursorsAgree
<1>2. CASE Start
  BY <1>2 DEF Start, dbVars, chanVars, mainVars, workVars, IInv, TypeOK, ThreadsAgree, CursorsAgree
<1>3. CASE Crash
  <2>1. signal' \in BOOLEAN /\ triggered' \in BOOLEAN /\ wFailed' \in BOOLEAN
    BY <1>3, Zenon DEF Crash
  <2>2. QED
    BY <1>3, <2>1 DEF Crash, Fault, dbVars, IInv, TypeOK
<1>4. CASE \E q \in held : ReplayResolves(q)
  BY <1>4 DEF ReplayResolves, dbVars, chanVars, mainVars, workVars, IInv, TypeOK, ThreadsAgree, CursorsAgree
<1>5. CASE NoNewHeight
  BY <1>5 DEF NoNewHeight, SameHeightCount, dbVars, chanVars, mainVars, workVars, IInv, TypeOK, ThreadsAgree, CursorsAgree
<1>6. CASE BeginRun
  <2>1. triggered' \in BOOLEAN
    BY <1>6, Zenon DEF BeginRun
  <2>2. sameCount' \in 0..SameHeightTolerance + 1
    BY <1>6 DEF BeginRun, SameHeightCount, IInv, TypeOK
  <2>3. QED
    BY <1>6, <2>1, <2>2 DEF BeginRun, dbVars, chanVars, workVars, IInv, TypeOK
<1>7. CASE Record
  BY <1>7 DEF Record, dbVars, chanVars, mainVars, workVars, IInv, TypeOK, ThreadsAgree, CursorsAgree
<1>8. CASE Send
  BY <1>8 DEF Send, dbVars, chanVars, mainVars, workVars, IInv, TypeOK, ThreadsAgree, CursorsAgree
<1>9. CASE GetCursor
  BY <1>9 DEF GetCursor, dbVars, chanVars, mainVars, workVars, IInv, TypeOK, ThreadsAgree, CursorsAgree
<1>10. CASE SetCursor
  <2>1. local % Interval = 0 /\ local \in 0..(Modulus - 1)
    BY <1>10 DEF SetCursor, IsValidationHeight, IInv, TypeOK, ThreadsAgree, CursorsAgree
  <2>2. QED
    BY <1>10, <2>1 DEF SetCursor, chanVars, workVars, IInv, TypeOK
<1>11. CASE TriggerFails
  <2>1. mpc = "set" => local % Interval = 0 /\ local \in 0..(Modulus - 1)
    BY DEF IsValidationHeight, IInv, TypeOK, ThreadsAgree, CursorsAgree
  <2>2. cursor' \in 0..(Modulus - 1) /\ cursor' % Interval = 0
    BY <1>11, <2>1 DEF TriggerFails, IInv, TypeOK
  <2>3. mpc' \in MainAt /\ faults' \in 0..MaxFaults
    BY <1>11 DEF TriggerFails, Fault, IInv, TypeOK
  <2>4. QED
    BY <1>11, <2>2, <2>3 DEF TriggerFails, chanVars, workVars, IInv, TypeOK
<1>12. CASE CommitHeight
  BY <1>12, PairConstants DEF CommitHeight, dbVars, chanVars, mainVars, workVars, IInv, TypeOK, ThreadsAgree, CursorsAgree
<1>13. CASE HeightFails
  BY <1>13, PairConstants DEF HeightFails, Fault, dbVars, chanVars, mainVars, workVars, IInv, TypeOK, ThreadsAgree, CursorsAgree
<1>14. CASE RunDone
  BY <1>14 DEF RunDone, dbVars, chanVars, mainVars, workVars, IInv, TypeOK, ThreadsAgree, CursorsAgree
<1>15. CASE Park
  BY <1>15 DEF Park, dbVars, chanVars, mainVars, workVars, IInv, TypeOK, ThreadsAgree, CursorsAgree
<1>16. CASE WakeUp
  BY <1>16 DEF WakeUp, dbVars, chanVars, mainVars, workVars, IInv, TypeOK, ThreadsAgree, CursorsAgree
<1>17. CASE Take
  BY <1>17 DEF Take, dbVars, chanVars, mainVars, workVars, IInv, TypeOK, ThreadsAgree, CursorsAgree
<1>18. CASE ReadCursor
  BY <1>18 DEF ReadCursor, dbVars, chanVars, mainVars, workVars, IInv, TypeOK, ThreadsAgree, CursorsAgree
<1>19. CASE ReadPools \/ Conclude \/ \E p \in Pair : ComparePair(p)
  <2>1. CASE ReadPools
    <3>1. wDiffer' \subseteq Pair /\ wFailed' \in BOOLEAN
      BY <2>1, Zenon DEF ReadPools, Mismatched, Expected
    <3>2. QED
      BY <2>1, <3>1 DEF ReadPools, dbVars, chanVars, mainVars, IInv, TypeOK
  <2>2. CASE Conclude
    <3>1. passed' \subseteq 1..MaxHeight
      <4>1. wHeight \in 1..MaxHeight
        BY <2>2 DEF Conclude, IInv, TypeOK, ThreadsAgree, CursorsAgree
      <4>2. QED
        BY <2>2, <4>1 DEF Conclude, IInv, TypeOK
    <3>2. wpc' \in WorkerAt /\ wFailed' \in BOOLEAN
      BY <2>2 DEF Conclude
    <3>3. QED
      BY <2>2, <3>1, <3>2 DEF Conclude, dbVars, chanVars, mainVars, IInv, TypeOK
  <2>3. ASSUME NEW p \in Pair, ComparePair(p)
        PROVE  TypeOK'
    <3>1. wFailed' \in BOOLEAN
      BY <2>3, Zenon DEF ComparePair
    <3>2. wDiffer' \subseteq Pair /\ exempt' \subseteq Pair
      BY <2>3 DEF ComparePair, IInv, TypeOK
    <3>3. QED
      BY <2>3, <3>1, <3>2 DEF ComparePair, chanVars, mainVars, IInv, TypeOK
  <2>4. QED
    BY <1>19, <2>1, <2>2, <2>3
<1>20. CASE Advance
  <2>1. cursor' \in 0..(Modulus - 1) /\ cursor' % Interval = 0
    BY <1>20, AdvanceMoves DEF IInv, TypeOK
  <2>2. QED
    BY <1>20, <2>1 DEF Advance, chanVars, mainVars, IInv, TypeOK
<1>21. CASE WorkerFails
  <2>1. cursor' \in 0..(Modulus - 1) /\ cursor' % Interval = 0
    BY <1>21, AdvanceMoves DEF IInv, TypeOK
  <2>2. exempt' \subseteq Pair
    BY <1>21 DEF WorkerFails, IInv, TypeOK
  <2>3. wFailed' \in BOOLEAN
    BY <1>21, Zenon DEF WorkerFails
  <2>4. QED
    BY <1>21, <2>1, <2>2, <2>3 DEF WorkerFails, Fault, chanVars, mainVars, IInv, TypeOK
<1>22. CASE More
  BY <1>22 DEF More, dbVars, chanVars, mainVars, workVars, IInv, TypeOK, ThreadsAgree, CursorsAgree
<1>23. CASE UNCHANGED vars
  BY <1>23 DEF vars, dbVars, chanVars, mainVars, workVars, IInv, TypeOK, ThreadsAgree, CursorsAgree
<1>24. QED
  BY <1>1, <1>2, <1>3, <1>4, <1>5, <1>6, <1>7, <1>8, <1>9, <1>10, <1>11, <1>12, <1>13, <1>14, <1>15, <1>16, <1>17, <1>18, <1>19, <1>20, <1>21, <1>22, <1>23 DEF Next, Main, Worker, Faults

(* Every step keeps a recorded height awake. *)
LEMMA NextWakeup ==
    ASSUME IInv, [Next]_vars
    PROVE  NoLostWakeup'
<1> USE ConstantTypes
<1>1. CASE ChainGrows
  BY <1>1 DEF ChainGrows, dbVars, chanVars, mainVars, workVars, IInv, TypeOK, NoLostWakeup
<1>2. CASE Start
  BY <1>2 DEF Start, dbVars, chanVars, mainVars, workVars, IInv, TypeOK, NoLostWakeup
<1>3. CASE Crash
  BY <1>3 DEF Crash, dbVars, chanVars, mainVars, workVars, IInv, TypeOK, NoLostWakeup
<1>4. CASE \E q \in held : ReplayResolves(q)
  BY <1>4 DEF ReplayResolves, dbVars, chanVars, mainVars, workVars, IInv, TypeOK, NoLostWakeup
<1>5. CASE NoNewHeight
  BY <1>5 DEF NoNewHeight, dbVars, chanVars, mainVars, workVars, IInv, TypeOK, NoLostWakeup
<1>6. CASE BeginRun
  BY <1>6 DEF BeginRun, dbVars, chanVars, mainVars, workVars, IInv, TypeOK, NoLostWakeup
<1>7. CASE Record
  BY <1>7 DEF Record, dbVars, chanVars, mainVars, workVars, IInv, TypeOK, NoLostWakeup
<1>8. CASE Send
  BY <1>8 DEF Send, dbVars, chanVars, mainVars, workVars, IInv, TypeOK, NoLostWakeup
<1>9. CASE GetCursor
  BY <1>9 DEF GetCursor, dbVars, chanVars, mainVars, workVars, IInv, TypeOK, NoLostWakeup
<1>10. CASE SetCursor
  BY <1>10 DEF SetCursor, dbVars, chanVars, mainVars, workVars, IInv, TypeOK, NoLostWakeup
<1>11. CASE TriggerFails
  BY <1>11 DEF TriggerFails, dbVars, chanVars, mainVars, workVars, IInv, TypeOK, NoLostWakeup
<1>12. CASE CommitHeight
  BY <1>12 DEF CommitHeight, dbVars, chanVars, mainVars, workVars, IInv, TypeOK, NoLostWakeup
<1>13. CASE HeightFails
  BY <1>13 DEF HeightFails, dbVars, chanVars, mainVars, workVars, IInv, TypeOK, NoLostWakeup
<1>14. CASE RunDone
  BY <1>14 DEF RunDone, dbVars, chanVars, mainVars, workVars, IInv, TypeOK, NoLostWakeup
<1>15. CASE Park
  BY <1>15 DEF Park, dbVars, chanVars, mainVars, workVars, IInv, TypeOK, NoLostWakeup
<1>16. CASE WakeUp
  BY <1>16 DEF WakeUp, dbVars, chanVars, mainVars, workVars, IInv, TypeOK, NoLostWakeup
<1>17. CASE Take
  BY <1>17 DEF Take, dbVars, chanVars, mainVars, workVars, IInv, TypeOK, NoLostWakeup
<1>18. CASE ReadCursor
  BY <1>18 DEF ReadCursor, dbVars, chanVars, mainVars, workVars, IInv, TypeOK, NoLostWakeup
<1>19. CASE ReadPools \/ Conclude \/ \E p \in Pair : ComparePair(p)
  BY <1>19 DEF ReadPools, Conclude, ComparePair, dbVars, chanVars, mainVars, workVars, IInv, TypeOK, NoLostWakeup
<1>20. CASE Advance
  BY <1>20 DEF Advance, dbVars, chanVars, mainVars, workVars, IInv, TypeOK, NoLostWakeup
<1>21. CASE WorkerFails
  BY <1>21 DEF WorkerFails, dbVars, chanVars, mainVars, workVars, IInv, TypeOK, NoLostWakeup
<1>22. CASE More
  BY <1>22 DEF More, dbVars, chanVars, mainVars, workVars, IInv, TypeOK, NoLostWakeup
<1>23. CASE UNCHANGED vars
  BY <1>23 DEF vars, dbVars, chanVars, mainVars, workVars, IInv, TypeOK, NoLostWakeup
<1>24. QED
  BY <1>1, <1>2, <1>3, <1>4, <1>5, <1>6, <1>7, <1>8, <1>9, <1>10, <1>11, <1>12, <1>13, <1>14, <1>15, <1>16, <1>17, <1>18, <1>19, <1>20, <1>21, <1>22, <1>23 DEF Next, Main, Worker, Faults

(* Every step keeps the threads' copies of the cursor right. *)
LEMMA NextCursors ==
    ASSUME IInv, [Next]_vars
    PROVE  CursorsAgree'
<1> USE ConstantTypes
<1>1. CASE ChainGrows
  BY <1>1 DEF ChainGrows, dbVars, chanVars, mainVars, workVars, IInv, TypeOK, ThreadsAgree, CursorsAgree
<1>2. CASE Start
  BY <1>2 DEF Start, dbVars, chanVars, mainVars, workVars, IInv, TypeOK, ThreadsAgree, CursorsAgree
<1>3. CASE Crash
  BY <1>3 DEF Crash, dbVars, chanVars, mainVars, workVars, IInv, TypeOK, ThreadsAgree, CursorsAgree
<1>4. CASE \E q \in held : ReplayResolves(q)
  BY <1>4 DEF ReplayResolves, dbVars, chanVars, mainVars, workVars, IInv, TypeOK, ThreadsAgree, CursorsAgree
<1>5. CASE NoNewHeight
  BY <1>5 DEF NoNewHeight, dbVars, chanVars, mainVars, workVars, IInv, TypeOK, ThreadsAgree, CursorsAgree
<1>6. CASE BeginRun
  BY <1>6 DEF BeginRun, dbVars, chanVars, mainVars, workVars, IInv, TypeOK, ThreadsAgree, CursorsAgree
<1>7. CASE Record
  BY <1>7 DEF Record, dbVars, chanVars, mainVars, workVars, IInv, TypeOK, ThreadsAgree, CursorsAgree
<1>8. CASE Send
  BY <1>8 DEF Send, dbVars, chanVars, mainVars, workVars, IInv, TypeOK, ThreadsAgree, CursorsAgree
<1>9. CASE GetCursor
  BY <1>9 DEF GetCursor, dbVars, chanVars, mainVars, workVars, IInv, TypeOK, ThreadsAgree, CursorsAgree
<1>10. CASE SetCursor
  BY <1>10 DEF SetCursor, dbVars, chanVars, mainVars, workVars, IInv, TypeOK, ThreadsAgree, CursorsAgree
<1>11. CASE TriggerFails
  BY <1>11 DEF TriggerFails, dbVars, chanVars, mainVars, workVars, IInv, TypeOK, ThreadsAgree, CursorsAgree
<1>12. CASE CommitHeight
  BY <1>12 DEF CommitHeight, dbVars, chanVars, mainVars, workVars, IInv, TypeOK, ThreadsAgree, CursorsAgree
<1>13. CASE HeightFails
  BY <1>13 DEF HeightFails, dbVars, chanVars, mainVars, workVars, IInv, TypeOK, ThreadsAgree, CursorsAgree
<1>14. CASE RunDone
  BY <1>14 DEF RunDone, dbVars, chanVars, mainVars, workVars, IInv, TypeOK, ThreadsAgree, CursorsAgree
<1>15. CASE Park
  BY <1>15 DEF Park, dbVars, chanVars, mainVars, workVars, IInv, TypeOK, ThreadsAgree, CursorsAgree
<1>16. CASE WakeUp
  BY <1>16 DEF WakeUp, dbVars, chanVars, mainVars, workVars, IInv, TypeOK, ThreadsAgree, CursorsAgree
<1>17. CASE Take
  BY <1>17 DEF Take, dbVars, chanVars, mainVars, workVars, IInv, TypeOK, ThreadsAgree, CursorsAgree
<1>18. CASE ReadCursor
  BY <1>18 DEF ReadCursor, dbVars, chanVars, mainVars, workVars, IInv, TypeOK, ThreadsAgree, CursorsAgree
<1>19. CASE ReadPools \/ Conclude \/ \E p \in Pair : ComparePair(p)
  BY <1>19 DEF ReadPools, Conclude, ComparePair, dbVars, chanVars, mainVars, workVars, IInv, TypeOK, ThreadsAgree, CursorsAgree
<1>20. CASE Advance
  BY <1>20 DEF Advance, dbVars, chanVars, mainVars, workVars, IInv, TypeOK, ThreadsAgree, CursorsAgree
<1>21. CASE WorkerFails
  BY <1>21 DEF WorkerFails, dbVars, chanVars, mainVars, workVars, IInv, TypeOK, ThreadsAgree, CursorsAgree
<1>22. CASE More
  BY <1>22 DEF More, dbVars, chanVars, mainVars, workVars, IInv, TypeOK, ThreadsAgree, CursorsAgree
<1>23. CASE UNCHANGED vars
  BY <1>23 DEF vars, dbVars, chanVars, mainVars, workVars, IInv, TypeOK, ThreadsAgree, CursorsAgree
<1>24. QED
  BY <1>1, <1>2, <1>3, <1>4, <1>5, <1>6, <1>7, <1>8, <1>9, <1>10, <1>11, <1>12, <1>13, <1>14, <1>15, <1>16, <1>17, <1>18, <1>19, <1>20, <1>21, <1>22, <1>23 DEF Next, Main, Worker, Faults

-----------------------------------------------------------------------------
(* Heights below the cursor of the main thread have their rows for good: a *)
(* step only stores rows of the next height, and only takes entries out of *)
(* quarantine below it.                                                    *)
LEMMA MismatchesShrink ==
    ASSUME IInv, [Next]_vars
    PROVE  /\ synced <= synced'
           /\ \A x \in Nat, p \in Pair : x <= synced /\ <<x, p>> \in held' => <<x, p>> \in held
           /\ \A b \in 1..MaxHeight : b <= synced => /\ Mismatched(b)' \subseteq Mismatched(b)
                                                     /\ Missing(b)' \subseteq Missing(b)
<1> USE ConstantTypes, PairConstants
<1>1. synced \in Nat
  BY DEF IInv, TypeOK
<1>2. CASE CommitHeight
  <2>1. /\ synced' = synced + 1
        /\ held' = held \cup {<<synced', p>> : p \in HeldAt[synced']}
    BY <1>2 DEF CommitHeight
  <2>2. \A x \in Nat, p \in Pair : x <= synced /\ <<x, p>> \in held' => <<x, p>> \in held
    BY <1>1, <2>1
  <2>3. ASSUME NEW b \in 1..MaxHeight, b <= synced
        PROVE  Mismatched(b)' \subseteq Mismatched(b) /\ Missing(b)' \subseteq Missing(b)
    <3>1. \A x \in 1..b : x \in Nat /\ x <= synced /\ x <= synced'
      BY <1>1, <2>1, <2>3
    <3>2. Mismatched(b)' \subseteq Mismatched(b)
      BY <2>2, <3>1 DEF Mismatched, Expected
    <3>3. \A p \in Expected(b) : CreatedAt[p] \in Nat /\ CreatedAt[p] <= synced
      BY <1>1, <2>3 DEF Expected
    <3>4. Missing(b)' \subseteq Missing(b)
      BY <2>2, <3>3 DEF Missing, Expected
    <3>5. QED
      BY <3>2, <3>4
  <2>4. QED
    BY <1>1, <2>1, <2>2, <2>3
<1>3. CASE synced' = synced /\ held' \subseteq held
  BY <1>1, <1>3 DEF Mismatched, Missing, Expected
<1>4. QED
  BY <1>2, <1>3 DEF Next, Main, Worker, Faults, vars, dbVars, ChainGrows, Start, Crash,
     ReplayResolves, NoNewHeight, BeginRun, Record, Send, GetCursor, SetCursor, TriggerFails,
     HeightFails, RunDone, Park, WakeUp, Take, ReadCursor, ReadPools, ComparePair, Conclude,
     Advance, WorkerFails, More

(* Exemptions are for good. *)
LEMMA ExemptionsGrow ==
    ASSUME IInv, [Next]_vars
    PROVE  exempt \subseteq exempt'
BY DEF Next, Main, Worker, Faults, vars, dbVars, ChainGrows, Start, Crash, ReplayResolves,
   NoNewHeight, BeginRun, Record, Send, GetCursor, SetCursor, TriggerFails, CommitHeight,
   HeightFails, RunDone, Park, WakeUp, Take, ReadCursor, ReadPools, ComparePair, Conclude,
   Advance, WorkerFails, More

(* Only pairs that were parsed are found to differ, and only these are     *)
(* exempted; while the worker compares, later commits do not add to what   *)
(* it has read.                                                            *)
LEMMA NextRows ==
    ASSUME IInv, [Next]_vars
    PROVE  RowsAgree'
<1> USE ConstantTypes
<1> DEFINE Parsed(p) == CreatedAt[p] <= synced /\ <<CreatedAt[p], p>> \notin held
<1>1. \A p \in Pair : Parsed(p) => Parsed(p)'
  <2>1. synced \in Nat /\ synced' \in Nat /\ synced <= synced'
    BY NextTypes, MismatchesShrink DEF IInv, TypeOK
  <2>2. QED
    BY <2>1, PairConstants, MismatchesShrink
<1>2. \A p \in exempt \cup wDiffer : p \in Pair /\ Parsed(p)
  BY DEF IInv, TypeOK, ThreadsAgree, RowsAgree
<1>3. wpc \in {"validate", "compare"} => wHeight \in 1..MaxHeight /\ wHeight <= synced
  BY DEF IInv, TypeOK, ThreadsAgree, CursorsAgree
<1> HIDE DEF Parsed
<1>4. CASE ReadPools
  <2>1. /\ wHeight' = wHeight /\ synced' = synced /\ held' = held /\ exempt' = exempt
        /\ wDiffer' = Mismatched(wHeight) \ (exempt \cup Missing(wHeight))
        /\ wFailed' = (Missing(wHeight) \ exempt # {})
    BY <1>4 DEF ReadPools, dbVars
  <2>2. Mismatched(wHeight)' = Mismatched(wHeight) /\ Missing(wHeight)' = Missing(wHeight)
    BY <2>1 DEF Mismatched, Missing, Expected
  <2>3. Missing(wHeight) \cap exempt = {}
    BY <1>2 DEF Missing, Parsed
  <2>4. \A p \in wDiffer' : p \in Pair /\ Parsed(p)'
    <3>1. \A p \in Mismatched(wHeight) \ Missing(wHeight) : p \in Pair /\ Parsed(p)
      <4>1. wHeight \in 1..MaxHeight /\ wHeight <= synced
        BY <1>3, <1>4 DEF ReadPools
      <4>2. QED
        BY <4>1, PairConstants DEF Mismatched, Missing, Expected, Parsed, IInv, TypeOK
    <3>2. QED
      BY <1>1, <2>1, <3>1
  <2>5. ~wFailed' => Missing(wHeight)' = {} /\ Mismatched(wHeight)' \subseteq exempt' \cup wDiffer'
    BY <2>1, <2>2, <2>3
  <2>6. \A p \in exempt' \cup wDiffer' : Parsed(p)'
    BY <1>1, <1>2, <2>1, <2>4
  <2>7. QED
    BY <2>1, <2>5, <2>6 DEF RowsAgree, Parsed
<1>5. ASSUME NEW p \in Pair, ComparePair(p)
      PROVE  RowsAgree'
  <2>1. /\ wHeight' = wHeight /\ synced' = synced /\ held' = held /\ p \in wDiffer
        /\ wDiffer' = wDiffer \ {p} /\ wpc = "compare" /\ wpc' = "compare"
        /\ exempt' = IF TokenOf[p] \in flagged THEN exempt \cup {p} ELSE exempt
        /\ ~wFailed' => ~wFailed /\ TokenOf[p] \in flagged
    BY <1>5 DEF ComparePair
  <2>2. Mismatched(wHeight)' = Mismatched(wHeight) /\ Missing(wHeight)' = Missing(wHeight)
    BY <2>1 DEF Mismatched, Missing, Expected
  <2>3. exempt' \cup wDiffer' \subseteq exempt \cup wDiffer
    BY <2>1
  <2>4. ~wFailed' => exempt' \cup wDiffer' = exempt \cup wDiffer
    BY <2>1
  <2>5. ~wFailed => Mismatched(wHeight) \subseteq exempt \cup wDiffer /\ Missing(wHeight) = {}
    BY <2>1 DEF IInv, ThreadsAgree, RowsAgree
  <2>6. \A r \in exempt' \cup wDiffer' : Parsed(r)'
    BY <1>1, <1>2, <2>3
  <2>7. QED
    BY <2>1, <2>2, <2>4, <2>5, <2>6 DEF RowsAgree, Parsed
<1>6. CASE WorkerFails
  <2>1. exempt' \subseteq exempt \cup wDiffer /\ wDiffer' = {} /\ wpc' = "more"
    BY <1>6 DEF WorkerFails
  <2>2. \A p \in exempt' \cup wDiffer' : Parsed(p)'
    BY <1>1, <1>2, <2>1
  <2>3. QED
    BY <2>1, <2>2 DEF RowsAgree, Parsed
<1>7. CASE Crash
  <2>1. exempt' = exempt /\ wDiffer' = {} /\ wpc' = "off"
    BY <1>7 DEF Crash, dbVars
  <2>2. \A p \in exempt' \cup wDiffer' : Parsed(p)'
    BY <1>1, <1>2, <2>1
  <2>3. QED
    BY <2>1, <2>2 DEF RowsAgree, Parsed
<1>8. CASE /\ exempt' = exempt /\ wDiffer' = wDiffer /\ wFailed' = wFailed
           /\ wpc' = "compare" => wpc = "compare" /\ wHeight' = wHeight
  <2>1. \A p \in exempt' \cup wDiffer' : Parsed(p)'
    BY <1>1, <1>2, <1>8
  <2>2. ASSUME wpc' = "compare", ~wFailed'
        PROVE  Mismatched(wHeight)' \subseteq exempt' \cup wDiffer' /\ Missing(wHeight)' = {}
    <3>1. /\ wpc = "compare" /\ ~wFailed /\ wHeight' = wHeight
          /\ wHeight \in 1..MaxHeight /\ wHeight <= synced
      BY <1>3, <1>8, <2>2
    <3>2. Mismatched(wHeight) \subseteq exempt \cup wDiffer /\ Missing(wHeight) = {}
      BY <3>1 DEF IInv, ThreadsAgree, RowsAgree
    <3>3. Mismatched(wHeight)' \subseteq Mismatched(wHeight) /\ Missing(wHeight)' \subseteq Missing(wHeight)
      <4>1. \A b \in 1..MaxHeight : b <= synced => /\ Mismatched(b)' \subseteq Mismatched(b)
                                                   /\ Missing(b)' \subseteq Missing(b)
        BY MismatchesShrink
      <4>2. Mismatched(wHeight)' = {p \in Expected(wHeight) : \E x \in 1..wHeight :
                                       \/ x <= synced' /\ p \in TaxedAt[x]
                                       \/ <<x, p>> \in held'}
        BY <3>1 DEF Mismatched, Expected
      <4>3. Missing(wHeight)' = {p \in Expected(wHeight) : <<CreatedAt[p], p>> \in held'}
        BY <3>1 DEF Missing, Expected
      <4>4. QED
        BY <3>1, <4>1, <4>2, <4>3 DEF Mismatched, Missing, Expected
    <3>4. QED
      BY <1>8, <3>2, <3>3
  <2>3. QED
    BY <2>1, <2>2 DEF RowsAgree, Parsed
<1>9. CASE Conclude
  <2>1. exempt' = exempt /\ wDiffer' = wDiffer /\ wpc' # "compare"
    BY <1>9 DEF Conclude, dbVars
  <2>2. \A p \in exempt' \cup wDiffer' : Parsed(p)'
    BY <1>1, <1>2, <2>1
  <2>3. QED
    BY <2>1, <2>2 DEF RowsAgree, Parsed
<1>10. QED
  BY <1>4, <1>5, <1>6, <1>7, <1>8, <1>9 DEF Next, Main, Worker, Faults, vars, dbVars, workVars,
     ChainGrows, Start, ReplayResolves, NoNewHeight, BeginRun, Record, Send, GetCursor,
     SetCursor, TriggerFails, CommitHeight, HeightFails, RunDone, Park, WakeUp, Take,
     ReadCursor, Advance, More

(* Every step keeps what passed validation correct. *)
LEMMA NextPassed ==
    ASSUME IInv, [Next]_vars
    PROVE  PassedStaysCorrect'
<1> USE ConstantTypes
<1> DEFINE Correct(b) == b <= synced /\ Mismatched(b) \subseteq exempt /\ Missing(b) = {}
<1>1. ASSUME NEW b \in 1..MaxHeight, Correct(b)
      PROVE  Correct(b)'
  <2>1. b <= synced'
    <3>1. synced \in Nat /\ synced' \in Nat /\ synced <= synced' /\ b <= synced
      BY <1>1, NextTypes, MismatchesShrink DEF IInv, TypeOK
    <3>2. QED
      BY <3>1
  <2>2. Mismatched(b)' \subseteq exempt'
    BY <1>1, MismatchesShrink, ExemptionsGrow
  <2>3. Missing(b)' = {}
    BY <1>1, MismatchesShrink
  <2>4. QED
    BY <2>1, <2>2, <2>3
<1>2. \A b \in passed : b \in 1..MaxHeight /\ Correct(b)
  BY DEF IInv, TypeOK, PassedStaysCorrect
<1>3. \A b \in passed' \ passed : b \in 1..MaxHeight /\ Correct(b)
  <2>1. CASE Conclude
    <3>1. ASSUME ~wFailed PROVE wHeight \in 1..MaxHeight /\ Correct(wHeight)
      BY <2>1, <3>1 DEF Conclude, IInv, TypeOK, ThreadsAgree, CursorsAgree, RowsAgree
    <3>2. QED
      BY <2>1, <3>1 DEF Conclude
  <2>2. CASE passed' = passed
    BY <2>2
  <2>3. QED
    BY <2>1, <2>2 DEF Next, Main, Worker, Faults, vars, ChainGrows, Start, Crash,
       ReplayResolves, NoNewHeight, BeginRun, Record, Send, GetCursor, SetCursor, TriggerFails,
       CommitHeight, HeightFails, RunDone, Park, WakeUp, Take, ReadCursor, ReadPools,
       ComparePair, Advance, WorkerFails, More
<1> HIDE DEF Correct
<1>4. \A b \in passed' : Correct(b)'
  BY <1>1, <1>2, <1>3
<1>5. QED
  BY <1>4 DEF PassedStaysCorrect, Correct

LEMMA InitIInv == Init => IInv
<1> SUFFICES ASSUME Init PROVE IInv
  OBVIOUS
<1>1. signal \in BOOLEAN /\ triggered \in BOOLEAN /\ wFailed \in BOOLEAN
  BY Zenon DEF Init
<1>2. cursor \in 0..(Modulus - 1) /\ cursor % Interval = 0
  BY ConstantTypes, NextBoundary DEF Init
<1>3. TypeOK
  BY <1>1, <1>2, ConstantTypes DEF Init, TypeOK
<1>4. NoLostWakeup /\ PassedStaysCorrect /\ ThreadsAgree
  BY DEF Init, NoLostWakeup, PassedStaysCorrect, ThreadsAgree, CursorsAgree, RowsAgree
<1>5. QED
  BY <1>3, <1>4 DEF IInv

-----------------------------------------------------------------------------
(* The strengthened invariant: the worker's copy of the cursor is the      *)
(* cursor, and the main thread writes the cursor only while the worker has *)
(* nothing to write.                                                       *)
THEOREM ValidationInvariant == Spec => []IInv
<1>1. Init => IInv
  BY InitIInv
<1>2. IInv /\ [Next]_vars => IInv'
  BY NextTypes, NextWakeup, NextCursors, NextRows, NextPassed DEF IInv, ThreadsAgree
<1>3. QED
  BY <1>1, <1>2, PTL DEF Spec

(* Type correctness; the cursor is a uint64 and a boundary.                *)
THEOREM ValidationTypes == Spec => []TypeOK
<1>1. IInv => TypeOK
  BY DEF IInv
<1>2. QED
  BY <1>1, ValidationInvariant, PTL

(* A height recorded for the worker never waits without a wakeup.          *)
THEOREM WakeupsAreNotLost == Spec => []NoLostWakeup
<1>1. IInv => NoLostWakeup
  BY DEF IInv
<1>2. QED
  BY <1>1, ValidationInvariant, PTL

(* What was validated stays validated.                                     *)
THEOREM ValidatedDataStayCorrect == Spec => []PassedStaysCorrect
<1>1. IInv => PassedStaysCorrect
  BY DEF IInv
<1>2. QED
  BY <1>1, ValidationInvariant, PTL

(* Once set, the cursor moves only past validated heights, although two    *)
(* threads write it without a lock.                                        *)
THEOREM CursorIsGuarded == Spec => CursorFollowsValidation
<1> DEFINE Moves == cursor' # cursor /\ cursor # 0 =>
                        cursor \in passed /\ cursor' \in {0, cursor + Interval}
<1>1. IInv /\ [Next]_vars => Moves
  <2> SUFFICES ASSUME IInv, [Next]_vars, cursor' # cursor, cursor # 0
               PROVE  cursor \in passed /\ cursor' \in {0, cursor + Interval}
    OBVIOUS
  <2>1. CASE Advance \/ WorkerFails
    <3>1. wpc = "advance" /\ cursor' \in {0, cursor + Interval}
      BY <2>1, AdvanceMoves
    <3>2. QED
      BY <3>1 DEF IInv, ThreadsAgree, CursorsAgree
  <2>2. CASE SetCursor \/ TriggerFails
    BY <2>2 DEF SetCursor, TriggerFails, IInv, ThreadsAgree, CursorsAgree
  <2>3. CASE cursor' = cursor
    BY <2>3
  <2>4. QED
    BY <2>1, <2>2, <2>3 DEF Next, Main, Worker, Faults, vars, dbVars, ChainGrows, Start, Crash,
       ReplayResolves, NoNewHeight, BeginRun, Record, Send, GetCursor, CommitHeight,
       HeightFails, RunDone, Park, WakeUp, Take, ReadCursor, ReadPools,
       ComparePair, Conclude, More
<1>2. QED
  BY <1>1, ValidationInvariant, PTL DEF Spec, CursorFollowsValidation
=============================================================================
