--------------------------- MODULE LpHistoryProofs ---------------------------
(***************************************************************************)
(* The liquidity history of PoolTables is exact, for any tables, any       *)
(* batches and any restarts: its rows are the sums of the parsed rows that *)
(* came in time.                                                           *)
(***************************************************************************)
EXTENDS PoolTablesProofs

Top == LastLp(lp)

(* The history: rows of pairs, at heights of the chain. *)
LpRows ==
    \A r \in lp : /\ r = [height |-> r.height, pair |-> r.pair, amt |-> r.amt]
                  /\ r.height \in 1..tip /\ r.pair \in Pair /\ r.amt \in Int \X Int \X {0}

(* The task: at work, its position is the end of the history. *)
Task ==
    /\ task = [at |-> task.at, pos |-> task.pos, latest |-> task.latest, batch |-> task.batch]
    /\ task.at \in {"down", "idle", "read", "write"}
    /\ task.pos \in 0..Top
    /\ task.at \in {"read", "write"} => task.pos = Top

(* Rows come late only at heights the history has passed. *)
LateRows == \A i \in hist.late : rows[i].height <= Top

(* The sums the task starts from are those of all rows it passed. *)
Latest ==
    task.at \in {"read", "write"} =>
        \A p \in Pair : LH!Of(task.latest, p) = LH!Liquidity(LH!BatchSum(InTime, p, Top))

(* A batch is all of what was there, from the end of the history to its    *)
(* own, when it was read; what was stored behind it since then is late.    *)
Batch ==
    task.at = "write" =>
        /\ task.batch # {}
        /\ task.batch = {i \in 1..hist.read : rows[i].height \in Top + 1..Max(LH!Heights(task.batch))}
        /\ \A i \in hist.read + 1..Len(rows) : rows[i].height <= Top => i \in hist.late

LpInv == LpRows /\ Task /\ LateRows /\ Latest /\ Batch /\ LpHistoryIsExact

----------------------------------------------------------------------------
(* The greatest of some heights. *)
LEMMA Greatest ==
    ASSUME NEW n \in Nat, NEW S \in SUBSET (0..n), S # {}
    PROVE  /\ Max(S) \in S /\ \A x \in S : x <= Max(S)
           /\ LH!Max(S) = Max(S)
<1> DEFINE T == {n - x : x \in S}
           R == {pq \in Nat \X Nat : pq[1] < pq[2]}
<1>0. \A x \in S : x \in Nat /\ n - x \in Nat
  OBVIOUS
<1>1. T \subseteq Nat /\ T # {}
  BY <1>0
<1>2. \E x \in T : \A y \in T : ~(<<y, x>> \in R)
  <2>1. OpToRel(<, Nat) = R
    BY DEF OpToRel
  <2>2. IsWellFoundedOn(R, Nat)
    BY <2>1, NatLessThanWellFounded
  <2> HIDE DEF T, R
  <2> QED  BY <1>1, <2>2, WFMin
<1>3. PICK x \in S : \A y \in S : ~(n - y < n - x)
  <2>1. PICK t \in T : \A u \in T : ~(<<u, t>> \in R)
    BY <1>2
  <2>2. PICK x \in S : t = n - x
    OBVIOUS
  <2>3. \A y \in S : ~(n - y < n - x)
    <3> TAKE y \in S
    <3>1. n - y \in T /\ n - y \in Nat /\ n - x \in Nat
      BY <1>0
    <3>2. ~(<<n - y, n - x>> \in R)
      BY <2>1, <2>2, <3>1
    <3> QED  BY <3>1, <3>2
  <2> QED  BY <2>3
<1>4. \A y \in S : x >= y
  BY <1>0, <1>3
<1>5. Max(S) \in S /\ \A y \in S : Max(S) >= y
  BY <1>4 DEF Max
<1> QED  BY <1>5 DEF Max, LH!Max

LEMMA LastLpIs ==
    ASSUME NEW t, NEW n \in Nat, \A r \in t : r.height \in 1..n
    PROVE  /\ LastLp(t) \in 0..n /\ \A r \in t : r.height <= LastLp(t)
           /\ LastLp(t) = 0 \/ \E r \in t : r.height = LastLp(t)
<1> DEFINE S == {0} \cup {r.height : r \in t}
<1>1. S \in SUBSET (0..n) /\ S # {}
  OBVIOUS
<1> HIDE DEF S
<1>2. Max(S) \in S /\ \A x \in S : x <= Max(S)
  BY <1>1, Greatest
<1> QED  BY <1>1, <1>2 DEF LastLp, S

LEMMA TopIs ==
    ASSUME Typed, LpRows
    PROVE  /\ tip \in Nat /\ Top \in 0..tip /\ Top \in Nat
           /\ \A r \in lp : r.height \in 1..tip /\ r.height <= Top
           /\ Top = 0 \/ \E r \in lp : r.height = Top
<1>1. tip \in Nat
  BY BoundsAssumption DEF Typed, Chain
<1>2. \A r \in lp : r.height \in 1..tip
  BY DEF LpRows
<1> QED  BY <1>1, <1>2, LastLpIs DEF Top

(* The sums of a batch. *)
UpTo(I, p, h) == {i \in I : rows[i].pair = p /\ rows[i].height <= h}

LEMMA BatchSumIs ==
    ASSUME NEW I, NEW p, NEW h
    PROVE  LH!BatchSum(I, p, h) = Total(Amounts(rows), UpTo(I, p, h))
BY SameSums, SameTotals DEF LH!BatchSum, UpTo

LEMMA BatchSumType ==
    ASSUME Typed, NEW I \in SUBSET DOMAIN rows, NEW p, NEW h
    PROVE  LH!BatchSum(I, p, h) \in Triple
<1>1. UpTo(I, p, h) \in SUBSET DOMAIN rows /\ rows \in Seq(RowType)
  BY DEF UpTo, Typed, Table
<1> QED  BY <1>1, BatchSumIs, RowsFinite

(* Equal sets of rows have equal sums, also in a longer table. *)
LEMMA BatchSumSame ==
    ASSUME NEW I, NEW J, NEW p, NEW h, NEW k, UpTo(I, p, h) = UpTo(J, p, k)
    PROVE  LH!BatchSum(I, p, h) = LH!BatchSum(J, p, k)
BY BatchSumIs

(* The assets of a sum are the sums of the assets. *)
LEMMA LiquiditySum ==
    ASSUME NEW a \in Triple, NEW b \in Triple
    PROVE  /\ LH!Liquidity(Plus(a, b)) = LH!Plus(LH!Liquidity(a), LH!Liquidity(b))
           /\ LH!Liquidity(a) \in Int \X Int \X {0}
           /\ LH!Liquidity(Zero) = Zero
           /\ LH!Plus(Zero, LH!Liquidity(a)) = LH!Liquidity(a) /\ LH!Plus(LH!Liquidity(a), Zero) = LH!Liquidity(a)
<1>1. a[1] \in Int /\ a[2] \in Int
  BY DEF Triple
<1>2. Plus(a, b)[1] = a[1] + b[1] /\ Plus(a, b)[2] = a[2] + b[2]
  BY DEF Plus
<1>3. LH!Liquidity(a) = <<a[1], a[2], 0>> /\ LH!Liquidity(b) = <<b[1], b[2], 0>>
  BY DEF LH!Liquidity
<1>4. LH!Plus(<<a[1], a[2], 0>>, <<b[1], b[2], 0>>) = <<a[1] + b[1], a[2] + b[2], 0>>
  BY DEF LH!Plus
<1>5. LH!Liquidity(Plus(a, b)) = LH!Plus(LH!Liquidity(a), LH!Liquidity(b))
  BY <1>2, <1>3, <1>4 DEF LH!Liquidity
<1>6. LH!Liquidity(Zero) = Zero
  BY DEF LH!Liquidity, Zero
<1>7. LH!Plus(Zero, <<a[1], a[2], 0>>) = <<a[1], a[2], 0>> /\ LH!Plus(<<a[1], a[2], 0>>, Zero) = <<a[1], a[2], 0>>
  BY <1>1 DEF LH!Plus, Zero
<1> QED  BY <1>1, <1>3, <1>5, <1>6, <1>7

(* A batch that follows the history continues its sums. *)
LEMMA Continued ==
    ASSUME Typed, NEW I \in SUBSET DOMAIN rows, NEW J \in SUBSET DOMAIN rows, NEW K \in SUBSET DOMAIN rows,
           NEW p, NEW g, NEW h, UpTo(I, p, g) \cap UpTo(J, p, h) = {},
           UpTo(K, p, h) = UpTo(I, p, g) \cup UpTo(J, p, h)
    PROVE  LH!BatchSum(K, p, h) = Plus(LH!BatchSum(I, p, g), LH!BatchSum(J, p, h))
<1> DEFINE S == UpTo(I, p, g)
           T == UpTo(J, p, h)
<1>1. S \in SUBSET DOMAIN rows /\ T \in SUBSET DOMAIN rows /\ S \cup T \in SUBSET DOMAIN rows
  BY DEF UpTo
<1>2. rows \in Seq(RowType)
  BY DEF Typed, Table
<1>3. S \cap T = {} /\ UpTo(K, p, h) = S \cup T
  OBVIOUS
<1>4. LH!BatchSum(I, p, g) = Total(Amounts(rows), S) /\ LH!BatchSum(J, p, h) = Total(Amounts(rows), T)
  BY BatchSumIs
<1> HIDE DEF S, T
<1>5. IsFiniteSet(S) /\ IsFiniteSet(T) /\ \A i \in S \cup T : Amounts(rows)[i] \in Triple
  BY <1>1, <1>2, RowsFinite
<1>6. Total(Amounts(rows), S \cup T) = Plus(Total(Amounts(rows), S), Total(Amounts(rows), T))
  BY <1>3, <1>5, TotalUnion
<1> QED  BY <1>3, <1>4, <1>6, BatchSumIs

(* The sums of old rows stay what they are. *)
LEMMA SumsKept ==
    ASSUME Typed, [Next]_vars, NEW I \in SUBSET DOMAIN rows, NEW J, NEW p, NEW h,
           {i \in J : rows'[i].pair = p /\ rows'[i].height <= h} = UpTo(I, p, h)
    PROVE  LH!BatchSum(J, p, h)' = LH!BatchSum(I, p, h)
<1> DEFINE S == UpTo(I, p, h)
<1>1. LH!BatchSum(J, p, h)' = Total(Amounts(rows'), {i \in J : rows'[i].pair = p /\ rows'[i].height <= h})
  BY SameSums, SameTotals DEF LH!BatchSum
<1>2. LH!BatchSum(I, p, h) = Total(Amounts(rows), S)
  BY BatchSumIs
<1>3. S \in SUBSET DOMAIN rows /\ rows \in Seq(RowType)
  BY DEF UpTo, Typed, Table
<1>4. \A i \in S : Amounts(rows')[i] = Amounts(rows)[i]
  BY <1>3, Appends DEF Amounts
<1> HIDE DEF S
<1>5. Total(Amounts(rows'), S) = Total(Amounts(rows), S)
  BY <1>3, <1>4, RowsFinite, TotalSame
<1> QED  BY <1>1, <1>2, <1>5 DEF S

(* What comes late in a step that leaves the history alone: what is stored *)
(* at a height it has passed.                                              *)
LEMMA LateKept ==
    ASSUME Typed, [Next]_vars, lp' = lp
    PROVE  hist'.late = hist.late \cup {i \in DOMAIN rows' : i > Len(rows) /\ rows'[i].height <= Top}
<1>1. rows \in Seq(RowType) /\ rows' \in Seq(RowType)
  BY Appends
<1>2. CASE Remember
  BY <1>2 DEF Remember, Late, Top
<1>3. CASE UNCHANGED vars
  <2>1. {i \in DOMAIN rows' : i > Len(rows) /\ rows'[i].height <= Top} = {}
    BY <1>1, <1>3 DEF vars
  <2> QED  BY <2>1, <1>3 DEF vars
<1> QED  BY <1>2, <1>3, Remembers

LEMMA InTimeKept ==
    ASSUME Typed, LpRows, [Next]_vars, lp' = lp
    PROVE  /\ InTime \subseteq InTime' /\ InTime' \cap DOMAIN rows = InTime
           /\ \A i \in InTime' \ DOMAIN rows : i \in DOMAIN rows' /\ rows'[i].height > Top
           /\ InTime \in SUBSET DOMAIN rows
<1>1. /\ rows \in Seq(RowType) /\ rows' \in Seq(RowType) /\ DOMAIN rows \subseteq DOMAIN rows'
      /\ DOMAIN rows = 1..Len(rows) /\ DOMAIN rows' = 1..Len(rows')
  BY Appends
<1>2. hist'.late = hist.late \cup {i \in DOMAIN rows' : i > Len(rows) /\ rows'[i].height <= Top}
  BY LateKept
<1>3. InTime = DOMAIN rows \ hist.late /\ InTime' = DOMAIN rows' \ hist'.late
  BY DEF InTime
<1>4. \A i \in DOMAIN rows : i \in hist'.late <=> i \in hist.late
  BY <1>1, <1>2
<1>5. ASSUME NEW i \in InTime' \ DOMAIN rows PROVE i \in DOMAIN rows' /\ rows'[i].height > Top
  <2>1. i \in DOMAIN rows' /\ i > Len(rows) /\ i \notin hist'.late
    BY <1>1, <1>3, <1>5
  <2>2. rows'[i].height \in Int
    <3>1. rows'[i] \in RowType
      BY <1>1, <2>1
    <3> QED  BY <3>1 DEF RowType
  <2>3. Top \in Int
    BY TopIs
  <2> QED  BY <1>2, <2>1, <2>2, <2>3
<1> QED  BY <1>1, <1>3, <1>4, <1>5

(* A step that leaves the history alone leaves all its sums. *)
LEMMA KeepsSums ==
    ASSUME Typed, LpInv, [Next]_vars, lp' = lp
    PROVE  /\ Top' = Top /\ Top \in 0..tip /\ Top \in Nat /\ LpRows' /\ LateRows' /\ LpHistoryIsExact'
           /\ \A p \in Pair : LH!BatchSum(InTime, p, Top)' = LH!BatchSum(InTime, p, Top)
<1>1. /\ Top' = Top /\ tip \in Nat /\ tip' \in Nat /\ tip <= tip' /\ Top \in 0..tip /\ Top \in Nat
      /\ \A r \in lp : r.height \in 1..tip /\ r.height <= Top
  BY PoolKept, TopIs DEF Top, LpInv
<1>2. /\ rows \in Seq(RowType) /\ rows' \in Seq(RowType) /\ DOMAIN rows \subseteq DOMAIN rows'
      /\ \A i \in DOMAIN rows : rows'[i] = rows[i]
      /\ DOMAIN rows = 1..Len(rows) /\ DOMAIN rows' = 1..Len(rows') /\ Len(rows) \in Nat /\ Len(rows') \in Nat
      /\ Len(rows) <= Len(rows')
  BY Appends
<1>3. /\ InTime \subseteq InTime' /\ InTime' \cap DOMAIN rows = InTime
      /\ \A i \in InTime' \ DOMAIN rows : i \in DOMAIN rows' /\ rows'[i].height > Top
      /\ InTime \in SUBSET DOMAIN rows
  BY InTimeKept DEF LpInv
<1>4. hist'.late = hist.late \cup {i \in DOMAIN rows' : i > Len(rows) /\ rows'[i].height <= Top}
      /\ hist.late \subseteq DOMAIN rows
  BY LateKept DEF Typed, Remembered
<1>5. ASSUME NEW p, NEW h \in 0..Top PROVE LH!BatchSum(InTime, p, h)' = LH!BatchSum(InTime, p, h)
  <2>1. {i \in InTime' : rows'[i].pair = p /\ rows'[i].height <= h} = UpTo(InTime, p, h)
    <3>1. \A i \in InTime' \ DOMAIN rows : ~(rows'[i].height <= h)
      <4> TAKE i \in InTime' \ DOMAIN rows
      <4>1. rows'[i] \in RowType /\ rows'[i].height > Top
        BY <1>2, <1>3
      <4>2. rows'[i].height \in Int
        BY <4>1 DEF RowType
      <4> QED  BY <1>1, <4>1, <4>2
    <3>2. \A i \in InTime : i \in DOMAIN rows /\ rows'[i] = rows[i] /\ i \in InTime'
      BY <1>2, <1>3
    <3>3. \A i \in InTime' : i \in DOMAIN rows => i \in InTime
      BY <1>3
    <3> QED  BY <3>1, <3>2, <3>3 DEF UpTo
  <2>2. \A J : {i \in J : rows'[i].pair = p /\ rows'[i].height <= h} = UpTo(InTime, p, h)
            => LH!BatchSum(J, p, h)' = LH!BatchSum(InTime, p, h)
    BY <1>3, SumsKept
  <2> QED  BY <2>1, <2>2
<1>6. LpRows'
  <2>1. \A r \in lp : r.height \in 1..tip'
    BY <1>1
  <2> QED  BY <2>1 DEF LpInv, LpRows
<1>8. LateRows'
  BY <1>1, <1>2, <1>4 DEF LpInv, LateRows
<1>11. LpHistoryIsExact'
  <2>1. \A r \in lp : r.amt = LH!Liquidity(LH!BatchSum(InTime, r.pair, r.height)')
    <3> TAKE r \in lp
    <3>1. r.height \in 0..Top
      BY <1>1
    <3> QED  BY <1>5, <3>1 DEF LpInv, LpHistoryIsExact
  <2>2. \A i \in InTime' : rows'[i].height <= Top =>
            \E r \in lp : r.pair = rows'[i].pair /\ r.height = rows'[i].height
    <3> TAKE i \in InTime'
    <3>1. CASE i \in DOMAIN rows
      <4>1. i \in InTime /\ rows'[i] = rows[i]
        BY <1>2, <1>3, <3>1
      <4> QED  BY <4>1 DEF LpInv, LpHistoryIsExact, Top
    <3>2. CASE i \notin DOMAIN rows
      <4>1. rows'[i] \in RowType /\ rows'[i].height > Top
        BY <1>2, <1>3, <3>2
      <4>2. rows'[i].height \in Int
        BY <4>1 DEF RowType
      <4> QED  BY <1>1, <4>1, <4>2
    <3> QED  BY <3>1, <3>2
  <2>3. LastLp(lp) = Top
    BY DEF Top
  <2> QED  BY <2>1, <2>2, <2>3 DEF LpInv, LpHistoryIsExact, LH!Liquidity
<1>12. \A p \in Pair : LH!BatchSum(InTime, p, Top)' = LH!BatchSum(InTime, p, Top)
  <2>1. Top \in 0..Top
    BY <1>1
  <2> QED  BY <1>1, <1>5, <2>1
<1> QED  BY <1>1, <1>6, <1>8, <1>11, <1>12

(* A step that leaves the task alone, too. *)
LEMMA KeepsHistory ==
    ASSUME Typed, LpInv, [Next]_vars, lp' = lp, task' = task PROVE LpInv'
<1>1. Top' = Top /\ Top \in Nat /\ \A p \in Pair : LH!BatchSum(InTime, p, Top)' = LH!BatchSum(InTime, p, Top)
  BY KeepsSums
<1>2. /\ rows \in Seq(RowType) /\ rows' \in Seq(RowType) /\ DOMAIN rows \subseteq DOMAIN rows'
      /\ \A i \in DOMAIN rows : rows'[i] = rows[i]
      /\ DOMAIN rows = 1..Len(rows) /\ DOMAIN rows' = 1..Len(rows') /\ Len(rows) \in Nat /\ Len(rows') \in Nat
      /\ Len(rows) <= Len(rows')
  BY Appends
<1>4. hist'.late = hist.late \cup {i \in DOMAIN rows' : i > Len(rows) /\ rows'[i].height <= Top}
      /\ hist.late \subseteq DOMAIN rows
  BY LateKept DEF Typed, Remembered
<1>7. Task'
  BY <1>1 DEF LpInv, Task
<1>9. Latest'
  BY <1>1 DEF LpInv, Latest, LH!Of, LH!Liquidity, LH!Zero
<1>10. Batch'
  <2> SUFFICES ASSUME task.at = "write"
               PROVE  /\ task.batch # {}
                      /\ task.batch = {i \in 1..hist'.read : rows'[i].height \in Top + 1..Max(LH!Heights(task.batch)')}
                      /\ \A i \in hist'.read + 1..Len(rows') : rows'[i].height <= Top => i \in hist'.late
    BY <1>1 DEF Batch
  <2>1. hist'.read = hist.read
    BY Remembers DEF Remember, Reads, vars
  <2>2. /\ task.batch # {}
        /\ task.batch = {i \in 1..hist.read : rows[i].height \in Top + 1..Max(LH!Heights(task.batch))}
        /\ \A i \in hist.read + 1..Len(rows) : rows[i].height <= Top => i \in hist.late
    BY DEF LpInv, Batch
  <2>3. hist.read \in 0..Len(rows)
    BY DEF Typed, Remembered
  <2>4. \A i \in 1..hist.read : i \in DOMAIN rows /\ rows'[i] = rows[i]
    BY <1>2, <2>3
  <2>5. LH!Heights(task.batch)' = LH!Heights(task.batch)
    <3>1. \A i \in task.batch : rows'[i] = rows[i]
      BY <2>2, <2>4
    <3> QED  BY <3>1 DEF LH!Heights
  <2>6. \A i \in hist.read + 1..Len(rows') : i \in DOMAIN rows' /\ (i > Len(rows) \/ i \in hist.read + 1..Len(rows))
    BY <1>2, <2>3
  <2>7. \A i \in hist.read + 1..Len(rows') : rows'[i].height <= Top => i \in hist'.late
    <3> TAKE i \in hist.read + 1..Len(rows')
    <3>1. CASE i > Len(rows)
      BY <1>4, <2>6, <3>1
    <3>2. CASE i \in hist.read + 1..Len(rows)
      <4>1. i \in DOMAIN rows
        BY <1>2, <2>3, <3>2
      <4> QED  BY <1>2, <1>4, <2>2, <3>2, <4>1
    <3> QED  BY <2>6, <3>1, <3>2
  <2> QED  BY <2>1, <2>2, <2>4, <2>5, <2>7
<1> QED  BY <1>7, <1>9, <1>10, KeepsSums DEF LpInv

----------------------------------------------------------------------------
(* A batch is stored. *)
NewRow(h, p) ==
    [height |-> h, pair |-> p,
     amt |-> LH!Plus(LH!Of(task.latest, p), LH!Liquidity(LH!BatchSum(task.batch, p, h)))]
End == Max(LH!Heights(task.batch))

LEMMA Generated ==
    /\ \A i \in task.batch : NewRow(rows[i].height, rows[i].pair) \in LH!generateHistory(task.latest, task.batch)
    /\ \A r \in LH!generateHistory(task.latest, task.batch) :
          \E i \in task.batch : r = NewRow(rows[i].height, rows[i].pair)
<1> DEFINE K == {<<rows[i].height, rows[i].pair>> : i \in task.batch}
<1>1. LH!generateHistory(task.latest, task.batch) = {NewRow(k[1], k[2]) : k \in K}
  BY DEF LH!generateHistory, NewRow
<1>2. \A k \in K : \E i \in task.batch : k[1] = rows[i].height /\ k[2] = rows[i].pair
  OBVIOUS
<1>3. \A i \in task.batch : \E k \in K : k[1] = rows[i].height /\ k[2] = rows[i].pair
  <2> TAKE i \in task.batch
  <2>1. <<rows[i].height, rows[i].pair>> \in K
    OBVIOUS
  <2> QED  BY <2>1
<1> HIDE DEF K
<1> QED  BY <1>1, <1>2, <1>3

LEMMA BatchIs ==
    ASSUME Typed, LpInv, task.at = "write"
    PROVE  /\ task.batch \in SUBSET DOMAIN rows /\ End \in Top + 1..tip /\ End \in LH!Heights(task.batch)
           /\ LH!Max(LH!Heights(task.batch)) = End
           /\ \A i \in task.batch : /\ i \in 1..hist.read /\ rows[i].height \in Top + 1..End
                                     /\ rows[i].height \in 1..tip /\ rows[i].pair \in Pair
           /\ \A i \in 1..hist.read : rows[i].height \in Top + 1..End => i \in task.batch
           /\ \A i \in hist.read + 1..Len(rows) : rows[i].height <= Top => i \in hist.late
<1>1. Top \in Nat /\ tip \in Nat
  BY TopIs DEF LpInv
<1>2. /\ task.batch # {}
      /\ task.batch = {i \in 1..hist.read : rows[i].height \in Top + 1..End}
      /\ \A i \in hist.read + 1..Len(rows) : rows[i].height <= Top => i \in hist.late
  BY DEF LpInv, Batch, End
<1>3. \A i \in DOMAIN rows : rows[i].height \in 1..tip /\ rows[i].pair \in Pair
  <2> TAKE i \in DOMAIN rows
  <2>1. rows[i] \in RowType /\ rows[i].height <= tip
    BY DEF Typed, Table
  <2>2. rows[i].height \in 1..MaxHeight /\ rows[i].pair \in Pair
    BY <2>1 DEF RowType
  <2> QED  BY <1>1, <2>1, <2>2, BoundsAssumption
<1>4. task.batch \in SUBSET DOMAIN rows
  <2>1. 1..hist.read \subseteq DOMAIN rows
    BY DEF Typed, Remembered, Table
  <2> QED  BY <1>2, <2>1
<1> DEFINE H == LH!Heights(task.batch)
<1>5. H = {rows[i].height : i \in task.batch}
  BY DEF LH!Heights
<1>6. H \in SUBSET (0..tip) /\ H # {}
  <2>1. \A i \in task.batch : rows[i].height \in 0..tip
    BY <1>1, <1>3, <1>4
  <2>2. task.batch # {}
    BY <1>2
  <2> HIDE DEF H
  <2> QED  BY <1>5, <2>1, <2>2
<1>7. End \in H /\ LH!Max(H) = End
  <2> HIDE DEF H
  <2>1. Max(H) \in H /\ LH!Max(H) = Max(H)
    BY <1>1, <1>6, Greatest
  <2> QED  BY <2>1 DEF End, H
<1>8. PICK j \in task.batch : End = rows[j].height
  BY <1>5, <1>7
<1>9. End \in Top + 1..tip
  BY <1>1, <1>2, <1>3, <1>4, <1>8
<1> QED  BY <1>2, <1>3, <1>4, <1>7, <1>9

(* Storing it continues the history: every row of it, the old ones and the *)
(* new, is the sum of what is in time, with what comes late now left out.  *)
LEMMA StoresBatch ==
    ASSUME Typed, LpInv, [Next]_vars, Remember, UNCHANGED <<rows, tip>>, task.at = "write",
           lp' = lp \cup LH!generateHistory(task.latest, task.batch)
    PROVE  /\ Top' = End /\ LpRows' /\ LateRows' /\ LpHistoryIsExact'
           /\ \A p \in Pair : LH!Plus(LH!Of(task.latest, p), LH!Liquidity(LH!BatchSum(task.batch, p, End)))
                              = LH!Liquidity(LH!BatchSum(InTime, p, Top)')
<1> DEFINE G == LH!generateHistory(task.latest, task.batch)
           N == {i \in InTime : i <= hist.read \/ ~(rows[i].height <= End)}
<1>1. /\ tip \in Nat /\ Top \in 0..tip /\ Top \in Nat
      /\ \A r \in lp : r.height \in 1..tip /\ r.height <= Top
  BY TopIs DEF LpInv
<1>2. /\ task.batch \in SUBSET DOMAIN rows /\ End \in Top + 1..tip /\ End \in LH!Heights(task.batch)
      /\ \A i \in task.batch : /\ i \in 1..hist.read /\ rows[i].height \in Top + 1..End
                               /\ rows[i].height \in 1..tip /\ rows[i].pair \in Pair
      /\ \A i \in 1..hist.read : rows[i].height \in Top + 1..End => i \in task.batch
      /\ \A i \in hist.read + 1..Len(rows) : rows[i].height <= Top => i \in hist.late
  BY BatchIs
<1>3. /\ \A i \in task.batch : NewRow(rows[i].height, rows[i].pair) \in G
      /\ \A r \in G : \E i \in task.batch : r = NewRow(rows[i].height, rows[i].pair)
  BY Generated
<1>4. /\ InTime \in SUBSET DOMAIN rows /\ N \in SUBSET DOMAIN rows /\ rows \in Seq(RowType)
      /\ hist.read \in 0..Len(rows) /\ DOMAIN rows = 1..Len(rows) /\ hist.late \subseteq DOMAIN rows
      /\ \A i \in DOMAIN rows : rows[i].height \in 1..MaxHeight /\ rows[i].height \in Int /\ i \in Int
  <2>1. rows \in Seq(RowType) /\ hist.read \in 0..Len(rows) /\ hist.late \subseteq DOMAIN rows
    BY DEF Typed, Table, Remembered
  <2>2. \A i \in DOMAIN rows : rows[i].height \in 1..MaxHeight
    <3> TAKE i \in DOMAIN rows
    <3>1. rows[i] \in RowType
      BY <2>1
    <3> QED  BY <3>1 DEF RowType
  <2> QED  BY <2>1, <2>2 DEF InTime
<1> HIDE DEF G
<1>5. PICK j \in task.batch : End = rows[j].height
  BY <1>2 DEF LH!Heights
<1>6. /\ \A r \in lp' : r.height \in 1..tip /\ r.height <= End
      /\ \E r \in lp' : r.height = End
  <2>1. \A r \in G : r.height \in 1..tip /\ r.height <= End
    BY <1>1, <1>2, <1>3 DEF NewRow
  <2>2. NewRow(End, rows[j].pair) \in lp' /\ NewRow(End, rows[j].pair).height = End
    BY <1>3, <1>5 DEF NewRow, G
  <2>3. \A r \in lp : r.height <= End
    BY <1>1, <1>2
  <2> QED  BY <1>1, <2>1, <2>2, <2>3 DEF G
<1>7. LastLp(lp') = End
  <2> DEFINE t == lp'
  <2>0. \A r \in t : r.height \in 1..tip
    BY <1>6
  <2>1. /\ LastLp(t) \in 0..tip /\ \A r \in t : r.height <= LastLp(t)
        /\ LastLp(t) = 0 \/ \E r \in t : r.height = LastLp(t)
    <3> HIDE DEF t
    <3> QED  BY <1>1, <2>0, LastLpIs
  <2>2. (\A r \in t : r.height <= End) /\ \E r \in t : r.height = End
    BY <1>6
  <2> HIDE DEF t
  <2>3. End \in Nat /\ End > 0 /\ LastLp(t) \in Nat
    BY <1>1, <1>2, <2>1
  <2>4. End <= LastLp(t)
    BY <2>1, <2>2
  <2>5. LastLp(t) <= End
    BY <2>1, <2>2, <2>3
  <2>6. LastLp(t) = End
    BY <2>3, <2>4, <2>5
  <2> QED  BY <2>6 DEF t
<1>8. hist'.late = hist.late \cup {i \in DOMAIN rows : i > hist.read /\ rows[i].height <= End}
  <2>1. lp' # lp
    BY <1>1, <1>2, <1>6
  <2>2. {i \in DOMAIN rows : i > Len(rows)} = {}
    BY <1>4
  <2>3. Late = {i \in DOMAIN rows : i > hist.read /\ rows[i].height <= End}
    BY <1>7, <2>1, <2>2 DEF Late
  <2> QED  BY <2>3 DEF Remember
<1>9. InTime' = N
  BY <1>4, <1>8 DEF InTime
<1>10. \A i \in InTime : rows[i].height <= Top => i \in N
  BY <1>1, <1>2, <1>4 DEF InTime
<1>11. \A i \in task.batch : i \in N
  <2> TAKE i \in task.batch
  <2>1. i \in DOMAIN rows /\ i \in 1..hist.read /\ rows[i].height \in Top + 1..End
    BY <1>2
  <2>2. i \notin hist.late
    BY <1>1, <2>1 DEF LpInv, LateRows
  <2> QED  BY <2>1, <2>2 DEF InTime
<1>12. \A i \in N : rows[i].height <= End /\ ~(rows[i].height <= Top) => i \in task.batch
  BY <1>1, <1>2, <1>4
<1> HIDE DEF N
<1>13. ASSUME NEW p, NEW h PROVE LH!BatchSum(InTime, p, h)' = LH!BatchSum(N, p, h)
  <2>1. {i \in N : rows'[i].pair = p /\ rows'[i].height <= h} = UpTo(N, p, h)
    BY DEF UpTo
  <2>2. \A J : {i \in J : rows'[i].pair = p /\ rows'[i].height <= h} = UpTo(N, p, h)
            => LH!BatchSum(J, p, h)' = LH!BatchSum(N, p, h)
    BY <1>4, SumsKept
  <2> QED  BY <1>9, <2>1, <2>2
<1>14. ASSUME NEW p \in Pair, NEW h \in 0..Top PROVE LH!BatchSum(N, p, h) = LH!BatchSum(InTime, p, h)
  <2>1. \A i \in InTime : rows[i].height <= h => rows[i].height <= Top
    BY <1>1, <1>4
  <2>2. UpTo(N, p, h) = UpTo(InTime, p, h)
    BY <1>10, <2>1 DEF UpTo, N
  <2> QED  BY <2>2, BatchSumSame
<1>15. ASSUME NEW p \in Pair, NEW h \in Top + 1..End
       PROVE  NewRow(h, p).amt = LH!Liquidity(LH!BatchSum(N, p, h)) /\ NewRow(h, p).amt \in Int \X Int \X {0}
  <2>1. h \in Int /\ Top <= h /\ h <= End /\ ~(h <= Top) /\ End \in Int
    BY <1>1, <1>2
  <2>2. UpTo(InTime, p, Top) \cap UpTo(task.batch, p, h) = {}
    BY <1>1, <1>2, <1>4 DEF UpTo
  <2>3. UpTo(N, p, h) = UpTo(InTime, p, Top) \cup UpTo(task.batch, p, h)
    <3>1. \A i \in UpTo(N, p, h) : i \in UpTo(InTime, p, Top) \cup UpTo(task.batch, p, h)
      <4> TAKE i \in UpTo(N, p, h)
      <4>1. i \in N /\ i \in InTime /\ rows[i].pair = p /\ rows[i].height <= h /\ rows[i].height \in Int
        BY <1>4 DEF UpTo, N
      <4>2. rows[i].height <= End
        BY <2>1, <4>1
      <4> QED  BY <1>12, <4>1, <4>2 DEF UpTo
    <3>2. \A i \in UpTo(InTime, p, Top) : i \in UpTo(N, p, h)
      <4> TAKE i \in UpTo(InTime, p, Top)
      <4>1. i \in InTime /\ rows[i].pair = p /\ rows[i].height <= Top /\ rows[i].height \in Int
        BY <1>4 DEF UpTo
      <4>2. rows[i].height <= h
        BY <1>1, <2>1, <4>1
      <4> QED  BY <1>10, <4>1, <4>2 DEF UpTo
    <3>3. \A i \in UpTo(task.batch, p, h) : i \in UpTo(N, p, h)
      BY <1>11 DEF UpTo
    <3> QED  BY <3>1, <3>2, <3>3
  <2>4. LH!BatchSum(N, p, h) = Plus(LH!BatchSum(InTime, p, Top), LH!BatchSum(task.batch, p, h))
    BY <1>2, <1>4, <2>2, <2>3, Continued
  <2>5. /\ LH!BatchSum(InTime, p, Top) \in Triple /\ LH!BatchSum(task.batch, p, h) \in Triple
        /\ LH!BatchSum(N, p, h) \in Triple
    BY <1>2, <1>4, BatchSumType
  <2>6. LH!Of(task.latest, p) = LH!Liquidity(LH!BatchSum(InTime, p, Top))
    BY DEF LpInv, Latest
  <2>7. NewRow(h, p).amt = LH!Plus(LH!Of(task.latest, p), LH!Liquidity(LH!BatchSum(task.batch, p, h)))
    BY DEF NewRow
  <2> QED  BY <2>4, <2>5, <2>6, <2>7, LiquiditySum
<1>16. LpRows'
  <2>1. \A r \in G : /\ r = [height |-> r.height, pair |-> r.pair, amt |-> r.amt]
                     /\ r.height \in 1..tip /\ r.pair \in Pair /\ r.amt \in Int \X Int \X {0}
    <3> TAKE r \in G
    <3>1. PICK i \in task.batch : r = NewRow(rows[i].height, rows[i].pair)
      BY <1>3
    <3>2. rows[i].height \in 1..tip /\ rows[i].height \in Top + 1..End /\ rows[i].pair \in Pair
      BY <1>2
    <3>3. NewRow(rows[i].height, rows[i].pair).amt \in Int \X Int \X {0}
      BY <1>15, <3>2
    <3>4. r.height = rows[i].height /\ r.pair = rows[i].pair /\ r = [height |-> r.height, pair |-> r.pair, amt |-> r.amt]
      BY <3>1 DEF NewRow
    <3> QED  BY <3>1, <3>2, <3>3, <3>4
  <2> QED  BY <2>1 DEF LpInv, LpRows, G
<1>17. LateRows'
  <2>1. \A i \in hist.late : rows[i].height <= End
    <3> TAKE i \in hist.late
    <3>1. rows[i].height <= Top /\ rows[i].height \in Int
      BY <1>4 DEF LpInv, LateRows
    <3> QED  BY <1>1, <1>2, <3>1
  <2>2. Top' = End
    BY <1>7 DEF Top
  <2> QED  BY <1>8, <2>1, <2>2 DEF LateRows
<1>18. LpHistoryIsExact'
  <2>1. \A r \in lp' : r.amt = LH!Liquidity(LH!BatchSum(N, r.pair, r.height))
    <3> TAKE r \in lp'
    <3>1. CASE r \in lp
      <4>1. r.pair \in Pair /\ r.height \in 0..Top
        BY <1>1, <3>1 DEF LpInv, LpRows
      <4>2. r.amt = LH!Liquidity(LH!BatchSum(InTime, r.pair, r.height))
        BY <3>1 DEF LpInv, LpHistoryIsExact
      <4> QED  BY <1>14, <4>1, <4>2
    <3>2. CASE r \in G
      <4>1. PICK i \in task.batch : r = NewRow(rows[i].height, rows[i].pair)
        BY <1>3, <3>2
      <4>2. r.height = rows[i].height /\ r.pair = rows[i].pair
        BY <4>1 DEF NewRow
      <4> QED  BY <1>2, <1>15, <4>1, <4>2
    <3> QED  BY <3>1, <3>2 DEF G
  <2>2. ASSUME NEW r \in lp', NEW s \in lp', s.pair = r.pair, s.height = r.height PROVE s = r
    <3>1. \A t \in G : t.height \in Top + 1..End /\ t = NewRow(t.height, t.pair)
      <4> TAKE t \in G
      <4>1. PICK i \in task.batch : t = NewRow(rows[i].height, rows[i].pair)
        BY <1>3
      <4>2. t.height = rows[i].height /\ t.pair = rows[i].pair
        BY <4>1 DEF NewRow
      <4> QED  BY <1>2, <4>1, <4>2
    <3>2. \A t \in lp : ~(t.height \in Top + 1..End)
      BY <1>1
    <3>3. CASE r \in lp /\ s \in lp
      BY <2>2, <3>3 DEF LpInv, LpHistoryIsExact
    <3>4. CASE r \in G /\ s \in G
      BY <2>2, <3>1, <3>4
    <3> QED  BY <2>2, <3>1, <3>2, <3>3, <3>4 DEF G
  <2>3. \A i \in N : rows[i].height <= End => \E r \in lp' : r.pair = rows[i].pair /\ r.height = rows[i].height
    <3> TAKE i \in N
    <3>1. i \in InTime
      BY DEF N
    <3>2. CASE rows[i].height <= Top
      BY <3>1, <3>2 DEF LpInv, LpHistoryIsExact, Top
    <3>3. CASE i \in task.batch
      <4>1. NewRow(rows[i].height, rows[i].pair) \in lp'
        BY <1>3, <3>3 DEF G
      <4> QED  BY <4>1 DEF NewRow
    <3> QED  BY <1>12, <3>2, <3>3
  <2>4. \A r \in lp' : LH!BatchSum(InTime, r.pair, r.height)' = LH!BatchSum(N, r.pair, r.height)
    BY <1>13
  <2> QED  BY <1>7, <1>9, <2>1, <2>2, <2>3, <2>4 DEF LpHistoryIsExact, LH!Liquidity
<1>19. Top' = End
  BY <1>7 DEF Top
<1>20. ASSUME NEW p \in Pair
       PROVE  LH!Plus(LH!Of(task.latest, p), LH!Liquidity(LH!BatchSum(task.batch, p, End)))
              = LH!Liquidity(LH!BatchSum(InTime, p, Top)')
  <2>1. End \in Top + 1..End
    BY <1>1, <1>2
  <2>2. NewRow(End, p).amt = LH!Liquidity(LH!BatchSum(N, p, End))
    BY <1>15, <2>1
  <2>3. LH!BatchSum(InTime, p, Top)' = LH!BatchSum(N, p, End)
    BY <1>13, <1>19
  <2> QED  BY <2>2, <2>3 DEF NewRow
<1> QED  BY <1>16, <1>17, <1>18, <1>19, <1>20

----------------------------------------------------------------------------
(* The steps of the task. *)
Context == UNCHANGED <<rows, tip>> /\ Remember

(* What a pair adds up to if no row of it is there. *)
LEMMA NoSum ==
    ASSUME NEW I, NEW p, NEW h, UpTo(I, p, h) = {}
    PROVE  LH!BatchSum(I, p, h) = Zero /\ LH!Liquidity(Zero) = Zero /\ LH!Zero = Zero
<1>1. Total(Amounts(rows), {}) = Zero
  BY FS_EmptySet, TotalStep
<1> QED  BY <1>1, BatchSumIs DEF LH!Liquidity, LH!Zero, Zero

LEMMA StartKeeps ==
    ASSUME Typed, LpInv, [Next]_vars, Context, LH!Start
    PROVE  LpInv'
<1>1. lp' = lp /\ task' = [at |-> "idle", pos |-> 0, latest |-> <<>>, batch |-> {}]
  BY DEF LH!Start, LH!NoTask
<1>2. Top \in Nat /\ Top' = Top /\ LpRows' /\ LateRows' /\ LpHistoryIsExact'
  BY <1>1, KeepsSums
<1> QED  BY <1>1, <1>2 DEF LpInv, Task, Latest, Batch

(* The last row of a pair is the sum of all of its rows the history passed. *)
LEMMA LastIsLatest ==
    ASSUME Typed, LpInv, NEW p \in Pair
    PROVE  LH!Of(LH!LastLpHistory, p) = LH!Liquidity(LH!BatchSum(InTime, p, Top))
<1> DEFINE Mine == {r \in lp : r.pair = p}
           H == {r.height : r \in Mine}
           IsLast(c) == c.pair = p /\ \A s \in lp : s.pair = p => s.height <= c.height
           last == CHOOSE r \in lp : IsLast(r)
<1>1. Top \in Nat /\ tip \in Nat /\ \A r \in lp : r.height \in 1..tip /\ r.height <= Top
  BY TopIs DEF LpInv
<1>2. \A i \in InTime : i \in DOMAIN rows /\ rows[i].height \in Int
  <2> TAKE i \in InTime
  <2>1. i \in DOMAIN rows /\ rows[i] \in RowType
    BY DEF InTime, Typed, Table
  <2> QED  BY <2>1 DEF RowType
<1>3. CASE p \in {r.pair : r \in lp}
  <2>1. H \in SUBSET (0..tip) /\ H # {}
    BY <1>1, <1>3
  <2>2. Max(H) \in H /\ \A x \in H : x <= Max(H)
    <3> HIDE DEF H
    <3> QED  BY <1>1, <2>1, Greatest
  <2>3. \E r \in lp : IsLast(r)
    <3>1. PICK r \in Mine : r.height = Max(H)
      BY <2>2
    <3>2. \A s \in lp : s.pair = p => s.height \in H
      OBVIOUS
    <3> QED  BY <2>2, <3>1, <3>2
  <2>4. last \in lp /\ IsLast(last)
    <3> HIDE DEF IsLast
    <3> QED  BY <2>3
  <2>5. LH!Of(LH!LastLpHistory, p) = last.amt
    BY <1>3 DEF LH!Of, LH!LastLpHistory
  <2> HIDE DEF last
  <2>6. last.amt = LH!Liquidity(LH!BatchSum(InTime, p, last.height))
    BY <2>4 DEF LpInv, LpHistoryIsExact
  <2>7. UpTo(InTime, p, last.height) = UpTo(InTime, p, Top)
    <3>1. ASSUME NEW i \in InTime, rows[i].pair = p
          PROVE  rows[i].height <= last.height <=> rows[i].height <= Top
      <4>1. last.height \in Nat /\ last.height <= Top
        BY <1>1, <2>4
      <4>2. rows[i].height <= last.height => rows[i].height <= Top
        BY <1>1, <1>2, <4>1
      <4>3. rows[i].height <= Top => rows[i].height <= last.height
        <5> SUFFICES ASSUME rows[i].height <= Top PROVE rows[i].height <= last.height
          OBVIOUS
        <5>1. PICK r \in lp : r.pair = p /\ r.height = rows[i].height
          BY <3>1 DEF LpInv, LpHistoryIsExact, Top
        <5> QED  BY <2>4, <5>1
      <4> QED  BY <4>2, <4>3
    <3> QED  BY <3>1 DEF UpTo
  <2> QED  BY <2>5, <2>6, <2>7, BatchSumSame
<1>4. CASE p \notin {r.pair : r \in lp}
  <2>1. LH!Of(LH!LastLpHistory, p) = LH!Zero
    BY <1>4 DEF LH!Of, LH!LastLpHistory
  <2>2. UpTo(InTime, p, Top) = {}
    BY <1>4 DEF UpTo, LpInv, LpHistoryIsExact, Top
  <2> QED  BY <2>1, <2>2, NoSum
<1> QED  BY <1>3, <1>4

LEMMA ExecuteKeeps ==
    ASSUME Typed, LpInv, [Next]_vars, Context, LH!Execute
    PROVE  LpInv'
<1> DEFINE S == {task.pos} \cup {r.height : r \in lp}
<1>1. lp' = lp /\ task' = [task EXCEPT !.at = "read", !.latest = LH!LastLpHistory, !.pos = LH!Max(S)]
  BY DEF LH!Execute
<1>2. /\ Top \in Nat /\ Top' = Top /\ LpRows' /\ LateRows' /\ LpHistoryIsExact'
      /\ \A p \in Pair : LH!BatchSum(InTime, p, Top)' = LH!BatchSum(InTime, p, Top)
  BY <1>1, KeepsSums
<1>3. LH!Max(S) = Top
  <2>1. /\ \A r \in lp : r.height \in 1..tip /\ r.height <= Top
        /\ tip \in Nat
        /\ Top = 0 \/ \E r \in lp : r.height = Top
    BY TopIs DEF LpInv
  <2>2. task.pos \in 0..Top
    BY DEF LpInv, Task
  <2>3. S \in SUBSET (0..Top) /\ S # {}
    BY <1>2, <2>1, <2>2
  <2>4. Top \in S
    BY <1>2, <2>1, <2>2
  <2>5. Max(S) \in S /\ (\A x \in S : x <= Max(S)) /\ LH!Max(S) = Max(S)
    <3> HIDE DEF S
    <3> QED  BY <1>2, <2>3, Greatest
  <2>6. Max(S) \in 0..Top /\ Top <= Max(S)
    <3> HIDE DEF S
    <3> QED  BY <2>3, <2>4, <2>5
  <2> HIDE DEF S
  <2> QED  BY <1>2, <2>5, <2>6
<1>4. task' = [at |-> "read", pos |-> Top, latest |-> LH!LastLpHistory, batch |-> task.batch]
  <2> HIDE DEF S
  <2> QED  BY <1>1, <1>3 DEF LpInv, Task
<1>5. Task'
  BY <1>2, <1>4 DEF Task
<1>6. Latest'
  <2>1. \A p \in Pair : LH!Of(LH!LastLpHistory, p) = LH!Liquidity(LH!BatchSum(InTime, p, Top)')
    BY <1>2, LastIsLatest
  <2>2. task'.latest = LH!LastLpHistory
    BY <1>4
  <2> QED  BY <2>1, <2>2 DEF Latest, LH!Of, LH!Liquidity, LH!Zero
<1>7. Batch'
  BY <1>4 DEF Batch
<1> QED  BY <1>2, <1>5, <1>6, <1>7 DEF LpInv

LEMMA ReadKeeps ==
    ASSUME Typed, LpInv, [Next]_vars, Context, LH!Read
    PROVE  LpInv'
<1> DEFINE B == LH!GetParsedTxsWithLimit(task.pos + 1)
           F == {0} \cup {rows[i].height : i \in LH!FirstFrom(task.pos + 1)}
<1>1. lp' = lp /\ rows' = rows /\ task.at = "read"
      /\ task' = [task EXCEPT !.batch = B, !.at = IF B = {} THEN "idle" ELSE "write"]
  BY DEF LH!Read, Context
<1>2. /\ Top \in Nat /\ Top' = Top /\ LpRows' /\ LateRows' /\ LpHistoryIsExact' /\ tip \in Nat
      /\ \A p \in Pair : LH!BatchSum(InTime, p, Top)' = LH!BatchSum(InTime, p, Top)
  BY <1>1, KeepsSums, PoolKept
<1>3. /\ rows \in Seq(RowType) /\ DOMAIN rows = 1..Len(rows) /\ Len(rows) \in Nat
      /\ \A i \in DOMAIN rows : rows[i].height \in 0..tip /\ rows[i].pair \in pairs
  <2>1. rows \in Seq(RowType)
    BY DEF Typed, Table
  <2>2. \A i \in DOMAIN rows : rows[i].height \in 0..tip /\ rows[i].pair \in pairs
    <3> TAKE i \in DOMAIN rows
    <3>1. rows[i] \in RowType /\ rows[i].height <= tip /\ rows[i].pair \in pairs
      BY <2>1 DEF Typed, Table
    <3>2. rows[i].height \in 1..MaxHeight
      BY <3>1 DEF RowType
    <3> QED  BY <1>2, <3>1, <3>2, BoundsAssumption
  <2> QED  BY <2>1, <2>2
<1>4. task.pos = Top
  BY <1>1 DEF LpInv, Task
<1>5. PICK last \in 0..tip : B = {i \in 1..Len(rows) : rows[i].height \in Top + 1..last}
  <2>1. F \in SUBSET (0..tip) /\ F # {}
    <3>1. LH!FirstFrom(task.pos + 1) \subseteq DOMAIN rows
      BY DEF LH!FirstFrom
    <3> QED  BY <1>2, <1>3, <3>1
  <2>2. LH!Max(F) \in 0..tip
    <3> HIDE DEF F
    <3>1. Max(F) \in F /\ LH!Max(F) = Max(F)
      BY <1>2, <2>1, Greatest
    <3> QED  BY <2>1, <3>1
  <2>3. B = {i \in DOMAIN rows : rows[i].height \in Top + 1..LH!Max(F) /\ rows[i].pair \in pairs}
    BY <1>4 DEF LH!GetParsedTxsWithLimit
  <2> HIDE DEF F
  <2> QED  BY <1>3, <2>2, <2>3
<1> HIDE DEF B
<1>6. task' = [at |-> IF B = {} THEN "idle" ELSE "write", pos |-> Top, latest |-> task.latest, batch |-> B]
  BY <1>1, <1>4 DEF LpInv, Task
<1>7. Task'
  BY <1>2, <1>6 DEF Task
<1>8. Latest'
  <2>1. \A p \in Pair : LH!Of(task.latest, p) = LH!Liquidity(LH!BatchSum(InTime, p, Top)')
    BY <1>1, <1>2 DEF LpInv, Latest
  <2>2. task'.latest = task.latest
    BY <1>6
  <2> QED  BY <2>1, <2>2 DEF Latest, LH!Of, LH!Liquidity, LH!Zero
<1>9. CASE B = {}
  <2>1. Batch'
    BY <1>6, <1>9 DEF Batch
  <2> QED  BY <1>2, <1>7, <1>8, <2>1 DEF LpInv
<1>10. CASE B # {}
  <2>1. hist'.read = Len(rows)
    BY <1>1, <1>6, <1>10 DEF Context, Remember, Reads
  <2> DEFINE H == LH!Heights(B)
             E == Max(H)
  <2>2. H = {rows[i].height : i \in B}
    BY DEF LH!Heights
  <2>3. H \in SUBSET (0..tip) /\ H # {}
    BY <1>3, <1>5, <1>10, <2>2
  <2>4. E \in H /\ \A x \in H : x <= E
    <3> HIDE DEF H
    <3> QED  BY <1>2, <2>3, Greatest
  <2>5. PICK j \in B : E = rows[j].height
    BY <2>2, <2>4
  <2>6. E \in Top + 1..last
    BY <1>5, <2>5
  <2>7. \A i \in B : rows[i].height <= E
    BY <2>2, <2>4
  <2>8. B = {i \in 1..Len(rows) : rows[i].height \in Top + 1..E}
    <3> HIDE DEF E, H
    <3> QED  BY <1>2, <1>3, <1>5, <2>6, <2>7
  <2>9. \A i \in Len(rows) + 1..Len(rows) : FALSE
    BY <1>3
  <2>10. Max(LH!Heights(task.batch)') = E /\ task'.batch = B
    BY <1>1, <1>6 DEF LH!Heights
  <2> HIDE DEF E, H
  <2>11. Batch'
    BY <1>1, <1>2, <1>10, <2>1, <2>8, <2>9, <2>10 DEF Batch
  <2> QED  BY <1>2, <1>7, <1>8, <2>11 DEF LpInv
<1> QED  BY <1>9, <1>10

LEMMA UpdateKeeps ==
    ASSUME Typed, LpInv, [Next]_vars, Context, LH!UpdateLpHistory
    PROVE  LpInv'
<1>1. /\ task.at = "write"
      /\ lp' = lp \cup LH!generateHistory(task.latest, task.batch)
      /\ task' = [task EXCEPT !.at = "read", !.batch = {},
                              !.pos = LH!Max(LH!Heights(task.batch)),
                              !.latest = LH!LatestAfter(task.latest, task.batch)]
  BY DEF LH!UpdateLpHistory
<1>2. /\ Top' = End /\ LpRows' /\ LateRows' /\ LpHistoryIsExact'
      /\ \A p \in Pair : LH!Plus(LH!Of(task.latest, p), LH!Liquidity(LH!BatchSum(task.batch, p, End)))
                         = LH!Liquidity(LH!BatchSum(InTime, p, Top)')
  BY <1>1, StoresBatch DEF Context
<1>3. End \in Nat /\ LH!Max(LH!Heights(task.batch)) = End
  BY <1>1, BatchIs, TopIs DEF LpInv
<1>4. task' = [at |-> "read", pos |-> End, latest |-> LH!LatestAfter(task.latest, task.batch), batch |-> {}]
  BY <1>1, <1>3 DEF LpInv, Task
<1>5. Task'
  BY <1>2, <1>3, <1>4 DEF Task
<1>6. ASSUME NEW p \in Pair
      PROVE  LH!Of(LH!LatestAfter(task.latest, task.batch), p)
             = LH!Plus(LH!Of(task.latest, p), LH!Liquidity(LH!BatchSum(task.batch, p, End)))
  <2>1. CASE p \in DOMAIN task.latest \cup {rows[i].pair : i \in task.batch}
    BY <1>3, <2>1 DEF LH!Of, LH!LatestAfter
  <2>2. CASE p \notin DOMAIN task.latest \cup {rows[i].pair : i \in task.batch}
    <3>1. LH!Of(LH!LatestAfter(task.latest, task.batch), p) = LH!Zero /\ LH!Of(task.latest, p) = LH!Zero
      BY <2>2 DEF LH!Of, LH!LatestAfter
    <3>2. UpTo(task.batch, p, End) = {}
      BY <2>2 DEF UpTo
    <3>3. LH!Plus(Zero, Zero) = Zero
      BY DEF LH!Plus, Zero
    <3> QED  BY <3>1, <3>2, <3>3, NoSum
  <2> QED  BY <2>1, <2>2
<1>7. Latest'
  <2>1. task'.latest = LH!LatestAfter(task.latest, task.batch)
    BY <1>4
  <2> QED  BY <1>2, <1>6, <2>1 DEF Latest, LH!Of, LH!Liquidity, LH!Zero
<1>8. Batch'
  BY <1>4 DEF Batch
<1> QED  BY <1>2, <1>5, <1>7, <1>8 DEF LpInv

LEMMA StopsKeep ==
    ASSUME Typed, LpInv, [Next]_vars, Context, LH!Stops
    PROVE  LpInv'
<1>1. task' = [at |-> "down", pos |-> 0, latest |-> <<>>, batch |-> {}]
  BY DEF LH!Stops, LH!NoTask
<1>2. LpRows' /\ LateRows' /\ LpHistoryIsExact' /\ Top' \in Nat
  <2>1. CASE lp' = lp
    BY <2>1, KeepsSums
  <2>2. CASE task.at = "write" /\ lp' = lp \cup LH!generateHistory(task.latest, task.batch)
    <3>1. Top' = End /\ LpRows' /\ LateRows' /\ LpHistoryIsExact'
      BY <2>2, StoresBatch DEF Context
    <3>2. End \in Nat
      BY <2>2, BatchIs, TopIs DEF LpInv
    <3> QED  BY <3>1, <3>2
  <2> QED  BY <2>1, <2>2 DEF LH!Stops
<1> QED  BY <1>1, <1>2 DEF LpInv, Task, Latest, Batch

LEMMA LpInvNext == ASSUME Typed, LpInv, [Next]_vars PROVE LpInv'
<1>1. CASE SumsUp
  <2>1. Context
    BY <1>1 DEF SumsUp, Context
  <2> QED  BY <1>1, <2>1, StartKeeps, ExecuteKeeps, ReadKeeps, UpdateKeeps, StopsKeep DEF SumsUp
<1>2. CASE lp' = lp /\ task' = task
  BY <1>2, KeepsHistory
<1> QED
  BY <1>1, <1>2, Steps DEF Grow, BeginRun, ParserInsert, Quarantine, Replay, Commits, Prepares, vars

LEMMA LpInvInit == ASSUME Init PROVE LpInv
<1>1. /\ rows = <<>> /\ lp = {} /\ task = [at |-> "down", pos |-> 0, latest |-> <<>>, batch |-> {}]
      /\ hist.late = {}
  BY DEF Init, NoHist, LH!NoTask
<1>2. Top = 0
  <2>1. Max({0}) \in {0}
    BY Greatest
  <2>2. {r.height : r \in {}} = {}
    OBVIOUS
  <2> QED  BY <1>1, <2>1, <2>2 DEF Top, LastLp
<1>3. InTime = {}
  BY <1>1 DEF InTime
<1> QED
  BY <1>1, <1>2, <1>3 DEF LpInv, LpRows, Task, LateRows, Latest, Batch, LpHistoryIsExact

----------------------------------------------------------------------------
(* For every chain, every batch limit and any number of restarts in the    *)
(* middle of a batch: each row of the liquidity history is the sum of the  *)
(* rows of its pair that came in time, and no height of them is left out.  *)
THEOREM HistoryIsExact == Spec => []LpHistoryIsExact
<1>1. Init => Typed /\ LpInv
  BY TypedInit, LpInvInit
<1>2. Typed /\ LpInv /\ [Next]_vars => (Typed /\ LpInv)'
  BY TypedNext, LpInvNext
<1>3. LpInv => LpHistoryIsExact
  BY DEF LpInv
<1> QED  BY <1>1, <1>2, <1>3, PTL DEF Spec

(* The types of the chain, of the database and of the three that work on   *)
(* it: what the builder and the task store are rows of the chain's pairs   *)
(* at heights of the chain, and the task stays behind the tip.             *)
THEOREM Types == Spec => []TypeOK
<1>1. Init => Typed /\ LpInv
  BY TypedInit, LpInvInit
<1>2. Typed /\ LpInv /\ [Next]_vars => (Typed /\ LpInv)'
  BY TypedNext, LpInvNext
<1>3. ASSUME Typed, LpInv PROVE TypeOK
  <2>1. tip \in 0..MaxHeight /\ tip \in Nat /\ Top \in 0..tip /\ Top \in Nat
    BY <1>3, TopIs DEF LpInv, Typed, Chain
  <2>2. ASSUME NEW h \in 1..tip, NEW p \in Pair
        PROVE  pool[h][p] = NoPool \/ \A k \in 1..3 : pool[h][p][k] > 0
    <3>1. h \in 0..MaxHeight
      BY <2>1, BoundsAssumption
    <3>2. pool[h][p] \in {NoPool} \cup Positive
      BY <1>3, <3>1 DEF Typed, Chain
    <3>3. \A t \in Positive : \A k \in 1..3 : t[k] > 0
      BY DEF Positive
    <3> QED  BY <3>2, <3>3
  <2>3. \A i \in DOMAIN rows : rows[i] \in Rec(Amount \X Amount \X Amount)
    <3>1. RowType = Rec(Amount \X Amount \X Amount)
      BY DEF Rec, RowType, Amount, Triple
    <3>2. rows \in Seq(RowType)
      BY <1>3 DEF Typed, Table
    <3> HIDE DEF Rec
    <3> QED  BY <3>1, <3>2
  <2>4. pairs \subseteq Pair /\ synced \in 0..tip /\ cur \in 0..tip /\ held \subseteq 1..tip
    BY <1>3, <2>1 DEF Typed, Cursor
  <2>5. build.at \in {"off", "validate", "generate", "insert", "done", "failed", "refused"}
        /\ faults \in 0..MaxFaults
    BY <1>3 DEF Typed, Builder
  <2>6. ASSUME NEW r \in lp PROVE r \in Rec(Amount \X Amount \X {0})
    <3>1. /\ r = [height |-> r.height, pair |-> r.pair, amt |-> r.amt]
          /\ r.height \in 1..tip /\ r.pair \in Pair /\ r.amt \in Int \X Int \X {0}
      BY <1>3 DEF LpInv, LpRows
    <3>2. r.height \in 1..MaxHeight
      BY <2>1, <3>1, BoundsAssumption
    <3> QED  BY <3>1, <3>2 DEF Rec, Amount
  <2>7. task.at \in {"down", "idle", "read", "write"} /\ task.pos \in 0..tip
    BY <1>3, <2>1 DEF LpInv, Task
  <2> QED  BY <2>1, <2>2, <2>3, <2>4, <2>5, <2>6, <2>7 DEF TypeOK
<1> QED  BY <1>1, <1>2, <1>3, PTL DEF Spec
=============================================================================
