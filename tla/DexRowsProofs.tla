---------------------------- MODULE DexRowsProofs ----------------------------
(***************************************************************************)
(* What is proved of the steps every target application takes, for logs    *)
(* and transactions of any length: the matching of events (EventLog), the  *)
(* removal of transfers that an action accounts for, and what the order of *)
(* the logs decides (DexRows).  All go through a sequence one element      *)
(* after the other.                                                        *)
(***************************************************************************)
EXTENDS DexRows, WellFoundedInduction, NaturalsInduction, TLAPS

(* What holds at first and stays from one step to the next holds after     *)
(* every step.                                                             *)
LEMMA AfterEveryStep ==
    ASSUME NEW n \in Nat, NEW S, 0 \in S, \A i \in 1..n : i - 1 \in S => i \in S
    PROVE  0..n \subseteq S
<1> SUFFICES ASSUME ~(0..n \subseteq S) PROVE FALSE
  OBVIOUS
<1> DEFINE T == (0..n) \ S
           R == {pq \in Nat \X Nat : pq[1] < pq[2]}
<1>1. OpToRel(<, Nat) = R
  BY DEF OpToRel
<1>2. IsWellFoundedOn(R, Nat)
  BY <1>1, NatLessThanWellFounded
<1>3. T # {} /\ T \subseteq Nat
  OBVIOUS
<1>4. \E x \in T : \A y \in T : ~(<<y, x>> \in R)
  <2> HIDE DEF T, R
  <2> QED  BY <1>2, <1>3, WFMin
<1>5. PICK x \in T : \A y \in T : ~(<<y, x>> \in R)
  BY <1>4
<1>6. x \in 1..n /\ x - 1 \in 0..n /\ <<x - 1, x>> \in R
  OBVIOUS
<1>7. x - 1 \in S
  BY <1>5, <1>6
<1> QED  BY <1>6, <1>7

(* g takes each value from the one before: F[i] makes the i-th value of    *)
(* the one before it.                                                      *)
Goes(g, n, base, F) == g = [i \in 0..n |-> IF i = 0 THEN base ELSE F[i][g[i - 1]]]

(* Such a function exists when every step stays in the sets A[i]. *)
LEMMA StepByStep ==
    ASSUME NEW n \in Nat, NEW A, NEW base, base \in A[0],
           NEW F, \A i \in 1..n : \A a \in A[i - 1] : F[i][a] \in A[i]
    PROVE  \E g : Goes(g, n, base, F) /\ \A i \in 0..n : g[i] \in A[i]
<1> USE DEF Goes
<1> DEFINE Good(g, k) == /\ g = [i \in 0..k |-> IF i = 0 THEN base ELSE F[i][g[i - 1]]]
                         /\ \A i \in 0..k : g[i] \in A[i]
           S == {k \in 0..n : \E g : Good(g, k)}
<1>1. 0 \in S
  <2>1. Good([i \in 0..0 |-> base], 0)
    OBVIOUS
  <2>2. \E g : Good(g, 0)
    <3> HIDE DEF Good
    <3> QED  BY <2>1
  <2> QED  BY <2>2
<1>2. ASSUME NEW k \in 1..n, k - 1 \in S PROVE k \in S
  <2>1. PICK g : Good(g, k - 1)
    BY <1>2
  <2> DEFINE h == [i \in 0..k |-> IF i = k THEN F[k][g[k - 1]] ELSE g[i]]
  <2>2. \A i \in 0..k - 1 : h[i] = g[i] /\ i \in 0..k /\ i # k
    OBVIOUS
  <2>3. g[k - 1] \in A[k - 1] /\ h[k] = F[k][g[k - 1]] /\ h[k - 1] = g[k - 1]
    <3>1. k - 1 \in 0..k - 1 /\ k \in 0..k
      BY <1>2
    <3>2. h[k] = F[k][g[k - 1]]
      BY <3>1
    <3> HIDE DEF h
    <3> QED  BY <2>1, <2>2, <3>1, <3>2
  <2>4. ASSUME NEW i \in 0..k PROVE h[i] \in A[i]
    <3> HIDE DEF h
    <3>1. CASE i = k
      <4>1. F[k][g[k - 1]] \in A[k]
        BY <1>2, <2>3
      <4> QED  BY <2>3, <3>1, <4>1
    <3>2. CASE i # k
      <4>1. i \in 0..k - 1
        BY <1>2, <3>2
      <4>2. h[i] = g[i] /\ g[i] \in A[i]
        BY <2>1, <2>2, <4>1
      <4> QED  BY <4>2
    <3> QED  BY <3>1, <3>2
  <2>5. \A i \in 0..k : h[i] = IF i = 0 THEN base ELSE F[i][h[i - 1]]
    <3> TAKE i \in 0..k
    <3>1. CASE i = k
      BY <2>3, <3>1
    <3>2. CASE i = 0
      BY <2>1, <2>2, <3>2
    <3>3. CASE i \in 1..k - 1
      <4>1. i - 1 \in 0..k - 1 /\ i \in 0..k - 1 /\ i # 0
        BY <3>3
      <4>2. g[i] = F[i][g[i - 1]]
        BY <2>1, <4>1
      <4> QED  BY <2>2, <4>1, <4>2
    <3> HIDE DEF h
    <3> QED  BY <3>1, <3>2, <3>3
  <2>6. h = [i \in 0..k |-> IF i = 0 THEN base ELSE F[i][h[i - 1]]]
    <3>1. h = [i \in 0..k |-> h[i]]
      OBVIOUS
    <3> HIDE DEF h
    <3> QED  BY <2>5, <3>1
  <2>7. \E f : Good(f, k)
    <3> HIDE DEF h
    <3> QED  BY <2>4, <2>6
  <2> QED  BY <2>7
<1>3. n \in S
  <2> HIDE DEF S
  <2>1. 0..n \subseteq S
    BY <1>1, <1>2, AfterEveryStep
  <2> QED  BY <2>1
<1> QED  BY <1>3

-----------------------------------------------------------------------------
(* The matcher.  Where the attributes of a match are in the log: in the    *)
(* log's order, none taken twice, none outside a range.                    *)
Placed(attrs, match, pos, from, to) ==
    /\ pos \in [1..Len(match) -> Int]
    /\ \A i \in 1..Len(match) : from <= pos[i] /\ pos[i] < to
    /\ \A i, j \in 1..Len(match) : i < j => pos[i] < pos[j]
    /\ \A i \in 1..Len(match) : match[i] = attrs[pos[i]]

(* The first k attributes satisfy the first k items, belong to one message *)
(* and follow each other, with at most one skipped key before each.        *)
Fits(rule, attrs, match, pos, from, k) ==
    \A i \in 1..k :
        /\ Match(rule.items[i], match[i])
        /\ match[i].msg = match[1].msg
        /\ LET last == IF i = 1 THEN from - 1 ELSE pos[i - 1]
           IN pos[i] = last + 1 \/ (pos[i] = last + 2 /\ attrs[last + 1].key \in skipKeys)

(* What follows the items, up to the rule's "until" key: everything but    *)
(* skipped keys.                                                           *)
Rest(rule, attrs, match, pos, to) ==
    LET size == Len(rule.items)
    IN /\ \A i \in size + 1..Len(match) : attrs[pos[i]].key \notin skipKeys
       /\ \A j \in 1..Len(attrs) : pos[size] < j /\ j < to =>
              attrs[j].key \in skipKeys \/ \E i \in size + 1..Len(match) : pos[i] = j

Ends(rule, attrs, end, to) ==
    IF rule.until = None THEN to = end + 1
    ELSE /\ \A j \in 1..Len(attrs) : end < j /\ j < to => attrs[j].key # rule.until
         /\ to <= Len(attrs) => attrs[to].key = rule.until

IsMatch(rule, attrs, match, from, to) ==
    LET size == Len(rule.items)
    IN /\ Len(match) >= size
       /\ \E pos : /\ Placed(attrs, match, pos, from, to)
                   /\ Fits(rule, attrs, match, pos, from, size)
                   /\ Rest(rule, attrs, match, pos, to)
                   /\ Ends(rule, attrs, pos[size], to)

(* The items of a rule, one attribute each without any skipped key.        *)
Window(rule, attrs, at) ==
    \A i \in 1..Len(rule.items) :
        /\ Match(rule.items[i], attrs[at + i - 1])
        /\ attrs[at + i - 1].key \notin skipKeys
        /\ attrs[at + i - 1].msg = attrs[at].msg

(* One more attribute at the end of a match keeps the match in the log's   *)
(* order.                                                                  *)
LEMMA OneMorePlaced ==
    ASSUME NEW R, NEW attrs, NEW match \in Seq(R), NEW pos, NEW from \in Nat, NEW to \in Nat,
           Placed(attrs, match, pos, from, to), NEW p \in Nat, from <= p, to <= p, attrs[p] \in R
    PROVE  LET q == [j \in 1..Len(match) + 1 |-> IF j = Len(match) + 1 THEN p ELSE pos[j]]
           IN Placed(attrs, Append(match, attrs[p]), q, from, p + 1)
<1> DEFINE n == Len(match)
           q == [j \in 1..n + 1 |-> IF j = n + 1 THEN p ELSE pos[j]]
           new == Append(match, attrs[p])
<1>1. n \in Nat
  OBVIOUS
<1>2. /\ \A j \in 1..n : pos[j] \in Int /\ from <= pos[j] /\ pos[j] < to /\ match[j] = attrs[pos[j]]
      /\ \A i, j \in 1..n : i < j => pos[i] < pos[j]
  BY DEF Placed
<1>3. /\ Len(new) = n + 1 /\ new[n + 1] = attrs[p] /\ \A j \in 1..n : new[j] = match[j]
  OBVIOUS
<1>4. \A j \in 1..n : q[j] = pos[j] /\ j \in 1..n + 1
  BY <1>1
<1>5. q[n + 1] = p
  BY <1>1
<1>6. \A j \in 1..n + 1 : j = n + 1 \/ j \in 1..n
  BY <1>1
<1>7. q = [j \in 1..n + 1 |-> q[j]]
  OBVIOUS
<1> HIDE DEF q, new, n
<1>8. ASSUME NEW j \in 1..n + 1 PROVE q[j] \in Int /\ from <= q[j] /\ q[j] < p + 1 /\ new[j] = attrs[q[j]]
  <2>1. CASE j = n + 1
    BY <1>1, <1>3, <1>5, <2>1
  <2>2. CASE j \in 1..n
    <3>1. q[j] \in Int /\ from <= q[j] /\ q[j] < to /\ new[j] = attrs[q[j]]
      BY <1>2, <1>3, <1>4, <2>2
    <3> QED  BY <3>1
  <2> QED  BY <1>6, <2>1, <2>2
<1>9. ASSUME NEW i \in 1..n + 1, NEW j \in 1..n + 1, i < j PROVE q[i] < q[j]
  <2>1. i \in 1..n
    BY <1>1, <1>9
  <2>2. CASE j = n + 1
    <3>1. q[i] \in Int /\ q[i] < to /\ q[j] = p
      BY <1>2, <1>4, <1>5, <2>1, <2>2
    <3> QED  BY <3>1
  <2>3. CASE j \in 1..n
    BY <1>2, <1>4, <1>9, <2>1, <2>3
  <2> QED  BY <1>6, <2>2, <2>3
<1>10. q \in [1..n + 1 -> Int]
  BY <1>7, <1>8
<1>11. Placed(attrs, new, q, from, p + 1)
  BY <1>3, <1>8, <1>9, <1>10 DEF Placed
<1> QED  BY <1>11 DEF new, q, n

(* What fits the items does not depend on what comes behind them.          *)
LEMMA StillFits ==
    ASSUME NEW rule, NEW attrs, NEW match, NEW new, NEW pos, NEW q, NEW from, NEW k \in Nat,
           \A j \in 1..k : new[j] = match[j] /\ q[j] = pos[j], Fits(rule, attrs, match, pos, from, k)
    PROVE  Fits(rule, attrs, new, q, from, k)
<1>1. ASSUME NEW j \in 1..k
      PROVE  /\ Match(rule.items[j], new[j]) /\ new[j].msg = new[1].msg
             /\ LET last == IF j = 1 THEN from - 1 ELSE q[j - 1]
                IN q[j] = last + 1 \/ (q[j] = last + 2 /\ attrs[last + 1].key \in skipKeys)
  <2>1. 1 \in 1..k /\ (j # 1 => j - 1 \in 1..k)
    OBVIOUS
  <2>2. /\ Match(rule.items[j], match[j]) /\ match[j].msg = match[1].msg
        /\ LET last == IF j = 1 THEN from - 1 ELSE pos[j - 1]
           IN pos[j] = last + 1 \/ (pos[j] = last + 2 /\ attrs[last + 1].key \in skipKeys)
    BY DEF Fits
  <2> QED  BY <2>1, <2>2
<1> QED  BY <1>1 DEF Fits

(* What is known after i items from a position on.                         *)
Matching(rule, attrs, R, at, i) ==
    {m \in [found : Seq(R), next : Nat, failed : BOOLEAN] :
        /\ at <= m.next
        /\ m.failed => Len(m.found) < i
        /\ ~m.failed =>
              /\ Len(m.found) = i
              /\ m.next + Len(rule.items) <= Len(attrs) + 1 + i
              /\ IF i = 0 THEN m.next = at ELSE at < m.next
              /\ \E pos : /\ Placed(attrs, m.found, pos, at, m.next) /\ Fits(rule, attrs, m.found, pos, at, i)
                          /\ i > 0 => pos[i] = m.next - 1
        /\ Window(rule, attrs, at) =>
              ~m.failed /\ m.next = at + i /\ \A j \in 1..i : m.found[j] = attrs[at + j - 1]}

(* The three parts of a search that is known so far, put together.         *)
LEMMA MatchingIs ==
    ASSUME NEW R, NEW attrs, NEW rule, NEW at, NEW i,
           NEW found \in Seq(R), NEW next \in Nat, NEW failed \in BOOLEAN,
           at <= next, failed => Len(found) < i,
           ~failed =>
              /\ Len(found) = i
              /\ next + Len(rule.items) <= Len(attrs) + 1 + i
              /\ IF i = 0 THEN next = at ELSE at < next
              /\ \E pos : /\ Placed(attrs, found, pos, at, next) /\ Fits(rule, attrs, found, pos, at, i)
                          /\ i > 0 => pos[i] = next - 1,
           Window(rule, attrs, at) =>
              ~failed /\ next = at + i /\ \A j \in 1..i : found[j] = attrs[at + j - 1]
    PROVE  [found |-> found, next |-> next, failed |-> failed] \in Matching(rule, attrs, R, at, i)
BY DEF Matching

(* The same, when the item's attribute was found at p.                     *)
LEMMA StillMatching ==
    ASSUME NEW R, NEW attrs, NEW rule, Len(attrs) \in Nat, Len(rule.items) \in Nat, NEW at, NEW i \in Nat,
           NEW found \in Seq(R), NEW p \in Nat, at <= p, at \in Nat, i # 0, Len(found) = i,
           p + 1 + Len(rule.items) <= Len(attrs) + 1 + i,
           \E pos : /\ Placed(attrs, found, pos, at, p + 1) /\ Fits(rule, attrs, found, pos, at, i)
                    /\ pos[i] = p,
           Window(rule, attrs, at) => p + 1 = at + i /\ \A j \in 1..i : found[j] = attrs[at + j - 1]
    PROVE  [found |-> found, next |-> p + 1, failed |-> FALSE] \in Matching(rule, attrs, R, at, i)
<1> DEFINE n == p + 1
<1>1. PICK pos : /\ Placed(attrs, found, pos, at, n) /\ Fits(rule, attrs, found, pos, at, i)
                 /\ pos[i] = p
  OBVIOUS
<1>2. n \in Nat
  OBVIOUS
<1>3. at <= n
  OBVIOUS
<1>4. at < n
  OBVIOUS
<1>5. n - 1 = p
  OBVIOUS
<1>6. n + Len(rule.items) <= Len(attrs) + 1 + i
  OBVIOUS
<1>7. Window(rule, attrs, at) => n = at + i /\ \A j \in 1..i : found[j] = attrs[at + j - 1]
  OBVIOUS
<1> HIDE DEF n
<1>8. \E r : /\ Placed(attrs, found, r, at, n) /\ Fits(rule, attrs, found, r, at, i)
             /\ i > 0 => r[i] = n - 1
  BY <1>1, <1>5
<1>9. [found |-> found, next |-> n, failed |-> FALSE] \in Matching(rule, attrs, R, at, i)
  <2>1. FALSE \in BOOLEAN /\ (FALSE => Len(found) < i)
    OBVIOUS
  <2> QED  BY <1>2, <1>3, <1>4, <1>6, <1>7, <1>8 DEF Matching
<1> QED  BY <1>9 DEF n

(* One more item (finder.go:78-88).                                        *)
LEMMA MatchStep ==
    ASSUME NEW R, NEW attrs \in Seq(R), NEW I, NEW rule, rule.items \in Seq(I),
           NEW at \in 1..Len(attrs), at + Len(rule.items) <= Len(attrs) + 1,
           NEW i \in 1..Len(rule.items), NEW m \in Matching(rule, attrs, R, at, i - 1)
    PROVE  MatchItem(Len(rule.items), attrs, m, rule.items[i]) \in Matching(rule, attrs, R, at, i)
<1> DEFINE size  == Len(rule.items)
           skips == attrs[m.next].key \in skipKeys /\ m.next - Len(m.found) + size <= Len(attrs)
           p     == IF skips THEN m.next + 1 ELSE m.next
           inMsg == m.found # <<>> => attrs[p].msg = Last(m.found).msg
           next  == MatchItem(size, attrs, m, rule.items[i])
           item  == rule.items[i]
<1>1. /\ size \in Nat /\ i \in 1..size /\ Len(attrs) \in Nat /\ at \in Nat /\ i \in Nat
      /\ m.found \in Seq(R) /\ m.next \in Nat /\ m.failed \in BOOLEAN /\ Len(m.found) \in Nat
      /\ m = [found |-> m.found, next |-> m.next, failed |-> m.failed]
      /\ at <= m.next
  BY DEF Matching
<1>2. CASE m.failed
  <2>1. next = m
    BY <1>2 DEF MatchItem
  <2>2. Len(m.found) < i - 1
    BY <1>2 DEF Matching
  <2>3. ~Window(rule, attrs, at)
    BY <1>2 DEF Matching
  <2> QED  BY <1>1, <1>2, <2>1, <2>2, <2>3 DEF Matching
<1>3. CASE ~m.failed
  <2>1. /\ Len(m.found) = i - 1 /\ m.next + size <= Len(attrs) + i
        /\ Window(rule, attrs, at) =>
              m.next = at + i - 1 /\ \A j \in 1..i - 1 : m.found[j] = attrs[at + j - 1]
    <3> HIDE DEF skips, p, inMsg, next, item
    <3>1. Len(m.found) = i - 1 /\ m.next + size <= Len(attrs) + 1 + (i - 1)
      BY <1>3 DEF Matching
    <3>2. Window(rule, attrs, at) =>
             m.next = at + (i - 1) /\ \A j \in 1..i - 1 : m.found[j] = attrs[at + j - 1]
      BY <1>3 DEF Matching
    <3>3. m.next + size <= Len(attrs) + i /\ at + (i - 1) = at + i - 1
      <4> HIDE DEF size
      <4> QED  BY <1>1, <3>1
    <3> QED  BY <3>1, <3>2, <3>3
  <2>2. PICK pos : /\ Placed(attrs, m.found, pos, at, m.next) /\ Fits(rule, attrs, m.found, pos, at, i - 1)
                   /\ i - 1 > 0 => pos[i - 1] = m.next - 1
    BY <1>3 DEF Matching
  <2>3. /\ p \in 1..Len(attrs) /\ p >= m.next /\ p + 1 + size <= Len(attrs) + 1 + i
        /\ p = m.next \/ (p = m.next + 1 /\ attrs[m.next].key \in skipKeys)
    <3>1. CASE skips
      <4>1. /\ p = m.next + 1 /\ attrs[m.next].key \in skipKeys
            /\ m.next - Len(m.found) + size <= Len(attrs)
        BY <3>1
      <4> HIDE DEF p, skips, next, inMsg, item
      <4>2. p = m.next + 1 /\ m.next - (i - 1) + size <= Len(attrs)
        BY <2>1, <4>1
      <4>3. p \in 1..Len(attrs) /\ p >= m.next /\ p + 1 + size <= Len(attrs) + 1 + i
        <5>1. /\ m.next \in Nat /\ size \in Nat /\ i \in Nat /\ Len(attrs) \in Nat
              /\ 1 <= i /\ i <= size
          BY <1>1
        <5> HIDE DEF size
        <5>2. m.next + size <= Len(attrs) + i - 1
          BY <4>2, <5>1
        <5>3. m.next + 1 <= Len(attrs)
          BY <5>1, <5>2
        <5>4. p \in Nat /\ 1 <= p /\ p <= Len(attrs) /\ p >= m.next
          BY <4>2, <5>1, <5>3
        <5>5. p + 1 + size <= Len(attrs) + 1 + i
          BY <4>2, <5>1, <5>2
        <5> QED  BY <5>1, <5>4, <5>5
      <4> QED  BY <4>1, <4>3
    <3>2. CASE ~skips
      <4>1. p = m.next
        BY <3>2
      <4> HIDE DEF p, skips
      <4>2. /\ m.next \in Nat /\ size \in Nat /\ i \in Nat /\ Len(attrs) \in Nat
            /\ at \in Nat /\ at <= m.next /\ i <= size /\ m.next + size <= Len(attrs) + i
        BY <1>1, <2>1
      <4> HIDE DEF size
      <4>3. 1 <= m.next
        BY <1>1
      <4>4. m.next <= Len(attrs) /\ m.next + 1 + size <= Len(attrs) + 1 + i
        BY <4>2
      <4> QED  BY <4>1, <4>2, <4>3, <4>4
    <3> QED  BY <3>1, <3>2
  <2>4. attrs[p] \in R
    BY <2>3
  <2>5. CASE Match(item, attrs[p]) /\ inMsg
    <3>1. next = [found |-> Append(m.found, attrs[p]), next |-> p + 1, failed |-> FALSE]
      BY <1>1, <1>3, <2>5 DEF MatchItem
    <3> DEFINE found == Append(m.found, attrs[p])
               q == [j \in 1..i |-> IF j = i THEN p ELSE pos[j]]
    <3>2. /\ found \in Seq(R) /\ Len(found) = i /\ found[i] = attrs[p]
          /\ \A j \in 1..i - 1 : found[j] = m.found[j]
      BY <1>1, <2>1, <2>4
    <3> HIDE DEF found, p
    <3>4. Placed(attrs, found, q, at, p + 1)
      <4>1. Placed(attrs, m.found, pos, at, m.next) /\ at \in Nat /\ p \in Nat /\ at <= p /\ m.next <= p
        BY <1>1, <2>2, <2>3
      <4>2. q = [j \in 1..Len(m.found) + 1 |-> IF j = Len(m.found) + 1 THEN p ELSE pos[j]]
        BY <1>1, <2>1
      <4> HIDE DEF q
      <4>3. Placed(attrs, Append(m.found, attrs[p]), q, at, p + 1)
        BY <1>1, <2>4, <4>1, <4>2, OneMorePlaced
      <4> QED  BY <4>3 DEF found
    <3>5. Fits(rule, attrs, found, q, at, i)
      <4>1. \A j \in 1..i - 1 : found[j] = m.found[j] /\ q[j] = pos[j]
        BY <1>1, <3>2
      <4>2. Fits(rule, attrs, found, q, at, i - 1)
        <5>1. i - 1 \in Nat
          BY <1>1
        <5> HIDE DEF q
        <5> QED  BY <2>2, <4>1, <5>1, StillFits
      <4>3. Match(rule.items[i], found[i])
        BY <2>5, <3>2
      <4>4. found[i].msg = found[1].msg
        <5>1. CASE i = 1
          BY <5>1
        <5>2. CASE i # 1
          <6>1. i - 1 \in 1..i - 1 /\ 1 \in 1..i - 1 /\ m.found # <<>>
            BY <1>1, <2>1, <5>2
          <6>2. Last(m.found) = m.found[i - 1]
            BY <2>1 DEF Last
          <6>3. attrs[p].msg = m.found[i - 1].msg
            BY <2>5, <6>1, <6>2 DEF p
          <6>4. found[i - 1].msg = found[1].msg
            BY <4>2, <6>1 DEF Fits
          <6> QED  BY <3>2, <4>1, <6>1, <6>3, <6>4
        <5> QED  BY <5>1, <5>2
      <4>5. LET last == IF i = 1 THEN at - 1 ELSE q[i - 1]
            IN q[i] = last + 1 \/ (q[i] = last + 2 /\ attrs[last + 1].key \in skipKeys)
        <5>1. q[i] = p
          BY <1>1
        <5>2. CASE i = 1
          <6>1. m.next = at
            BY <1>1, <1>3, <2>1, <2>2, <5>2 DEF Matching
          <6> QED  BY <1>1, <2>3, <5>1, <5>2, <6>1
        <5>3. CASE i # 1
          <6>1. q[i - 1] = m.next - 1
            BY <1>1, <2>2, <5>3
          <6> HIDE DEF q
          <6> QED  BY <1>1, <2>3, <5>1, <5>3, <6>1
        <5> QED  BY <5>2, <5>3
      <4> HIDE DEF q
      <4>6. \A j \in 1..i : j = i \/ j \in 1..i - 1
        BY <1>1
      <4>7. ASSUME NEW j \in 1..i - 1
            PROVE  /\ Match(rule.items[j], found[j]) /\ found[j].msg = found[1].msg
                   /\ LET last == IF j = 1 THEN at - 1 ELSE q[j - 1]
                      IN q[j] = last + 1 \/ (q[j] = last + 2 /\ attrs[last + 1].key \in skipKeys)
        BY <4>2 DEF Fits
      <4> QED  BY <4>3, <4>4, <4>5, <4>6, <4>7 DEF Fits
    <3>6. Window(rule, attrs, at) => p + 1 = at + i /\ \A j \in 1..i : found[j] = attrs[at + j - 1]
      <4> SUFFICES ASSUME Window(rule, attrs, at)
                   PROVE  p + 1 = at + i /\ \A j \in 1..i : found[j] = attrs[at + j - 1]
        OBVIOUS
      <4>1. m.next = at + i - 1 /\ \A j \in 1..i - 1 : m.found[j] = attrs[at + j - 1]
        BY <2>1
      <4>2. attrs[at + i - 1].key \notin skipKeys
        BY <1>1 DEF Window
      <4>3. p = at + i - 1
        BY <2>3, <4>1, <4>2
      <4>4. \A j \in 1..i - 1 : found[j] = attrs[at + j - 1]
        BY <3>2, <4>1
      <4>5. found[i] = attrs[at + i - 1]
        BY <3>2, <4>3
      <4>6. \A j \in 1..i : j = i \/ j \in 1..i - 1
        BY <1>1
      <4> QED  BY <1>1, <4>3, <4>4, <4>5, <4>6
    <3>7. q[i] = p
      BY <1>1, <2>3
    <3> HIDE DEF q
    <3>8. \E r : /\ Placed(attrs, found, r, at, p + 1) /\ Fits(rule, attrs, found, r, at, i)
                 /\ r[i] = p
      BY <3>4, <3>5, <3>7
    <3>9. next = [found |-> found, next |-> p + 1, failed |-> FALSE]
      BY <3>1 DEF found
    <3>10. p \in Nat /\ at <= p
      BY <1>1, <2>3
    <3>11. i # 0 /\ i \in Nat /\ at \in Nat /\ p + 1 + Len(rule.items) <= Len(attrs) + 1 + i
      BY <1>1, <2>3
    <3> HIDE DEF next
    <3>12. next \in Matching(rule, attrs, R, at, i)
      BY <1>1, <3>2, <3>6, <3>8, <3>9, <3>10, <3>11, StillMatching
    <3> QED  BY <3>12 DEF next
  <2>6. CASE ~(Match(item, attrs[p]) /\ inMsg)
    <3>1. next = [found |-> m.found, next |-> p, failed |-> TRUE]
      BY <1>1, <1>3, <2>6 DEF MatchItem
    <3>2. ~Window(rule, attrs, at)
      <4> SUFFICES ASSUME Window(rule, attrs, at) PROVE FALSE
        OBVIOUS
      <4>1. m.next = at + i - 1 /\ \A j \in 1..i - 1 : m.found[j] = attrs[at + j - 1]
        BY <2>1
      <4> HIDE DEF p
      <4>2. p = at + i - 1 /\ Match(item, attrs[p]) /\ attrs[p].msg = attrs[at].msg
        BY <4>1, <2>3 DEF Window
      <4>3. m.found # <<>> => Last(m.found).msg = attrs[at].msg
        <5> HAVE m.found # <<>>
        <5>1. i - 1 \in 1..i - 1 /\ i - 1 \in 1..size
          BY <1>1, <2>1
        <5>2. Last(m.found) = attrs[at + (i - 1) - 1]
          BY <2>1, <4>1, <5>1 DEF Last
        <5>3. attrs[at + (i - 1) - 1].msg = attrs[at].msg
          BY <5>1 DEF Window
        <5> QED  BY <5>2, <5>3
      <4> QED  BY <2>6, <4>2, <4>3
    <3>3. p \in Nat /\ at <= p
      BY <1>1, <2>3
    <3>4. Len(m.found) < i
      BY <1>1, <2>1
    <3> HIDE DEF next, p
    <3>5. next \in Matching(rule, attrs, R, at, i)
      BY <1>1, <3>1, <3>2, <3>3, <3>4, MatchingIs
    <3> QED  BY <3>5 DEF next
  <2> QED  BY <2>5, <2>6
<1> QED  BY <1>2, <1>3

(* What the matcher returns from a position at which the rule still fits.  *)
LEMMA SubseqIs ==
    ASSUME NEW R, NEW attrs \in Seq(R), NEW I, NEW rule, rule.items \in Seq(I),
           NEW at \in 1..Len(attrs), at + Len(rule.items) <= Len(attrs) + 1
    PROVE  findMatchingSubseq(rule, attrs, at) \in Matching(rule, attrs, R, at, Len(rule.items))
<1> DEFINE n == Len(rule.items)
           A == [i \in 0..n |-> Matching(rule, attrs, R, at, i)]
           F == [i \in 1..n |-> [a \in A[i - 1] |-> MatchItem(n, attrs, a, rule.items[i])]]
           after[i \in 0..n] == IF i = 0 THEN NothingFound(at)
                                ELSE MatchItem(n, attrs, after[i - 1], rule.items[i])
<1>1. n \in Nat /\ at \in Nat /\ Len(attrs) \in Nat
  OBVIOUS
<1>2. NothingFound(at) \in A[0]
  <2>1. /\ <<>> \in Seq(R) /\ Len(<<>>) = 0 /\ at + Len(rule.items) <= Len(attrs) + 1 + 0
        /\ FALSE \in BOOLEAN
    BY <1>1
  <2>2. Placed(attrs, <<>>, [j \in 1..0 |-> 0], at, at) /\ Fits(rule, attrs, <<>>, [j \in 1..0 |-> 0], at, 0)
    BY DEF Placed, Fits
  <2>3. \E pos : /\ Placed(attrs, <<>>, pos, at, at) /\ Fits(rule, attrs, <<>>, pos, at, 0)
                 /\ 0 > 0 => pos[0] = at - 1
    BY <2>2
  <2>4. NothingFound(at) \in Matching(rule, attrs, R, at, 0)
    BY <1>1, <2>1, <2>3 DEF Matching, NothingFound
  <2> QED  BY <1>1, <2>4
<1>3. \A i \in 1..n : \A a \in A[i - 1] : F[i][a] \in A[i]
  <2> SUFFICES ASSUME NEW i \in 1..n, NEW a \in A[i - 1] PROVE F[i][a] \in A[i]
    OBVIOUS
  <2>1. i \in 0..n /\ i - 1 \in 0..n
    BY <1>1
  <2>2. A[i] = Matching(rule, attrs, R, at, i) /\ A[i - 1] = Matching(rule, attrs, R, at, i - 1)
    BY <2>1
  <2>3. F[i][a] = MatchItem(n, attrs, a, rule.items[i])
    OBVIOUS
  <2> HIDE DEF A, F
  <2> QED  BY <2>2, <2>3, MatchStep
<1>4. \E g : Goes(g, n, NothingFound(at), F) /\ \A i \in 0..n : g[i] \in A[i]
  <2> DEFINE base == NothingFound(at)
  <2>1. base \in A[0]
    BY <1>2
  <2> HIDE DEF A, F, n, after, base
  <2>2. \E g : Goes(g, n, base, F) /\ \A i \in 0..n : g[i] \in A[i]
    BY <1>1, <2>1, <1>3, StepByStep
  <2> QED  BY <2>2 DEF base
<1>5. PICK g : /\ g = [i \in 0..n |-> IF i = 0 THEN NothingFound(at) ELSE F[i][g[i - 1]]]
               /\ \A i \in 0..n : g[i] \in A[i]
  BY <1>4 DEF Goes
<1>6. g = [i \in 0..n |-> IF i = 0 THEN NothingFound(at)
                          ELSE MatchItem(n, attrs, g[i - 1], rule.items[i])]
  <2>1. \A i \in 1..n : F[i][g[i - 1]] = MatchItem(n, attrs, g[i - 1], rule.items[i])
    <3> TAKE i \in 1..n
    <3>1. i - 1 \in 0..n
      BY <1>1
    <3>2. g[i - 1] \in A[i - 1]
      BY <1>5, <3>1
    <3> HIDE DEF A
    <3> QED  BY <3>2
  <2>2. \A i \in 0..n : i = 0 \/ i \in 1..n
    BY <1>1
  <2> HIDE DEF F, A, n
  <2> QED  BY <1>5, <2>1, <2>2
<1>7. after = [i \in 0..n |-> IF i = 0 THEN NothingFound(at)
                              ELSE MatchItem(n, attrs, after[i - 1], rule.items[i])]
  <2> HIDE DEF n
  <2> QED  BY <1>6
<1>8. \A i \in 1..n : after[i - 1] \in A[i - 1] => after[i] \in A[i]
  <2> SUFFICES ASSUME NEW i \in 1..n, after[i - 1] \in A[i - 1] PROVE after[i] \in A[i]
    OBVIOUS
  <2>1. F[i][after[i - 1]] = MatchItem(n, attrs, after[i - 1], rule.items[i])
    OBVIOUS
  <2>2. i \in 0..n /\ i # 0
    BY <1>1
  <2>3. after[i] = MatchItem(n, attrs, after[i - 1], rule.items[i])
    <3> HIDE DEF after
    <3> QED  BY <1>7, <2>2
  <2> HIDE DEF A, F, after
  <2> QED  BY <1>3, <2>1, <2>3
<1>9. after[0] \in A[0]
  <2>1. 0 \in 0..n
    BY <1>1
  <2>2. after[0] = NothingFound(at)
    <3> HIDE DEF after
    <3> QED  BY <1>7, <2>1
  <2> QED  BY <1>2, <2>2
<1>10. after[n] \in A[n]
  <2> DEFINE S == {i \in 0..n : after[i] \in A[i]}
  <2>1. 0 \in S
    BY <1>1, <1>9
  <2>2. \A i \in 1..n : i - 1 \in S => i \in S
    <3> HIDE DEF after, A
    <3> QED  BY <1>1, <1>8
  <2>3. 0..n \subseteq S
    <3> HIDE DEF S, n
    <3> QED  BY <1>1, <2>1, <2>2, AfterEveryStep
  <2>4. n \in S
    <3> HIDE DEF S
    <3> QED  BY <1>1, <2>3
  <2> HIDE DEF after, A
  <2> QED  BY <2>4
<1>11. A[n] = Matching(rule, attrs, R, at, n)
  BY <1>1
<1>12. findMatchingSubseq(rule, attrs, at) = after[n]
  BY DEF findMatchingSubseq
<1> HIDE DEF after, A
<1> QED  BY <1>10, <1>11, <1>12

-----------------------------------------------------------------------------
(* The attributes that follow the items of a rule.  The items end before   *)
(* "end"; k attributes behind them have been looked at.                    *)
Extended(rule, attrs, R, at, end, k) ==
    {match \in Seq(R) :
        /\ Len(match) >= Len(rule.items)
        /\ \E pos : /\ Placed(attrs, match, pos, at, end + k)
                    /\ Fits(rule, attrs, match, pos, at, Len(rule.items))
                    /\ pos[Len(rule.items)] = end - 1
                    /\ Rest(rule, attrs, match, pos, end + k)}

(* One more attribute behind the items (finder.go:98-103).                 *)
LEMMA ExtendStep ==
    ASSUME NEW R, NEW attrs \in Seq(R), NEW I, NEW rule, rule.items \in Seq(I), rule.items # <<>>,
           NEW at \in 1..Len(attrs), NEW end \in Nat, at < end,
           NEW k \in Nat, k > 0, end + k - 1 <= Len(attrs),
           NEW match \in Extended(rule, attrs, R, at, end, k - 1)
    PROVE  Unskipped(match, attrs[end + k - 1]) \in Extended(rule, attrs, R, at, end, k)
<1> DEFINE size == Len(rule.items)
           p    == end + k - 1
           n    == Len(match)
           new  == Append(match, attrs[p])
<1>1. /\ size \in Nat /\ size > 0 /\ n \in Nat /\ n >= size
      /\ match \in Seq(R) /\ p \in 1..Len(attrs) /\ attrs[p] \in R
  BY DEF Extended
<1>2. PICK pos : /\ Placed(attrs, match, pos, at, end + (k - 1))
                 /\ Fits(rule, attrs, match, pos, at, size)
                 /\ pos[size] = end - 1
                 /\ Rest(rule, attrs, match, pos, end + (k - 1))
  BY DEF Extended
<1>3. end + (k - 1) = p /\ end + k = p + 1 /\ p \in Nat /\ at <= p
  OBVIOUS
<1> HIDE DEF p, size, n
<1>4. /\ \A i \in size + 1..n : attrs[pos[i]].key \notin skipKeys
      /\ \A j \in 1..Len(attrs) : pos[size] < j /\ j < p =>
            attrs[j].key \in skipKeys \/ \E i \in size + 1..n : pos[i] = j
  BY <1>2, <1>3 DEF Rest, size, n
<1>5. CASE attrs[p].key \in skipKeys
  <2>1. Unskipped(match, attrs[p]) = match
    BY <1>5 DEF Unskipped
  <2>2. Placed(attrs, match, pos, at, p + 1)
    <3>1. /\ pos \in [1..n -> Int] /\ \A i \in 1..n : at <= pos[i] /\ pos[i] < p
          /\ \A i, j \in 1..n : i < j => pos[i] < pos[j]
          /\ \A i \in 1..n : match[i] = attrs[pos[i]]
      BY <1>2, <1>3 DEF Placed, n
    <3>2. \A i \in 1..n : pos[i] < p + 1
      BY <1>3, <3>1
    <3> QED  BY <3>1, <3>2 DEF Placed, n
  <2>3. Rest(rule, attrs, match, pos, p + 1)
    <3>1. ASSUME NEW j \in 1..Len(attrs), pos[size] < j, j < p + 1
          PROVE  attrs[j].key \in skipKeys \/ \E i \in size + 1..n : pos[i] = j
      <4>1. j = p \/ j < p
        BY <1>3, <3>1
      <4> QED  BY <1>4, <1>5, <3>1, <4>1
    <3> QED  BY <1>4, <3>1 DEF Rest, size, n
  <2>4. match \in Extended(rule, attrs, R, at, end, k)
    BY <1>1, <1>2, <1>3, <2>2, <2>3 DEF Extended, size, n
  <2> QED  BY <2>1, <2>4 DEF p
<1>6. CASE attrs[p].key \notin skipKeys
  <2> DEFINE q == [j \in 1..n + 1 |-> IF j = n + 1 THEN p ELSE pos[j]]
  <2>1. Unskipped(match, attrs[p]) = new
    BY <1>6 DEF Unskipped
  <2>2. Placed(attrs, new, q, at, p + 1)
    <3>1. Placed(attrs, match, pos, at, p)
      BY <1>2, <1>3
    <3>2. at \in Nat /\ p \in Nat /\ at <= p /\ match \in Seq(R) /\ attrs[p] \in R
      BY <1>1, <1>3
    <3>3. p <= p
      BY <3>2
    <3>4. Placed(attrs, Append(match, attrs[p]),
                 [j \in 1..Len(match) + 1 |-> IF j = Len(match) + 1 THEN p ELSE pos[j]], at, p + 1)
      BY <3>1, <3>2, <3>3, OneMorePlaced
    <3> QED  BY <3>4 DEF n
  <2>3. /\ new \in Seq(R) /\ Len(new) = n + 1 /\ \A j \in 1..n : new[j] = match[j]
    BY <1>1 DEF n
  <2>4. q[n + 1] = p /\ \A j \in 1..n : q[j] = pos[j]
    BY <1>1
  <2> HIDE DEF q, new
  <2>5. Fits(rule, attrs, new, q, at, size)
    <3>1. \A j \in 1..size : new[j] = match[j] /\ q[j] = pos[j]
      BY <1>1, <2>3, <2>4
    <3> QED  BY <1>1, <1>2, <3>1, StillFits
  <2>6. q[size] = end - 1
    BY <1>1, <1>2, <2>4
  <2>7. Rest(rule, attrs, new, q, p + 1)
    <3>1. ASSUME NEW i \in size + 1..n + 1 PROVE attrs[q[i]].key \notin skipKeys
      <4>1. CASE i = n + 1
        BY <1>6, <2>4, <4>1
      <4>2. CASE i \in size + 1..n
        <5>1. i \in 1..n
          BY <1>1, <4>2
        <5> QED  BY <1>4, <2>4, <4>2, <5>1
      <4> QED  BY <1>1, <4>1, <4>2
    <3>2. ASSUME NEW j \in 1..Len(attrs), q[size] < j, j < p + 1
          PROVE  attrs[j].key \in skipKeys \/ \E i \in size + 1..n + 1 : q[i] = j
      <4>1. CASE j = p
        <5>1. n + 1 \in size + 1..n + 1
          BY <1>1
        <5> QED  BY <2>4, <4>1, <5>1
      <4>2. CASE j < p /\ attrs[j].key \notin skipKeys
        <5>1. PICK i \in size + 1..n : pos[i] = j
          BY <1>2, <1>4, <2>6, <3>2, <4>2
        <5>2. i \in size + 1..n + 1 /\ q[i] = pos[i]
          BY <1>1, <2>4
        <5> QED  BY <5>1, <5>2
      <4>3. j = p \/ j < p
        BY <1>3, <3>2
      <4> QED  BY <4>1, <4>2, <4>3
    <3> QED  BY <2>3, <3>1, <3>2 DEF Rest, size
  <2>8. new \in Extended(rule, attrs, R, at, end, k)
    <3>1. Len(new) >= size
      BY <1>1, <2>3
    <3> QED  BY <1>3, <2>2, <2>3, <2>5, <2>6, <2>7, <3>1 DEF Extended, size
  <2> QED  BY <2>1, <2>8 DEF p
<1> QED  BY <1>5, <1>6

(* A non-empty set of numbers has a least one. *)
LEMMA Least ==
    ASSUME NEW S, S \subseteq Nat, S # {}
    PROVE  \E j \in S : \A k \in S : j <= k
<1> DEFINE L == {pq \in Nat \X Nat : pq[1] < pq[2]}
<1>1. OpToRel(<, Nat) = L
  BY DEF OpToRel
<1>2. IsWellFoundedOn(L, Nat)
  BY <1>1, NatLessThanWellFounded
<1>3. \E x \in S : \A y \in S : ~(<<y, x>> \in L)
  <2> HIDE DEF L
  <2> QED  BY <1>2, WFMin
<1>4. PICK x \in S : \A y \in S : ~(<<y, x>> \in L)
  BY <1>3
<1>5. ASSUME NEW y \in S PROVE x <= y
  <2>1. ~(<<y, x>> \in L) /\ x \in Nat /\ y \in Nat
    BY <1>4
  <2> QED  BY <2>1
<1> QED  BY <1>5

(* Where a match ends (finder.go:97-98).                                      *)
LEMMA UntilIs ==
    ASSUME NEW R, NEW attrs \in Seq(R), NEW rule, NEW from \in 1..Len(attrs) + 1
    PROVE  LET stop == Until(rule, attrs, from)
           IN stop \in from..Len(attrs) + 1 /\ Ends(rule, attrs, from - 1, stop)
<1> DEFINE stop == Until(rule, attrs, from)
           ends == {j \in from..Len(attrs) : attrs[j].key = rule.until}
<1>1. CASE rule.until = None
  <2>1. stop = from /\ stop = from - 1 + 1
    BY <1>1 DEF Until
  <2> HIDE DEF stop
  <2>2. Ends(rule, attrs, from - 1, stop) /\ stop \in from..Len(attrs) + 1
    BY <1>1, <2>1 DEF Ends
  <2> QED  BY <2>2 DEF stop
<1>2. CASE rule.until # None /\ ends = {}
  <2>1. stop = Len(attrs) + 1
    BY <1>2 DEF Until
  <2>2. \A j \in 1..Len(attrs) : from - 1 < j => attrs[j].key # rule.until
    BY <1>2
  <2>3. ~(stop <= Len(attrs)) /\ stop \in from..Len(attrs) + 1
    BY <2>1
  <2> HIDE DEF stop
  <2>4. Ends(rule, attrs, from - 1, stop)
    BY <1>2, <2>2, <2>3 DEF Ends
  <2> QED  BY <2>3, <2>4 DEF stop
<1>3. CASE rule.until # None /\ ends # {}
  <2>1. stop = CHOOSE j \in ends : \A k \in ends : j <= k
    BY <1>3 DEF Until
  <2>2. \E j \in ends : \A k \in ends : j <= k
    <3>1. ends \subseteq Nat
      OBVIOUS
    <3> HIDE DEF ends
    <3> QED  BY <1>3, <3>1, Least
  <2> HIDE DEF stop
  <2>3. stop \in ends /\ \A k \in ends : stop <= k
    <3> HIDE DEF ends
    <3> QED  BY <2>1, <2>2
  <2>4. stop \in from..Len(attrs) /\ attrs[stop].key = rule.until
    BY <2>3
  <2>5. ASSUME NEW j \in 1..Len(attrs), from - 1 < j, j < stop PROVE attrs[j].key # rule.until
    <3>1. j \in from..Len(attrs) /\ ~(stop <= j)
      BY <2>4, <2>5
    <3> QED  BY <2>3, <3>1
  <2>6. Ends(rule, attrs, from - 1, stop)
    BY <1>3, <2>4, <2>5 DEF Ends
  <2> QED  BY <2>4, <2>6 DEF stop
<1> QED  BY <1>1, <1>2, <1>3

(* A match with what follows it. *)
LEMMA AppendUntilIs ==
    ASSUME NEW R, NEW attrs \in Seq(R), NEW I, NEW rule, rule.items \in Seq(I), rule.items # <<>>,
           NEW at \in 1..Len(attrs), at + Len(rule.items) <= Len(attrs) + 1,
           NEW m \in Matching(rule, attrs, R, at, Len(rule.items)), ~m.failed
    PROVE  LET full == appendUntil(rule, attrs, m)
           IN /\ full.found \in Seq(R) /\ full.next \in Nat
              /\ at < full.next /\ full.next <= Len(attrs) + 1
              /\ IsMatch(rule, attrs, full.found, at, full.next)
<1> DEFINE size == Len(rule.items)
           end  == m.next
           stop == Until(rule, attrs, end)
           n    == stop - end
           with[k \in 0..n] == IF k = 0 THEN m.found ELSE Unskipped(with[k - 1], attrs[end + k - 1])
           A == [k \in 0..n |-> Extended(rule, attrs, R, at, end, k)]
           F == [k \in 1..n |-> [a \in A[k - 1] |-> Unskipped(a, attrs[end + k - 1])]]
           full == appendUntil(rule, attrs, m)
<1>1. /\ size \in Nat /\ size > 0 /\ Len(attrs) \in Nat /\ at \in Nat
      /\ m.found \in Seq(R) /\ end \in Nat /\ Len(m.found) = size /\ at < end
      /\ end + size <= Len(attrs) + 1 + size
  <2>1. size \in Nat /\ size > 0 /\ Len(attrs) \in Nat /\ at \in Nat
    OBVIOUS
  <2> HIDE DEF stop, n, with, A, F, full
  <2>2. /\ m.found \in Seq(R) /\ end \in Nat /\ Len(m.found) = size
        /\ end + size <= Len(attrs) + 1 + size /\ IF size = 0 THEN end = at ELSE at < end
    BY DEF Matching
  <2>3. at < end
    <3> HIDE DEF size, end
    <3> QED  BY <2>1, <2>2
  <2> QED  BY <2>1, <2>2, <2>3
<1>2. end \in 1..Len(attrs) + 1
  <2> HIDE DEF size, end
  <2> QED  BY <1>1
<1>3. stop \in end..Len(attrs) + 1 /\ Ends(rule, attrs, end - 1, stop)
  <2> HIDE DEF end
  <2> QED  BY <1>2, UntilIs
<1>4. n \in Nat /\ end + n = stop
  <2> HIDE DEF end, stop
  <2> QED  BY <1>1, <1>3
<1>5. m.found \in A[0]
  <2>1. PICK pos : /\ Placed(attrs, m.found, pos, at, end) /\ Fits(rule, attrs, m.found, pos, at, size)
                   /\ size > 0 => pos[size] = end - 1
    BY DEF Matching
  <2>2. Rest(rule, attrs, m.found, pos, end)
    <3>1. size + 1..Len(m.found) = {}
      <4> HIDE DEF size
      <4> QED  BY <1>1
    <3>2. \A j \in 1..Len(attrs) : ~(pos[size] < j /\ j < end)
      <4> HIDE DEF size, end
      <4> QED  BY <1>1, <2>1
    <3> QED  BY <3>1, <3>2 DEF Rest
  <2>3. end + 0 = end /\ 0 \in 0..n /\ Len(m.found) >= size
    <3> HIDE DEF end, n, size
    <3> QED  BY <1>1, <1>4
  <2>4. m.found \in Extended(rule, attrs, R, at, end, 0)
    BY <1>1, <2>1, <2>2, <2>3 DEF Extended
  <2> HIDE DEF n
  <2> QED  BY <2>3, <2>4
<1>6. ASSUME NEW k \in 1..n, NEW a \in A[k - 1]
      PROVE  F[k][a] = Unskipped(a, attrs[end + k - 1]) /\ F[k][a] \in A[k]
  <2> HIDE DEF n
  <2>1. k \in 0..n /\ k - 1 \in 0..n /\ k \in Nat /\ k > 0
    BY <1>4
  <2>2. A[k] = Extended(rule, attrs, R, at, end, k) /\ A[k - 1] = Extended(rule, attrs, R, at, end, k - 1)
    BY <2>1
  <2>3. F[k][a] = Unskipped(a, attrs[end + k - 1])
    OBVIOUS
  <2>4. end + k - 1 <= Len(attrs)
    <3> HIDE DEF end, stop
    <3> QED  BY <1>1, <1>3, <1>4, <2>1
  <2> HIDE DEF A, F, end, size, stop, with, full
  <2>5. Unskipped(a, attrs[end + k - 1]) \in Extended(rule, attrs, R, at, end, k)
    BY <1>1, <2>1, <2>2, <2>4, ExtendStep
  <2> QED  BY <2>2, <2>3, <2>5
<1>7. \E g : Goes(g, n, m.found, F) /\ \A k \in 0..n : g[k] \in A[k]
  <2> DEFINE base == m.found
  <2>1. base \in A[0]
    BY <1>5
  <2> HIDE DEF A, F, n, with, base
  <2>2. \E g : Goes(g, n, base, F) /\ \A k \in 0..n : g[k] \in A[k]
    BY <1>4, <2>1, <1>6, StepByStep
  <2> QED  BY <2>2 DEF base
<1>8. PICK g : Goes(g, n, m.found, F) /\ \A k \in 0..n : g[k] \in A[k]
  BY <1>7
<1>9. g = [k \in 0..n |-> IF k = 0 THEN m.found ELSE Unskipped(g[k - 1], attrs[end + k - 1])]
  <2>1. \A k \in 1..n : F[k][g[k - 1]] = Unskipped(g[k - 1], attrs[end + k - 1])
    <3> TAKE k \in 1..n
    <3> HIDE DEF n, A, F
    <3>1. k - 1 \in 0..n
      BY <1>4
    <3> QED  BY <1>6, <1>8, <3>1
  <2>2. \A k \in 0..n : k = 0 \/ k \in 1..n
    <3> HIDE DEF n
    <3> QED  BY <1>4
  <2> HIDE DEF F, A, n, end
  <2> QED  BY <1>8, <2>1, <2>2 DEF Goes
<1>10. with = [k \in 0..n |-> IF k = 0 THEN m.found ELSE Unskipped(with[k - 1], attrs[end + k - 1])]
  <2> HIDE DEF n, end
  <2> QED  BY <1>9
<1>11. \A k \in 1..n : with[k - 1] \in A[k - 1] => with[k] \in A[k]
  <2> SUFFICES ASSUME NEW k \in 1..n, with[k - 1] \in A[k - 1] PROVE with[k] \in A[k]
    OBVIOUS
  <2>1. k \in 0..n /\ k # 0
    <3> HIDE DEF n
    <3> QED  BY <1>4
  <2>2. with[k] = Unskipped(with[k - 1], attrs[end + k - 1])
    <3> HIDE DEF with, n, end
    <3> QED  BY <1>10, <2>1
  <2> HIDE DEF A, F, with, n, end
  <2> QED  BY <1>6, <2>2
<1>12. with[n] \in A[n]
  <2> DEFINE S == {k \in 0..n : with[k] \in A[k]}
  <2>1. 0 \in S
    <3>1. 0 \in 0..n
      <4> HIDE DEF n
      <4> QED  BY <1>4
    <3>2. with[0] = m.found
      <4> HIDE DEF with, n, end
      <4> QED  BY <1>10, <3>1
    <3> HIDE DEF with, A, n
    <3> QED  BY <1>5, <3>1, <3>2
  <2>2. \A k \in 1..n : k - 1 \in S => k \in S
    <3> HIDE DEF with, A, n
    <3> QED  BY <1>4, <1>11
  <2>3. 0..n \subseteq S
    <3> HIDE DEF S, n
    <3> QED  BY <1>4, <2>1, <2>2, AfterEveryStep
  <2>4. n \in S
    <3> HIDE DEF S, n
    <3> QED  BY <1>4, <2>3
  <2> HIDE DEF with, A, n
  <2> QED  BY <2>4
<1>13. A[n] = Extended(rule, attrs, R, at, end, n)
  <2> HIDE DEF n
  <2> QED  BY <1>4
<1>14. full = [found |-> with[n], next |-> stop]
  BY DEF appendUntil
<1>15. with[n] \in Extended(rule, attrs, R, at, end, n)
  BY <1>12, <1>13
<1> HIDE DEF with, A, n, end, stop, full
<1>16. PICK pos : /\ Placed(attrs, with[n], pos, at, stop)
                  /\ Fits(rule, attrs, with[n], pos, at, size)
                  /\ pos[size] = end - 1
                  /\ Rest(rule, attrs, with[n], pos, stop)
  BY <1>4, <1>15 DEF Extended
<1>17. with[n] \in Seq(R) /\ Len(with[n]) >= size
  BY <1>15 DEF Extended
<1>18. IsMatch(rule, attrs, with[n], at, stop)
  BY <1>3, <1>16, <1>17 DEF IsMatch
<1>19. stop \in Nat /\ at < stop /\ stop <= Len(attrs) + 1
  BY <1>1, <1>3
<1>20. full.found = with[n] /\ full.next = stop
  BY <1>14
<1> QED  BY <1>17, <1>18, <1>19, <1>20 DEF full

-----------------------------------------------------------------------------
(* The search through one log.  Where the matches are: in the log's order, *)
(* each behind the one before.                                             *)
FoundAt(rule, attrs, matches, from, to) ==
    /\ from \in [1..Len(matches) -> Nat] /\ to \in [1..Len(matches) -> Nat]
    /\ \A k \in 1..Len(matches) :
           /\ 1 <= from[k] /\ from[k] < to[k] /\ to[k] <= Len(attrs) + 1
           /\ IsMatch(rule, attrs, matches[k], from[k], to[k])
    /\ \A k, l \in 1..Len(matches) : k < l => to[k] <= from[l]

Covered(matches, from, to, p) == \E k \in 1..Len(matches) : from[k] <= p /\ p < to[k]

(* What is known when the search has looked at the first i positions.      *)
Searched(rule, attrs, R, i) ==
    {s \in [next : Nat, matches : Seq(Seq(R))] :
        \E from, to :
            /\ FoundAt(rule, attrs, s.matches, from, to)
            /\ \A k \in 1..Len(s.matches) : from[k] <= i /\ to[k] <= s.next
            /\ \A p \in 1..Len(attrs) :
                  \/ p <= i /\ p + Len(rule.items) <= Len(attrs) + 1 /\ Window(rule, attrs, p)
                  \/ i < p /\ p < s.next
                  => Covered(s.matches, from, to, p)}

(* One more position (finder.go:56-66).                                    *)
LEMMA SearchStep ==
    ASSUME NEW R, NEW attrs \in Seq(R), NEW I, NEW rule, rule.items \in Seq(I), rule.items # <<>>,
           NEW i \in 1..Len(attrs), NEW s \in Searched(rule, attrs, R, i - 1)
    PROVE  SearchAt(rule, attrs, s, i) \in Searched(rule, attrs, R, i)
<1> DEFINE size == Len(rule.items)
           m    == findMatchingSubseq(rule, attrs, i)
           full == appendUntil(rule, attrs, m)
           n    == Len(s.matches)
<1>1. /\ size \in Nat /\ size > 0 /\ Len(attrs) \in Nat /\ i \in Nat /\ i >= 1 /\ i <= Len(attrs)
  OBVIOUS
<1>2. s \in [next : Nat, matches : Seq(Seq(R))] /\ s.next \in Nat /\ s.matches \in Seq(Seq(R)) /\ n \in Nat
  BY DEF Searched
<1>3. PICK from, to :
         /\ FoundAt(rule, attrs, s.matches, from, to)
         /\ \A k \in 1..n : from[k] <= i - 1 /\ to[k] <= s.next
         /\ \A p \in 1..Len(attrs) :
               \/ p <= i - 1 /\ p + size <= Len(attrs) + 1 /\ Window(rule, attrs, p)
               \/ i - 1 < p /\ p < s.next
               => Covered(s.matches, from, to, p)
  BY DEF Searched
<1> HIDE DEF m, full
<1>4. /\ from \in [1..n -> Nat] /\ to \in [1..n -> Nat]
      /\ \A k \in 1..n : 1 <= from[k] /\ from[k] < to[k] /\ to[k] <= Len(attrs) + 1
      /\ \A k \in 1..n : IsMatch(rule, attrs, s.matches[k], from[k], to[k])
      /\ \A k, l \in 1..n : k < l => to[k] <= from[l]
  BY <1>3 DEF FoundAt
<1>5. CASE i < s.next \/ i + size - 1 > Len(attrs) \/ Len(m.found) # size
  <2>1. SearchAt(rule, attrs, s, i) = s
    BY <1>5 DEF SearchAt, m, full
  <2>2. i < s.next \/ ~(i + size <= Len(attrs) + 1 /\ Window(rule, attrs, i))
    <3> SUFFICES ASSUME i + size <= Len(attrs) + 1, Window(rule, attrs, i), ~(i < s.next)
                 PROVE  FALSE
      OBVIOUS
    <3>1. m \in Matching(rule, attrs, R, i, size)
      BY SubseqIs DEF m
    <3>2. Len(m.found) = size
      BY <3>1 DEF Matching
    <3> HIDE DEF size
    <3> QED  BY <1>1, <1>2, <1>5, <3>2
  <2>3. ASSUME NEW p \in 1..Len(attrs),
               \/ p <= i /\ p + size <= Len(attrs) + 1 /\ Window(rule, attrs, p)
               \/ i < p /\ p < s.next
        PROVE  Covered(s.matches, from, to, p)
    <3>1. p = i \/ p <= i - 1 \/ i < p
      OBVIOUS
    <3>2. i - 1 < i /\ (i < p => i - 1 < p)
      BY <1>1
    <3> HIDE DEF size
    <3> QED  BY <1>3, <2>2, <2>3, <3>1, <3>2
  <2>4. ASSUME NEW k \in 1..n PROVE from[k] <= i /\ to[k] <= s.next
    <3>1. from[k] \in Nat /\ from[k] <= i - 1 /\ to[k] <= s.next
      BY <1>3, <1>4
    <3> QED  BY <1>1, <3>1
  <2>5. s \in Searched(rule, attrs, R, i)
    BY <1>2, <1>3, <2>3, <2>4 DEF Searched
  <2> QED  BY <2>1, <2>5
<1>6. CASE ~(i < s.next) /\ i + size - 1 <= Len(attrs) /\ Len(m.found) = size
  <2> DEFINE new == [next |-> full.next, matches |-> Append(s.matches, full.found)]
             f   == [k \in 1..n + 1 |-> IF k = n + 1 THEN i ELSE from[k]]
             t   == [k \in 1..n + 1 |-> IF k = n + 1 THEN full.next ELSE to[k]]
  <2>1. SearchAt(rule, attrs, s, i) = new
    <3>1. ~(i + size - 1 > Len(attrs))
      BY <1>1, <1>6
    <3> QED  BY <1>6, <3>1 DEF SearchAt, m, full
  <2>2. i + size <= Len(attrs) + 1
    BY <1>1, <1>6
  <2>3. m \in Matching(rule, attrs, R, i, size)
    BY <2>2, SubseqIs DEF m
  <2>4. ~m.failed
    BY <1>1, <1>6, <2>3 DEF Matching
  <2>5. /\ full.found \in Seq(R) /\ full.next \in Nat
        /\ i < full.next /\ full.next <= Len(attrs) + 1
        /\ IsMatch(rule, attrs, full.found, i, full.next)
    BY <2>2, <2>3, <2>4, AppendUntilIs DEF full
  <2>6. /\ new.matches \in Seq(Seq(R)) /\ Len(new.matches) = n + 1 /\ new.matches[n + 1] = full.found
        /\ \A k \in 1..n : new.matches[k] = s.matches[k]
        /\ new \in [next : Nat, matches : Seq(Seq(R))] /\ new.next = full.next
    BY <1>2, <2>5
  <2>7. \A k \in 1..n : f[k] = from[k] /\ t[k] = to[k] /\ k \in 1..n + 1
    BY <1>2
  <2>8. f[n + 1] = i /\ t[n + 1] = full.next /\ n + 1 \in 1..n + 1
    BY <1>2
  <2>9. f = [k \in 1..n + 1 |-> f[k]] /\ t = [k \in 1..n + 1 |-> t[k]]
    OBVIOUS
  <2>10. \A k \in 1..n + 1 : k = n + 1 \/ k \in 1..n
    BY <1>2
  <2> HIDE DEF new, f, t, n, size
  <2>11. ASSUME NEW k \in 1..n + 1
         PROVE  /\ f[k] \in Nat /\ t[k] \in Nat
                /\ 1 <= f[k] /\ f[k] < t[k] /\ t[k] <= Len(attrs) + 1
                /\ IsMatch(rule, attrs, new.matches[k], f[k], t[k])
                /\ f[k] <= i /\ t[k] <= full.next
    <3>1. CASE k = n + 1
      BY <1>1, <2>5, <2>6, <2>8, <3>1
    <3>2. CASE k \in 1..n
      <4>1. to[k] \in Nat /\ to[k] <= s.next /\ from[k] \in Nat /\ from[k] <= i - 1
        BY <1>3, <1>4, <3>2 DEF n
      <4>2. to[k] <= full.next /\ from[k] <= i
        <5>1. /\ i \in Nat /\ s.next \in Nat /\ s.next <= i
              /\ full.next \in Nat /\ i < full.next
          BY <1>1, <1>2, <1>6, <2>5
        <5> HIDE DEF full
        <5> QED  BY <4>1, <5>1
      <4> QED  BY <1>4, <2>6, <2>7, <3>2, <4>1, <4>2
    <3> QED  BY <2>10, <3>1, <3>2
  <2>12. ASSUME NEW k \in 1..n + 1, NEW l \in 1..n + 1, k < l PROVE t[k] <= f[l]
    <3>1. k \in 1..n
      BY <1>2, <2>12
    <3>2. CASE l = n + 1
      <4>1. t[k] = to[k] /\ to[k] \in Nat /\ to[k] <= s.next
        BY <1>3, <1>4, <2>7, <3>1 DEF n
      <4> QED  BY <1>1, <1>2, <1>6, <2>8, <3>2, <4>1
    <3>3. CASE l \in 1..n
      BY <1>4, <2>7, <2>12, <3>1, <3>3
    <3> QED  BY <2>10, <3>2, <3>3
  <2>13. FoundAt(rule, attrs, new.matches, f, t)
    <3>1. f \in [1..n + 1 -> Nat] /\ t \in [1..n + 1 -> Nat]
      BY <2>9, <2>11
    <3> QED  BY <2>6, <2>11, <2>12, <3>1 DEF FoundAt
  <2>14. ASSUME NEW p \in 1..Len(attrs),
                \/ p <= i /\ p + size <= Len(attrs) + 1 /\ Window(rule, attrs, p)
                \/ i < p /\ p < full.next
         PROVE  Covered(new.matches, f, t, p)
    <3>1. CASE i <= p /\ p < full.next
      BY <2>6, <2>8, <3>1 DEF Covered
    <3>2. CASE p < i
      <4>1. p <= i - 1 /\ p + size <= Len(attrs) + 1 /\ Window(rule, attrs, p)
        BY <1>1, <2>14, <3>2
      <4>2. Covered(s.matches, from, to, p)
        BY <1>3, <4>1
      <4>3. PICK k \in 1..n : from[k] <= p /\ p < to[k]
        BY <4>2 DEF Covered, n
      <4> QED  BY <2>6, <2>7, <4>3 DEF Covered
    <3> QED  BY <1>1, <2>5, <2>14, <3>1, <3>2
  <2>15. new \in Searched(rule, attrs, R, i)
    BY <2>6, <2>11, <2>13, <2>14 DEF Searched, size
  <2> QED  BY <2>1, <2>15
<1>7. i + size - 1 > Len(attrs) \/ i + size - 1 <= Len(attrs)
  <2> HIDE DEF size
  <2> QED  BY <1>1
<1> QED  BY <1>5, <1>6, <1>7

(* Reading one log (pkg/eventlog/finder.go:47).  Every match the finder    *)
(* returns is the rule's items in the log, in the log's order, all of one  *)
(* message and with at most one skipped key before each, followed by what  *)
(* belongs to it; no attribute is in two matches; and no place where the   *)
(* items stand one after the other in one message is passed over, unless   *)
(* an earlier match reaches into it.                                       *)
THEOREM MatchesAreFound ==
    ASSUME NEW R, NEW attrs \in Seq(R), NEW I, NEW rule, rule.items \in Seq(I), rule.items # <<>>
    PROVE  LET matches == FindFromAttrs(rule, attrs)
           IN \E from, to :
                 /\ FoundAt(rule, attrs, matches, from, to)
                 /\ \A p \in 1..Len(attrs) :
                       p + Len(rule.items) <= Len(attrs) + 1 /\ Window(rule, attrs, p)
                       => Covered(matches, from, to, p)
<1> DEFINE n == Len(attrs)
           A == [i \in 0..n |-> Searched(rule, attrs, R, i)]
           F == [i \in 1..n |-> [a \in A[i - 1] |-> SearchAt(rule, attrs, a, i)]]
           upTo[i \in 0..n] == IF i = 0 THEN NothingSearched ELSE SearchAt(rule, attrs, upTo[i - 1], i)
<1>1. n \in Nat
  OBVIOUS
<1>2. NothingSearched \in A[0]
  <2> DEFINE none == [k \in 1..0 |-> 0]
  <2>1. <<>> \in Seq(Seq(R)) /\ Len(<<>>) = 0 /\ none \in [1..0 -> Nat] /\ 1..0 = {}
    OBVIOUS
  <2> HIDE DEF none
  <2>2. FoundAt(rule, attrs, <<>>, none, none)
    BY <2>1 DEF FoundAt
  <2>3. \A p \in 1..Len(attrs) :
           ~(\/ p <= 0 /\ p + Len(rule.items) <= Len(attrs) + 1 /\ Window(rule, attrs, p)
             \/ 0 < p /\ p < 1)
    OBVIOUS
  <2>4. NothingSearched \in Searched(rule, attrs, R, 0)
    BY <2>1, <2>2, <2>3 DEF Searched, NothingSearched
  <2> QED  BY <2>4, <1>1
<1>3. ASSUME NEW i \in 1..n, NEW a \in A[i - 1]
      PROVE  F[i][a] = SearchAt(rule, attrs, a, i) /\ F[i][a] \in A[i]
  <2>1. i \in 0..n /\ i - 1 \in 0..n
    BY <1>1
  <2>2. A[i] = Searched(rule, attrs, R, i) /\ A[i - 1] = Searched(rule, attrs, R, i - 1)
    BY <2>1
  <2>3. F[i][a] = SearchAt(rule, attrs, a, i)
    OBVIOUS
  <2> HIDE DEF A, F, upTo
  <2>4. SearchAt(rule, attrs, a, i) \in Searched(rule, attrs, R, i)
    BY <2>2, SearchStep
  <2> QED  BY <2>2, <2>3, <2>4
<1>4. \E g : Goes(g, n, NothingSearched, F) /\ \A i \in 0..n : g[i] \in A[i]
  <2> DEFINE base == NothingSearched
  <2>1. base \in A[0]
    BY <1>2
  <2> HIDE DEF A, F, n, upTo, base
  <2>2. \E g : Goes(g, n, base, F) /\ \A i \in 0..n : g[i] \in A[i]
    BY <1>1, <2>1, <1>3, StepByStep
  <2> QED  BY <2>2 DEF base
<1>5. PICK g : Goes(g, n, NothingSearched, F) /\ \A i \in 0..n : g[i] \in A[i]
  BY <1>4
<1> HIDE DEF n
<1>6. g = [i \in 0..n |-> IF i = 0 THEN NothingSearched ELSE SearchAt(rule, attrs, g[i - 1], i)]
  <2>1. \A i \in 1..n : F[i][g[i - 1]] = SearchAt(rule, attrs, g[i - 1], i)
    <3> TAKE i \in 1..n
    <3> HIDE DEF A, F
    <3>1. i - 1 \in 0..n
      BY <1>1
    <3> QED  BY <1>3, <1>5, <3>1
  <2>2. \A i \in 0..n : i = 0 \/ i \in 1..n
    BY <1>1
  <2> HIDE DEF F, A
  <2> QED  BY <1>5, <2>1, <2>2 DEF Goes
<1>7. upTo = [i \in 0..n |-> IF i = 0 THEN NothingSearched ELSE SearchAt(rule, attrs, upTo[i - 1], i)]
  BY <1>6
<1>8. \A i \in 1..n : upTo[i - 1] \in A[i - 1] => upTo[i] \in A[i]
  <2> SUFFICES ASSUME NEW i \in 1..n, upTo[i - 1] \in A[i - 1] PROVE upTo[i] \in A[i]
    OBVIOUS
  <2> HIDE DEF upTo
  <2>1. upTo[i] = SearchAt(rule, attrs, upTo[i - 1], i)
    BY <1>1, <1>7
  <2> HIDE DEF A, F
  <2> QED  BY <1>3, <2>1
<1>9. upTo[n] \in A[n]
  <2> DEFINE S == {i \in 0..n : upTo[i] \in A[i]}
  <2>1. 0 \in S
    <3>1. 0 \in 0..n
      BY <1>1
    <3> HIDE DEF upTo
    <3>2. upTo[0] = NothingSearched
      BY <1>7, <3>1
    <3> HIDE DEF A
    <3> QED  BY <1>2, <3>1, <3>2
  <2>2. \A i \in 1..n : i - 1 \in S => i \in S
    <3> HIDE DEF upTo, A
    <3> QED  BY <1>1, <1>8
  <2>3. 0..n \subseteq S
    <3> HIDE DEF S
    <3> QED  BY <1>1, <2>1, <2>2, AfterEveryStep
  <2>4. n \in S
    <3> HIDE DEF S
    <3> QED  BY <1>1, <2>3
  <2> HIDE DEF upTo, A
  <2> QED  BY <2>4
<1>10. FindFromAttrs(rule, attrs) = upTo[n].matches
  BY DEF FindFromAttrs, n
<1>11. A[n] = Searched(rule, attrs, R, n)
  BY <1>1
<1> HIDE DEF upTo, A
<1>12. PICK from, to :
          /\ FoundAt(rule, attrs, upTo[n].matches, from, to)
          /\ \A p \in 1..Len(attrs) :
                \/ p <= n /\ p + Len(rule.items) <= Len(attrs) + 1 /\ Window(rule, attrs, p)
                \/ n < p /\ p < upTo[n].next
                => Covered(upTo[n].matches, from, to, p)
  BY <1>9, <1>11 DEF Searched
<1>13. \A p \in 1..Len(attrs) : p <= n
  BY <1>1 DEF n
<1> QED  BY <1>10, <1>12, <1>13

-----------------------------------------------------------------------------
(* The transfers an action accounts for.  "sub" is what "seq" has at the   *)
(* positions in S, in seq's order.                                         *)
Picked(sub, seq, pos, S) ==
    /\ pos \in [1..Len(sub) -> 1..Len(seq)]
    /\ \A x, y \in 1..Len(sub) : x < y => pos[x] < pos[y]
    /\ \A x \in 1..Len(sub) : sub[x] = seq[pos[x]] /\ pos[x] \in S
    /\ \A p \in S : \E x \in 1..Len(sub) : pos[x] = p

(* A later element added to what was picked.                               *)
LEMMA PickedNext ==
    ASSUME NEW E, NEW sub \in Seq(E), NEW seq \in Seq(E), NEW pos, NEW S, Picked(sub, seq, pos, S),
           NEW p \in 1..Len(seq), \A r \in S : r < p
    PROVE  \E q : Picked(Append(sub, seq[p]), seq, q, S \cup {p})
<1> DEFINE n   == Len(sub)
           new == Append(sub, seq[p])
           q   == [x \in 1..n + 1 |-> IF x = n + 1 THEN p ELSE pos[x]]
<1>1. /\ n \in Nat /\ Len(seq) \in Nat /\ p \in Nat /\ seq[p] \in E
      /\ Len(new) = n + 1 /\ new[n + 1] = seq[p] /\ \A x \in 1..n : new[x] = sub[x]
  OBVIOUS
<1>2. /\ \A x \in 1..n : pos[x] \in 1..Len(seq) /\ sub[x] = seq[pos[x]] /\ pos[x] \in S /\ pos[x] < p
      /\ \A x, y \in 1..n : x < y => pos[x] < pos[y]
      /\ \A r \in S : \E x \in 1..n : pos[x] = r
  BY DEF Picked
<1>3. \A x \in 1..n : q[x] = pos[x] /\ x \in 1..n + 1
  BY <1>1
<1>4. q[n + 1] = p /\ n + 1 \in 1..n + 1 /\ q = [x \in 1..n + 1 |-> q[x]]
  BY <1>1
<1>5. \A x \in 1..n + 1 : x = n + 1 \/ x \in 1..n
  BY <1>1
<1> HIDE DEF n, new, q
<1>6. ASSUME NEW x \in 1..n + 1
      PROVE  q[x] \in 1..Len(seq) /\ new[x] = seq[q[x]] /\ q[x] \in S \cup {p}
  BY <1>1, <1>2, <1>3, <1>4, <1>5
<1>7. ASSUME NEW x \in 1..n + 1, NEW y \in 1..n + 1, x < y PROVE q[x] < q[y]
  <2>1. x \in 1..n
    BY <1>1, <1>7
  <2> QED  BY <1>2, <1>3, <1>4, <1>5, <1>7, <2>1
<1>8. q \in [1..n + 1 -> 1..Len(seq)]
  BY <1>4, <1>6
<1>9. ASSUME NEW r \in S \cup {p} PROVE \E x \in 1..n + 1 : q[x] = r
  <2>1. CASE r = p
    BY <1>4, <2>1
  <2>2. CASE r \in S
    BY <1>2, <1>3, <2>2
  <2> QED  BY <2>1, <2>2
<1>10. Picked(new, seq, q, S \cup {p})
  BY <1>1, <1>6, <1>7, <1>8, <1>9 DEF Picked
<1> QED  BY <1>10 DEF new

(* One element taken from what was picked.                                 *)
LEMMA PickedWithout ==
    ASSUME NEW E, NEW sub \in Seq(E), NEW seq \in Seq(E), NEW pos, NEW S, Picked(sub, seq, pos, S),
           NEW a \in 1..Len(sub)
    PROVE  /\ RemoveAt(sub, a) \in Seq(E)
           /\ \E q : Picked(RemoveAt(sub, a), seq, q, S \ {pos[a]})
<1> DEFINE n   == Len(sub)
           new == RemoveAt(sub, a)
           Old(x) == IF x < a THEN x ELSE x + 1
           q   == [x \in 1..n - 1 |-> pos[Old(x)]]
<1>1. /\ n \in Nat /\ n > 0 /\ a \in 1..n /\ Len(seq) \in Nat
  OBVIOUS
<1>2. /\ new \in Seq(E) /\ Len(new) = n - 1
      /\ \A x \in 1..n - 1 : new[x] = IF x < a THEN sub[x] ELSE sub[x + 1]
  <2> DEFINE left == SubSeq(sub, 1, a - 1)
             right == SubSeq(sub, a + 1, n)
  <2>1. /\ left \in Seq(E) /\ Len(left) = a - 1 /\ \A x \in 1..a - 1 : left[x] = sub[x]
    OBVIOUS
  <2>2. /\ right \in Seq(E) /\ Len(right) = n - a /\ \A x \in 1..n - a : right[x] = sub[a + x]
    OBVIOUS
  <2>3. new = left \o right
    BY DEF RemoveAt
  <2> HIDE DEF left, right, new, n
  <2>4. /\ new \in Seq(E) /\ Len(new) = n - 1
        /\ \A x \in 1..n - 1 : new[x] = IF x <= a - 1 THEN left[x] ELSE right[x - (a - 1)]
    BY <1>1, <2>1, <2>2, <2>3
  <2>5. ASSUME NEW x \in 1..n - 1 PROVE new[x] = IF x < a THEN sub[x] ELSE sub[x + 1]
    <3>1. CASE x < a
      BY <1>1, <2>1, <2>4, <3>1
    <3>2. CASE ~(x < a)
      <4>1. x - (a - 1) \in 1..n - a /\ a + (x - (a - 1)) = x + 1 /\ ~(x <= a - 1)
        BY <1>1, <3>2
      <4> QED  BY <2>2, <2>4, <3>2, <4>1
    <3> QED  BY <3>1, <3>2
  <2> QED  BY <2>4, <2>5
<1>3. /\ \A x \in 1..n : pos[x] \in 1..Len(seq) /\ sub[x] = seq[pos[x]] /\ pos[x] \in S
      /\ \A x, y \in 1..n : x < y => pos[x] < pos[y]
      /\ \A r \in S : \E x \in 1..n : pos[x] = r
  BY DEF Picked
<1>4. ASSUME NEW x \in 1..n - 1
      PROVE  Old(x) \in 1..n /\ Old(x) # a /\ q[x] = pos[Old(x)] /\ new[x] = sub[Old(x)]
  BY <1>1, <1>2
<1>5. \A x, y \in 1..n - 1 : x < y => Old(x) < Old(y)
  BY <1>1
<1>6. \A x, y \in 1..n : x # y => pos[x] # pos[y]
  <2> SUFFICES ASSUME NEW x \in 1..n, NEW y \in 1..n, x # y PROVE pos[x] # pos[y]
    OBVIOUS
  <2>1. x < y \/ y < x
    BY <1>1
  <2>2. pos[x] \in Int /\ pos[y] \in Int
    BY <1>3
  <2> QED  BY <1>3, <2>1, <2>2
<1>7. \A y \in 1..n : y # a => \E x \in 1..n - 1 : Old(x) = y
  <2> SUFFICES ASSUME NEW y \in 1..n, y # a PROVE \E x \in 1..n - 1 : Old(x) = y
    OBVIOUS
  <2>1. CASE y < a
    BY <1>1, <2>1
  <2>2. CASE y > a
    <3>1. y - 1 \in 1..n - 1 /\ ~(y - 1 < a) /\ y - 1 + 1 = y
      BY <1>1, <2>2
    <3> QED  BY <3>1
  <2> QED  BY <1>1, <2>1, <2>2
<1>8. q = [x \in 1..n - 1 |-> q[x]]
  OBVIOUS
<1> HIDE DEF n, new, q, Old
<1>9. ASSUME NEW x \in 1..n - 1
      PROVE  q[x] \in 1..Len(seq) /\ new[x] = seq[q[x]] /\ q[x] \in S \ {pos[a]}
  <2> DEFINE y == Old(x)
  <2>1. y \in 1..n /\ y # a /\ q[x] = pos[y] /\ new[x] = sub[y]
    BY <1>4
  <2> HIDE DEF y
  <2>2. pos[y] # pos[a]
    BY <1>1, <1>6, <2>1
  <2> QED  BY <1>3, <2>1, <2>2
<1>10. ASSUME NEW x \in 1..n - 1, NEW y \in 1..n - 1, x < y PROVE q[x] < q[y]
  BY <1>3, <1>4, <1>5, <1>10
<1>11. q \in [1..n - 1 -> 1..Len(seq)]
  BY <1>8, <1>9
<1>12. ASSUME NEW r \in S \ {pos[a]} PROVE \E x \in 1..n - 1 : q[x] = r
  <2>1. PICK y \in 1..n : pos[y] = r
    BY <1>3
  <2>2. PICK x \in 1..n - 1 : Old(x) = y
    BY <1>7, <2>1
  <2> QED  BY <1>4, <2>1, <2>2
<1>13. Picked(new, seq, q, S \ {pos[a]})
  BY <1>2, <1>9, <1>10, <1>11, <1>12 DEF Picked
<1> QED  BY <1>2, <1>13 DEF new

(* What a transfer takes: the first of the entries it matches that no      *)
(* transfer before it took, 0 for none.                                    *)
Takes(entries, transfers, takes, i) ==
    /\ takes \in [1..i -> 0..Len(entries)]
    /\ \A k \in 1..i : takes[k] # 0 => matchesPairTransferEntry(entries[takes[k]], transfers[k])
    /\ \A k, l \in 1..i : k # l /\ takes[k] # 0 => takes[k] # takes[l]
    /\ \A k \in 1..i : \A j \in 1..Len(entries) :
          matchesPairTransferEntry(entries[j], transfers[k]) /\ (takes[k] = 0 \/ j < takes[k])
          => \E l \in 1..k - 1 : takes[l] = j

Untaken(entries, takes, i) == {j \in 1..Len(entries) : \A k \in 1..i : takes[k] # j}
Kept(takes, i) == {k \in 1..i : takes[k] = 0}

(* What is left after i transfers. *)
Settled(entries, transfers, E, T, i) ==
    {acc \in [pop : Seq(E), kept : Seq(T)] :
        \E takes, loc, pos :
            /\ Takes(entries, transfers, takes, i)
            /\ Picked(acc.pop, entries, loc, Untaken(entries, takes, i))
            /\ Picked(acc.kept, transfers, pos, Kept(takes, i))}

(* One more transfer (dex.go:745-753).                                     *)
LEMMA TakeStep ==
    ASSUME NEW E, NEW T, NEW entries \in Seq(E), NEW transfers \in Seq(T),
           NEW i \in 1..Len(transfers), NEW acc \in Settled(entries, transfers, E, T, i - 1)
    PROVE  TakeTransfer(acc, transfers[i]) \in Settled(entries, transfers, E, T, i)
<1> DEFINE t     == transfers[i]
           n     == Len(entries)
           hits  == {j \in DOMAIN acc.pop : matchesPairTransferEntry(acc.pop[j], t)}
           first == CHOOSE j \in hits : \A k \in hits : j <= k
           M(j)  == matchesPairTransferEntry(entries[j], t)
<1>1. /\ Len(transfers) \in Nat /\ i \in Nat /\ i >= 1 /\ t \in T /\ n \in Nat
      /\ acc \in [pop : Seq(E), kept : Seq(T)] /\ acc.pop \in Seq(E) /\ acc.kept \in Seq(T)
      /\ DOMAIN acc.pop = 1..Len(acc.pop) /\ Len(acc.pop) \in Nat
  BY DEF Settled
<1>2. PICK takes, loc, pos :
         /\ Takes(entries, transfers, takes, i - 1)
         /\ Picked(acc.pop, entries, loc, Untaken(entries, takes, i - 1))
         /\ Picked(acc.kept, transfers, pos, Kept(takes, i - 1))
  BY DEF Settled
<1>3. /\ takes \in [1..i - 1 -> 0..n]
      /\ \A k \in 1..i - 1 : takes[k] # 0 => matchesPairTransferEntry(entries[takes[k]], transfers[k])
      /\ \A k, l \in 1..i - 1 : k # l /\ takes[k] # 0 => takes[k] # takes[l]
      /\ \A k \in 1..i - 1 : \A j \in 1..n :
            matchesPairTransferEntry(entries[j], transfers[k]) /\ (takes[k] = 0 \/ j < takes[k])
            => \E l \in 1..k - 1 : takes[l] = j
  BY <1>2 DEF Takes
<1>4. /\ \A x \in 1..Len(acc.pop) : loc[x] \in 1..n /\ acc.pop[x] = entries[loc[x]]
                                  /\ loc[x] \in Untaken(entries, takes, i - 1)
      /\ \A x, y \in 1..Len(acc.pop) : x < y => loc[x] < loc[y]
      /\ \A j \in Untaken(entries, takes, i - 1) : \E x \in 1..Len(acc.pop) : loc[x] = j
  BY <1>2 DEF Picked
<1> HIDE DEF t, n
(* The transfer takes entry e, or none when e is 0. *)
<1>5. ASSUME NEW e \in 0..n, e # 0 => M(e) /\ e \in Untaken(entries, takes, i - 1),
             \A j \in Untaken(entries, takes, i - 1) : M(j) /\ (e = 0 \/ j < e) => FALSE
      PROVE  \E new : /\ new \in [1..i -> 0..n] /\ new[i] = e /\ Takes(entries, transfers, new, i)
                      /\ Untaken(entries, new, i) = Untaken(entries, takes, i - 1) \ {e}
                      /\ Kept(new, i) = IF e = 0 THEN Kept(takes, i - 1) \cup {i} ELSE Kept(takes, i - 1)
  <2> DEFINE new == [k \in 1..i |-> IF k = i THEN e ELSE takes[k]]
  <2>1. \A k \in 1..i - 1 : new[k] = takes[k] /\ k \in 1..i /\ k # i
    BY <1>1
  <2>2. new[i] = e /\ i \in 1..i /\ new = [k \in 1..i |-> new[k]]
    BY <1>1
  <2>3. \A k \in 1..i : k = i \/ k \in 1..i - 1
    BY <1>1
  <2> HIDE DEF new, M
  <2>4. new \in [1..i -> 0..n]
    BY <1>3, <1>5, <2>1, <2>2, <2>3
  <2>5. \A k \in 1..i : new[k] # 0 => matchesPairTransferEntry(entries[new[k]], transfers[k])
    BY <1>3, <1>5, <2>1, <2>2, <2>3 DEF M, t
  <2>6. ASSUME NEW k \in 1..i, NEW l \in 1..i, k # l, new[k] # 0 PROVE new[k] # new[l]
    <3>1. e # 0 => \A j \in 1..i - 1 : takes[j] # e
      BY <1>5 DEF Untaken
    <3> QED  BY <1>3, <2>1, <2>2, <2>3, <2>6, <3>1
  <2>7. ASSUME NEW k \in 1..i, NEW j \in 1..n,
               matchesPairTransferEntry(entries[j], transfers[k]), new[k] = 0 \/ j < new[k]
        PROVE  \E l \in 1..k - 1 : new[l] = j
    <3>1. CASE k = i
      <4>1. j \notin Untaken(entries, takes, i - 1)
        BY <1>5, <2>2, <2>7, <3>1 DEF M, t
      <4>2. PICK l \in 1..i - 1 : takes[l] = j
        BY <4>1 DEF Untaken, n
      <4> QED  BY <2>1, <3>1, <4>2
    <3>2. CASE k \in 1..i - 1
      <4>1. PICK l \in 1..k - 1 : takes[l] = j
        BY <1>3, <2>1, <2>7, <3>2
      <4>2. l \in 1..i - 1
        BY <1>1, <3>2
      <4> QED  BY <2>1, <4>1, <4>2
    <3> QED  BY <2>3, <3>1, <3>2
  <2>8. Takes(entries, transfers, new, i)
    BY <2>4, <2>5, <2>6, <2>7 DEF Takes, n
  <2>9. Untaken(entries, new, i) = Untaken(entries, takes, i - 1) \ {e}
    BY <2>1, <2>2, <2>3 DEF Untaken
  <2>10. Kept(new, i) = IF e = 0 THEN Kept(takes, i - 1) \cup {i} ELSE Kept(takes, i - 1)
    <3>1. \A k \in 1..i : new[k] = 0 <=> (k = i /\ e = 0) \/ (k \in 1..i - 1 /\ takes[k] = 0)
      BY <1>1, <2>1, <2>2, <2>3
    <3> QED  BY <2>1, <2>2, <3>1 DEF Kept
  <2> QED  BY <2>2, <2>4, <2>8, <2>9, <2>10
<1>6. CASE hits = {}
  <2> DEFINE next == [acc EXCEPT !.kept = Append(@, t)]
  <2>1. TakeTransfer(acc, t) = next
    BY <1>6 DEF TakeTransfer
  <2>2. ASSUME NEW j \in Untaken(entries, takes, i - 1), M(j) PROVE FALSE
    <3>1. PICK x \in 1..Len(acc.pop) : loc[x] = j
      BY <1>4
    <3>2. acc.pop[x] = entries[j]
      BY <1>4, <3>1
    <3> QED  BY <1>1, <1>6, <2>2, <3>2
  <2>3. 0 \in 0..n /\ 0 \notin Untaken(entries, takes, i - 1)
    BY <1>1 DEF Untaken, n
  <2> HIDE DEF M, hits, first
  <2>4. PICK new : /\ new \in [1..i -> 0..n] /\ new[i] = 0 /\ Takes(entries, transfers, new, i)
                   /\ Untaken(entries, new, i) = Untaken(entries, takes, i - 1) \ {0}
                   /\ Kept(new, i) = Kept(takes, i - 1) \cup {i}
    BY <1>5, <2>2, <2>3
  <2>5. \A r \in Kept(takes, i - 1) : r < i
    BY <1>1 DEF Kept
  <2>6. \E q : Picked(Append(acc.kept, t), transfers, q, Kept(takes, i - 1) \cup {i})
    BY <1>1, <1>2, <2>5, PickedNext DEF t
  <2>7. next \in [pop : Seq(E), kept : Seq(T)] /\ next.pop = acc.pop /\ next.kept = Append(acc.kept, t)
    <3> DEFINE more == Append(acc.kept, t)
    <3>1. more \in Seq(T)
      BY <1>1
    <3> HIDE DEF more
    <3>2. /\ [acc EXCEPT !.kept = more] \in [pop : Seq(E), kept : Seq(T)]
          /\ [acc EXCEPT !.kept = more].pop = acc.pop /\ [acc EXCEPT !.kept = more].kept = more
      BY <1>1, <3>1
    <3> QED  BY <3>2 DEF more
  <2>8. Untaken(entries, new, i) = Untaken(entries, takes, i - 1)
    BY <2>3, <2>4
  <2> HIDE DEF next
  <2>9. next \in Settled(entries, transfers, E, T, i)
    <3>1. \E q : Picked(next.pop, entries, q, Untaken(entries, new, i))
      BY <1>2, <2>7, <2>8
    <3>2. \E q : Picked(next.kept, transfers, q, Kept(new, i))
      BY <2>4, <2>6, <2>7
    <3>3. new \in [1..i -> 0..Len(entries)]
      BY <2>4 DEF n
    <3> QED  BY <2>4, <2>7, <3>1, <3>2, <3>3 DEF Settled
  <2> QED  BY <2>1, <2>9 DEF t
<1>7. CASE hits # {}
  <2> DEFINE next == [acc EXCEPT !.pop = RemoveAt(@, first)]
             e    == loc[first]
  <2>1. TakeTransfer(acc, t) = next
    BY <1>7 DEF TakeTransfer
  <2>2. first \in hits /\ \A x \in hits : first <= x
    <3>1. hits \subseteq Nat
      BY <1>1
    <3> HIDE DEF hits
    <3>2. \E j \in hits : \A k \in hits : j <= k
      BY <1>7, <3>1, Least
    <3> QED  BY <3>2
  <2> HIDE DEF first
  <2>3. first \in 1..Len(acc.pop) /\ matchesPairTransferEntry(acc.pop[first], t)
    BY <1>1, <2>2
  <2>4. e \in 1..n /\ e \in Untaken(entries, takes, i - 1) /\ M(e)
    BY <1>4, <2>3
  <2>5. ASSUME NEW j \in Untaken(entries, takes, i - 1), M(j), e = 0 \/ j < e PROVE FALSE
    <3>1. PICK x \in 1..Len(acc.pop) : loc[x] = j
      BY <1>4
    <3>2. x \in hits
      BY <1>1, <1>4, <2>5, <3>1
    <3>3. first <= x /\ first \in Nat /\ x \in Nat
      BY <1>1, <2>2, <2>3, <3>2
    <3>4. loc[first] \in 1..n /\ loc[x] \in 1..n
      BY <1>4, <2>3
    <3>5. first < x => loc[first] < loc[x]
      BY <1>4, <2>3
    <3>6. first = x \/ first < x
      BY <3>3
    <3>7. loc[first] # 0 /\ ~(loc[x] < loc[first])
      <4> HIDE DEF e, M, hits
      <4>1. loc[first] \in Nat /\ loc[x] \in Nat /\ loc[first] >= 1
        BY <1>1, <3>4
      <4> QED  BY <3>5, <3>6, <4>1
    <3> QED  BY <2>5, <3>1, <3>7
  <2> HIDE DEF M, hits, e
  <2>6. e \in 0..n /\ e # 0
    BY <1>1, <2>4
  <2>7. PICK new : /\ new \in [1..i -> 0..n] /\ new[i] = e /\ Takes(entries, transfers, new, i)
                   /\ Untaken(entries, new, i) = Untaken(entries, takes, i - 1) \ {e}
                   /\ Kept(new, i) = Kept(takes, i - 1)
    <3>1. \A j \in Untaken(entries, takes, i - 1) : M(j) /\ (e = 0 \/ j < e) => FALSE
      BY <2>5
    <3>2. e # 0 => M(e) /\ e \in Untaken(entries, takes, i - 1)
      BY <2>4
    <3>3. \E new : /\ new \in [1..i -> 0..n] /\ new[i] = e /\ Takes(entries, transfers, new, i)
                   /\ Untaken(entries, new, i) = Untaken(entries, takes, i - 1) \ {e}
                   /\ Kept(new, i) = IF e = 0 THEN Kept(takes, i - 1) \cup {i} ELSE Kept(takes, i - 1)
      BY <1>5, <2>6, <3>1, <3>2
    <3> QED  BY <2>6, <3>3
  <2>8. /\ RemoveAt(acc.pop, first) \in Seq(E)
        /\ \E q : Picked(RemoveAt(acc.pop, first), entries, q, Untaken(entries, takes, i - 1) \ {e})
    BY <1>1, <1>2, <2>3, PickedWithout DEF e
  <2>9. /\ next \in [pop : Seq(E), kept : Seq(T)] /\ next.pop = RemoveAt(acc.pop, first)
        /\ next.kept = acc.kept
    BY <1>1, <2>8
  <2>10. Picked(acc.kept, transfers, pos, Kept(takes, i - 1))
    BY <1>2
  <2> HIDE DEF next
  <2>11. next \in Settled(entries, transfers, E, T, i)
    BY <2>7, <2>8, <2>9, <2>10 DEF Settled
  <2> QED  BY <2>1, <2>11 DEF t
<1> QED  BY <1>6, <1>7

(* A sequence of sequences put end to end, one after the other.            *)
LEMMA FlattenSteps ==
    ASSUME NEW E, NEW ss \in Seq(Seq(E)), Len(ss) # 0
    PROVE  \E h : /\ h[1] = ss[1] /\ \A i \in 2..Len(ss) : h[i] = h[i - 1] \o ss[i]
                  /\ \A i \in 1..Len(ss) : h[i] \in Seq(E)
                  /\ FlattenSeq(ss) = h[Len(ss)]
<1> DEFINE n == Len(ss)
           flatten[i \in 1..n] == IF i = 1 THEN ss[i] ELSE flatten[i - 1] \o ss[i]
           A == [i \in 0..n - 1 |-> Seq(E)]
           F == [i \in 1..n - 1 |-> [a \in Seq(E) |-> a \o ss[i + 1]]]
<1>0. n \in Nat /\ \A i \in 1..n : ss[i] \in Seq(E)
  OBVIOUS
<1> DEFINE k == n - 1
<1>1. k \in Nat /\ n = k + 1 /\ 1 \in 1..n
  BY <1>0
<1> HIDE DEF n
<1>2. ss[1] \in A[0]
  BY <1>0, <1>1
<1>3. ASSUME NEW i \in 1..k, NEW a \in A[i - 1]
      PROVE  F[i][a] = a \o ss[i + 1] /\ F[i][a] \in A[i]
  <2>1. i \in 0..k /\ i - 1 \in 0..k /\ i + 1 \in 1..n
    BY <1>1
  <2>2. a \in Seq(E) /\ ss[i + 1] \in Seq(E)
    BY <1>0, <2>1
  <2>3. a \o ss[i + 1] \in Seq(E)
    BY <2>2
  <2> QED  BY <2>1, <2>2, <2>3
<1>4. \E g : Goes(g, k, ss[1], F) /\ \A i \in 0..k : g[i] \in A[i]
  <2> DEFINE base == ss[1]
  <2>1. base \in A[0]
    BY <1>2
  <2> HIDE DEF A, F, k, flatten, base
  <2>2. \E g : Goes(g, k, base, F) /\ \A i \in 0..k : g[i] \in A[i]
    BY <1>1, <1>3, <2>1, StepByStep
  <2> QED  BY <2>2 DEF base
<1>5. PICK g : Goes(g, k, ss[1], F) /\ \A i \in 0..k : g[i] \in A[i]
  BY <1>4
<1> HIDE DEF k
<1>6. \A i \in 0..k : g[i] \in Seq(E) /\ g[i] = IF i = 0 THEN ss[1] ELSE g[i - 1] \o ss[i + 1]
  <2> TAKE i \in 0..k
  <2>1. g[i] \in Seq(E)
    BY <1>5 DEF k
  <2>2. g[i] = IF i = 0 THEN ss[1] ELSE F[i][g[i - 1]]
    BY <1>5 DEF Goes
  <2>3. i # 0 => i \in 1..k /\ g[i - 1] \in A[i - 1]
    BY <1>1, <1>5
  <2> HIDE DEF F, A
  <2> QED  BY <1>3, <2>1, <2>2, <2>3
<1> DEFINE h == [i \in 1..n |-> g[i - 1]]
<1>7. h = [i \in 1..n |-> IF i = 1 THEN ss[i] ELSE h[i - 1] \o ss[i]]
  <2>1. ASSUME NEW i \in 1..n PROVE g[i - 1] = IF i = 1 THEN ss[i] ELSE h[i - 1] \o ss[i]
    <3>1. i - 1 \in 0..k /\ (i # 1 => i - 1 \in 1..n /\ i - 1 # 0)
      BY <1>1
    <3>2. CASE i = 1
      BY <1>6, <3>1, <3>2
    <3>3. CASE i # 1
      <4>1. h[i - 1] = g[i - 1 - 1] /\ i - 1 + 1 = i
        BY <3>1, <3>3
      <4>2. g[i - 1] = g[i - 1 - 1] \o ss[i - 1 + 1]
        BY <1>6, <3>1, <3>3
      <4> QED  BY <3>3, <4>1, <4>2
    <3> QED  BY <3>2, <3>3
  <2> QED  BY <2>1
<1>8. flatten = [i \in 1..n |-> IF i = 1 THEN ss[i] ELSE flatten[i - 1] \o ss[i]]
  <2> HIDE DEF h
  <2> QED  BY <1>7
<1>9. \A i \in 1..k : flatten[i] \in Seq(E) => flatten[i + 1] \in Seq(E)
  <2> HIDE DEF flatten
  <2> SUFFICES ASSUME NEW i \in 1..k, flatten[i] \in Seq(E) PROVE flatten[i + 1] \in Seq(E)
    OBVIOUS
  <2> DEFINE j == i + 1
  <2>1. j \in 1..n /\ j # 1 /\ j - 1 = i
    BY <1>1
  <2> HIDE DEF j, h, A, F
  <2>2. flatten[j] = flatten[j - 1] \o ss[j]
    BY <1>8, <2>1
  <2>3. flatten[j] \in Seq(E)
    BY <1>0, <2>1, <2>2
  <2> QED  BY <2>3 DEF j
<1>10. 0..k \subseteq {i \in 0..k : flatten[i + 1] \in Seq(E)}
  <2> DEFINE S == {i \in 0..k : flatten[i + 1] \in Seq(E)}
  <2>1. 0 \in S
    <3> HIDE DEF flatten
    <3>1. flatten[1] = ss[1]
      BY <1>1, <1>8
    <3> QED  BY <1>0, <1>1, <3>1
  <2>2. \A i \in 1..k : i - 1 \in S => i \in S
    <3> HIDE DEF flatten
    <3> TAKE i \in 1..k
    <3> HAVE i - 1 \in S
    <3>1. flatten[i] \in Seq(E) /\ i \in 0..k
      BY <1>1
    <3> QED  BY <1>9, <3>1
  <2> HIDE DEF S
  <2>3. 0..k \subseteq S
    BY <1>1, <2>1, <2>2, AfterEveryStep
  <2> QED  BY <2>3 DEF S
<1>11. \A i \in 1..n : flatten[i] \in Seq(E)
  <2> HIDE DEF flatten
  <2> TAKE i \in 1..n
  <2> DEFINE j == i - 1
  <2>1. j \in 0..k /\ i = j + 1
    BY <1>1
  <2> HIDE DEF j
  <2> QED  BY <1>10, <2>1
<1>12. FlattenSeq(ss) = flatten[n]
  BY DEF FlattenSeq, n
<1>13. flatten[1] = ss[1] /\ \A i \in 2..n : flatten[i] = flatten[i - 1] \o ss[i]
  <2> HIDE DEF flatten
  <2>1. 1 \in 1..n /\ \A i \in 2..n : i \in 1..n /\ i # 1
    BY <1>1
  <2> QED  BY <1>8, <2>1
<1> HIDE DEF flatten
<1> QED  BY <1>11, <1>12, <1>13 DEF n

(* Sequences over a set, one after the other, are over that set.           *)
LEMMA FlattenIsSeq ==
    ASSUME NEW E, NEW ss \in Seq(Seq(E))
    PROVE  FlattenSeq(ss) \in Seq(E)
<1>1. CASE Len(ss) = 0
  <2>1. ss = <<>>
    BY <1>1
  <2> QED  BY <1>1, <2>1 DEF FlattenSeq
<1>2. CASE Len(ss) # 0
  <2>1. Len(ss) \in 1..Len(ss)
    BY <1>2
  <2> QED  BY <1>2, <2>1, FlattenSteps
<1> QED  BY <1>1, <1>2

(* All of it comes from one of the sequences if the others are empty.      *)
LEMMA FlattenOne ==
    ASSUME NEW E, NEW ss \in Seq(Seq(E)), NEW k \in 1..Len(ss), \A i \in 1..Len(ss) : i # k => ss[i] = <<>>
    PROVE  FlattenSeq(ss) = ss[k]
<1> DEFINE n == Len(ss)
<1>1. n \in Nat /\ k \in 1..n /\ n - 1 \in Nat /\ \A i \in 1..n : ss[i] \in Seq(E)
  OBVIOUS
<1>2. PICK h : /\ h[1] = ss[1] /\ \A i \in 2..n : h[i] = h[i - 1] \o ss[i]
               /\ FlattenSeq(ss) = h[n]
  <2>1. Len(ss) # 0
    BY <1>1
  <2> HIDE DEF n
  <2>2. \E h : /\ h[1] = ss[1] /\ \A i \in 2..Len(ss) : h[i] = h[i - 1] \o ss[i]
               /\ FlattenSeq(ss) = h[Len(ss)]
    BY <2>1, FlattenSteps
  <2> QED  BY <2>2 DEF n
<1> DEFINE S == {i \in 0..n - 1 : h[i + 1] = IF i + 1 < k THEN <<>> ELSE ss[k]}
<1> HIDE DEF n
<1>3. 0 \in S
  <2>1. 1 \in 1..n /\ ~(1 < k) => k = 1
    BY <1>1
  <2>2. 1 < k => ss[1] = <<>>
    BY <1>1 DEF n
  <2> QED  BY <1>1, <1>2, <2>1, <2>2
<1>4. \A i \in 1..n - 1 : i - 1 \in S => i \in S
  <2> SUFFICES ASSUME NEW i \in 1..n - 1, i - 1 \in S PROVE i \in S
    OBVIOUS
  <2> DEFINE j == i + 1
  <2>1. /\ j \in 2..n /\ j \in 1..n /\ j - 1 = i /\ i \in 0..n - 1 /\ (i - 1) + 1 = i
        /\ i < k \/ i = k \/ k < i
        /\ (j < k => i < k /\ j # k) /\ (i < k /\ ~(j < k) => j = k) /\ (~(i < k) => ~(j < k) /\ j # k)
    BY <1>1
  <2>2. h[i] = IF i < k THEN <<>> ELSE ss[k]
    BY <2>1
  <2> HIDE DEF j
  <2>3. h[j] = h[i] \o ss[j]
    BY <1>2, <2>1
  <2>4. j # k => ss[j] = <<>>
    BY <2>1 DEF n
  <2>5. ss[k] \o <<>> = ss[k] /\ <<>> \o ss[k] = ss[k] /\ <<>> \o <<>> = <<>>
    <3> DEFINE s == ss[k]
    <3>1. s \in Seq(E)
      BY <1>1
    <3> HIDE DEF s
    <3>2. s \o <<>> = s /\ <<>> \o s = s /\ <<>> \o <<>> = <<>>
      BY <3>1
    <3> QED  BY <3>2 DEF s
  <2>6. h[j] = IF j < k THEN <<>> ELSE ss[k]
    BY <2>1, <2>2, <2>3, <2>4, <2>5
  <2> QED  BY <2>1, <2>6 DEF j
<1>5. n - 1 \in S
  <2> HIDE DEF S
  <2>1. 0..n - 1 \subseteq S
    BY <1>1, <1>3, <1>4, AfterEveryStep
  <2> QED  BY <1>1, <2>1
<1>6. (n - 1) + 1 = n /\ ~(n < k)
  BY <1>1
<1> QED  BY <1>2, <1>5, <1>6

(* Nothing comes from empty sequences.                                     *)
LEMMA FlattenNone ==
    ASSUME NEW ss \in Seq({<<>>})
    PROVE  FlattenSeq(ss) = <<>>
<1>1. ss = <<>> \/ 1 \in 1..Len(ss)
  OBVIOUS
<1>2. CASE ss = <<>>
  BY <1>2 DEF FlattenSeq
<1>3. CASE 1 \in 1..Len(ss)
  <2>1. <<>> \in Seq({})
    OBVIOUS
  <2>2. \A i \in 1..Len(ss) : ss[i] = <<>>
    OBVIOUS
  <2>3. ss \in Seq(Seq({}))
    <3>1. ss = [i \in 1..Len(ss) |-> ss[i]] /\ Len(ss) \in Nat
      OBVIOUS
    <3>2. \A i \in 1..Len(ss) : ss[i] \in Seq({})
      BY <2>1, <2>2
    <3> QED  BY <3>1, <3>2
  <2> QED  BY <1>3, <2>2, <2>3, FlattenOne
<1> QED  BY <1>1, <1>2, <1>3

(* The entries of the actions are entries of single assets. *)
LEMMA PopListIsSeq ==
    ASSUME NEW P, NEW pairTxs \in Seq(P)
    PROVE  \E E : PopList(pairTxs) \in Seq(E)
<1> DEFINE Entry(i, j) == [pair |-> pairTxs[i].contract, addr |-> pairTxs[i].assets[j].addr,
                           amt |-> pairTxs[i].assets[j].amt]
           E == {Entry(i, j) : i \in 1..Len(pairTxs), j \in 1..2}
           Of(i) == PopEntries(pairTxs[i], 1) \o PopEntries(pairTxs[i], 2)
           ss == [i \in DOMAIN pairTxs |-> Of(i)]
<1>1. ASSUME NEW i \in 1..Len(pairTxs), NEW j \in 1..2 PROVE PopEntries(pairTxs[i], j) \in Seq(E)
  <2>1. PopEntries(pairTxs[i], j) = <<>> \/ PopEntries(pairTxs[i], j) = <<Entry(i, j)>>
    BY DEF PopEntries
  <2>2. Entry(i, j) \in E
    OBVIOUS
  <2> DEFINE x == Entry(i, j)
  <2>3. PopEntries(pairTxs[i], j) = <<>> \/ PopEntries(pairTxs[i], j) = <<x>>
    BY <2>1
  <2>4. x \in E
    BY <2>2
  <2> HIDE DEF E, x
  <2>5. <<>> \in Seq(E) /\ <<x>> \in Seq(E)
    BY <2>4
  <2> QED  BY <2>3, <2>5
<1>2. \A i \in 1..Len(pairTxs) : Of(i) \in Seq(E)
  <2> TAKE i \in 1..Len(pairTxs)
  <2>1. PopEntries(pairTxs[i], 1) \in Seq(E) /\ PopEntries(pairTxs[i], 2) \in Seq(E)
    BY <1>1
  <2> HIDE DEF E
  <2> QED  BY <2>1
<1>3. ss \in Seq(Seq(E))
  <2> HIDE DEF E, Of
  <2>1. ss = [i \in 1..Len(pairTxs) |-> Of(i)]
    OBVIOUS
  <2> QED  BY <1>2, <2>1
<1>4. PopList(pairTxs) = FlattenSeq(ss)
  BY DEF PopList
<1> HIDE DEF E, ss
<1> QED  BY <1>3, <1>4, FlattenIsSeq

(* A transfer a pair action already recorded is no row of its own          *)
(* (parser/dex/dex.go:731).  Every transfer takes the first amount the     *)
(* actions recorded that it matches and no earlier transfer took; no       *)
(* amount is taken twice, and exactly the transfers that took none are     *)
(* kept, in their order: for each of them, every amount it matches was     *)
(* taken by a transfer before it.                                          *)
THEOREM TransfersTakeAmountsOnce ==
    ASSUME NEW P, NEW pairTxs \in Seq(P), NEW T, NEW transferTxs \in Seq(T)
    PROVE  LET n    == Len(transferTxs)
               kept == RemoveDuplicatedTxs(pairTxs, transferTxs)
           IN \E takes, pos : /\ Takes(PopList(pairTxs), transferTxs, takes, n)
                             /\ Picked(kept, transferTxs, pos, Kept(takes, n))
<1> DEFINE n       == Len(transferTxs)
           entries == PopList(pairTxs)
           base    == [pop |-> entries, kept |-> <<>>]
           left[i \in 0..n] == IF i = 0 THEN base ELSE TakeTransfer(left[i - 1], transferTxs[i])
<1>1. PICK E : entries \in Seq(E)
  BY PopListIsSeq
<1> DEFINE A == [i \in 0..n |-> Settled(entries, transferTxs, E, T, i)]
           F == [i \in 1..n |-> [a \in A[i - 1] |-> TakeTransfer(a, transferTxs[i])]]
<1>2. n \in Nat
  OBVIOUS
<1> HIDE DEF entries
<1>3. base \in A[0]
  <2> DEFINE none == [k \in 1..0 |-> 0]
             same == [k \in 1..Len(entries) |-> k]
  <2>1. /\ 1..0 = {} /\ 1..(0 - 0) = {} /\ Len(<<>>) = 0
        /\ none \in [1..0 -> 0..Len(entries)] /\ none \in [1..0 -> 1..n]
    OBVIOUS
  <2>2. Takes(entries, transferTxs, none, 0)
    <3> HIDE DEF none
    <3> QED  BY <2>1 DEF Takes
  <2>3. Untaken(entries, none, 0) = 1..Len(entries) /\ Kept(none, 0) = {}
    BY <2>1 DEF Untaken, Kept
  <2>4. Picked(entries, entries, same, 1..Len(entries))
    BY <1>1 DEF Picked
  <2>5. Picked(<<>>, transferTxs, none, {})
    <3> HIDE DEF none
    <3> QED  BY <2>1 DEF Picked
  <2>6. base \in [pop : Seq(E), kept : Seq(T)] /\ base.pop = entries /\ base.kept = <<>>
    BY <1>1
  <2> HIDE DEF base, none, same
  <2>7. base \in Settled(entries, transferTxs, E, T, 0)
    BY <2>2, <2>3, <2>4, <2>5, <2>6 DEF Settled
  <2> QED  BY <1>2, <2>7
<1>4. ASSUME NEW i \in 1..n, NEW a \in A[i - 1]
      PROVE  F[i][a] = TakeTransfer(a, transferTxs[i]) /\ F[i][a] \in A[i]
  <2>1. i \in 0..n /\ i - 1 \in 0..n
    BY <1>2
  <2>2. A[i] = Settled(entries, transferTxs, E, T, i) /\ A[i - 1] = Settled(entries, transferTxs, E, T, i - 1)
    BY <2>1
  <2>3. F[i][a] = TakeTransfer(a, transferTxs[i])
    OBVIOUS
  <2> HIDE DEF A, F, left
  <2>4. TakeTransfer(a, transferTxs[i]) \in Settled(entries, transferTxs, E, T, i)
    BY <1>1, <2>2, TakeStep
  <2> QED  BY <2>2, <2>3, <2>4
<1>5. \E g : Goes(g, n, base, F) /\ \A i \in 0..n : g[i] \in A[i]
  <2> HIDE DEF A, F, n, left, base
  <2> QED  BY <1>2, <1>3, <1>4, StepByStep
<1>6. PICK g : Goes(g, n, base, F) /\ \A i \in 0..n : g[i] \in A[i]
  BY <1>5
<1> HIDE DEF n, base
<1>7. g = [i \in 0..n |-> IF i = 0 THEN base ELSE TakeTransfer(g[i - 1], transferTxs[i])]
  <2>1. \A i \in 1..n : F[i][g[i - 1]] = TakeTransfer(g[i - 1], transferTxs[i])
    <3> TAKE i \in 1..n
    <3> HIDE DEF A, F
    <3>1. i - 1 \in 0..n
      BY <1>2
    <3> QED  BY <1>4, <1>6, <3>1
  <2>2. \A i \in 0..n : i = 0 \/ i \in 1..n
    BY <1>2
  <2> HIDE DEF F, A
  <2> QED  BY <1>6, <2>1, <2>2 DEF Goes
<1>8. left = [i \in 0..n |-> IF i = 0 THEN base ELSE TakeTransfer(left[i - 1], transferTxs[i])]
  BY <1>7
<1>9. \A i \in 1..n : left[i - 1] \in A[i - 1] => left[i] \in A[i]
  <2> SUFFICES ASSUME NEW i \in 1..n, left[i - 1] \in A[i - 1] PROVE left[i] \in A[i]
    OBVIOUS
  <2> HIDE DEF left
  <2>1. left[i] = TakeTransfer(left[i - 1], transferTxs[i])
    BY <1>2, <1>8
  <2> HIDE DEF A, F
  <2> QED  BY <1>4, <2>1
<1>10. left[n] \in A[n]
  <2> DEFINE S == {i \in 0..n : left[i] \in A[i]}
  <2>1. 0 \in S
    <3>1. 0 \in 0..n
      BY <1>2
    <3> HIDE DEF left
    <3>2. left[0] = base
      BY <1>8, <3>1
    <3> HIDE DEF A
    <3> QED  BY <1>3, <3>1, <3>2
  <2>2. \A i \in 1..n : i - 1 \in S => i \in S
    <3> HIDE DEF left, A
    <3> QED  BY <1>2, <1>9
  <2>3. 0..n \subseteq S
    <3> HIDE DEF S
    <3> QED  BY <1>2, <2>1, <2>2, AfterEveryStep
  <2>4. n \in S
    <3> HIDE DEF S
    <3> QED  BY <1>2, <2>3
  <2> HIDE DEF left, A
  <2> QED  BY <2>4
<1>11. RemoveDuplicatedTxs(pairTxs, transferTxs) = left[n].kept
  BY DEF RemoveDuplicatedTxs, n, base, entries
<1>12. A[n] = Settled(entries, transferTxs, E, T, n)
  BY <1>2
<1> HIDE DEF left, A
<1>13. PICK takes, loc, pos :
          /\ Takes(entries, transferTxs, takes, n)
          /\ Picked(left[n].pop, entries, loc, Untaken(entries, takes, n))
          /\ Picked(left[n].kept, transferTxs, pos, Kept(takes, n))
  BY <1>10, <1>12 DEF Settled
<1> QED  BY <1>11, <1>13 DEF entries, n

-----------------------------------------------------------------------------
(* Results are sequences, whatever the events are.                         *)
LEMMA InEverySet ==
    ASSUME NEW n \in Nat, NEW A, NEW g, g[0] \in A[0], \A i \in 1..n : g[i - 1] \in A[i - 1] => g[i] \in A[i]
    PROVE  \A i \in 0..n : g[i] \in A[i]
<1> DEFINE S == {i \in 0..n : g[i] \in A[i]}
<1>1. 0 \in S
  OBVIOUS
<1>2. \A i \in 1..n : i - 1 \in S => i \in S
  OBVIOUS
<1>3. 0..n \subseteq S
  <2> HIDE DEF S
  <2> QED  BY <1>1, <1>2, AfterEveryStep
<1> QED  BY <1>3

(* The matches in one log.                                                 *)
LEMMA MatchesAreSeq ==
    ASSUME NEW rule, NEW attrs, Len(attrs) \in Nat
    PROVE  \E E : FindFromAttrs(rule, attrs) \in Seq(E)
<1> DEFINE n == Len(attrs)
           full(at) == appendUntil(rule, attrs, findMatchingSubseq(rule, attrs, at))
           E == {full(at).found : at \in 1..n}
           X == [next : {full(at).next : at \in 1..n} \cup {1}, matches : Seq(E)]
           A == [i \in 0..n |-> X]
           F == [i \in 1..n |-> [a \in X |-> SearchAt(rule, attrs, a, i)]]
           upTo[i \in 0..n] == IF i = 0 THEN NothingSearched ELSE SearchAt(rule, attrs, upTo[i - 1], i)
<1>1. n \in Nat /\ 0 \in 0..n /\ n \in 0..n /\ \A i \in 1..n : i - 1 \in 0..n /\ i \in 0..n /\ i # 0
  OBVIOUS
<1>2. NothingSearched \in X
  BY DEF NothingSearched
<1>3. ASSUME NEW i \in 1..n, NEW a \in X
      PROVE  SearchAt(rule, attrs, a, i) \in X
  <2> DEFINE new == [next |-> full(i).next, matches |-> Append(a.matches, full(i).found)]
  <2>1. full(i).found \in E /\ full(i).next \in {full(at).next : at \in 1..n} \cup {1}
    OBVIOUS
  <2>2. SearchAt(rule, attrs, a, i) = a \/ SearchAt(rule, attrs, a, i) = new
    BY DEF SearchAt
  <2>3. new \in X
    <3> HIDE DEF E, full
    <3> QED  BY <2>1
  <2> HIDE DEF X, new
  <2> QED  BY <2>2, <2>3
<1> HIDE DEF n, X
<1>4. PICK g : Goes(g, n, NothingSearched, F) /\ \A i \in 0..n : g[i] \in A[i]
  <2> DEFINE base == NothingSearched
  <2>1. base \in A[0] /\ \A i \in 1..n : \A a \in A[i - 1] : F[i][a] \in A[i]
    BY <1>1, <1>2, <1>3
  <2> HIDE DEF A, F, upTo, base
  <2>2. \E g : Goes(g, n, base, F) /\ \A i \in 0..n : g[i] \in A[i]
    BY <1>1, <2>1, StepByStep
  <2> QED  BY <2>2 DEF base
<1>5. g = [i \in 0..n |-> IF i = 0 THEN NothingSearched ELSE SearchAt(rule, attrs, g[i - 1], i)]
  <2>1. \A i \in 1..n : F[i][g[i - 1]] = SearchAt(rule, attrs, g[i - 1], i)
    BY <1>1, <1>4
  <2>2. \A i \in 0..n : i = 0 \/ i \in 1..n
    BY <1>1
  <2> HIDE DEF F, A
  <2> QED  BY <1>4, <2>1, <2>2 DEF Goes
<1>6. upTo = [i \in 0..n |-> IF i = 0 THEN NothingSearched ELSE SearchAt(rule, attrs, upTo[i - 1], i)]
  BY <1>5
<1>7. upTo[n] \in X
  <2> HIDE DEF upTo
  <2>1. upTo[0] \in A[0] /\ \A i \in 1..n : upTo[i - 1] \in A[i - 1] => upTo[i] \in A[i]
    BY <1>1, <1>2, <1>3, <1>6
  <2> HIDE DEF A
  <2>2. \A i \in 0..n : upTo[i] \in A[i]
    BY <1>1, <2>1, InEverySet
  <2> QED  BY <1>1, <2>2 DEF A
<1>8. FindFromAttrs(rule, attrs) = upTo[n].matches
  BY DEF FindFromAttrs, n
<1> HIDE DEF upTo
<1> QED  BY <1>7, <1>8 DEF X

(* What a parser makes of the matches of its rule.                         *)
Errors == {"none", "ambiguous", "error"}
(* It is a result, and an empty one when nothing matches.                  *)
LEMMA CollectIs ==
    ASSUME NEW matches, Len(matches) \in Nat, NEW mapped, NEW E,
           \A i \in 1..Len(matches) : mapped[matches[i]].rows \in Seq(E)
    PROVE  /\ Collect(matches, mapped) \in [err : Errors, rows : Seq(E)]
           /\ Len(matches) = 0 => Collect(matches, mapped) = Rows(<<>>)
<1> DEFINE n == Len(matches)
           base == Rows(<<>>)
           X == [err : Errors, rows : Seq(E)]
           A == [i \in 0..n |-> X]
           F == [i \in 1..n |-> [a \in X |-> TakeMatch(a, mapped[matches[i]])]]
           taken[i \in 0..n] == IF i = 0 THEN base ELSE TakeMatch(taken[i - 1], mapped[matches[i]])
<1>1. n \in Nat /\ 0 \in 0..n /\ n \in 0..n /\ \A i \in 1..n : i - 1 \in 0..n /\ i \in 0..n /\ i # 0
  OBVIOUS
<1>2. base \in X
  BY DEF Rows, Errors
<1>3. ASSUME NEW i \in 1..n, NEW a \in X
      PROVE  TakeMatch(a, mapped[matches[i]]) \in X
  <2> DEFINE r == mapped[matches[i]]
  <2>1. r.rows \in Seq(E) /\ a.rows \in Seq(E) /\ a.err \in Errors /\ a = [err |-> a.err, rows |-> a.rows]
    OBVIOUS
  <2> HIDE DEF r
  <2>2. a.rows \o r.rows \in Seq(E) /\ <<>> \in Seq(E)
    BY <2>1
  <2>3. TakeMatch(a, r) \in X
    BY <2>1, <2>2 DEF TakeMatch, Failed, Errors
  <2> QED  BY <2>3 DEF r
<1> HIDE DEF n, X, base
<1>4. PICK g : Goes(g, n, base, F) /\ \A i \in 0..n : g[i] \in A[i]
  <2>1. base \in A[0] /\ \A i \in 1..n : \A a \in A[i - 1] : F[i][a] \in A[i]
    BY <1>1, <1>2, <1>3
  <2> HIDE DEF A, F, taken
  <2> QED  BY <1>1, <2>1, StepByStep
<1>5. g = [i \in 0..n |-> IF i = 0 THEN base ELSE TakeMatch(g[i - 1], mapped[matches[i]])]
  <2>1. \A i \in 1..n : F[i][g[i - 1]] = TakeMatch(g[i - 1], mapped[matches[i]])
    BY <1>1, <1>4
  <2>2. \A i \in 0..n : i = 0 \/ i \in 1..n
    BY <1>1
  <2> HIDE DEF F, A
  <2> QED  BY <1>4, <2>1, <2>2 DEF Goes
<1>6. taken = [i \in 0..n |-> IF i = 0 THEN base ELSE TakeMatch(taken[i - 1], mapped[matches[i]])]
  BY <1>5
<1>7. taken[n] \in X /\ taken[0] = base
  <2> HIDE DEF taken
  <2>1. taken[0] \in A[0] /\ \A i \in 1..n : taken[i - 1] \in A[i - 1] => taken[i] \in A[i]
    BY <1>1, <1>2, <1>3, <1>6
  <2> HIDE DEF A
  <2>2. \A i \in 0..n : taken[i] \in A[i]
    BY <1>1, <2>1, InEverySet
  <2>3. taken[0] = base
    BY <1>1, <1>6
  <2> QED  BY <1>1, <2>2, <2>3 DEF A
<1>8. Collect(matches, mapped) = taken[n]
  BY DEF Collect, n, base
<1> HIDE DEF taken
<1> QED  BY <1>7, <1>8 DEF X, n, base

(* The attributes of a log put in a filter's order.                        *)
LEMMA InOrderIsSeq ==
    ASSUME NEW K, NEW filter \in Seq(K), NEW R, NEW group \in Seq(R)
    PROVE  InOrder(filter, group) \in Seq(R)
<1> DEFINE Of(key) == {i \in DOMAIN group : group[i].key = key}
           One(key) == IF Of(key) = {} THEN <<>> ELSE <<group[CHOOSE i \in Of(key) : TRUE]>>
           ss == [k \in DOMAIN filter |-> One(filter[k])]
<1>1. ASSUME NEW key PROVE One(key) \in Seq(R)
  <2>1. CASE Of(key) = {}
    BY <2>1
  <2>2. CASE Of(key) # {}
    <3> DEFINE i == CHOOSE i \in Of(key) : TRUE
    <3>1. i \in Of(key)
      BY <2>2
    <3> HIDE DEF i
    <3>2. group[i] \in R /\ One(key) = <<group[i]>>
      BY <2>2, <3>1 DEF i
    <3> HIDE DEF One
    <3> QED  BY <3>2
  <2> QED  BY <2>1, <2>2
<1>2. ss \in Seq(Seq(R))
  <2> HIDE DEF One
  <2>1. ss = [k \in 1..Len(filter) |-> One(filter[k])]
    OBVIOUS
  <2> QED  BY <1>1, <2>1
<1>3. InOrder(filter, group) = FlattenSeq(ss)
  BY DEF InOrder
<1> HIDE DEF ss
<1> QED  BY <1>2, <1>3, FlattenIsSeq

(* Sorting attributes gives attributes.                                    *)
LEMMA SortedIsSeq ==
    ASSUME NEW K, NEW filter \in Seq(K), NEW R, NEW attrs \in Seq(R)
    PROVE  SortAttributes(attrs, filter) \in Seq(R)
<1> DEFINE n == Len(attrs)
           base == [sorted |-> <<>>, group |-> <<>>]
           X == [sorted : Seq(R), group : Seq(R)]
           A == [i \in 0..n |-> X]
           F == [i \in 1..n |-> [a \in X |-> TakeAttr(filter, a, attrs[i])]]
           taken[i \in 0..n] == IF i = 0 THEN base ELSE TakeAttr(filter, taken[i - 1], attrs[i])
<1>1. n \in Nat /\ 0 \in 0..n /\ n \in 0..n /\ \A i \in 1..n : i - 1 \in 0..n /\ i \in 0..n /\ i # 0
  OBVIOUS
<1>2. base \in X /\ \A i \in 1..n : attrs[i] \in R
  OBVIOUS
<1>3. ASSUME NEW a \in X PROVE Flush(filter, a) \in X
  <2>1. InOrder(filter, a.group) \in Seq(R)
    BY InOrderIsSeq
  <2>2. a.sorted \o InOrder(filter, a.group) \in Seq(R) /\ <<>> \in Seq(R)
    BY <2>1
  <2> QED  BY <2>2 DEF Flush
<1> HIDE DEF n, base
<1>4. ASSUME NEW i \in 1..n, NEW a \in X PROVE TakeAttr(filter, a, attrs[i]) \in X
  <2> DEFINE x == attrs[i]
  <2>1. x \in R
    BY <1>2
  <2> HIDE DEF x
  <2>2. ASSUME NEW b \in X PROVE [b EXCEPT !.group = Append(@, x)] \in X
    <3> DEFINE more == Append(b.group, x)
    <3>1. more \in Seq(R) /\ b \in [sorted : Seq(R), group : Seq(R)]
      BY <2>1
    <3> HIDE DEF more
    <3>2. [b EXCEPT !.group = more] \in [sorted : Seq(R), group : Seq(R)]
      BY <3>1
    <3> QED  BY <3>2 DEF more
  <2> HIDE DEF X
  <2>3. Grow(filter, a, x) \in X
    BY <1>3, <2>2 DEF Grow
  <2>4. TakeAttr(filter, a, x) \in X
    BY <1>3, <2>3 DEF TakeAttr
  <2> QED  BY <2>4 DEF x
<1> HIDE DEF X
<1>5. PICK g : Goes(g, n, base, F) /\ \A i \in 0..n : g[i] \in A[i]
  <2>1. base \in A[0] /\ \A i \in 1..n : \A a \in A[i - 1] : F[i][a] \in A[i]
    BY <1>1, <1>2, <1>4
  <2> HIDE DEF A, F, taken
  <2> QED  BY <1>1, <2>1, StepByStep
<1>6. g = [i \in 0..n |-> IF i = 0 THEN base ELSE TakeAttr(filter, g[i - 1], attrs[i])]
  <2>1. \A i \in 1..n : F[i][g[i - 1]] = TakeAttr(filter, g[i - 1], attrs[i])
    BY <1>1, <1>5
  <2>2. \A i \in 0..n : i = 0 \/ i \in 1..n
    BY <1>1
  <2> HIDE DEF F, A
  <2> QED  BY <1>5, <2>1, <2>2 DEF Goes
<1>7. taken = [i \in 0..n |-> IF i = 0 THEN base ELSE TakeAttr(filter, taken[i - 1], attrs[i])]
  BY <1>6
<1>8. taken[n] \in X
  <2> HIDE DEF taken
  <2>1. taken[0] \in A[0] /\ \A i \in 1..n : taken[i - 1] \in A[i - 1] => taken[i] \in A[i]
    BY <1>1, <1>2, <1>4, <1>7
  <2> HIDE DEF A
  <2>2. \A i \in 0..n : taken[i] \in A[i]
    BY <1>1, <2>1, InEverySet
  <2> QED  BY <1>1, <2>2 DEF A
<1>9. SortAttributes(attrs, filter) = Flush(filter, taken[n]).sorted
  BY DEF SortAttributes, n, base
<1> HIDE DEF taken
<1> QED  BY <1>3, <1>8, <1>9 DEF X

-----------------------------------------------------------------------------
(* One log per type, as the source stores make them.  The same logs in     *)
(* another order are no other transaction.                                 *)
OnePerType(logs) == \A i, j \in 1..Len(logs) : logs[i].type = logs[j].type => i = j
SameLogs(one, two) == OnePerType(one) /\ OnePerType(two) /\ Range(one) = Range(two)

(* All matches of a rule are those in the log of its type.                 *)
LEMMA FoundInLogs ==
    ASSUME NEW L, \A log \in L : Len(log.attrs) \in Nat, NEW logs \in Seq(L), OnePerType(logs), NEW rule
    PROVE  /\ \A k \in 1..Len(logs) : logs[k].type = rule.type =>
                  FindFromLogs(rule, logs) = FindFromAttrs(rule, logs[k].attrs)
           /\ (\A k \in 1..Len(logs) : logs[k].type # rule.type) => FindFromLogs(rule, logs) = <<>>
<1> DEFINE Of(log) == IF log.type = rule.type THEN FindFromAttrs(rule, log.attrs) ELSE <<>>
           ss == [i \in DOMAIN logs |-> Of(logs[i])]
           E(log) == CHOOSE E : FindFromAttrs(rule, log.attrs) \in Seq(E)
           all == UNION {E(log) : log \in L}
<1>1. ASSUME NEW log \in L PROVE Of(log) \in Seq(all)
  <2>1. FindFromAttrs(rule, log.attrs) \in Seq(E(log))
    <3>1. \E S : FindFromAttrs(rule, log.attrs) \in Seq(S)
      BY MatchesAreSeq
    <3> QED  BY <3>1
  <2>2. E(log) \subseteq all
    OBVIOUS
  <2> HIDE DEF E, all
  <2>3. FindFromAttrs(rule, log.attrs) \in Seq(all)
    BY <2>1, <2>2
  <2>4. <<>> \in Seq(all)
    OBVIOUS
  <2> QED  BY <2>3, <2>4
<1>2. Len(logs) \in Nat /\ DOMAIN logs = 1..Len(logs) /\ \A i \in 1..Len(logs) : logs[i] \in L
  OBVIOUS
<1>3. FindFromLogs(rule, logs) = FlattenSeq(ss)
  BY DEF FindFromLogs
<1>4. Len(ss) = Len(logs) /\ ss \in Seq(Seq(all)) /\ \A i \in 1..Len(logs) : ss[i] = Of(logs[i])
  <2> HIDE DEF Of, all
  <2> QED  BY <1>1, <1>2
<1> HIDE DEF ss, all
<1>5. ASSUME NEW k \in 1..Len(logs), logs[k].type = rule.type
      PROVE  FindFromLogs(rule, logs) = FindFromAttrs(rule, logs[k].attrs)
  <2>1. \A i \in 1..Len(logs) : i # k => logs[i].type # rule.type
    BY <1>5 DEF OnePerType
  <2>2. \A i \in 1..Len(ss) : i # k => ss[i] = <<>>
    BY <1>4, <2>1
  <2>3. FlattenSeq(ss) = ss[k]
    <3> HIDE DEF Of
    <3> QED  BY <1>4, <2>2, FlattenOne
  <2> QED  BY <1>3, <1>4, <1>5, <2>3
<1>6. ASSUME \A k \in 1..Len(logs) : logs[k].type # rule.type
      PROVE  FindFromLogs(rule, logs) = <<>>
  <2>1. \A i \in 1..Len(logs) : ss[i] = <<>>
    BY <1>4, <1>6
  <2>2. ss \in Seq({<<>>})
    <3>1. ss = [i \in 1..Len(ss) |-> ss[i]] /\ Len(ss) \in Nat
      BY <1>4
    <3>2. \A i \in 1..Len(ss) : ss[i] \in {<<>>}
      BY <1>4, <2>1
    <3> QED  BY <3>1, <3>2
  <2> QED  BY <1>3, <2>2, FlattenNone
<1> HIDE DEF Of
<1> QED  BY <1>5, <1>6

(* So the order of the logs does not change what a rule matches.           *)
LEMMA SameFound ==
    ASSUME NEW L, \A log \in L : Len(log.attrs) \in Nat, NEW one \in Seq(L), NEW two \in Seq(L),
           SameLogs(one, two), NEW rule
    PROVE  FindFromLogs(rule, one) = FindFromLogs(rule, two)
<1>1. /\ OnePerType(one) /\ OnePerType(two)
      /\ {one[i] : i \in 1..Len(one)} = {two[i] : i \in 1..Len(two)}
  <2>1. DOMAIN one = 1..Len(one) /\ DOMAIN two = 1..Len(two)
    OBVIOUS
  <2>2. Range(one) = Range(two) /\ OnePerType(one) /\ OnePerType(two)
    BY DEF SameLogs
  <2>3. {one[i] : i \in DOMAIN one} = {two[i] : i \in DOMAIN two}
    BY <2>2, Zenon DEF Range
  <2> QED  BY <2>1, <2>2, <2>3
<1>2. CASE \E k \in 1..Len(one) : one[k].type = rule.type
  <2>1. PICK k \in 1..Len(one) : one[k].type = rule.type
    BY <1>2
  <2>2. PICK j \in 1..Len(two) : two[j] = one[k]
    BY <1>1, <2>1
  <2>3. FindFromLogs(rule, one) = FindFromAttrs(rule, one[k].attrs)
    BY <1>1, <2>1, FoundInLogs
  <2>4. FindFromLogs(rule, two) = FindFromAttrs(rule, two[j].attrs)
    BY <1>1, <2>1, <2>2, FoundInLogs
  <2> QED  BY <2>2, <2>3, <2>4
<1>3. CASE \A k \in 1..Len(one) : one[k].type # rule.type
  <2>1. \A j \in 1..Len(two) : two[j].type # rule.type
    BY <1>1, <1>3
  <2>2. FindFromLogs(rule, one) = <<>>
    BY <1>1, <1>3, FoundInLogs
  <2>3. FindFromLogs(rule, two) = <<>>
    BY <1>1, <2>1, FoundInLogs
  <2> QED  BY <2>2, <2>3
<1> QED  BY <1>2, <1>3

(* What a stage makes of a log: rows and possibly an error, and nothing of *)
(* a log of another type than its rule's.                                  *)
IsSeq(s)    == \E E : s \in Seq(E)
IsResult(r) == r.err \in Errors /\ IsSeq(r.rows)
Stage(made, type, logs) ==
    \A log \in Range(logs) : IsResult(made[log]) /\ (log.type # type => made[log] = Rows(<<>>))

(* Sequences each over some set are all over one set.                      *)
LEMMA SeqUnion ==
    ASSUME NEW S, NEW made, \A x \in S : IsSeq(made[x])
    PROVE  \E E : \A x \in S : made[x] \in Seq(E)
<1> DEFINE E(x) == CHOOSE E : made[x] \in Seq(E)
           all == UNION {E(x) : x \in S}
<1>1. ASSUME NEW x \in S PROVE made[x] \in Seq(all)
  <2>1. made[x] \in Seq(E(x))
    BY DEF IsSeq
  <2>2. E(x) \subseteq all
    OBVIOUS
  <2> HIDE DEF E, all
  <2> QED  BY <2>1, <2>2
<1> HIDE DEF all
<1> QED  BY <1>1

(* A parser is such a stage.                                               *)
LEMMA ParserIsStage ==
    ASSUME NEW rule, NEW log, Len(log.attrs) \in Nat, NEW mapped,
           \A match \in Range(FindFromLogs(rule, <<log>>)) : IsSeq(mapped[match].rows)
    PROVE  /\ IsResult(Collect(FindFromLogs(rule, <<log>>), mapped))
           /\ log.type # rule.type => Collect(FindFromLogs(rule, <<log>>), mapped) = Rows(<<>>)
<1> DEFINE logs == <<log>>
           found == FindFromLogs(rule, logs)
           rows == [match \in Range(found) |-> mapped[match].rows]
<1>1. logs \in Seq({log}) /\ Len(logs) = 1 /\ logs[1] = log /\ 1..1 = {1}
  OBVIOUS
<1>2. OnePerType(logs) /\ 1 \in 1..Len(logs)
  BY <1>1 DEF OnePerType
<1> HIDE DEF logs
<1>3. /\ \A k \in 1..Len(logs) : logs[k].type = rule.type => found = FindFromAttrs(rule, logs[k].attrs)
      /\ (\A k \in 1..Len(logs) : logs[k].type # rule.type) => found = <<>>
  <2>1. \A x \in {log} : Len(x.attrs) \in Nat
    OBVIOUS
  <2> QED  BY <1>1, <1>2, <2>1, FoundInLogs
<1>4. log.type # rule.type => found = <<>>
  BY <1>1, <1>3
<1>5. PICK M : found \in Seq(M)
  <2>1. log.type = rule.type => found = FindFromAttrs(rule, log.attrs)
    BY <1>1, <1>3
  <2>2. \E M : FindFromAttrs(rule, log.attrs) \in Seq(M)
    BY MatchesAreSeq
  <2>3. <<>> \in Seq({})
    OBVIOUS
  <2> HIDE DEF found
  <2> QED  BY <1>4, <2>1, <2>2, <2>3
<1>6. \A match \in Range(found) : IsSeq(rows[match])
  BY DEF logs
<1>7. PICK E : \A match \in Range(found) : rows[match] \in Seq(E)
  <2> HIDE DEF rows, found
  <2> QED  BY <1>6, SeqUnion
<1>8. Len(found) \in Nat /\ \A i \in 1..Len(found) : mapped[found[i]].rows \in Seq(E)
  <2>1. \A i \in 1..Len(found) : found[i] \in Range(found)
    <3> HIDE DEF found
    <3> QED  BY <1>5 DEF Range
  <2>2. \A match \in Range(found) : mapped[match].rows \in Seq(E)
    BY <1>7
  <2> HIDE DEF found, rows
  <2> QED  BY <1>5, <2>1, <2>2
<1> HIDE DEF found, rows
<1>9. /\ Collect(found, mapped) \in [err : Errors, rows : Seq(E)]
      /\ Len(found) = 0 => Collect(found, mapped) = Rows(<<>>)
  BY <1>8, CollectIs
<1>10. IsResult(Collect(found, mapped))
  BY <1>9 DEF IsResult, IsSeq
<1>11. log.type # rule.type => Collect(found, mapped) = Rows(<<>>)
  BY <1>4, <1>9
<1> QED  BY <1>10, <1>11 DEF found, logs

-----------------------------------------------------------------------------
(* The stages over the logs.  Where every log has a type of its own, what  *)
(* a stage adds up over the logs is what it makes of the one of its type.  *)
RowsIn(made, logs) == [log \in Range(logs) |-> made[log].rows]
Only(s, type, rows, logs, i) ==
    /\ \A j \in 1..i : logs[j].type = type => s = rows[logs[j]]
    /\ (\A j \in 1..i : logs[j].type # type) => s = <<>>

(* One log more keeps the rows those of the only log of their type.        *)
LEMMA OnlyStep ==
    ASSUME NEW logs, OnePerType(logs), Len(logs) \in Nat, NEW i \in 1..Len(logs), NEW E, NEW type, NEW rows,
           \A j \in 1..Len(logs) : rows[logs[j]] \in Seq(E) /\ (logs[j].type # type => rows[logs[j]] = <<>>),
           NEW s \in Seq(E), Only(s, type, rows, logs, i - 1)
    PROVE  Only(s \o rows[logs[i]], type, rows, logs, i) /\ s \o rows[logs[i]] \in Seq(E)
<1> DEFINE r == rows[logs[i]]
<1>1. r \in Seq(E) /\ s \o r \in Seq(E) /\ s \o <<>> = s /\ <<>> \o r = r
  OBVIOUS
<1>2. \A j \in 1..i : j \in 1..Len(logs) /\ (j = i \/ j \in 1..i - 1)
  OBVIOUS
<1>3. i \in 1..i /\ \A j \in 1..i - 1 : j \in 1..i /\ j # i
  OBVIOUS
<1>4. CASE logs[i].type = type
  <2>1. \A j \in 1..i - 1 : logs[j].type # type
    BY <1>2, <1>3, <1>4 DEF OnePerType
  <2>2. s = <<>>
    BY <2>1 DEF Only
  <2>3. \A j \in 1..i : logs[j].type = type => j = i
    BY <1>2, <2>1
  <2> QED  BY <1>1, <1>3, <1>4, <2>2, <2>3 DEF Only
<1>5. CASE logs[i].type # type
  <2>1. r = <<>>
    BY <1>5
  <2>2. s \o r = s
    BY <1>1, <2>1
  <2> HIDE DEF r
  <2>3. Only(s, type, rows, logs, i)
    BY <1>2, <1>3, <1>5 DEF Only
  <2> QED  BY <1>1, <2>2, <2>3 DEF r
<1> QED  BY <1>4, <1>5

(* So they do not depend on the order of the logs.                         *)
LEMMA OnlyInAnyOrder ==
    ASSUME NEW L, NEW one \in Seq(L), NEW two \in Seq(L), SameLogs(one, two), NEW type, NEW rows,
           NEW s, Only(s, type, rows, one, Len(one)), NEW t, Only(t, type, rows, two, Len(two))
    PROVE  s = t
<1>1. DOMAIN one = 1..Len(one) /\ DOMAIN two = 1..Len(two)
  OBVIOUS
<1>2. {one[i] : i \in DOMAIN one} = {two[i] : i \in DOMAIN two}
  BY DEF SameLogs, Range
<1>3. {one[i] : i \in 1..Len(one)} = {two[i] : i \in 1..Len(two)}
  BY <1>1, <1>2
<1>4. CASE \E i \in 1..Len(one) : one[i].type = type
  <2>1. PICK i \in 1..Len(one) : one[i].type = type
    BY <1>4
  <2>2. PICK j \in 1..Len(two) : two[j] = one[i]
    BY <1>3
  <2> QED  BY <2>1, <2>2 DEF Only
<1>5. CASE \A i \in 1..Len(one) : one[i].type # type
  <2>1. \A i \in 1..Len(two) : two[i].type # type
    BY <1>3, <1>5
  <2> QED  BY <1>5, <2>1 DEF Only
<1> QED  BY <1>4, <1>5

(* No error where no stage has one.                                        *)
LEMMA FirstErrorIs ==
    ASSUME NEW n \in Nat, NEW errs, DOMAIN errs = 1..n, \A k \in 1..n : errs[k] \in Errors
    PROVE  /\ FirstError(errs) \in Errors
           /\ FirstError(errs) = "none" <=> \A k \in 1..n : errs[k] = "none"
<1> DEFINE First(k) == errs[k] # "none" /\ \A j \in 1..k - 1 : errs[j] = "none"
<1>1. FirstError(errs) = IF \A k \in 1..n : errs[k] = "none" THEN "none"
                         ELSE errs[CHOOSE k \in 1..n : First(k)]
  BY DEF FirstError
<1>2. CASE \A k \in 1..n : errs[k] = "none"
  BY <1>1, <1>2 DEF Errors
<1>3. CASE \E k \in 1..n : errs[k] # "none"
  <2> DEFINE S == {k \in 1..n : errs[k] # "none"}
             least == CHOOSE k \in 1..n : First(k)
  <2>1. PICK k \in S : \A j \in S : k <= j
    <3>1. S \in SUBSET Nat /\ S # {}
      BY <1>3
    <3> HIDE DEF S
    <3> QED  BY <3>1, Least
  <2>2. k \in 1..n /\ errs[k] # "none" /\ \A j \in 1..k - 1 : j \in 1..n /\ j \notin S
    BY <2>1
  <2>3. First(k)
    BY <2>2
  <2>4. least \in 1..n /\ First(least)
    <3> HIDE DEF First
    <3> QED  BY <2>2, <2>3
  <2>5. FirstError(errs) = errs[least]
    BY <1>1, <1>3
  <2> HIDE DEF least
  <2> QED  BY <1>3, <2>4, <2>5
<1> QED  BY <1>2, <1>3

(* What the stages make of every log, by the name of the stage, and the    *)
(* type of the logs each of them reads.                                    *)
Stages(st, type, logs) ==
    /\ Stage(st.act, type.act, logs) /\ Stage(st.ip, type.act, logs)
    /\ Stage(st.w, type.w, logs)     /\ Stage(st.tax, type.tax, logs)
    /\ Stage(st.nat, type.nat, logs) /\ Stage(st.b, type.b, logs)
AllOf(logs, st)  == GatherFrom(logs, st.act, st.ip, st.w, st.tax, st.nat, st.b)
ActionsIn(st, logs) == [log \in Range(logs) |-> st.act[log].rows \o st.ip[log].rows]

(* No stage ends the transaction at this log.                              *)
Fine(st, logs, log) ==
    /\ st.act[log].err = "none" /\ st.ip[log].err = "none"
    /\ st.w[log].err = "none" \/ Record(st.w[log].err, logs)
    /\ st.tax[log].err = "none" /\ st.nat[log].err = "none" /\ st.b[log].err = "none"

(* What is gathered from the first i logs.                                 *)
FirstOf(g, st, type, logs, i) ==
    /\ g.err = "none" <=> \A j \in 1..i : Fine(st, logs, logs[j])
    /\ g.err = "none" =>
          /\ g.partial <=> \E j \in 1..i : Record(st.w[logs[j]].err, logs)
          /\ Len(g.read) = i /\ \A j \in 1..i : g.read[j] = logs[j]
          /\ Only(g.act, type.act, ActionsIn(st, logs), logs, i)
          /\ Only(g.wasm, type.w, RowsIn(st.w, logs), logs, i)
          /\ Only(g.tax, type.tax, RowsIn(st.tax, logs), logs, i)
          /\ Only(g.native, type.nat, RowsIn(st.nat, logs), logs, i)
          /\ Only(g.burn, type.b, RowsIn(st.b, logs), logs, i)
Gatherings(L, E) ==
    [err : Errors, partial : BOOLEAN, read : Seq(L), act : Seq(E), wasm : Seq(E),
     tax : Seq(E), native : Seq(E), burn : Seq(E)]

(* The rows of a stage are sequences over one set.                         *)
LEMMA StageRows ==
    ASSUME NEW made, NEW type, NEW logs, Stage(made, type, logs)
    PROVE  \E E : \A log \in Range(logs) : made[log].rows \in Seq(E)
<1> DEFINE rows == [log \in Range(logs) |-> made[log].rows]
<1>1. \A log \in Range(logs) : IsSeq(rows[log])
  BY DEF Stage, IsResult
<1>2. \E E : \A log \in Range(logs) : rows[log] \in Seq(E)
  <2> HIDE DEF rows
  <2> QED  BY <1>1, SeqUnion
<1> QED  BY <1>2

(* And those of all stages.                                                *)
LEMMA StagesRows ==
    ASSUME NEW st, NEW type, NEW logs, Stages(st, type, logs)
    PROVE  \E E : \A log \in Range(logs) :
              /\ st.act[log].rows \in Seq(E) /\ st.ip[log].rows \in Seq(E) /\ st.w[log].rows \in Seq(E)
              /\ st.tax[log].rows \in Seq(E) /\ st.nat[log].rows \in Seq(E) /\ st.b[log].rows \in Seq(E)
<1> USE DEF Stages
<1>1. PICK E1 : \A log \in Range(logs) : st.act[log].rows \in Seq(E1)
  BY StageRows
<1>2. PICK E2 : \A log \in Range(logs) : st.ip[log].rows \in Seq(E2)
  BY StageRows
<1>3. PICK E3 : \A log \in Range(logs) : st.w[log].rows \in Seq(E3)
  BY StageRows
<1>4. PICK E4 : \A log \in Range(logs) : st.tax[log].rows \in Seq(E4)
  BY StageRows
<1>5. PICK E5 : \A log \in Range(logs) : st.nat[log].rows \in Seq(E5)
  BY StageRows
<1>6. PICK E6 : \A log \in Range(logs) : st.b[log].rows \in Seq(E6)
  BY StageRows
<1> DEFINE E == E1 \cup E2 \cup E3 \cup E4 \cup E5 \cup E6
<1>7. /\ E1 \subseteq E /\ E2 \subseteq E /\ E3 \subseteq E
      /\ E4 \subseteq E /\ E5 \subseteq E /\ E6 \subseteq E
  OBVIOUS
<1> HIDE DEF E
<1>8. ASSUME NEW log \in Range(logs)
      PROVE  /\ st.act[log].rows \in Seq(E) /\ st.ip[log].rows \in Seq(E) /\ st.w[log].rows \in Seq(E)
             /\ st.tax[log].rows \in Seq(E) /\ st.nat[log].rows \in Seq(E) /\ st.b[log].rows \in Seq(E)
  <2>1. st.act[log].rows \in Seq(E)
    BY <1>1, <1>7
  <2>2. st.ip[log].rows \in Seq(E)
    BY <1>2, <1>7
  <2>3. st.w[log].rows \in Seq(E)
    BY <1>3, <1>7
  <2>4. st.tax[log].rows \in Seq(E)
    BY <1>4, <1>7
  <2>5. st.nat[log].rows \in Seq(E)
    BY <1>5, <1>7
  <2>6. st.b[log].rows \in Seq(E)
    BY <1>6, <1>7
  <2> QED  BY <2>1, <2>2, <2>3, <2>4, <2>5, <2>6
<1> QED  BY <1>8

(* Joining sequences is associative.                                       *)
LEMMA Joined ==
    ASSUME NEW E, NEW s \in Seq(E), NEW t \in Seq(E), NEW u \in Seq(E)
    PROVE  s \o t \o u = s \o (t \o u) /\ t \o u \in Seq(E)
OBVIOUS

(* A stage's rows stay those of the only log of its type.                  *)
LEMMA RowsStep ==
    ASSUME NEW L, NEW logs \in Seq(L), OnePerType(logs), NEW i \in 1..Len(logs), NEW E, NEW type, NEW made,
           Stage(made, type, logs), \A x \in Range(logs) : made[x].rows \in Seq(E),
           NEW s \in Seq(E), Only(s, type, RowsIn(made, logs), logs, i - 1)
    PROVE  Only(s \o made[logs[i]].rows, type, RowsIn(made, logs), logs, i)
<1> DEFINE rows == RowsIn(made, logs)
<1>1. Len(logs) \in Nat /\ DOMAIN logs = 1..Len(logs)
  OBVIOUS
<1>2. \A j \in 1..Len(logs) : logs[j] \in Range(logs)
  BY <1>1 DEF Range
<1>3. \A j \in 1..Len(logs) : /\ rows[logs[j]] = made[logs[j]].rows
                              /\ rows[logs[j]] \in Seq(E)
                              /\ logs[j].type # type => rows[logs[j]] = <<>>
  BY <1>2 DEF Stage, RowsIn, Rows
<1>4. rows[logs[i]] = made[logs[i]].rows
  BY <1>3
<1> HIDE DEF rows
<1>5. Only(s \o rows[logs[i]], type, rows, logs, i)
  BY <1>1, <1>3, OnlyStep DEF rows
<1> QED  BY <1>4, <1>5 DEF rows

(* So do the rows of every stage, and the error is none as long as no      *)
(* stage failed.                                                           *)
LEMMA GatherStep ==
    ASSUME NEW L, NEW logs \in Seq(L), OnePerType(logs), NEW st, NEW type, Stages(st, type, logs), NEW E,
           \A log \in Range(logs) :
              /\ st.act[log].rows \in Seq(E) /\ st.ip[log].rows \in Seq(E) /\ st.w[log].rows \in Seq(E)
              /\ st.tax[log].rows \in Seq(E) /\ st.nat[log].rows \in Seq(E) /\ st.b[log].rows \in Seq(E),
           NEW i \in 1..Len(logs), NEW a \in Gatherings(L, E), FirstOf(a, st, type, logs, i - 1),
           NEW next, next = TakeLog(a, logs, logs[i], st.act[logs[i]], st.ip[logs[i]], st.w[logs[i]],
                                    st.tax[logs[i]], st.nat[logs[i]], st.b[logs[i]])
    PROVE  next \in Gatherings(L, E) /\ FirstOf(next, st, type, logs, i)
<1> DEFINE log == logs[i]
           act == st.act[log]  ip == st.ip[log]  w == st.w[log]
           tax == st.tax[log]  nat == st.nat[log]  b == st.b[log]
           recorded == Record(w.err, logs)
<1>1. /\ Len(logs) \in Nat /\ log \in L /\ \A j \in 1..Len(logs) : logs[j] \in Range(logs)
      /\ \A j \in 1..i : j \in 1..Len(logs) /\ (j = i \/ j \in 1..i - 1)
      /\ i \in 1..i /\ \A j \in 1..i - 1 : j \in 1..i /\ j # i
  <2>1. Len(logs) \in Nat /\ DOMAIN logs = 1..Len(logs) /\ log \in L
    OBVIOUS
  <2>2. \A j \in DOMAIN logs : logs[j] \in Range(logs)
    BY DEF Range
  <2>3. /\ \A j \in 1..i : j \in 1..Len(logs) /\ (j = i \/ j \in 1..i - 1)
        /\ i \in 1..i /\ \A j \in 1..i - 1 : j \in 1..i /\ j # i
    OBVIOUS
  <2> HIDE DEF log
  <2> QED  BY <2>1, <2>2, <2>3
<1>2. /\ act.rows \in Seq(E) /\ ip.rows \in Seq(E) /\ w.rows \in Seq(E)
      /\ tax.rows \in Seq(E) /\ nat.rows \in Seq(E) /\ b.rows \in Seq(E)
  BY <1>1
<1>3. /\ act.err \in Errors /\ ip.err \in Errors /\ w.err \in Errors
      /\ tax.err \in Errors /\ nat.err \in Errors /\ b.err \in Errors
  BY <1>1 DEF Stages, Stage, IsResult
<1>4. Fine(st, logs, log) <=> /\ act.err = "none" /\ ip.err = "none" /\ (w.err = "none" \/ recorded)
                              /\ tax.err = "none" /\ nat.err = "none" /\ b.err = "none"
  BY DEF Fine
<1>5. recorded \in BOOLEAN
  BY DEF Record
<1>6. next = IF a.err # "none" THEN a ELSE AfterStages(a, recorded, log, act, ip, w, tax, nat, b)
  BY DEF TakeLog
<1>7. CASE a.err # "none"
  <2>1. next = a /\ \E j \in 1..i - 1 : ~Fine(st, logs, logs[j])
    BY <1>6, <1>7 DEF FirstOf
  <2> QED  BY <1>1, <1>7, <2>1 DEF FirstOf
<1>8. CASE a.err = "none"
  <2> DEFINE errs == <<act.err, ip.err, IF recorded THEN "none" ELSE w.err, tax.err, nat.err, b.err>>
  <2>1. FirstError(errs) \in Errors /\ (FirstError(errs) = "none" <=> Fine(st, logs, log))
    <3> DEFINE e == IF recorded THEN "none" ELSE w.err
    <3>1. e \in Errors /\ (e = "none" <=> (w.err = "none" \/ recorded))
      BY <1>3 DEF Errors
    <3> HIDE DEF e, act, ip, w, tax, nat, b, recorded
    <3>2. errs = <<act.err, ip.err, e, tax.err, nat.err, b.err>>
      BY DEF e
    <3> HIDE DEF errs
    <3>3. /\ DOMAIN errs = 1..6
          /\ errs[1] = act.err /\ errs[2] = ip.err /\ errs[3] = e
          /\ errs[4] = tax.err /\ errs[5] = nat.err /\ errs[6] = b.err
      BY <3>2
    <3>4. \A k \in 1..6 : k = 1 \/ k = 2 \/ k = 3 \/ k = 4 \/ k = 5 \/ k = 6
      OBVIOUS
    <3>5. 1 \in 1..6 /\ 2 \in 1..6 /\ 3 \in 1..6 /\ 4 \in 1..6 /\ 5 \in 1..6 /\ 6 \in 1..6
      OBVIOUS
    <3>6. \A k \in 1..6 : errs[k] \in Errors
      BY <1>3, <3>1, <3>3, <3>4
    <3>7. FirstError(errs) \in Errors /\ (FirstError(errs) = "none" <=> \A k \in 1..6 : errs[k] = "none")
      BY <3>3, <3>6, FirstErrorIs
    <3>8. (\A k \in 1..6 : errs[k] = "none") <=> /\ act.err = "none" /\ ip.err = "none" /\ e = "none"
                                                 /\ tax.err = "none" /\ nat.err = "none" /\ b.err = "none"
      BY <3>3, <3>4, <3>5
    <3> QED  BY <1>4, <3>1, <3>7, <3>8
  <2> DEFINE done == act.rows \o ip.rows
             read == IF act.err = "none" /\ ip.err = "none" THEN Append(a.read, log) ELSE a.read
  <2>2. a = [err |-> a.err, partial |-> a.partial, read |-> a.read, act |-> a.act, wasm |-> a.wasm,
             tax |-> a.tax, native |-> a.native, burn |-> a.burn]
        /\ a.partial \in BOOLEAN /\ a.read \in Seq(L) /\ a.act \in Seq(E) /\ a.wasm \in Seq(E)
        /\ a.tax \in Seq(E) /\ a.native \in Seq(E) /\ a.burn \in Seq(E)
    BY DEF Gatherings
  <2>3. a.act \o act.rows \o ip.rows = a.act \o done /\ done \in Seq(E)
    <3>1. a.act \in Seq(E) /\ act.rows \in Seq(E) /\ ip.rows \in Seq(E)
      BY <1>2, <2>2
    <3> HIDE DEF act, ip
    <3>2. (a.act \o act.rows) \o ip.rows = a.act \o (act.rows \o ip.rows) /\ act.rows \o ip.rows \in Seq(E)
      BY <3>1, Joined
    <3> QED  BY <3>2
  <2>4. next = [err |-> FirstError(errs), partial |-> a.partial \/ recorded, read |-> read,
                act |-> a.act \o done, wasm |-> a.wasm \o w.rows, tax |-> a.tax \o tax.rows,
                native |-> a.native \o nat.rows, burn |-> a.burn \o b.rows]
    <3>1. next = AfterStages(a, recorded, log, act, ip, w, tax, nat, b)
      BY <1>6, <1>8
    <3> HIDE DEF recorded, log, act, ip, w, tax, nat, b, done
    <3> QED  BY <2>3, <3>1, Zenon DEF AfterStages
  <2>15. /\ next.err = FirstError(errs) /\ next.partial = (a.partial \/ recorded) /\ next.read = read
         /\ next.act = a.act \o done /\ next.wasm = a.wasm \o w.rows /\ next.tax = a.tax \o tax.rows
         /\ next.native = a.native \o nat.rows /\ next.burn = a.burn \o b.rows
    <3> DEFINE err == FirstError(errs)  acts == a.act \o done  ws == a.wasm \o w.rows  ts == a.tax \o tax.rows
               ns == a.native \o nat.rows  bs == a.burn \o b.rows  some == a.partial \/ recorded
    <3>1. next = [err |-> err, partial |-> some, read |-> read, act |-> acts, wasm |-> ws, tax |-> ts,
                  native |-> ns, burn |-> bs]
      BY <2>4
    <3> HIDE DEF err, acts, ws, ts, ns, bs, some, read
    <3>2. /\ next.err = err /\ next.partial = some /\ next.read = read /\ next.act = acts /\ next.wasm = ws
          /\ next.tax = ts /\ next.native = ns /\ next.burn = bs
      BY <3>1
    <3> QED  BY <3>2 DEF err, acts, ws, ts, ns, bs, some
  <2>5. read \in Seq(L)
    <3> HIDE DEF log
    <3> QED  BY <1>1, <2>2
  <2> DEFINE acts == ActionsIn(st, logs)
  <2>8. \A j \in 1..Len(logs) : /\ acts[logs[j]] = st.act[logs[j]].rows \o st.ip[logs[j]].rows
                                /\ acts[logs[j]] \in Seq(E)
                                /\ logs[j].type # type.act => acts[logs[j]] = <<>>
    <3> TAKE j \in 1..Len(logs)
    <3> DEFINE x == logs[j]
    <3>1. x \in Range(logs) /\ acts[x] = st.act[x].rows \o st.ip[x].rows
      BY <1>1 DEF ActionsIn
    <3>2. st.act[x].rows \in Seq(E) /\ st.ip[x].rows \in Seq(E)
      BY <3>1
    <3>3. x.type # type.act => st.act[x].rows = <<>> /\ st.ip[x].rows = <<>>
      <4>1. Stage(st.act, type.act, logs) /\ Stage(st.ip, type.act, logs)
        BY Zenon DEF Stages
      <4>2. x.type # type.act => st.act[x] = Rows(<<>>) /\ st.ip[x] = Rows(<<>>)
        <5> HIDE DEF x
        <5> QED  BY <3>1, <4>1, Zenon DEF Stage
      <4>3. Rows(<<>>).rows = <<>>
        BY DEF Rows
      <4> QED  BY <4>2, <4>3, Zenon
    <3> HIDE DEF x, acts
    <3>4. st.act[x].rows \o st.ip[x].rows \in Seq(E) /\ <<>> \o <<>> = <<>>
      BY <3>2
    <3> QED  BY <3>1, <3>3, <3>4 DEF x
  <2>9. ASSUME Only(a.act, type.act, acts, logs, i - 1)
        PROVE  Only(a.act \o done, type.act, acts, logs, i)
    <3>1. acts[logs[i]] = done
      BY <2>8
    <3> HIDE DEF acts, done
    <3> QED  BY <1>1, <2>2, <2>8, <2>9, <3>1, OnlyStep
  <2>10. /\ a.act \o done \in Seq(E) /\ a.wasm \o w.rows \in Seq(E) /\ a.tax \o tax.rows \in Seq(E)
         /\ a.native \o nat.rows \in Seq(E) /\ a.burn \o b.rows \in Seq(E)
    <3> HIDE DEF done, w, tax, nat, b
    <3>1. a.act \o done \in Seq(E)
      <4>1. a.act \in Seq(E) /\ done \in Seq(E)
        BY <2>2, <2>3
      <4> QED  BY <4>1
    <3>2. a.wasm \o w.rows \in Seq(E)
      BY <1>2, <2>2
    <3>3. a.tax \o tax.rows \in Seq(E)
      BY <1>2, <2>2
    <3>4. a.native \o nat.rows \in Seq(E)
      BY <1>2, <2>2
    <3>5. a.burn \o b.rows \in Seq(E)
      BY <1>2, <2>2
    <3> QED  BY <3>1, <3>2, <3>3, <3>4, <3>5
  <2>11. next \in Gatherings(L, E)
    <3> HIDE DEF errs, read, done, recorded, log, w, tax, nat, b
    <3> QED  BY <1>5, <2>1, <2>2, <2>4, <2>5, <2>10 DEF Gatherings
  <2>12. next.err = "none" <=> \A j \in 1..i : Fine(st, logs, logs[j])
    <3>1. \A j \in 1..i - 1 : Fine(st, logs, logs[j])
      BY <1>8 DEF FirstOf
    <3> HIDE DEF errs, log
    <3> QED  BY <1>1, <2>1, <2>15, <3>1 DEF log
  <2>13. ASSUME next.err = "none"
         PROVE  /\ next.partial <=> \E j \in 1..i : Record(st.w[logs[j]].err, logs)
                /\ Len(next.read) = i /\ \A j \in 1..i : next.read[j] = logs[j]
    <3>1. Fine(st, logs, log) /\ next.partial = (a.partial \/ recorded) /\ next.read = read
      BY <1>1, <2>15, <2>12, <2>13
    <3>2. read = Append(a.read, log)
      BY <1>4, <3>1
    <3>3. /\ a.partial <=> \E j \in 1..i - 1 : Record(st.w[logs[j]].err, logs)
          /\ Len(a.read) = i - 1 /\ \A j \in 1..i - 1 : a.read[j] = logs[j]
      BY <1>8 DEF FirstOf
    <3>4. next.partial <=> \E j \in 1..i : Record(st.w[logs[j]].err, logs)
      BY <1>1, <3>1, <3>3
    <3>5. Len(Append(a.read, log)) = i /\ \A j \in 1..i : Append(a.read, log)[j] = logs[j]
      BY <1>1, <2>2, <3>3
    <3> QED  BY <3>1, <3>2, <3>4, <3>5
  <2>14. /\ Only(next.act, type.act, acts, logs, i)
         /\ Only(next.wasm, type.w, RowsIn(st.w, logs), logs, i)
         /\ Only(next.tax, type.tax, RowsIn(st.tax, logs), logs, i)
         /\ Only(next.native, type.nat, RowsIn(st.nat, logs), logs, i)
         /\ Only(next.burn, type.b, RowsIn(st.b, logs), logs, i)
    <3>1. /\ Only(a.act, type.act, acts, logs, i - 1)
          /\ Only(a.wasm, type.w, RowsIn(st.w, logs), logs, i - 1)
          /\ Only(a.tax, type.tax, RowsIn(st.tax, logs), logs, i - 1)
          /\ Only(a.native, type.nat, RowsIn(st.nat, logs), logs, i - 1)
          /\ Only(a.burn, type.b, RowsIn(st.b, logs), logs, i - 1)
      BY <1>8 DEF FirstOf
    <3>2. /\ Stage(st.w, type.w, logs) /\ Stage(st.tax, type.tax, logs)
          /\ Stage(st.nat, type.nat, logs) /\ Stage(st.b, type.b, logs)
      BY DEF Stages
    <3>3. /\ \A x \in Range(logs) : st.w[x].rows \in Seq(E)
          /\ \A x \in Range(logs) : st.tax[x].rows \in Seq(E)
          /\ \A x \in Range(logs) : st.nat[x].rows \in Seq(E)
          /\ \A x \in Range(logs) : st.b[x].rows \in Seq(E)
      OBVIOUS
    <3> HIDE DEF acts, done
    <3>4. Only(a.wasm \o w.rows, type.w, RowsIn(st.w, logs), logs, i)
      BY <2>2, <3>1, <3>2, <3>3, RowsStep
    <3>5. Only(a.tax \o tax.rows, type.tax, RowsIn(st.tax, logs), logs, i)
      BY <2>2, <3>1, <3>2, <3>3, RowsStep
    <3>6. Only(a.native \o nat.rows, type.nat, RowsIn(st.nat, logs), logs, i)
      BY <2>2, <3>1, <3>2, <3>3, RowsStep
    <3>7. Only(a.burn \o b.rows, type.b, RowsIn(st.b, logs), logs, i)
      BY <2>2, <3>1, <3>2, <3>3, RowsStep
    <3> HIDE DEF w, tax, nat, b
    <3> QED  BY <2>9, <2>15, <3>1, <3>4, <3>5, <3>6, <3>7
  <2> HIDE DEF acts
  <2> QED  BY <2>11, <2>12, <2>13, <2>14 DEF FirstOf, acts
<1> QED  BY <1>7, <1>8

(* What is gathered from all logs.                                         *)
LEMMA GatherIs ==
    ASSUME NEW L, NEW logs \in Seq(L), OnePerType(logs), NEW st, NEW type, Stages(st, type, logs)
    PROVE  /\ FirstOf(AllOf(logs, st), st, type, logs, Len(logs))
           /\ \E E : AllOf(logs, st) \in Gatherings(L, E)
<1>1. PICK E : \A log \in Range(logs) :
                  /\ st.act[log].rows \in Seq(E) /\ st.ip[log].rows \in Seq(E) /\ st.w[log].rows \in Seq(E)
                  /\ st.tax[log].rows \in Seq(E) /\ st.nat[log].rows \in Seq(E) /\ st.b[log].rows \in Seq(E)
  BY StagesRows
<1> DEFINE n == Len(logs)
           base == NothingGathered
           Next(a, i) == TakeLog(a, logs, logs[i], st.act[logs[i]], st.ip[logs[i]], st.w[logs[i]],
                                 st.tax[logs[i]], st.nat[logs[i]], st.b[logs[i]])
           X == Gatherings(L, E)
           A == [i \in 0..n |-> {a \in X : FirstOf(a, st, type, logs, i)}]
           F == [i \in 1..n |-> [a \in X |-> Next(a, i)]]
           taken[i \in 0..n] == IF i = 0 THEN base ELSE Next(taken[i - 1], i)
<1>2. n \in Nat /\ 0 \in 0..n /\ n \in 0..n /\ \A i \in 1..n : i - 1 \in 0..n /\ i \in 0..n /\ i # 0
  OBVIOUS
<1>3. base \in A[0]
  <2>1. base \in X
    <3>1. <<>> \in Seq(L) /\ <<>> \in Seq(E)
      OBVIOUS
    <3> QED  BY <3>1 DEF NothingGathered, Gatherings, Errors
  <2>2. FirstOf(base, st, type, logs, 0)
    BY DEF NothingGathered, FirstOf, Only
  <2> HIDE DEF base, X
  <2> QED  BY <1>2, <2>1, <2>2
<1>4. ASSUME NEW i \in 1..n, NEW a \in A[i - 1]
      PROVE  Next(a, i) \in A[i] /\ a \in X
  <2>1. a \in X /\ FirstOf(a, st, type, logs, i - 1)
    BY <1>2
  <2>2. Next(a, i) \in X /\ FirstOf(Next(a, i), st, type, logs, i)
    BY <1>1, <2>1, GatherStep
  <2> HIDE DEF Next, X
  <2> QED  BY <1>2, <2>1, <2>2
<1> HIDE DEF Next, X, base, n
<1>5. PICK g : Goes(g, n, base, F) /\ \A i \in 0..n : g[i] \in A[i]
  <2>1. base \in A[0] /\ \A i \in 1..n : \A a \in A[i - 1] : F[i][a] \in A[i]
    BY <1>2, <1>3, <1>4
  <2> HIDE DEF A, F, taken
  <2> QED  BY <1>2, <2>1, StepByStep
<1>6. g = [i \in 0..n |-> IF i = 0 THEN base ELSE Next(g[i - 1], i)]
  <2>1. \A i \in 1..n : F[i][g[i - 1]] = Next(g[i - 1], i)
    BY <1>2, <1>4, <1>5
  <2>2. \A i \in 0..n : i = 0 \/ i \in 1..n
    BY <1>2
  <2> HIDE DEF F, A
  <2> QED  BY <1>5, <2>1, <2>2 DEF Goes
<1>7. taken = [i \in 0..n |-> IF i = 0 THEN base ELSE Next(taken[i - 1], i)]
  BY <1>6
<1>8. taken[n] \in A[n]
  <2> HIDE DEF taken
  <2>1. taken[0] \in A[0] /\ \A i \in 1..n : taken[i - 1] \in A[i - 1] => taken[i] \in A[i]
    BY <1>2, <1>3, <1>4, <1>7
  <2> HIDE DEF A
  <2>2. \A i \in 0..n : taken[i] \in A[i]
    BY <1>2, <2>1, InEverySet
  <2> QED  BY <1>2, <2>2
<1>9. AllOf(logs, st) = taken[n]
  BY DEF AllOf, GatherFrom, n, base, Next
<1> HIDE DEF taken
<1>10. taken[n] \in X /\ FirstOf(taken[n], st, type, logs, n)
  BY <1>2, <1>8
<1> QED  BY <1>9, <1>10 DEF X, n

(* The order of the logs changes neither whether the stages succeed nor    *)
(* what they gather.                                                       *)
SameRows(g, h) ==
    /\ g.err = h.err /\ g.partial = h.partial /\ g.act = h.act /\ g.wasm = h.wasm
    /\ g.tax = h.tax /\ g.native = h.native /\ g.burn = h.burn

(* One log per type: whatever their order, the stages fail or do not, and  *)
(* if they do not they gather the same rows (the loop over the logs in     *)
(* every ParseTxs).                                                        *)
LEMMA GatherInAnyOrder ==
    ASSUME NEW L, NEW one \in Seq(L), NEW two \in Seq(L), SameLogs(one, two),
           NEW st, NEW type, Stages(st, type, one)
    PROVE  /\ AllOf(one, st).err \in Errors /\ AllOf(two, st).err \in Errors
           /\ AllOf(one, st).err = "none" <=> AllOf(two, st).err = "none"
           /\ AllOf(one, st).err = "none" =>
                 /\ AllOf(one, st).read = one /\ AllOf(two, st).read = two
                 /\ SameRows(AllOf(one, st), AllOf(two, st))
<1> DEFINE g == AllOf(one, st)
           h == AllOf(two, st)
           m == Len(one)
           n == Len(two)
<1>1. Range(one) = Range(two) /\ OnePerType(one) /\ OnePerType(two)
  BY DEF SameLogs
<1>2. {one[i] : i \in 1..m} = {two[i] : i \in 1..n}
  <2>1. DOMAIN one = 1..m /\ DOMAIN two = 1..n
    OBVIOUS
  <2>2. {one[i] : i \in DOMAIN one} = {two[i] : i \in DOMAIN two}
    BY <1>1, Zenon DEF Range
  <2> QED  BY <2>1, <2>2
<1>3. Stages(st, type, two)
  BY <1>1 DEF Stages, Stage
<1>4. FirstOf(g, st, type, one, m) /\ \E E : g \in Gatherings(L, E)
  BY <1>1, GatherIs
<1>5. FirstOf(h, st, type, two, n) /\ \E E : h \in Gatherings(L, E)
  BY <1>1, <1>3, GatherIs
<1>6. /\ ActionsIn(st, one) = ActionsIn(st, two)
      /\ \A made : RowsIn(made, one) = RowsIn(made, two)
  BY <1>1 DEF ActionsIn, RowsIn
<1>7. RawTxContainsCreatePair(one) = RawTxContainsCreatePair(two)
  <2> DEFINE Creates(log) == \E j \in DOMAIN log.attrs : log.attrs[j].key = "action" /\ log.attrs[j].val = "create_pair"
  <2>1. DOMAIN one = 1..m /\ DOMAIN two = 1..n
    OBVIOUS
  <2>2. /\ RawTxContainsCreatePair(one) <=> \E i \in 1..m : Creates(one[i])
        /\ RawTxContainsCreatePair(two) <=> \E i \in 1..n : Creates(two[i])
    BY <2>1 DEF RawTxContainsCreatePair
  <2> HIDE DEF Creates
  <2>3. (\E i \in 1..m : Creates(one[i])) <=> (\E i \in 1..n : Creates(two[i]))
    BY <1>2
  <2> QED  BY <2>2, <2>3 DEF RawTxContainsCreatePair
<1>8. \A err : Record(err, one) = Record(err, two)
  BY <1>7 DEF Record
<1>9. \A log : Fine(st, one, log) <=> Fine(st, two, log)
  BY <1>8 DEF Fine
<1>10. g.err = "none" <=> h.err = "none"
  <2>1. g.err = "none" <=> \A j \in 1..m : Fine(st, one, one[j])
    BY <1>4 DEF FirstOf
  <2>2. h.err = "none" <=> \A j \in 1..n : Fine(st, two, two[j])
    BY <1>5 DEF FirstOf
  <2> HIDE DEF g, h, m, n
  <2> QED  BY <1>2, <1>9, <2>1, <2>2
<1>11. ASSUME g.err = "none"
       PROVE  g.read = one /\ h.read = two /\ SameRows(g, h)
  <2>1. h.err = "none"
    BY <1>10, <1>11
  <2> HIDE DEF g, h
  <2>2. Len(g.read) = m /\ \A j \in 1..m : g.read[j] = one[j]
    BY <1>4, <1>11 DEF FirstOf
  <2>3. Len(h.read) = n /\ \A j \in 1..n : h.read[j] = two[j]
    BY <1>5, <2>1 DEF FirstOf
  <2>4. PICK E : g \in Gatherings(L, E)
    BY <1>4
  <2>5. PICK G : h \in Gatherings(L, G)
    BY <1>5
  <2>6. g.read \in Seq(L) /\ h.read \in Seq(L)
    BY <2>4, <2>5 DEF Gatherings
  <2>7. g.read = one /\ h.read = two
    <3>1. \A s, t \in Seq(L) : Len(s) = Len(t) /\ (\A i \in 1..Len(s) : s[i] = t[i]) => s = t
      OBVIOUS
    <3> QED  BY <2>2, <2>3, <2>6, <3>1, Zenon
  <2>8. g.partial = h.partial
    <3>1. g.partial <=> \E j \in 1..m : Record(st.w[one[j]].err, one)
      BY <1>4, <1>11 DEF FirstOf
    <3>2. h.partial <=> \E j \in 1..n : Record(st.w[two[j]].err, two)
      BY <1>5, <2>1 DEF FirstOf
    <3>3. g.partial \in BOOLEAN /\ h.partial \in BOOLEAN
      BY <2>4, <2>5 DEF Gatherings
    <3> HIDE DEF m, n
    <3>4. (\E j \in 1..m : Record(st.w[one[j]].err, one)) <=> (\E j \in 1..n : Record(st.w[two[j]].err, two))
      <4> DEFINE Bad(log) == Record(st.w[log].err, one)
      <4>1. \A log : Record(st.w[log].err, two) <=> Bad(log)
        BY <1>8
      <4> HIDE DEF Bad
      <4>2. (\E j \in 1..m : Bad(one[j])) <=> (\E j \in 1..n : Bad(two[j]))
        BY <1>2
      <4>3. (\E j \in 1..n : Record(st.w[two[j]].err, two)) <=> (\E j \in 1..n : Bad(two[j]))
        BY <4>1, Zenon
      <4> QED  BY <4>2, <4>3 DEF Bad
    <3>5. g.partial <=> h.partial
      BY <3>1, <3>2, <3>4, Zenon
    <3> QED  BY <3>3, <3>5
  <2>9. g.act = h.act
    <3>1. Only(g.act, type.act, ActionsIn(st, one), one, m)
      BY <1>4, <1>11 DEF FirstOf
    <3>2. Only(h.act, type.act, ActionsIn(st, one), two, n)
      BY <1>5, <1>6, <2>1 DEF FirstOf
    <3> QED  BY <3>1, <3>2, OnlyInAnyOrder
  <2>10. g.wasm = h.wasm
    <3>1. Only(g.wasm, type.w, RowsIn(st.w, one), one, m)
      BY <1>4, <1>11 DEF FirstOf
    <3>2. Only(h.wasm, type.w, RowsIn(st.w, one), two, n)
      BY <1>5, <1>6, <2>1 DEF FirstOf
    <3> QED  BY <3>1, <3>2, OnlyInAnyOrder
  <2>11. g.tax = h.tax
    <3>1. Only(g.tax, type.tax, RowsIn(st.tax, one), one, m)
      BY <1>4, <1>11 DEF FirstOf
    <3>2. Only(h.tax, type.tax, RowsIn(st.tax, one), two, n)
      BY <1>5, <1>6, <2>1 DEF FirstOf
    <3> QED  BY <3>1, <3>2, OnlyInAnyOrder
  <2>12. g.native = h.native
    <3>1. Only(g.native, type.nat, RowsIn(st.nat, one), one, m)
      BY <1>4, <1>11 DEF FirstOf
    <3>2. Only(h.native, type.nat, RowsIn(st.nat, one), two, n)
      BY <1>5, <1>6, <2>1 DEF FirstOf
    <3> QED  BY <3>1, <3>2, OnlyInAnyOrder
  <2>13. g.burn = h.burn
    <3>1. Only(g.burn, type.b, RowsIn(st.b, one), one, m)
      BY <1>4, <1>11 DEF FirstOf
    <3>2. Only(h.burn, type.b, RowsIn(st.b, one), two, n)
      BY <1>5, <1>6, <2>1 DEF FirstOf
    <3> QED  BY <3>1, <3>2, OnlyInAnyOrder
  <2> QED  BY <1>11, <2>1, <2>7, <2>8, <2>9, <2>10, <2>11, <2>12, <2>13 DEF SameRows
<1>12. g.err \in Errors /\ h.err \in Errors
  BY <1>4, <1>5 DEF Gatherings
<1> QED  BY <1>10, <1>11, <1>12
=============================================================================
