--------------------------- MODULE AggregatorTasks ---------------------------
(***************************************************************************)
(* The aggregator: the tasks of aggregator/task.go, one goroutine each,    *)
(* the schedulers and the error channel of aggregator/scheduler.go and     *)
(* aggregator/aggregator.go, and the tables of aggregator/repo and         *)
(* pkg/dex/price they write.                                               *)
(*                                                                         *)
(* A task works up to a height, its lastProcessedHeight, and a child task  *)
(* polls its parent's until it has reached the height it needs: prices     *)
(* wait for the liquidity history, statistics wait for prices.  The        *)
(* positions are memory, the tables are not.  Time and heights share one   *)
(* axis: block h has timestamp h.  What a block holds is abstracted to the *)
(* kind of its rows and the number of price rows they yield.               *)
(***************************************************************************)
EXTENDS Integers, FiniteSets

CONSTANTS
    WindowTask,   \* tasks of a predetermined time: "pairStats", "accountStats"
    MaxHeight,    \* bound: the last block, and the last moment
    Activity,     \* Activity[h]: "none", "transfer", "provide" or "swap", the kind
                  \* of row in block h that matters most; a first provision counts
                  \* as a swap, as the queries of the price task have it, and a
                  \* withdrawal as a provision
    PriceFrom,    \* the first block with a row of the price token
    PriceRows,    \* PriceRows[h]: price rows written for block h, 0 if no swap of
                  \* it has amounts and a route
    Window,       \* length of a statistics window (30 minutes)
    Range,        \* how long recent statistics are kept (48 hours)
    StartTs,      \* startts, 0 for none
    CleanDups,    \* cleandups
    MaxFaults     \* bound: failures, timeouts, crashes and signals

Heights == 1..MaxHeight
Windows == 1..(MaxHeight \div Window)
Task    == {"lp", "price", "recent"} \cup WindowTask

ASSUME AggregatorAssumption ==
    /\ WindowTask \subseteq {"pairStats", "accountStats"}
    /\ MaxHeight \in Nat
    /\ Activity \in [Heights -> {"none", "transfer", "provide", "swap"}]
    /\ PriceRows \in [Heights -> Nat]
    /\ PriceFrom \in Heights /\ Activity[PriceFrom] # "none"
    /\ \A h \in Heights : PriceRows[h] > 0 => Activity[h] = "swap" /\ PriceFrom <= h
    /\ Window \in Nat \ {0}
    /\ Range \in Nat
    /\ StartTs \in Nat
    /\ CleanDups \in BOOLEAN
    /\ MaxFaults \in Nat

VARIABLES
    \* the chain and the parser
    now,        \* the clock
    parsed,     \* synced_height.height of the parser
    \* the tables
    lp,         \* heights with rows in lp_history
    prices,     \* prices[h]: rows of height h in price
    recent,     \* recent[h]: how often rows of h are in pair_stats_recent
    stats,      \* stats[t][k]: how often window k is in the table of task t
    \* the process
    mode,       \* "down", "clean" or "up"
    deletes,    \* deletes of DeleteDuplicates done so far
    cancelled,  \* the context is cancelled
    errChan,    \* errChan holds an error
    caught,     \* the goroutine behind errChan has received one
    \* the tasks
    pc,         \* pc[t]: where t is
    pos,        \* pos[t]: lastProcessedHeight
    goal,       \* goal[t]: the height t waits for or works on
    written,    \* price rows written for goal["price"]
    from,       \* startHeight of the recent statistics
    end,        \* the moment the recent statistics are made for
    win,        \* win[t]: the window t does next
    catching,   \* catching[t]: t is in the catch-up loop of its scheduler
    \* history
    cut,        \* recent statistics before this moment are deleted
    torn,       \* heights whose prices were broken off
    faults      \* failures so far

envVars   == <<now, parsed>>
dbVars    == <<lp, prices, recent, stats>>
procVars  == <<mode, deletes, cancelled, caught>>
priceVars == <<written>>
recentVars == <<from, end>>
winVars   == <<win, catching>>
history   == <<cut, torn>>
vars == <<envVars, dbVars, procVars, errChan, pc, pos, goal, priceVars, recentVars, winVars,
          history, faults>>

-----------------------------------------------------------------------------
(* What the queries see *)

Active  == {h \in Heights : h <= parsed /\ Activity[h] # "none"}
Swaps   == {h \in Active : Activity[h] = "swap"}
Counted == {h \in Active : Activity[h] # "transfer"}

(* e is the greatest member of S, or 0: coalesce(max(height), 0). *)
IsTop(e, S) ==
    /\ e \in S \cup {0}
    /\ \A h \in S : h <= e

(* HeightOnTimestamp counts rows of every kind. *)
IsHeightOn(e, ts) == IsTop(e, {h \in Active : h <= ts})
IsLastLp(e)       == IsTop(e, lp)
Priced            == {h \in Heights : prices[h] > 0}

(* Mutant: the position keeps the value it has. *)
IsOldPosition(e) == e = pos["price"]

IsCurrHeight(e)   == IsTop(e, Priced)
IsLastRecent(e)   == IsTop(e, {h \in Heights : recent[h] > 0})

(* NextHeight: a swap beyond the last price and beyond min; the first      *)
(* search begins at the first row of the price token.                      *)
Unpriced(min) ==
    LET least == IF min = 0 /\ PriceFrom <= parsed THEN PriceFrom - 1 ELSE min
    IN  {h \in Swaps : h > least /\ \A g \in Priced : g < h}
IsNextHeight(h, min) == h \in Unpriced(min) /\ \A g \in Unpriced(min) : h <= g

Latest(a, b) == IF a > b THEN a ELSE b

Fault == faults < MaxFaults /\ faults' = faults + 1

Init ==
    /\ now = 0 /\ parsed = 0
    /\ lp = {} /\ prices = [h \in Heights |-> 0] /\ recent = [h \in Heights |-> 0]
    /\ stats = [t \in WindowTask |-> [k \in Windows |-> 0]]
    /\ mode = "down" /\ deletes = 0 /\ cancelled = FALSE /\ errChan = FALSE /\ caught = FALSE
    /\ pc = [t \in Task |-> "off"] /\ pos = [t \in Task |-> 0] /\ goal = [t \in Task |-> 0]
    /\ written = 0 /\ from = 0 /\ end = 0
    /\ win = [t \in WindowTask |-> 0] /\ catching = [t \in WindowTask |-> FALSE]
    /\ cut = 0 /\ torn = {} /\ faults = 0

-----------------------------------------------------------------------------
(* Surroundings *)

Tick ==
    /\ now < MaxHeight
    /\ now' = now + 1
    /\ UNCHANGED <<parsed, dbVars, procVars, errChan, pc, pos, goal, priceVars, recentVars,
                   winVars, history, faults>>

(* The parser commits a block as a whole; it may be behind the clock. *)
ParserCommits ==
    /\ parsed < now
    /\ parsed' = parsed + 1
    /\ UNCHANGED <<now, dbVars, procVars, errChan, pc, pos, goal, priceVars, recentVars,
                   winVars, history, faults>>

-----------------------------------------------------------------------------
(* The process *)

(* Memory is empty: Launch and everything that ends the process. *)
Forget ==
    /\ deletes' = 0 /\ cancelled' = FALSE /\ errChan' = FALSE /\ caught' = FALSE
    /\ pos' = [t \in Task |-> 0] /\ goal' = [t \in Task |-> 0]
    /\ written' = 0 /\ from' = 0 /\ end' = 0
    /\ win' = [t \in WindowTask |-> 0] /\ catching' = [t \in WindowTask |-> FALSE]

BeginTasks == pc' = [t \in Task |-> IF t \in WindowTask THEN "init" ELSE "idle"]

Launch ==
    /\ mode = "down"
    /\ Forget
    /\ IF CleanDups THEN mode' = "clean" /\ UNCHANGED pc ELSE mode' = "up" /\ BeginTasks
    /\ UNCHANGED <<envVars, dbVars, history, faults>>

(* The window a moment is in; the tasks begin with that of StartTs.        *)
FirstWindow(ts) == (ts \div Window) + 1

(* What DeleteDuplicates removes: the rows from StartTs on, the prices from *)
(* the first block with a row from then on, the windows that end after the *)
(* start of the first.                                                     *)
SinceStart  == {h \in Heights : h >= StartTs}

(* Mutant: prices are kept. *)
NoPrices == {}

PricesSince == {h \in Heights : \E g \in Active : StartTs <= g /\ g <= h}

(* Mutant: the first window is kept. *)
WindowsAfterFirst == {k \in Windows : k > FirstWindow(StartTs)}

WindowsSince == {k \in Windows : k >= FirstWindow(StartTs)}

DeletedBy(t) == IF t = "pairStats" THEN 3 ELSE 4

Erase(f, S) == [x \in DOMAIN f |-> IF x \in S THEN 0 ELSE f[x]]

(* DeleteDuplicates: one delete after the other, each a transaction.  One  *)
(* that fails ends the run, as a crash does.                               *)
Delete ==
    /\ mode = "clean"
    /\ deletes < 5
    /\ deletes' = deletes + 1
    /\ lp' = (IF deletes = 0 THEN lp \ SinceStart ELSE lp)
    /\ prices' = (IF deletes = 1 THEN Erase(prices, PricesSince) ELSE prices)
    /\ torn' = (IF deletes = 1 THEN torn \ PricesSince ELSE torn)
    /\ recent' = (IF deletes = 2 THEN Erase(recent, SinceStart) ELSE recent)
    /\ stats' = [t \in WindowTask |-> IF deletes = DeletedBy(t)
                                      THEN Erase(stats[t], WindowsSince) ELSE stats[t]]
    /\ UNCHANGED <<envVars, mode, cancelled, errChan, caught, pc, pos, goal, priceVars, recentVars,
                   winVars, cut, faults>>

Cleaned ==
    /\ mode = "clean"
    /\ deletes = 5
    /\ mode' = "up"
    /\ BeginTasks
    /\ UNCHANGED <<envVars, dbVars, deletes, cancelled, errChan, caught, pos, goal, priceVars,
                   recentVars, winVars, history, faults>>

(* The prices of a height are being written and not all of them are there. *)
Breaking(p) ==
    IF pc["price"] = "run" /\ 0 < p[goal["price"]] /\ p[goal["price"]] < PriceRows[goal["price"]]
    THEN {goal["price"]} ELSE {}

(* The process dies, in a delete as well. *)
Crash ==
    /\ mode # "down"
    /\ Fault
    /\ mode' = "down"
    /\ Forget
    /\ pc' = [t \in Task |-> "off"]
    /\ torn' = torn \cup Breaking(prices)
    /\ UNCHANGED <<envVars, dbVars, cut>>

(* SIGINT or SIGTERM *)
Signal ==
    /\ mode = "up"
    /\ ~cancelled
    /\ Fault
    /\ cancelled' = TRUE
    /\ UNCHANGED <<envVars, dbVars, mode, deletes, caught, errChan, pc, pos, goal, priceVars,
                   recentVars, winVars, history>>

(* The first error of a task cancels the context. *)
Catch ==
    /\ mode = "up"
    /\ errChan
    /\ ~caught
    /\ errChan' = FALSE
    /\ caught' = TRUE
    /\ cancelled' = TRUE
    /\ UNCHANGED <<envVars, dbVars, mode, deletes, pc, pos, goal, priceVars, recentVars, winVars,
                   history, faults>>

(* Execute returns: its local variables are gone. *)
Return(t, place) ==
    /\ pc' = [pc EXCEPT ![t] = place]
    /\ goal' = [goal EXCEPT ![t] = 0]
    /\ written' = IF t = "price" THEN 0 ELSE written
    /\ from' = IF t = "recent" THEN 0 ELSE from
    /\ end' = IF t = "recent" THEN 0 ELSE end

(* Schedule returns the error and reportError drops it if the channel is   *)
(* full.                                                                   *)
ReturnsError(t) ==
    /\ Return(t, "stopped")
    /\ errChan' = TRUE

(* Mutant: break without its label leaves the select and not the loop. *)
StopNot(t) ==
    /\ cancelled
    /\ pc[t] = "idle"
    /\ UNCHANGED vars

(* A scheduler sees the cancelled context, but not while it catches up.    *)
Stop(t) ==
    /\ cancelled
    /\ pc[t] = "idle"
    /\ pc' = [pc EXCEPT ![t] = "stopped"]
    /\ UNCHANGED <<envVars, dbVars, procVars, errChan, pos, goal, priceVars, recentVars, winVars,
                   history, faults>>

(* runTasks returns when every scheduler has. *)
Exit ==
    /\ mode = "up"
    /\ \A t \in Task : pc[t] = "stopped"
    /\ mode' = "down"
    /\ Forget
    /\ pc' = [t \in Task |-> "off"]
    /\ UNCHANGED <<envVars, dbVars, history, faults>>

-----------------------------------------------------------------------------
(* waitUntilReachingHeight *)

Parent == [t \in {"price", "recent"} \cup WindowTask |-> IF t = "price" THEN "lp" ELSE "price"]

Goto(t, place) == pc' = [pc EXCEPT ![t] = place]

(* Mutant: a parent that has begun is enough. *)
ReachedEarly(t) ==
    /\ t \in DOMAIN Parent
    /\ pc[t] = "wait"
    /\ pos[Parent[t]] > 0 \/ goal[t] = 0
    /\ Goto(t, IF t = "price" THEN "run" ELSE "write")
    /\ UNCHANGED <<envVars, dbVars, procVars, errChan, pos, goal, priceVars, recentVars, winVars,
                   history, faults>>

Reached(t) ==
    /\ t \in DOMAIN Parent
    /\ pc[t] = "wait"
    /\ pos[Parent[t]] >= goal[t]
    /\ Goto(t, IF t = "price" THEN "run" ELSE "write")
    /\ UNCHANGED <<envVars, dbVars, procVars, errChan, pos, goal, priceVars, recentVars, winVars,
                   history, faults>>

(* The context is cancelled, or the wait takes too long. *)
GivesUp(t) ==
    /\ pc[t] = "wait"
    /\ pos[Parent[t]] < goal[t]
    /\ IF cancelled THEN UNCHANGED faults ELSE Fault
    /\ ReturnsError(t)
    /\ UNCHANGED <<envVars, dbVars, procVars, pos, winVars, history>>

-----------------------------------------------------------------------------
(* lpHistoryTask *)

LpBegin ==
    /\ pc["lp"] = "idle"
    /\ \E e \in 0..MaxHeight :
          /\ IsLastLp(e)
          /\ pos' = [pos EXCEPT !["lp"] = Latest(@, e)]
    /\ Goto("lp", "read")
    /\ UNCHANGED <<envVars, dbVars, procVars, errChan, goal, priceVars, recentVars, winVars,
                   history, faults>>

(* A batch ends with the block that holds the last row of the limit. *)
LpRead ==
    /\ pc["lp"] = "read"
    /\ \E e \in Heights :
          /\ e \in Active /\ e > pos["lp"]
          /\ goal' = [goal EXCEPT !["lp"] = e]
    /\ Goto("lp", "write")
    /\ UNCHANGED <<envVars, dbVars, procVars, errChan, pos, priceVars, recentVars, winVars,
                   history, faults>>

LpDone ==
    /\ pc["lp"] = "read"
    /\ \A e \in Active : e <= pos["lp"]
    /\ Return("lp", "idle")
    /\ UNCHANGED <<envVars, dbVars, procVars, errChan, pos, winVars, history, faults>>

UpdateLpHistory ==
    /\ lp' = lp \cup {h \in Active : pos["lp"] < h /\ h <= goal["lp"]}
    /\ UNCHANGED <<prices, recent, stats>>

LpWrite ==
    /\ pc["lp"] = "write"
    /\ UpdateLpHistory
    /\ pos' = [pos EXCEPT !["lp"] = goal["lp"]]
    /\ Return("lp", "read")
    /\ UNCHANGED <<envVars, procVars, errChan, winVars, history, faults>>

-----------------------------------------------------------------------------
(* priceTask *)

PriceBegin ==
    /\ pc["price"] = "idle"
    /\ Goto("price", "next")
    /\ UNCHANGED <<envVars, dbVars, procVars, errChan, pos, goal, priceVars, recentVars, winVars,
                   history, faults>>

PriceNext ==
    /\ pc["price"] = "next"
    /\ \E h \in Heights :
          /\ IsNextHeight(h, goal["price"])
          /\ goal' = [goal EXCEPT !["price"] = h]
    /\ Goto("price", "wait")
    /\ UNCHANGED <<envVars, dbVars, procVars, errChan, pos, priceVars, recentVars, winVars, history, faults>>

(* Mutant: the position becomes NaValue, which is a great number without a sign. *)
PriceDoneNaValue ==
    /\ pc["price"] = "next"
    /\ Unpriced(goal["price"]) = {}
    /\ pos' = [pos EXCEPT !["price"] = MaxHeight + 1]
    /\ Return("price", "idle")
    /\ UNCHANGED <<envVars, dbVars, procVars, errChan, winVars, history, faults>>

(* No more heights: the position is that of the last price in the table,   *)
(* which may be below the heights that had none.                           *)
PriceDone ==
    /\ pc["price"] = "next"
    /\ Unpriced(goal["price"]) = {}
    /\ \E e \in 0..MaxHeight :
          /\ IsCurrHeight(e)
          /\ pos' = [pos EXCEPT !["price"] = e]
    /\ Return("price", "idle")
    /\ UNCHANGED <<envVars, dbVars, procVars, errChan, winVars, history, faults>>

(* Run writes the rows of a height one by one. *)
InsertPrice ==
    /\ prices' = [prices EXCEPT ![goal["price"]] = @ + 1]
    /\ UNCHANGED <<lp, recent, stats>>

PriceWrite ==
    /\ pc["price"] = "run"
    /\ written < PriceRows[goal["price"]]
    /\ InsertPrice
    /\ written' = written + 1
    /\ UNCHANGED <<envVars, procVars, errChan, pc, pos, goal, recentVars, winVars, history,
                   faults>>

(* Mutant: the position moves before the rows are written. *)
PriceRanEarly ==
    /\ pc["price"] = "run"
    /\ pos' = [pos EXCEPT !["price"] = goal["price"]]
    /\ Goto("price", IF written = PriceRows[goal["price"]] THEN "next" ELSE "run")
    /\ pos' # pos \/ pc' # pc
    /\ UNCHANGED <<envVars, dbVars, procVars, errChan, goal, priceVars, recentVars, winVars,
                   history, faults>>

PriceRan ==
    /\ pc["price"] = "run"
    /\ written = PriceRows[goal["price"]]
    /\ pos' = [pos EXCEPT !["price"] = goal["price"]]
    /\ written' = 0
    /\ Goto("price", "next")
    /\ UNCHANGED <<envVars, dbVars, procVars, errChan, goal, recentVars, winVars, history, faults>>

-----------------------------------------------------------------------------
(* pairStatsRecentUpdateTask *)

(* Mutant: the range begins with the last height again. *)
FromLast(start, last) == IF start <= last THEN last ELSE start

FromAfter(start, last) == IF start <= last THEN last + 1 ELSE start

(* The first height of this Execute: the block at the start of the range,  *)
(* or the one after the last processed.                                    *)
RecentBegin ==
    /\ pc["recent"] = "idle"
    /\ \E last, start, target \in 0..MaxHeight :
          /\ IF pos["recent"] = 0 THEN IsLastRecent(last) ELSE last = pos["recent"]
          /\ IsHeightOn(start, now - Range)
          /\ IsHeightOn(target, now)
          /\ pos' = [pos EXCEPT !["recent"] = last]
          /\ from' = FromAfter(start, last)
          /\ goal' = [goal EXCEPT !["recent"] = target]
          /\ Goto("recent", IF target > last THEN "wait" ELSE "write")
    /\ end' = now
    /\ UNCHANGED <<envVars, dbVars, procVars, errChan, priceVars, winVars, history, faults>>

(* Rows are joined with the liquidity of their height; in the same         *)
(* transaction everything before the range is deleted.                     *)
RecentRows ==
    {h \in Counted \cap lp : pos["recent"] < goal["recent"] /\ from <= h /\ h <= goal["recent"]}

UpdatePairStatsRecent ==
    /\ recent' = [h \in Heights |-> IF h < end - Range THEN 0
                                    ELSE IF h \in RecentRows THEN recent[h] + 1 ELSE recent[h]]
    /\ cut' = Latest(cut, end - Range)
    /\ UNCHANGED <<lp, prices, stats>>

RecentWrite ==
    /\ pc["recent"] = "write"
    /\ UpdatePairStatsRecent
    /\ pos' = [pos EXCEPT !["recent"] = goal["recent"]]
    /\ Return("recent", "idle")
    /\ UNCHANGED <<envVars, procVars, errChan, winVars, torn, faults>>

-----------------------------------------------------------------------------
(* pairStatsUpdateTask and accountStatsUpdateTask *)

(* Mutant: the last window again. *)
IsStartAgain(t, k) ==
    IF StartTs > 0 THEN k = FirstWindow(StartTs)
    ELSE \/ k \in Windows /\ stats[t][k] > 0 /\ \A l \in Windows : stats[t][l] > 0 => l <= k
         \/ k = 1 /\ \A l \in Windows : stats[t][l] = 0

(* StartTimestamp: the configured start, else the end of the last window   *)
(* in the table, else the oldest row.                                      *)
IsStart(t, k) ==
    IF StartTs > 0 THEN k = FirstWindow(StartTs)
    ELSE \/ \E last \in Windows : /\ stats[t][last] > 0
                                  /\ \A l \in Windows : stats[t][l] > 0 => l <= last
                                  /\ k = last + 1
         \/ /\ \A l \in Windows : stats[t][l] = 0
            /\ IF Active = {} THEN k = 1
               ELSE \E h \in Active : (\A g \in Active : h <= g) /\ k = FirstWindow(h)

WindowInit(t) ==
    /\ pc[t] = "init"
    /\ \E k \in 1..(MaxHeight + StartTs + 1) : IsStart(t, k) /\ win' = [win EXCEPT ![t] = k]
    /\ catching' = [catching EXCEPT ![t] = TRUE]
    /\ Goto(t, "due")
    /\ UNCHANGED <<envVars, dbVars, procVars, errChan, pos, goal, priceVars, recentVars, history,
                   faults>>

(* The catch-up loop ends at the first window that is not over. *)
WindowCaughtUp(t) ==
    /\ pc[t] = "due"
    /\ win[t] * Window >= now
    /\ catching' = [catching EXCEPT ![t] = FALSE]
    /\ Goto(t, "idle")
    /\ UNCHANGED <<envVars, dbVars, procVars, errChan, pos, goal, priceVars, recentVars, win,
                   history, faults>>

WindowBegin(t) ==
    /\ \/ pc[t] = "due" /\ win[t] * Window < now
       \/ pc[t] = "idle" /\ win[t] * Window <= now
    /\ \E e \in 0..MaxHeight :
          /\ IsHeightOn(e, win[t] * Window)
          /\ goal' = [goal EXCEPT ![t] = e]
    /\ Goto(t, "wait")
    /\ UNCHANGED <<envVars, dbVars, procVars, errChan, pos, priceVars, recentVars, winVars,
                   history, faults>>

(* Without rows in the window nothing is stored.  Pair statistics are      *)
(* inserted, account statistics replace those of the same window.          *)
Rows(k) == {h \in Counted : (k - 1) * Window <= h /\ h < k * Window}
UpdateStats(t) ==
    /\ stats' = (IF Rows(win[t]) = {} THEN stats
                 ELSE [stats EXCEPT ![t][win[t]] = IF t = "pairStats" THEN @ + 1 ELSE 1])
    /\ UNCHANGED <<lp, prices, recent>>

WindowWrite(t) ==
    /\ pc[t] = "write"
    /\ UpdateStats(t)
    /\ win' = [win EXCEPT ![t] = @ + 1]
    /\ Return(t, IF catching[t] THEN "due" ELSE "idle")
    /\ UNCHANGED <<envVars, procVars, errChan, pos, catching, history, faults>>

-----------------------------------------------------------------------------
(* A query or an insert fails; the insert may have been committed. *)

Fails(t) ==
    /\ pc[t] \notin {"off", "stopped", "wait"}
    /\ Fault
    /\ ReturnsError(t)
    /\ torn' = torn \cup (IF t = "price" THEN Breaking(prices) ELSE {})
    /\ UNCHANGED <<envVars, dbVars, procVars, pos, winVars, cut>>

LpUnacknowledged ==
    /\ pc["lp"] = "write"
    /\ Fault
    /\ UpdateLpHistory
    /\ ReturnsError("lp")
    /\ UNCHANGED <<envVars, procVars, pos, winVars, history>>

PriceUnacknowledged ==
    /\ pc["price"] = "run"
    /\ written < PriceRows[goal["price"]]
    /\ Fault
    /\ InsertPrice
    /\ torn' = torn \cup Breaking(prices')
    /\ ReturnsError("price")
    /\ UNCHANGED <<envVars, procVars, pos, winVars, cut>>

RecentUnacknowledged ==
    /\ pc["recent"] = "write"
    /\ Fault
    /\ UpdatePairStatsRecent
    /\ ReturnsError("recent")
    /\ UNCHANGED <<envVars, procVars, pos, winVars, torn>>

WindowUnacknowledged(t) ==
    /\ pc[t] = "write"
    /\ Fault
    /\ UpdateStats(t)
    /\ ReturnsError(t)
    /\ UNCHANGED <<envVars, procVars, pos, winVars, history>>

-----------------------------------------------------------------------------
LpStep     == LpBegin \/ LpRead \/ LpDone \/ LpWrite
PriceStep  == PriceBegin \/ PriceNext \/ PriceDone \/ PriceWrite \/ PriceRan \/ Reached("price")
RecentStep == RecentBegin \/ RecentWrite \/ Reached("recent")
WindowStep(t) == WindowInit(t) \/ WindowCaughtUp(t) \/ WindowBegin(t) \/ WindowWrite(t) \/ Reached(t)

Process  == Launch \/ Delete \/ Cleaned \/ Catch \/ Exit
Failures ==
    \/ Crash \/ Signal \/ LpUnacknowledged \/ PriceUnacknowledged \/ RecentUnacknowledged
    \/ \E t \in WindowTask : WindowUnacknowledged(t)
    \/ \E t \in Task : Fails(t)

Next ==
    \/ Tick \/ ParserCommits \/ Process \/ Failures
    \/ LpStep \/ PriceStep \/ RecentStep
    \/ \E t \in WindowTask : WindowStep(t)
    \/ \E t \in Task : Stop(t)
    \/ \E t \in DOMAIN Parent : GivesUp(t)

Spec == Init /\ [][Next]_vars

(* Every goroutine is scheduled and every parser commits; a scheduler whose *)
(* next timer is in the future sees a cancelled context.                   *)
Fairness ==
    /\ WF_vars(Tick) /\ WF_vars(ParserCommits) /\ WF_vars(Process)
    /\ WF_vars(LpStep) /\ WF_vars(PriceStep) /\ WF_vars(RecentStep)
    /\ \A t \in WindowTask : WF_vars(WindowStep(t))
    /\ \A t \in Task : SF_vars(Stop(t))
    /\ \A t \in DOMAIN Parent : WF_vars(cancelled /\ GivesUp(t))

FairSpec == Spec /\ Fairness

-----------------------------------------------------------------------------
(* Properties *)

(* Every variable keeps to its values: positions and goals are heights, a  *)
(* position is never the -1 by which the price task knows that no height   *)
(* is left, and the place of a task is one its code has.                   *)
WorldOK ==
    /\ now \in 0..MaxHeight /\ parsed \in 0..MaxHeight /\ parsed <= now
    /\ mode \in {"down", "clean", "up"} /\ deletes \in 0..5 /\ faults \in 0..MaxFaults
FlagsOK == cancelled \in BOOLEAN /\ errChan \in BOOLEAN /\ caught \in BOOLEAN
TablesOK ==
    /\ lp \subseteq Heights /\ torn \subseteq Heights /\ cut \in Int
    /\ prices \in [Heights -> Nat] /\ recent \in [Heights -> Nat]
    /\ stats \in [WindowTask -> [Windows -> Nat]]
Places(t) ==
    IF t = "lp" THEN {"off", "idle", "read", "write", "stopped"}
    ELSE IF t = "price" THEN {"off", "idle", "next", "wait", "run", "stopped"}
    ELSE IF t = "recent" THEN {"off", "idle", "wait", "write", "stopped"}
    ELSE {"off", "init", "due", "idle", "wait", "write", "stopped"}
PlacesOK ==
    /\ pc \in [Task -> UNION {Places(t) : t \in Task}]
    /\ \A t \in Task : pc[t] \in Places(t) /\ (pc[t] = "off" <=> mode # "up")
LocalsOK ==
    /\ pos \in [Task -> 0..MaxHeight] /\ goal \in [Task -> 0..MaxHeight]
    /\ pc["price"] \in {"wait", "run"} => goal["price"] \in Heights
    /\ written \in Nat /\ from \in Nat /\ end \in 0..MaxHeight
    /\ win \in [WindowTask -> Nat] /\ catching \in [WindowTask -> BOOLEAN]
TypeOK == WorldOK /\ FlagsOK /\ TablesOK /\ PlacesOK /\ LocalsOK

(* A height whose prices are there as far as they ever will be. *)
Settled(h) == prices[h] = PriceRows[h] \/ h \in torn

(* Prices are complete behind the position of the price task and below the *)
(* last price in the table, which is where a new process begins, and no    *)
(* swap is priced twice; only a height that a failure broke off stays      *)
(* incomplete, for good.                                                   *)
PricesAreComplete ==
    /\ \A h \in Heights : prices[h] <= PriceRows[h]
    /\ \A h \in Swaps :
          h <= pos["price"] \/ (\E g \in Priced : h < g) => Settled(h)

(* While the tasks run, the liquidity of every block up to a priced one is *)
(* known: indirect prices are calculated from it, and nothing but the wait *)
(* of the price task for the liquidity task makes it so, whatever has been *)
(* deleted, or was written before a crash.                                 *)
LiquidityBeforePrice ==
    mode = "up" => \A h \in Priced : \A g \in Active : g <= h => g \in lp

(* The recent statistics hold every row of their range exactly once, up to *)
(* the position of their task: no row is lost in the join with liquidity   *)
(* or between two ranges, and a commit whose answer was lost is not made   *)
(* a second time.                                                          *)
RecentExact ==
    /\ \A h \in Heights : recent[h] <= 1
    /\ mode = "up" => \A h \in Counted : cut <= h /\ h <= pos["recent"] => recent[h] = 1

(* A window of pair statistics is stored at most once, by any number of    *)
(* processes, when they go on from the table or delete what they do again. *)
(* A start without the delete stores it again: nothing in the table or the *)
(* insert prevents it.                                                     *)
WindowsOnce ==
    StartTs = 0 \/ CleanDups =>
        \A t \in WindowTask : \A k \in Windows : stats[t][k] <= 1

(* When statistics of a window are stored, every swap up to the height the *)
(* task waited for has its prices, or a failure broke them off.            *)
StatsArePriced ==
    [][\A t \in WindowTask :
          (\E k \in Windows : stats'[t][k] > stats[t][k])
              => \A h \in Swaps : h <= goal[t] => Settled(h)]_vars

(* One task that stops, for whatever reason, stops the whole process: none *)
(* goes on without it, and none waits for it.                              *)
OneStopsAll == (\E t \in Task : pc[t] = "stopped") ~> mode = "down"

(* Every window is dealt with.  This needs the last block with rows of any *)
(* kind to yield a price: else the wait for it ends in a timeout each      *)
(* time.                                                                   *)
LastIsPriced == \E h \in Heights : /\ PriceRows[h] > 0
                                   /\ \A g \in Heights : Activity[g] # "none" => g <= h
EveryWindowIsDone ==
    LastIsPriced => \A t \in WindowTask : \A k \in Windows : <>(win[t] > k)
-----------------------------------------------------------------------------
(* Why the properties hold: what every step keeps.                         *)

(* Without tasks there are no positions, and only cleandups makes them     *)
(* wait.                                                                   *)
AtRest ==
    /\ mode # "up" => \A t \in Task : pos[t] = 0 /\ goal[t] = 0
    /\ mode = "clean" => CleanDups

(* The price task walks upwards: everything below the block it is at is    *)
(* settled, and nothing above it is priced.                                *)
PriceWalk ==
    /\ \A h \in Heights : prices[h] <= PriceRows[h]
    /\ Priced \subseteq Swaps
    /\ \A h \in Priced : Settled(h) \/ (pc["price"] = "run" /\ h = goal["price"])
    /\ \A h \in Swaps : h <= pos["price"] \/ (\E g \in Priced : h < g) => Settled(h)
    /\ pos["price"] <= parsed
    /\ pc["price"] = "idle" => goal["price"] = 0
    /\ pc["price"] \in {"idle", "next"} =>
          \/ goal["price"] = 0 /\ (pos["price"] = 0 \/ \E g \in Priced : pos["price"] <= g)
          \/ goal["price"] = pos["price"]
    /\ pc["price"] \in {"wait", "run"} =>
          /\ goal["price"] \in Swaps /\ pos["price"] < goal["price"]
          /\ \A h \in Swaps : h < goal["price"] => Settled(h)
          /\ \A h \in Priced : h <= goal["price"]
          /\ prices[goal["price"]] = (IF pc["price"] = "run" THEN written ELSE 0)
    /\ pc["price"] # "run" => written = 0

(* Liquidity is known without gaps, up to the position of its task, to     *)
(* that of the price task, and to every price that cleandups spares.       *)
LpCovers(b) == \A g \in Active : g <= b => g \in lp
LpPrefix ==
    /\ lp \subseteq Active
    /\ \A h \in lp : LpCovers(h)
    /\ LpCovers(pos["lp"]) /\ pos["lp"] <= parsed
    /\ pc["lp"] = "write" => goal["lp"] <= parsed
    /\ pc["price"] = "run" => LpCovers(goal["price"])
    /\ LpCovers(pos["price"])
    /\ \A h \in Priced : \A g \in Active : g <= h /\ g < StartTs => g \in lp
    /\ ~CleanDups \/ mode = "up" \/ (mode = "clean" /\ deletes > 1)
          => \A h \in Priced : LpCovers(h)

(* The recent rows are without gaps as well, and none lies beyond the      *)
(* position, so that what is written next is new.                          *)
RecentWalk ==
    /\ \A h \in Heights : recent[h] <= 1 /\ (recent[h] > 0 => h \in Counted)
    /\ \A h \in Counted : \A g \in Heights : recent[g] > 0 /\ cut <= h /\ h <= g => recent[h] = 1
    /\ \A h \in Counted : cut <= h /\ h <= pos["recent"] => recent[h] = 1
    /\ pos["recent"] \in Active \cup {0}
    /\ pc["recent"] \in {"wait", "write"} \/ (pc["recent"] = "idle" /\ pos["recent"] > 0)
          => \A g \in Heights : recent[g] > 0 => g <= pos["recent"]
    /\ pc["recent"] \in {"wait", "write"} =>
          /\ goal["recent"] \in Active \cup {0} /\ pos["recent"] <= goal["recent"]
          /\ pos["recent"] < from /\ from <= parsed + 1
          /\ \A h \in Active : pos["recent"] < h /\ end - Range <= h => from <= h
    /\ pc["recent"] = "write" /\ pos["recent"] < goal["recent"] => LpCovers(goal["recent"])

(* A window from the next on has not been stored. *)
WindowWalk ==
    StartTs = 0 \/ CleanDups => \A t \in WindowTask :
        /\ \A k \in Windows : stats[t][k] <= 1
        /\ pc[t] \in {"due", "idle", "wait", "write"} =>
              \A k \in Windows : k >= win[t] => stats[t][k] = 0
        /\ (pc[t] = "init" /\ StartTs > 0) \/ (mode = "clean" /\ deletes > DeletedBy(t))
              => \A k \in WindowsSince : stats[t][k] = 0

(* What a window task waited for has happened. *)
WaitedFor ==
    \A t \in WindowTask :
        /\ goal[t] <= parsed
        /\ pc[t] = "write" => \A h \in Swaps : h <= goal[t] => Settled(h)

IInv == TypeOK /\ AtRest /\ PriceWalk /\ LpPrefix /\ RecentWalk /\ WindowWalk /\ WaitedFor
=============================================================================
