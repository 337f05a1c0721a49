------------------------ MODULE AggregatorTasksProofs ------------------------
(***************************************************************************)
(* Machine-checked proofs about AggregatorTasks, for every chain, every    *)
(* configuration and any number of failures and restarts.                  *)
(***************************************************************************)
EXTENDS AggregatorTasks, TLAPS

LEMMA ConstantTypes ==
    /\ MaxHeight \in Nat /\ Heights = 1..MaxHeight
    /\ PriceRows \in [Heights -> Nat]
    /\ Window \in Nat \ {0} /\ Range \in Nat /\ StartTs \in Nat /\ MaxFaults \in Nat
    /\ CleanDups \in BOOLEAN
    /\ WindowTask \subseteq {"pairStats", "accountStats"}
    /\ Task = {"lp", "price", "recent"} \cup WindowTask
<1>1. WindowTask \subseteq {"pairStats", "accountStats"}
  BY AggregatorAssumption
<1>2. QED
  BY <1>1, AggregatorAssumption DEF Heights, Task

LEMMA ParentTypes ==
    /\ DOMAIN Parent = {"price", "recent"} \cup WindowTask
    /\ Parent["price"] = "lp" /\ Parent["recent"] = "price"
    /\ \A t \in WindowTask : Parent[t] = "price"
BY ConstantTypes DEF Parent


(* Counting up one value of a function, which may be outside its domain.  *)
LEMMA Increment ==
    ASSUME NEW S, NEW f \in [S -> Nat], NEW x
    PROVE  /\ [f EXCEPT ![x] = f[x] + 1] \in [S -> Nat]
           /\ [f EXCEPT ![x] = 1] \in [S -> Nat]
<1>1. CASE x \in S
  BY <1>1
<1>2. CASE x \notin S
  <2>1. [f EXCEPT ![x] = f[x] + 1] = f /\ [f EXCEPT ![x] = 1] = f
    BY <1>2
  <2>2. QED
    BY <2>1
<1>3. QED
  BY <1>1, <1>2

LEMMA InitTypes == Init => TypeOK
<1> SUFFICES ASSUME Init PROVE TypeOK
  OBVIOUS
<1> USE ConstantTypes DEF Init
<1>1. WorldOK
  BY DEF WorldOK
<1>2. FlagsOK
  BY Zenon DEF FlagsOK
<1>3. TablesOK
  BY DEF TablesOK
<1>4. PlacesOK
  BY DEF PlacesOK, Places
<1>5. LocalsOK
  BY DEF LocalsOK
<1>6. QED
  BY <1>1, <1>2, <1>3, <1>4, <1>5 DEF TypeOK

(***************************************************************************)
(* What a step may change                                                  *)
(***************************************************************************)

(* The tasks of a window, and the steps that end one with an error. *)
TaskFails == LpUnacknowledged \/ PriceUnacknowledged \/ RecentUnacknowledged
             \/ (\E t \in WindowTask : WindowUnacknowledged(t)) \/ (\E t \in Task : Fails(t))

LEMMA FlagSteps ==
    ASSUME [Next]_vars
    PROVE  \/ UNCHANGED <<cancelled, errChan, caught>>
           \/ Launch \/ Crash \/ Exit \/ Signal \/ Catch \/ TaskFails
           \/ \E t \in DOMAIN Parent : GivesUp(t)
BY DEF Next, Process, Failures, LpStep, PriceStep, RecentStep, WindowStep, TaskFails, Delete, Cleaned,
    Tick, ParserCommits, Stop, Reached, LpBegin, LpRead, LpDone, LpWrite, PriceBegin, PriceNext,
    PriceDone, PriceWrite, PriceRan, RecentBegin, RecentWrite, WindowInit, WindowCaughtUp,
    WindowBegin, WindowWrite, vars, envVars, dbVars, procVars

LEMMA TableSteps ==
    ASSUME [Next]_vars
    PROVE  \/ UNCHANGED <<lp, prices, recent, stats, cut, torn>>
           \/ Delete \/ Crash \/ LpWrite \/ PriceWrite \/ RecentWrite \/ TaskFails
           \/ \E t \in WindowTask : WindowWrite(t)
BY DEF Next, Process, Failures, LpStep, PriceStep, RecentStep, WindowStep, TaskFails, Launch, Cleaned,
    Catch, Exit, Signal, Tick, ParserCommits, Stop, GivesUp, Reached, LpBegin, LpRead, LpDone, PriceBegin,
    PriceNext, PriceDone, PriceRan, RecentBegin, WindowInit, WindowCaughtUp, WindowBegin,
    vars, dbVars, history

LEMMA WorldSteps ==
    ASSUME [Next]_vars
    PROVE  \/ UNCHANGED <<now, parsed, mode, deletes, faults>>
           \/ Tick \/ ParserCommits \/ Launch \/ Delete \/ Cleaned \/ Crash \/ Exit \/ Signal
           \/ TaskFails \/ \E t \in DOMAIN Parent : GivesUp(t)
BY DEF Next, Process, Failures, LpStep, PriceStep, RecentStep, WindowStep, TaskFails, Catch, Stop,
    Reached, LpBegin, LpRead, LpDone, LpWrite, PriceBegin, PriceNext, PriceDone, PriceWrite,
    PriceRan, RecentBegin, RecentWrite, WindowInit, WindowCaughtUp, WindowBegin, WindowWrite,
    vars, envVars, procVars

(* An error adds to the faults and sets the channel, the tables may have changed. *)
LEMMA TaskFailsWorld ==
    ASSUME TaskFails
    PROVE  /\ Fault /\ errChan' = TRUE
           /\ UNCHANGED <<now, parsed, mode, deletes, cancelled, caught, pos, win, catching>>
           /\ \E t \in Task : ReturnsError(t) /\ pc[t] \notin {"off", "stopped", "wait"}
BY ConstantTypes DEF TaskFails, LpUnacknowledged, PriceUnacknowledged, RecentUnacknowledged,
    WindowUnacknowledged, Fails, ReturnsError, envVars, procVars, winVars

LEMMA NextWorld ==
    ASSUME TypeOK, [Next]_vars
    PROVE  WorldOK'
<1> USE ConstantTypes DEF TypeOK, WorldOK, envVars, procVars
<1>1. CASE UNCHANGED <<now, parsed, mode, deletes, faults>>
  BY <1>1
<1>2. CASE Tick
  BY <1>2 DEF Tick
<1>3. CASE ParserCommits
  BY <1>3 DEF ParserCommits
<1>4. CASE Launch
  BY <1>4 DEF Launch, Forget
<1>5. CASE Delete
  BY <1>5 DEF Delete
<1>6. CASE Cleaned
  BY <1>6 DEF Cleaned
<1>7. CASE Crash
  BY <1>7 DEF Crash, Forget, Fault
<1>8. CASE Exit
  BY <1>8 DEF Exit, Forget
<1>9. CASE Signal
  BY <1>9 DEF Signal, Fault
<1>10. CASE TaskFails
  BY <1>10, TaskFailsWorld DEF Fault
<1>11. ASSUME NEW t \in DOMAIN Parent, GivesUp(t) PROVE WorldOK'
  BY <1>11 DEF GivesUp, Fault
<1>12. QED
  BY <1>1, <1>2, <1>3, <1>4, <1>5, <1>6, <1>7, <1>8, <1>9, <1>10, <1>11, WorldSteps

LEMMA NextFlags ==
    ASSUME TypeOK, [Next]_vars
    PROVE  FlagsOK'
<1> USE DEF FlagsOK
<1>1. FlagsOK
  BY DEF TypeOK
<1>2. CASE UNCHANGED <<cancelled, errChan, caught>>
  BY <1>1, <1>2
<1>3. CASE Launch \/ Crash \/ Exit
  BY <1>3, Zenon DEF Launch, Crash, Exit, Forget
<1>4. CASE Signal
  BY <1>1, <1>4, Zenon DEF Signal
<1>5. CASE Catch
  BY <1>1, <1>5, Zenon DEF Catch
<1>6. CASE TaskFails
  <2>1. errChan' = TRUE /\ UNCHANGED <<cancelled, caught>>
    BY <1>6, TaskFailsWorld
  <2>2. QED
    BY <1>1, <2>1, Zenon
<1>7. ASSUME NEW t \in DOMAIN Parent, GivesUp(t) PROVE FlagsOK'
  BY <1>1, <1>7, Zenon DEF GivesUp, ReturnsError, procVars
<1>8. QED
  BY <1>2, <1>3, <1>4, <1>5, <1>6, <1>7, FlagSteps

(* Whatever window it does, a task leaves a table of windows. *)
LEMMA StatsTypes ==
    ASSUME TypeOK, NEW t \in WindowTask, UpdateStats(t)
    PROVE  stats' \in [WindowTask -> [Windows -> Nat]]
<1> DEFINE f == stats[t]
<1>1. f \in [Windows -> Nat] /\ stats \in [WindowTask -> [Windows -> Nat]]
  BY DEF TypeOK, TablesOK
<1>2. [f EXCEPT ![win[t]] = f[win[t]] + 1] \in [Windows -> Nat]
      /\ [f EXCEPT ![win[t]] = 1] \in [Windows -> Nat]
  BY <1>1, Increment
<1>3. \/ stats' = stats
      \/ stats' = [stats EXCEPT ![t] = [f EXCEPT ![win[t]] = f[win[t]] + 1]]
      \/ stats' = [stats EXCEPT ![t] = [f EXCEPT ![win[t]] = 1]]
  BY DEF UpdateStats
<1> HIDE DEF f
<1>4. QED
  BY <1>1, <1>2, <1>3

LEMMA PriceTypes ==
    ASSUME TypeOK
    PROVE  /\ InsertPrice => prices' \in [Heights -> Nat]
           /\ Breaking(prices) \subseteq Heights
           /\ InsertPrice => Breaking(prices') \subseteq Heights
<1>1. InsertPrice => prices' \in [Heights -> Nat]
  BY Increment DEF InsertPrice, TypeOK, TablesOK
<1>2. pc["price"] = "run" => goal["price"] \in Heights
  BY DEF TypeOK, LocalsOK
<1>3. QED
  BY <1>1, <1>2 DEF Breaking

LEMMA RecentTableTypes ==
    ASSUME TypeOK, UpdatePairStatsRecent
    PROVE  recent' \in [Heights -> Nat] /\ cut' \in Int /\ UNCHANGED <<lp, prices, stats>>
<1>1. recent \in [Heights -> Nat] /\ cut \in Int
  BY DEF TypeOK, TablesOK
<1>2. end - Range \in Int
  <2>1. end \in 0..MaxHeight /\ MaxHeight \in Nat /\ Range \in Nat
    BY ConstantTypes DEF TypeOK, LocalsOK
  <2>2. QED
    BY <2>1
<1>3. recent' \in [Heights -> Nat]
  BY <1>1 DEF UpdatePairStatsRecent
<1>4. cut' \in Int
  BY <1>1, <1>2 DEF UpdatePairStatsRecent, Latest
<1>5. QED
  BY <1>3, <1>4 DEF UpdatePairStatsRecent

LEMMA NextTables ==
    ASSUME TypeOK, [Next]_vars
    PROVE  TablesOK'
<1> USE ConstantTypes DEF TypeOK, TablesOK, dbVars, history
<1>1. CASE UNCHANGED <<lp, prices, recent, stats, cut, torn>>
  BY <1>1
<1>2. CASE Delete
  <2>1. stats' \in [WindowTask -> [Windows -> Nat]]
    BY <1>2 DEF Delete, Erase
  <2>2. prices' \in [Heights -> Nat] /\ recent' \in [Heights -> Nat]
    BY <1>2 DEF Delete, Erase
  <2>3. QED
    BY <1>2, <2>1, <2>2 DEF Delete
<1>3. CASE Crash
  BY <1>3, PriceTypes DEF Crash
<1>4. CASE LpWrite
  BY <1>4 DEF LpWrite, UpdateLpHistory, Active
<1>5. CASE PriceWrite
  BY <1>5, PriceTypes DEF PriceWrite, InsertPrice
<1>6. CASE RecentWrite
  BY <1>6, RecentTableTypes DEF RecentWrite
<1>7. ASSUME NEW t \in WindowTask, WindowWrite(t) PROVE TablesOK'
  BY <1>7, StatsTypes DEF WindowWrite, UpdateStats
<1>8. CASE TaskFails
  <2>1. CASE LpUnacknowledged
    BY <2>1 DEF LpUnacknowledged, UpdateLpHistory, Active
  <2>2. CASE PriceUnacknowledged
    BY <2>2, PriceTypes DEF PriceUnacknowledged, InsertPrice
  <2>3. CASE RecentUnacknowledged
    BY <2>3, RecentTableTypes DEF RecentUnacknowledged
  <2>4. ASSUME NEW t \in WindowTask, WindowUnacknowledged(t) PROVE TablesOK'
    BY <2>4, StatsTypes DEF WindowUnacknowledged, UpdateStats
  <2>5. ASSUME NEW t \in Task, Fails(t) PROVE TablesOK'
    BY <2>5, PriceTypes DEF Fails
  <2>6. QED
    BY <1>8, <2>1, <2>2, <2>3, <2>4, <2>5 DEF TaskFails
<1>9. QED
  BY <1>1, <1>2, <1>3, <1>4, <1>5, <1>6, <1>7, <1>8, TableSteps

(***************************************************************************)
(* Places                                                                  *)
(***************************************************************************)
LEMMA PlaceTypes ==
    /\ \A t \in WindowTask : t # "lp" /\ t # "price" /\ t # "recent"
    /\ \A t \in Task : Places(t) \subseteq UNION {Places(u) : u \in Task}
    /\ \A t \in Task : {"off", "idle", "stopped"} \subseteq Places(t)
    /\ {"read", "write"} \subseteq Places("lp")
    /\ {"next", "wait", "run"} \subseteq Places("price")
    /\ {"wait", "write"} \subseteq Places("recent")
    /\ \A t \in WindowTask : {"init", "due", "wait", "write"} \subseteq Places(t)
<1>1. \A t \in WindowTask : t # "lp" /\ t # "price" /\ t # "recent"
  BY ConstantTypes
<1>2. QED
  BY <1>1, Zenon DEF Places

(* A task that runs moves to another place of its own. *)
LEMMA MovePlace ==
    ASSUME PlacesOK, NEW t \in Task, NEW p \in Places(t) \ {"off"}, pc[t] # "off",
           pc' = [pc EXCEPT ![t] = p], mode' = mode
    PROVE  PlacesOK'
BY PlaceTypes DEF PlacesOK

LEMMA RestPlaces ==
    /\ mode' = "up" /\ pc' = [t \in Task |-> IF t \in WindowTask THEN "init" ELSE "idle"] => PlacesOK'
    /\ mode' # "up" /\ pc' = [t \in Task |-> "off"] => PlacesOK'
<1>1. CASE mode' = "up" /\ pc' = [t \in Task |-> IF t \in WindowTask THEN "init" ELSE "idle"]
  BY <1>1, PlaceTypes DEF PlacesOK
<1>2. CASE mode' # "up" /\ pc' = [t \in Task |-> "off"]
  BY <1>2, PlaceTypes DEF PlacesOK
<1>3. QED
  BY <1>1, <1>2

Moves(t) == /\ mode' = mode /\ pc[t] # "off"
            /\ \E p \in Places(t) \ {"off"} : pc' = [pc EXCEPT ![t] = p]

LEMMA PlaceSteps ==
    ASSUME [Next]_vars
    PROVE  \/ UNCHANGED <<pc, mode>>
           \/ Launch \/ Cleaned \/ Crash \/ Exit
           \/ \E t \in Task : Moves(t)
<1> USE ConstantTypes, PlaceTypes, ParentTypes DEF procVars, Goto, Return, ReturnsError
<1>1. Tick \/ ParserCommits \/ Delete \/ Catch \/ Signal \/ PriceWrite \/ UNCHANGED vars
         => UNCHANGED <<pc, mode>>
  BY DEF Tick, ParserCommits, Delete, Catch, Signal, PriceWrite, vars
<1>2. LpStep \/ LpUnacknowledged => Moves("lp")
  <2>1. LpStep \/ LpUnacknowledged
           => /\ mode' = mode /\ pc["lp"] # "off"
              /\ \E p \in {"idle", "read", "write", "stopped"} : pc' = [pc EXCEPT !["lp"] = p]
    BY DEF LpStep, LpBegin, LpRead, LpDone, LpWrite, LpUnacknowledged
  <2>2. QED
    BY <2>1 DEF Moves
<1>3. PriceBegin \/ PriceNext \/ PriceDone \/ PriceRan \/ PriceUnacknowledged => Moves("price")
  <2>1. PriceBegin \/ PriceNext \/ PriceDone \/ PriceRan \/ PriceUnacknowledged
           => /\ mode' = mode /\ pc["price"] # "off"
              /\ \E p \in {"idle", "next", "wait", "stopped"} : pc' = [pc EXCEPT !["price"] = p]
    BY DEF PriceBegin, PriceNext, PriceDone, PriceRan, PriceUnacknowledged
  <2>2. QED
    BY <2>1 DEF Moves
<1>4. RecentBegin \/ RecentWrite \/ RecentUnacknowledged => Moves("recent")
  <2>1. RecentBegin \/ RecentWrite \/ RecentUnacknowledged
           => /\ mode' = mode /\ pc["recent"] # "off"
              /\ \E p \in {"idle", "wait", "write", "stopped"} : pc' = [pc EXCEPT !["recent"] = p]
    BY DEF RecentBegin, RecentWrite, RecentUnacknowledged
  <2>2. QED
    BY <2>1 DEF Moves
<1>5. ASSUME NEW t \in WindowTask,
             \/ WindowInit(t) \/ WindowCaughtUp(t) \/ WindowBegin(t) \/ WindowWrite(t)
             \/ WindowUnacknowledged(t)
      PROVE  Moves(t)
  <2>1. /\ mode' = mode /\ pc[t] # "off"
        /\ \E p \in {"due", "idle", "wait", "stopped"} : pc' = [pc EXCEPT ![t] = p]
    BY <1>5 DEF WindowInit, WindowCaughtUp, WindowBegin, WindowWrite, WindowUnacknowledged
  <2>2. t \in Task
    OBVIOUS
  <2>3. {"due", "wait"} \subseteq Places(t) /\ {"idle", "stopped"} \subseteq Places(t)
    BY <2>2
  <2>4. QED
    BY <2>1, <2>3 DEF Moves
<1>6. ASSUME NEW t \in Task, Fails(t) \/ Stop(t) \/ GivesUp(t)
      PROVE  Moves(t)
  <2>1. mode' = mode /\ pc[t] # "off" /\ pc' = [pc EXCEPT ![t] = "stopped"]
    BY <1>6 DEF Fails, Stop, GivesUp
  <2>2. QED
    BY <2>1 DEF Moves
<1>7. ASSUME NEW t \in DOMAIN Parent, Reached(t)
      PROVE  Moves(t)
  <2>1. mode' = mode /\ pc[t] # "off" /\ pc' = [pc EXCEPT ![t] = IF t = "price" THEN "run" ELSE "write"]
    BY <1>7 DEF Reached
  <2>2. (IF t = "price" THEN "run" ELSE "write") \in Places(t) \ {"off"}
    OBVIOUS
  <2>3. QED
    BY <2>1, <2>2 DEF Moves
<1>8. QED
  BY <1>1, <1>2, <1>3, <1>4, <1>5, <1>6, <1>7
     DEF Next, Process, Failures, PriceStep, RecentStep, WindowStep

LEMMA NextPlaces ==
    ASSUME TypeOK, [Next]_vars
    PROVE  PlacesOK'
<1>1. PlacesOK
  BY DEF TypeOK
<1>2. CASE UNCHANGED <<pc, mode>>
  BY <1>1, <1>2 DEF PlacesOK
<1>3. CASE Crash \/ Exit
  BY <1>3, RestPlaces DEF Crash, Exit
<1>4. CASE Launch
  <2>1. CASE mode' = "up" /\ BeginTasks
    BY <2>1, RestPlaces DEF BeginTasks
  <2>2. CASE mode' = "clean" /\ pc' = pc
    <3>1. mode # "up" /\ pc = [t \in Task |-> "off"]
      BY <1>1, <1>4 DEF Launch, PlacesOK
    <3>2. QED
      BY <2>2, <3>1, RestPlaces
  <2>3. QED
    BY <1>4, <2>1, <2>2 DEF Launch
<1>5. CASE Cleaned
  BY <1>5, RestPlaces DEF Cleaned, BeginTasks
<1>6. CASE \E t \in Task : Moves(t)
  BY <1>1, <1>6, MovePlace DEF Moves
<1>7. QED
  BY <1>2, <1>3, <1>4, <1>5, <1>6, PlaceSteps

(***************************************************************************)
(* Locals                                                                  *)
(***************************************************************************)
Local == <<pos, goal, written, from, end, win, catching>>

LEMMA LocalSteps ==
    ASSUME [Next]_vars
    PROVE  \/ UNCHANGED Local
           \/ Launch \/ Crash \/ Exit
           \/ \E t \in Task : UNCHANGED <<pos, win, catching>> /\ \E p \in {"idle", "stopped"} : Return(t, p)
           \/ LpBegin \/ LpRead \/ LpWrite \/ PriceNext \/ PriceDone \/ PriceWrite \/ PriceRan
           \/ RecentBegin \/ RecentWrite
           \/ \E t \in WindowTask : WindowInit(t) \/ WindowCaughtUp(t) \/ WindowBegin(t) \/ WindowWrite(t)
BY ConstantTypes, ParentTypes DEF Next, Process, Failures, LpStep, PriceStep, RecentStep, WindowStep, Delete, Cleaned,
    Catch, Signal, Tick, ParserCommits, Stop, GivesUp, Reached, LpDone, PriceBegin,
    LpUnacknowledged, PriceUnacknowledged, RecentUnacknowledged, WindowUnacknowledged, Fails,
    ReturnsError, vars, Local, priceVars, recentVars, winVars

LEMMA ReturnTypes ==
    ASSUME TypeOK, NEW t \in Task, NEW p, Return(t, p)
    PROVE  /\ goal' \in [Task -> 0..MaxHeight] /\ goal'[t] = 0
           /\ \A u \in Task \ {t} : goal'[u] = goal[u]
           /\ written' \in Nat /\ from' \in Nat /\ end' \in 0..MaxHeight
BY ConstantTypes DEF Return, TypeOK, LocalsOK

(* The steps of a task, and what they leave alone. *)
Steps(t) ==
    \/ t = "lp" /\ (LpBegin \/ LpRead \/ LpDone \/ LpWrite \/ LpUnacknowledged)
    \/ t = "price" /\ (PriceBegin \/ PriceNext \/ PriceDone \/ PriceWrite \/ PriceRan \/ PriceUnacknowledged)
    \/ t = "recent" /\ (RecentBegin \/ RecentWrite \/ RecentUnacknowledged)
    \/ t \in WindowTask /\ \/ WindowInit(t) \/ WindowCaughtUp(t) \/ WindowBegin(t)
                           \/ WindowWrite(t) \/ WindowUnacknowledged(t)
    \/ Reached(t) \/ GivesUp(t) \/ Stop(t) \/ Fails(t)

LEMMA StepOwners ==
    ASSUME [Next]_vars
    PROVE  \/ \E t \in Task : Steps(t)
           \/ Tick \/ ParserCommits \/ Launch \/ Delete \/ Cleaned \/ Crash \/ Exit \/ Catch \/ Signal
           \/ UNCHANGED vars
BY ConstantTypes, ParentTypes, PlaceTypes
   DEF Next, Process, Failures, LpStep, PriceStep, RecentStep, WindowStep, Steps

Quiet(t) == pc'[t] = pc[t] /\ goal'[t] = goal[t] /\ pos'[t] = pos[t]

LEMMA OwnSteps ==
    ASSUME TypeOK, NEW t \in Task, Steps(t)
    PROVE  /\ UNCHANGED <<now, parsed, mode, deletes>> /\ pc[t] # "off"
           /\ \A u \in Task \ {t} : Quiet(u)
           /\ t # "lp" => lp' = lp
           /\ t # "price" => UNCHANGED <<prices, torn, written>>
           /\ t # "recent" => UNCHANGED <<recent, cut, from, end>>
           /\ \A u \in WindowTask \ {t} : win'[u] = win[u] /\ stats'[u] = stats[u]
<1> USE ConstantTypes, PlaceTypes DEF Quiet, TypeOK, PlacesOK, LocalsOK, TablesOK, envVars, dbVars, procVars,
        priceVars, recentVars, winVars, history, Return, Goto, ReturnsError
<1>1. CASE t = "lp" /\ (LpBegin \/ LpRead \/ LpDone \/ LpWrite \/ LpUnacknowledged)
  BY <1>1 DEF LpBegin, LpRead, LpDone, LpWrite, LpUnacknowledged, UpdateLpHistory
<1>2. CASE t = "price" /\ (PriceBegin \/ PriceNext \/ PriceDone)
  BY <1>2 DEF PriceBegin, PriceNext, PriceDone
<1>3. CASE t = "price" /\ (PriceWrite \/ PriceRan \/ PriceUnacknowledged)
  BY <1>3 DEF PriceWrite, PriceRan, PriceUnacknowledged, InsertPrice
<1>4. CASE t = "recent" /\ (RecentBegin \/ RecentWrite \/ RecentUnacknowledged)
  BY <1>4 DEF RecentBegin, RecentWrite, RecentUnacknowledged, UpdatePairStatsRecent
<1>5. CASE t \in WindowTask /\ (WindowInit(t) \/ WindowCaughtUp(t) \/ WindowBegin(t))
  <2>1. CASE WindowInit(t)
    BY <1>5, <2>1 DEF WindowInit
  <2>2. CASE WindowCaughtUp(t)
    BY <1>5, <2>2 DEF WindowCaughtUp
  <2>3. CASE WindowBegin(t)
    BY <1>5, <2>3 DEF WindowBegin
  <2>4. QED
    BY <1>5, <2>1, <2>2, <2>3
<1>6. CASE t \in WindowTask /\ (WindowWrite(t) \/ WindowUnacknowledged(t))
  <2>1. \A u \in WindowTask \ {t} : stats'[u] = stats[u]
    BY <1>6 DEF WindowWrite, WindowUnacknowledged, UpdateStats
  <2>2. CASE WindowWrite(t)
    BY <1>6, <2>1, <2>2 DEF WindowWrite, UpdateStats
  <2>3. CASE WindowUnacknowledged(t)
    BY <1>6, <2>1, <2>3 DEF WindowUnacknowledged, UpdateStats
  <2>4. QED
    BY <1>6, <2>2, <2>3
<1>7. CASE Reached(t) \/ GivesUp(t) \/ Stop(t) \/ Fails(t)
  <2>1. CASE Reached(t)
    BY <2>1 DEF Reached
  <2>2. CASE GivesUp(t)
    <3>1. pc[t] # "off"
      BY <2>2 DEF GivesUp
    <3>2. QED
      BY <2>2, <3>1 DEF GivesUp
  <2>3. CASE Stop(t)
    BY <2>3 DEF Stop
  <2>4. CASE Fails(t)
    <3>1. t # "price" => UNCHANGED <<torn, written>>
      BY <2>4 DEF Fails
    <3>2. pc[t] # "off"
      BY <2>4 DEF Fails
    <3>3. QED
      BY <2>4, <3>1, <3>2 DEF Fails
  <2>5. QED
    BY <1>7, <2>1, <2>2, <2>3, <2>4
<1>8. QED
  BY <1>1, <1>2, <1>3, <1>4, <1>5, <1>6, <1>7 DEF Steps

(* What a step changes of the price task, by who takes it.                *)
PriceQuiet == Quiet("price") /\ written' = written

LEMMA PriceSteps ==
    ASSUME TypeOK, [Next]_vars
    PROVE  \/ PriceQuiet \/ Launch \/ Cleaned \/ Crash \/ Exit
           \/ PriceBegin \/ PriceNext \/ PriceDone \/ PriceWrite \/ PriceRan \/ PriceUnacknowledged
           \/ Reached("price") \/ GivesUp("price") \/ Stop("price") \/ Fails("price")
<1>1. ASSUME NEW t \in Task, t # "price", Steps(t) PROVE PriceQuiet
  BY <1>1, OwnSteps, ConstantTypes DEF PriceQuiet
<1>2. Tick \/ ParserCommits \/ Delete \/ Catch \/ Signal \/ UNCHANGED vars => PriceQuiet
  BY DEF Tick, ParserCommits, Delete, Catch, Signal, vars, priceVars, PriceQuiet, Quiet
<1>3. ASSUME Steps("price")
      PROVE  \/ PriceBegin \/ PriceNext \/ PriceDone \/ PriceWrite \/ PriceRan \/ PriceUnacknowledged
             \/ Reached("price") \/ GivesUp("price") \/ Stop("price") \/ Fails("price")
  BY <1>3, PlaceTypes DEF Steps
<1>4. QED
  BY <1>1, <1>2, <1>3, StepOwners

(* The price task has a block from the search on. *)
LEMMA NextAim ==
    ASSUME TypeOK, [Next]_vars
    PROVE  pc'["price"] \in {"wait", "run"} => goal'["price"] \in Heights
<1> USE ConstantTypes DEF TypeOK, PlacesOK, LocalsOK, Goto, Return, ReturnsError
<1>1. CASE PriceQuiet
  BY <1>1 DEF PriceQuiet, Quiet
<1>2. CASE Launch \/ Cleaned \/ Crash \/ Exit
  <2>1. pc'["price"] \in {"off", "idle"}
    <3>1. Launch => mode # "up"
      BY DEF Launch
    <3>2. QED
      BY <1>2, <3>1, PlaceTypes DEF Launch, Cleaned, Crash, Exit, BeginTasks
  <2>2. QED
    BY <2>1
<1>3. CASE PriceNext
  BY <1>3 DEF PriceNext
<1>4. CASE PriceBegin \/ PriceDone \/ PriceWrite \/ PriceRan
  BY <1>4 DEF PriceBegin, PriceDone, PriceWrite, PriceRan
<1>5. CASE Reached("price") \/ GivesUp("price") \/ Stop("price")
  BY <1>5 DEF Reached, GivesUp, Stop
<1>6. CASE PriceUnacknowledged \/ Fails("price")
  BY <1>6 DEF PriceUnacknowledged, Fails
<1>7. QED
  BY <1>1, <1>2, <1>3, <1>4, <1>5, <1>6, PriceSteps

LEMMA NextLocals ==
    ASSUME TypeOK, [Next]_vars
    PROVE  LocalsOK'
<1> DEFINE L == /\ pos' \in [Task -> 0..MaxHeight] /\ goal' \in [Task -> 0..MaxHeight]
                /\ written' \in Nat /\ from' \in Nat /\ end' \in 0..MaxHeight
                /\ win' \in [WindowTask -> Nat] /\ catching' \in [WindowTask -> BOOLEAN]
<1>1. SUFFICES L
  BY NextAim DEF LocalsOK
<1> USE ConstantTypes DEF priceVars, recentVars, winVars
<1>2. /\ pos \in [Task -> 0..MaxHeight] /\ goal \in [Task -> 0..MaxHeight]
      /\ written \in Nat /\ from \in Nat /\ end \in 0..MaxHeight
      /\ win \in [WindowTask -> Nat] /\ catching \in [WindowTask -> BOOLEAN]
      /\ now \in 0..MaxHeight
  BY DEF TypeOK, LocalsOK, WorldOK
<1>3. CASE UNCHANGED Local
  BY <1>2, <1>3 DEF Local
<1>4. CASE Launch \/ Crash \/ Exit
  <2>1. catching' \in [WindowTask -> BOOLEAN]
    BY <1>4, Zenon DEF Launch, Crash, Exit, Forget
  <2>2. QED
    BY <1>4, <2>1 DEF Launch, Crash, Exit, Forget
<1>5. ASSUME NEW t \in Task, UNCHANGED <<pos, win, catching>>, NEW p, Return(t, p)
      PROVE  L
  BY <1>2, <1>5, ReturnTypes
<1>6. CASE LpBegin
  BY <1>2, <1>6 DEF LpBegin, Latest
<1>7. CASE LpRead
  BY <1>2, <1>7 DEF LpRead
<1>8. CASE LpWrite
  BY <1>2, <1>8, ReturnTypes DEF LpWrite
<1>9. CASE PriceNext
  BY <1>2, <1>9 DEF PriceNext
<1>10. CASE PriceDone
  BY <1>2, <1>10, ReturnTypes DEF PriceDone
<1>11. CASE PriceWrite \/ PriceRan
  BY <1>2, <1>11 DEF PriceWrite, PriceRan
<1>12. CASE RecentBegin
  BY <1>2, <1>12 DEF RecentBegin, FromAfter
<1>13. CASE RecentWrite
  BY <1>2, <1>13, ReturnTypes DEF RecentWrite
<1>14. ASSUME NEW t \in WindowTask, WindowInit(t) PROVE L
  BY <1>2, <1>14 DEF WindowInit
<1>15. ASSUME NEW t \in WindowTask, WindowCaughtUp(t) PROVE L
  BY <1>2, <1>15 DEF WindowCaughtUp
<1>16. ASSUME NEW t \in WindowTask, WindowBegin(t) PROVE L
  BY <1>2, <1>16 DEF WindowBegin
<1>17. ASSUME NEW t \in WindowTask, WindowWrite(t) PROVE L
  BY <1>2, <1>17, ReturnTypes DEF WindowWrite
<1> HIDE DEF L
<1>18. QED
  BY <1>3, <1>4, <1>5, <1>6, <1>7, <1>8, <1>9, <1>10, <1>11, <1>12, <1>13, <1>14, <1>15, <1>16,
     <1>17, LocalSteps

LEMMA NextTypes ==
    ASSUME TypeOK, [Next]_vars
    PROVE  TypeOK'
BY NextWorld, NextFlags, NextTables, NextPlaces, NextLocals DEF TypeOK

(* The types hold in every reachable state. *)
THEOREM AggregatorTypes == Spec => []TypeOK
BY InitTypes, NextTypes, PTL DEF Spec

(***************************************************************************)
(* The walk of the price task                                              *)
(***************************************************************************)
LEMMA PriceTableSteps ==
    ASSUME [Next]_vars
    PROVE  \/ UNCHANGED <<prices, torn>>
           \/ Delete \/ Crash \/ PriceWrite \/ PriceUnacknowledged \/ Fails("price")
BY TableSteps DEF TaskFails, LpWrite, UpdateLpHistory, RecentWrite, UpdatePairStatsRecent,
    WindowWrite, UpdateStats, LpUnacknowledged, RecentUnacknowledged, WindowUnacknowledged, Fails,
    dbVars, history

LEMMA ParsedSteps ==
    ASSUME [Next]_vars
    PROVE  parsed' = parsed \/ ParserCommits
BY WorldSteps, TaskFailsWorld DEF Tick, Launch, Delete, Cleaned, Crash, Exit, Signal, GivesUp, envVars

LEMMA ParsedGrows ==
    ASSUME TypeOK, [Next]_vars
    PROVE  /\ parsed \in Nat /\ parsed' \in Nat /\ parsed <= parsed'
           /\ ParserCommits => parsed' = parsed + 1
BY ParsedSteps, ConstantTypes DEF ParserCommits, TypeOK, WorldOK

(* Without tasks, only the process and the world around it move. *)
LEMMA RestSteps ==
    ASSUME TypeOK, [Next]_vars, mode # "up"
    PROVE  Tick \/ ParserCommits \/ Launch \/ Delete \/ Cleaned \/ Crash \/ UNCHANGED vars
<1>1. \A t \in Task : pc[t] = "off"
  BY DEF TypeOK, PlacesOK
<1>2. QED
  BY <1>1, ConstantTypes, ParentTypes
     DEF Next, Process, Failures, LpStep, PriceStep, RecentStep, WindowStep, Catch, Exit, Signal,
    Stop, GivesUp, Reached, LpBegin, LpRead, LpDone, LpWrite, PriceBegin, PriceNext,
    PriceDone, PriceWrite, PriceRan, RecentBegin, RecentWrite, WindowInit, WindowCaughtUp,
    WindowBegin, WindowWrite, LpUnacknowledged, PriceUnacknowledged, RecentUnacknowledged,
    WindowUnacknowledged, Fails

LEMMA NextAtRest ==
    ASSUME TypeOK, AtRest, [Next]_vars
    PROVE  AtRest'
<1>1. CASE mode # "up"
  <2>1. CASE Launch \/ Crash
    BY <2>1, ConstantTypes DEF Launch, Crash, Forget, AtRest
  <2>2. CASE Tick \/ ParserCommits \/ Delete \/ UNCHANGED vars
    <3>1. UNCHANGED <<mode, pos, goal>>
      BY <2>2 DEF Tick, ParserCommits, Delete, vars, procVars
    <3>2. QED
      BY <3>1 DEF AtRest
  <2>3. CASE Cleaned
    BY <2>3 DEF Cleaned, AtRest
  <2>4. QED
    BY <1>1, <2>1, <2>2, <2>3, RestSteps
<1>2. CASE mode = "up"
  <2>1. mode' = mode \/ Crash \/ Exit
    BY <1>2, PlaceSteps DEF Moves, Launch, Cleaned
  <2>2. CASE Crash \/ Exit
    BY <2>2, ConstantTypes DEF Crash, Exit, Forget, AtRest
  <2>3. QED
    BY <1>2, <2>1, <2>2 DEF AtRest
<1>3. QED
  BY <1>1, <1>2

(* The walk survives a step that leaves the task and its table alone.      *)
LEMMA PriceRests ==
    ASSUME PriceWalk, PriceQuiet, UNCHANGED <<prices, torn, parsed>>
    PROVE  PriceWalk'
<1>1. Swaps' = Swaps /\ Priced' = Priced /\ \A h \in Heights : Settled(h)' = Settled(h)
  BY DEF Swaps, Active, Priced, Settled
<1>2. QED
  BY <1>1 DEF PriceWalk, PriceQuiet, Quiet, Swaps, Active, Priced

LEMMA PriceParses ==
    ASSUME TypeOK, PriceWalk, ParserCommits
    PROVE  PriceWalk'
<1>1. UNCHANGED <<prices, torn, pc, pos, goal, written>> /\ parsed' = parsed + 1 /\ parsed \in Nat
  BY ConstantTypes DEF ParserCommits, dbVars, history, priceVars, TypeOK, WorldOK
<1>2. \A h \in Swaps' : h \in Swaps \/ h = parsed + 1
  BY <1>1, ConstantTypes DEF Swaps, Active
<1>3. Swaps \subseteq Swaps' /\ \A h \in Swaps : h <= parsed
  BY <1>1, ConstantTypes DEF Swaps, Active
<1>4. pos["price"] \in Nat /\ pos["price"] <= parsed
  BY ConstantTypes DEF TypeOK, LocalsOK, PriceWalk
<1>5. Priced' = Priced /\ \A h \in Heights : Settled(h)' = Settled(h)
  BY <1>1 DEF Priced, Settled
<1>6. Swaps' \subseteq Nat /\ Swaps \subseteq Nat /\ Priced \subseteq Swaps /\ parsed + 1 \in Nat
  BY <1>1, ConstantTypes DEF PriceWalk, Swaps, Active
<1>7. \A h \in Swaps' : h <= pos["price"] \/ (\E g \in Priced : h < g) => h \in Swaps
  BY <1>1, <1>2, <1>3, <1>4, <1>6
<1>8. pc["price"] \in {"wait", "run"} => \A h \in Swaps' : h < goal["price"] => h \in Swaps
  <2> SUFFICES ASSUME pc["price"] \in {"wait", "run"}, NEW h \in Swaps', h < goal["price"]
               PROVE  h \in Swaps
    OBVIOUS
  <2>1. goal["price"] \in Swaps
    BY DEF PriceWalk
  <2>2. goal["price"] \in Nat /\ goal["price"] <= parsed /\ h \in Nat
    BY <1>3, <1>6, <2>1
  <2>3. QED
    BY <1>1, <1>2, <2>2
<1>9. Swaps \subseteq Heights
  BY DEF Swaps, Active
<1>10. \A h \in Swaps' : h <= pos["price"] \/ (\E g \in Priced : h < g) => Settled(h)
  BY <1>7 DEF PriceWalk
<1>11. pc["price"] \in {"wait", "run"} =>
          /\ goal["price"] \in Swaps' /\ pos["price"] < goal["price"]
          /\ \A h \in Swaps' : h < goal["price"] => Settled(h)
          /\ \A h \in Priced : h <= goal["price"]
          /\ prices[goal["price"]] = (IF pc["price"] = "run" THEN written ELSE 0)
  BY <1>3, <1>8 DEF PriceWalk
<1>12. pos["price"] <= parsed' /\ Priced \subseteq Swaps'
  BY <1>1, <1>3, <1>4, <1>6
<1>13. Swaps' \subseteq Heights
  BY DEF Swaps, Active
<1>14. QED
  BY <1>1, <1>5, <1>9, <1>10, <1>11, <1>12, <1>13 DEF PriceWalk, Priced

(* What the queries see is heights that are parsed. *)
LEMMA QueryTypes ==
    ASSUME TypeOK
    PROVE  /\ Heights \subseteq Nat \ {0} /\ parsed \in Nat
           /\ Active \subseteq Heights /\ \A h \in Active : h <= parsed
           /\ Swaps \subseteq Active /\ Counted \subseteq Active /\ Priced \subseteq Heights
           /\ pos["price"] \in Nat /\ goal["price"] \in Nat /\ written \in Nat
           /\ \A h \in Heights : prices[h] \in Nat /\ PriceRows[h] \in Nat
BY ConstantTypes DEF TypeOK, WorldOK, TablesOK, LocalsOK, Active, Swaps, Counted, Priced

LEMMA PriceDeletes ==
    ASSUME TypeOK, AtRest, PriceWalk, Delete
    PROVE  PriceWalk'
<1>1. /\ UNCHANGED <<pc, pos, goal, written, parsed>>
      /\ pc["price"] = "off" /\ pos["price"] = 0
  BY ConstantTypes DEF Delete, priceVars, envVars, AtRest, TypeOK, PlacesOK
<1>2. CASE deletes # 1
  <2>1. PriceQuiet /\ UNCHANGED <<prices, torn, parsed>>
    BY <1>1, <1>2 DEF Delete, PriceQuiet, Quiet
  <2>2. QED
    BY <2>1, PriceRests
<1>3. CASE deletes = 1
  <2>1. torn' = torn \ PricesSince /\ prices' = [h \in Heights |-> IF h \in PricesSince THEN 0 ELSE prices[h]]
    BY <1>3 DEF Delete, Erase, TypeOK, TablesOK
  <2>2. Swaps' = Swaps /\ Priced' = Priced \ PricesSince
    BY <1>1, <2>1, QueryTypes DEF Swaps, Active, Priced
  <2>3. \A h \in Heights \ PricesSince : Settled(h) => Settled(h)'
    BY <2>1 DEF Settled
  <2>4. \A g \in Heights \ PricesSince : \A h \in Heights : h < g => h \notin PricesSince
    BY QueryTypes, ConstantTypes DEF PricesSince
  <2>5. \A h \in Heights : prices'[h] <= PriceRows[h]
    BY <2>1, QueryTypes DEF PriceWalk
  <2>6. \A h \in Priced' : Settled(h)'
    BY <1>1, <2>2, <2>3, QueryTypes DEF PriceWalk
  <2>7. \A h \in Swaps : h <= pos["price"] \/ (\E g \in Priced' : h < g) => Settled(h)'
    BY <1>1, <2>2, <2>3, <2>4, QueryTypes DEF PriceWalk
  <2>8. QED
    BY <1>1, <2>2, <2>5, <2>6, <2>7 DEF PriceWalk
<1>4. QED
  BY <1>2, <1>3

(* The task gets to its beginning or its end, at a position behind which   *)
(* everything is settled; what it broke off is torn.                       *)
LEMMA PriceEnds ==
    ASSUME TypeOK, PriceWalk,
           pc'["price"] \in {"off", "idle", "stopped"}, goal'["price"] = 0, written' = 0,
           UNCHANGED <<parsed, prices>>, torn \cup Breaking(prices) \subseteq torn',
           pos'["price"] <= parsed, \A h \in Swaps : h <= pos'["price"] => Settled(h),
           pc'["price"] = "idle" => pos'["price"] = 0 \/ \E g \in Priced : pos'["price"] <= g
    PROVE  PriceWalk'
<1>1. Swaps' = Swaps /\ Priced' = Priced
  BY DEF Swaps, Active, Priced
<1>2. \A h \in Heights : Settled(h) => Settled(h)'
  BY DEF Settled
<1>3. \A h \in Priced : Settled(h)'
  <2> SUFFICES ASSUME NEW h \in Priced, ~Settled(h) PROVE Settled(h)'
    BY <1>2, QueryTypes
  <2>1. pc["price"] = "run" /\ h = goal["price"] /\ 0 < prices[h] /\ prices[h] <= PriceRows[h]
        /\ prices[h] # PriceRows[h] /\ h \in Heights
    BY QueryTypes DEF PriceWalk, Settled, Priced
  <2>2. h \in Breaking(prices)
    BY <2>1, QueryTypes DEF Breaking
  <2>3. QED
    BY <2>2 DEF Settled
<1>4. \A h \in Swaps : h <= pos'["price"] \/ (\E g \in Priced : h < g) => Settled(h)'
  BY <1>2, QueryTypes DEF PriceWalk
<1>5. QED
  BY <1>1, <1>3, <1>4 DEF PriceWalk

LEMMA PriceFindsNext ==
    ASSUME TypeOK, PriceWalk, PriceNext
    PROVE  PriceWalk'
<1>1. PICK h \in Heights : IsNextHeight(h, goal["price"]) /\ goal' = [goal EXCEPT !["price"] = h]
  BY DEF PriceNext
<1>2. /\ pc["price"] = "next" /\ pc'["price"] = "wait" /\ goal'["price"] = h
      /\ UNCHANGED <<pos, written, parsed, prices, torn>>
  BY <1>1, ConstantTypes DEF PriceNext, Goto, TypeOK, PlacesOK, LocalsOK, envVars, dbVars, history, priceVars
<1>3. Swaps' = Swaps /\ Priced' = Priced /\ \A g \in Heights : Settled(g)' = Settled(g)
  BY <1>2 DEF Swaps, Active, Priced, Settled
<1> DEFINE least == IF goal["price"] = 0 /\ PriceFrom <= parsed THEN PriceFrom - 1 ELSE goal["price"]
<1>4. /\ h \in Swaps /\ h > least /\ \A g \in Priced : g < h
      /\ \A u \in Swaps : u > least /\ (\A g \in Priced : g < u) => h <= u
  BY <1>1 DEF IsNextHeight, Unpriced
<1>5. PriceFrom \in Nat \ {0} /\ least \in Nat /\ \A u \in Heights : u < PriceFrom => PriceRows[u] = 0
  BY AggregatorAssumption, ConstantTypes, QueryTypes
<1>6. pos["price"] < h
  <2>1. CASE goal["price"] = 0 /\ pos["price"] = 0
    BY <2>1, QueryTypes
  <2>2. CASE \E g \in Priced : pos["price"] <= g
    BY <1>4, <2>2, QueryTypes
  <2>3. CASE goal["price"] = pos["price"] /\ goal["price"] # 0
    BY <1>4, <2>3, QueryTypes
  <2>4. QED
    BY <1>2, <2>1, <2>2, <2>3 DEF PriceWalk
<1>7. ASSUME NEW u \in Swaps, u < h PROVE Settled(u)
  <2>1. u \in Nat /\ h \in Nat /\ u \in Heights /\ Priced \subseteq Nat
    BY QueryTypes
  <2>2. CASE \E g \in Priced : u < g
    BY <2>2 DEF PriceWalk
  <2>3. CASE u \in Priced
    BY <1>2, <2>3 DEF PriceWalk
  <2>4. CASE u <= least /\ goal["price"] = 0 /\ PriceFrom <= parsed
    <3>1. PriceRows[u] = 0
      BY <1>5, <2>1, <2>4
    <3>2. QED
      BY <2>1, <3>1, QueryTypes DEF PriceWalk, Settled
  <2>5. CASE u <= goal["price"]
    <3>1. goal["price"] # 0 /\ goal["price"] \in Nat
      BY <2>1, <2>5, QueryTypes
    <3>2. goal["price"] = pos["price"]
      BY <1>2, <3>1 DEF PriceWalk
    <3>3. QED
      BY <2>5, <3>2 DEF PriceWalk
  <2> HIDE DEF least
  <2>6. u <= least \/ \E g \in Priced : ~(g < u)
    BY <1>4, <1>5, <1>7, <2>1
  <2>7. QED
    BY <2>1, <2>2, <2>3, <2>4, <2>5, <2>6 DEF least
<1>8. prices[h] = 0
  BY <1>4, QueryTypes DEF Priced
<1>9. pc'["price"] = "wait" /\ written = 0
  BY <1>2 DEF PriceWalk
<1>10. \A g \in Priced : g <= h
  BY <1>4, QueryTypes
<1>11. \A g \in Priced : Settled(g)
  BY <1>2 DEF PriceWalk
<1>12. QED
  BY <1>2, <1>3, <1>4, <1>6, <1>7, <1>8, <1>9, <1>10, <1>11, QueryTypes DEF PriceWalk

LEMMA PriceFindsNone ==
    ASSUME TypeOK, PriceWalk, PriceDone
    PROVE  PriceWalk'
<1>1. PICK e \in 0..MaxHeight : IsCurrHeight(e) /\ pos' = [pos EXCEPT !["price"] = e]
  BY DEF PriceDone
<1>2. /\ pc["price"] = "next" /\ pc'["price"] = "idle" /\ pos'["price"] = e /\ goal'["price"] = 0
      /\ written' = 0 /\ UNCHANGED <<parsed, prices, torn>>
  BY <1>1, ConstantTypes DEF PriceDone, Return, TypeOK, PlacesOK, LocalsOK, envVars, dbVars, history
<1>3. e = 0 \/ e \in Priced
  BY <1>1 DEF IsCurrHeight, IsTop
<1>4. Breaking(prices) = {}
  BY <1>2 DEF Breaking
<1>5. \A h \in Swaps : h <= e => Settled(h)
  <2> SUFFICES ASSUME NEW h \in Swaps, h <= e PROVE Settled(h)
    OBVIOUS
  <2>1. e \in Priced /\ e \in Nat /\ h \in Nat
    BY <1>3, QueryTypes, ConstantTypes
  <2>2. CASE h = e
    BY <1>2, <2>1, <2>2 DEF PriceWalk
  <2>3. CASE h < e
    BY <2>1, <2>3 DEF PriceWalk
  <2>4. QED
    BY <2>1, <2>2, <2>3
<1>6. e <= parsed /\ (e = 0 \/ \E g \in Priced : e <= g)
  BY <1>3, QueryTypes, ConstantTypes DEF PriceWalk
<1>7. QED
  BY <1>2, <1>4, <1>5, <1>6, PriceEnds

(* The price task begins, is let through by its parent, and inserts a row. *)
LEMMA PriceAdvances ==
    ASSUME TypeOK, PriceWalk, PriceBegin \/ Reached("price")
    PROVE  PriceWalk'
<1>1. UNCHANGED <<pos, goal, written, parsed, prices, torn>>
  BY DEF PriceBegin, Reached, envVars, dbVars, history, priceVars
<1>2. Swaps' = Swaps /\ Priced' = Priced /\ \A g \in Heights : Settled(g)' = Settled(g)
  BY <1>1 DEF Swaps, Active, Priced, Settled
<1>3. \/ pc["price"] = "idle" /\ pc'["price"] = "next"
      \/ pc["price"] = "wait" /\ pc'["price"] = "run"
  BY ConstantTypes DEF PriceBegin, Reached, Goto, TypeOK, PlacesOK
<1>4. QED
  BY <1>1, <1>2, <1>3, QueryTypes DEF PriceWalk

LEMMA PriceInserts ==
    ASSUME TypeOK, PriceWalk, pc["price"] = "run", written < PriceRows[goal["price"]], InsertPrice,
           parsed' = parsed
    PROVE  LET g == goal["price"]
           IN  /\ g \in Swaps /\ prices'[g] = written + 1 /\ prices'[g] <= PriceRows[g]
               /\ \A h \in Heights \ {g} : prices'[h] = prices[h]
               /\ Swaps' = Swaps /\ Priced' = Priced \cup {g}
               /\ \A h \in Heights : prices'[h] <= PriceRows[h]
<1> DEFINE g == goal["price"]
<1>1. g \in Swaps /\ g \in Heights /\ prices[g] = written
  BY QueryTypes DEF PriceWalk
<1>2. prices'[g] = written + 1 /\ \A h \in Heights \ {g} : prices'[h] = prices[h]
  BY <1>1 DEF InsertPrice, TypeOK, TablesOK
<1>3. Swaps' = Swaps
  BY DEF Swaps, Active
<1>4. Priced' = Priced \cup {g}
  BY <1>1, <1>2, QueryTypes DEF Priced
<1>5. prices'[g] <= PriceRows[g]
  BY <1>1, <1>2, QueryTypes
<1>6. QED
  BY <1>1, <1>2, <1>3, <1>4, <1>5 DEF PriceWalk

LEMMA PriceInsertsMore ==
    ASSUME TypeOK, PriceWalk, PriceWrite
    PROVE  PriceWalk'
<1> DEFINE g == goal["price"]
<1>1. /\ pc["price"] = "run" /\ written < PriceRows[g] /\ InsertPrice /\ written' = written + 1
      /\ UNCHANGED <<pc, pos, goal, parsed, torn>>
  BY DEF PriceWrite, envVars, history
<1>2. /\ g \in Swaps /\ prices'[g] = written + 1
      /\ \A h \in Heights \ {g} : prices'[h] = prices[h]
      /\ Swaps' = Swaps /\ Priced' = Priced \cup {g}
      /\ \A h \in Heights : prices'[h] <= PriceRows[h]
  BY <1>1, PriceInserts
<1>3. pos["price"] < g /\ (\A h \in Swaps : h < g => Settled(h)) /\ (\A h \in Priced : h <= g)
  BY <1>1 DEF PriceWalk
<1>4. \A h \in Heights \ {g} : Settled(h)' = Settled(h)
  BY <1>1, <1>2 DEF Settled
<1>5. \A h \in Swaps : h < g => Settled(h)'
  BY <1>2, <1>3, <1>4, QueryTypes
<1>6. \A h \in Swaps : h <= pos["price"] \/ (\E u \in Priced \cup {g} : h < u) => h < g
  BY <1>2, <1>3, QueryTypes
<1>7. \A h \in Priced \cup {g} : Settled(h)' \/ h = g
  BY <1>1, <1>4, QueryTypes DEF PriceWalk
<1>8. QED
  BY <1>1, <1>2, <1>3, <1>5, <1>6, <1>7, QueryTypes DEF PriceWalk

LEMMA PriceInsertsLast ==
    ASSUME TypeOK, PriceWalk, PriceUnacknowledged
    PROVE  PriceWalk'
<1>0. PICK g : g = goal["price"]
  OBVIOUS
<1>1. /\ pc["price"] = "run" /\ written < PriceRows[g] /\ InsertPrice
      /\ UNCHANGED <<pos, parsed>> /\ torn' = torn \cup Breaking(prices')
      /\ pc'["price"] = "stopped" /\ goal'["price"] = 0 /\ written' = 0
  BY <1>0, ConstantTypes DEF PriceUnacknowledged, ReturnsError, Return, envVars, TypeOK, PlacesOK, LocalsOK
<1>2. /\ g \in Swaps /\ prices'[g] = written + 1 /\ prices'[g] <= PriceRows[g]
      /\ \A h \in Heights \ {g} : prices'[h] = prices[h]
      /\ Swaps' = Swaps /\ Priced' = Priced \cup {g}
      /\ \A h \in Heights : prices'[h] <= PriceRows[h]
  BY <1>0, <1>1, PriceInserts
<1>3. pos["price"] < g /\ (\A h \in Swaps : h < g => Settled(h)) /\ (\A h \in Priced : h <= g)
  BY <1>0, <1>1 DEF PriceWalk
<1>4. \A h \in Heights \ {g} : Settled(h) => Settled(h)'
  BY <1>1, <1>2 DEF Settled
<1>5. Settled(g)'
  <2>1. CASE prices'[g] = PriceRows[g]
    BY <2>1 DEF Settled
  <2>2. CASE prices'[g] < PriceRows[g]
    <3>1. g \in Breaking(prices')
      BY <1>0, <1>1, <1>2, <2>2, QueryTypes DEF Breaking
    <3>2. g \in torn'
      BY <1>1, <3>1
    <3>3. QED
      BY <3>2 DEF Settled
  <2>3. QED
    BY <1>2, <2>1, <2>2, QueryTypes
<1>6. \A h \in Swaps : h <= pos["price"] \/ (\E u \in Priced \cup {g} : h < u) => Settled(h)'
  BY <1>2, <1>3, <1>4, QueryTypes
<1>7. \A h \in Priced \cup {g} : Settled(h)'
  BY <1>0, <1>1, <1>4, <1>5, QueryTypes DEF PriceWalk
<1>8. pos["price"] <= parsed /\ Priced \cup {g} \subseteq Swaps
  BY <1>2 DEF PriceWalk
<1>9. QED
  BY <1>1, <1>2, <1>6, <1>7, <1>8 DEF PriceWalk

LEMMA PriceMovesOn ==
    ASSUME TypeOK, PriceWalk, PriceRan
    PROVE  PriceWalk'
<1>0. PICK g : g = goal["price"]
  OBVIOUS
<1>1. /\ pc["price"] = "run" /\ written = PriceRows[g] /\ pos'["price"] = g /\ written' = 0
      /\ pc'["price"] = "next" /\ UNCHANGED <<goal, parsed, prices, torn>>
  BY <1>0, ConstantTypes DEF PriceRan, Goto, envVars, dbVars, history, TypeOK, PlacesOK, LocalsOK
<1>2. Swaps' = Swaps /\ Priced' = Priced /\ \A h \in Heights : Settled(h)' = Settled(h)
  BY <1>1 DEF Swaps, Active, Priced, Settled
<1>3. /\ g \in Swaps /\ prices[g] = PriceRows[g] /\ (\A h \in Swaps : h < g => Settled(h))
      /\ Swaps \subseteq Nat /\ Priced \subseteq Swaps
      /\ \A h \in Priced : Settled(h) \/ h = g
  BY <1>0, <1>1, QueryTypes DEF PriceWalk
<1>4. Settled(g)
  BY <1>3 DEF Settled
<1>5. \A h \in Swaps : h <= g => Settled(h)
  <2> SUFFICES ASSUME NEW h \in Swaps, h <= g PROVE Settled(h)
    OBVIOUS
  <2>1. CASE h = g
    BY <1>4, <2>1
  <2>2. CASE h # g
    BY <1>3, <2>2
  <2>3. QED
    BY <2>1, <2>2
<1>6. \A h \in Swaps : (\E u \in Priced : h < u) => Settled(h)
  BY DEF PriceWalk
<1>7. g <= parsed /\ \A h \in Priced : Settled(h)
  BY <1>3, <1>4, QueryTypes
<1>8. QED
  BY <1>0, <1>1, <1>2, <1>3, <1>5, <1>6, <1>7, QueryTypes DEF PriceWalk

(* Whoever steps, the walk goes on. *)
LEMMA NextPriceWalk ==
    ASSUME TypeOK, AtRest, PriceWalk, [Next]_vars
    PROVE  PriceWalk'
<1>1. CASE ParserCommits
  BY <1>1, PriceParses
<1>2. CASE Delete
  BY <1>2, PriceDeletes
<1>3. CASE Launch \/ Cleaned \/ Crash \/ Exit
  <2>1. Launch \/ Cleaned => mode # "up"
    BY DEF Launch, Cleaned
  <2>2. /\ pc'["price"] \in {"off", "idle"} /\ goal'["price"] = 0 /\ written' = 0 /\ pos'["price"] = 0
        /\ UNCHANGED <<parsed, prices>>
    <3>1. CASE Launch
      BY <2>1, <3>1, ConstantTypes, PlaceTypes DEF Launch, Forget, BeginTasks, envVars, dbVars, TypeOK, PlacesOK
    <3>2. CASE Cleaned
      <4>1. pos["price"] = 0 /\ goal["price"] = 0 /\ pc["price"] = "off"
        BY <2>1, <3>2, ConstantTypes DEF AtRest, TypeOK, PlacesOK
      <4>2. QED
        BY <3>2, <4>1, ConstantTypes, PlaceTypes DEF Cleaned, BeginTasks, envVars, dbVars, priceVars, PriceWalk
    <3>3. CASE Crash \/ Exit
      BY <3>3, ConstantTypes DEF Crash, Exit, Forget, envVars, dbVars
    <3>4. QED
      BY <1>3, <3>1, <3>2, <3>3
  <2>3. torn \cup Breaking(prices) \subseteq torn'
    <3>1. CASE Crash
      BY <3>1 DEF Crash
    <3>2. CASE pc["price"] # "run" /\ torn' = torn
      BY <3>2 DEF Breaking
    <3>3. Launch \/ Cleaned \/ Exit => pc["price"] # "run" /\ torn' = torn
      BY <2>1, ConstantTypes DEF Launch, Cleaned, Exit, history, TypeOK, PlacesOK
    <3>4. QED
      BY <1>3, <3>1, <3>2, <3>3
  <2>4. QED
    BY <2>2, <2>3, PriceEnds, QueryTypes
<1>4. CASE Stop("price") \/ GivesUp("price") \/ Fails("price")
  <2>1. /\ pc'["price"] = "stopped" /\ UNCHANGED <<parsed, prices, pos>>
        /\ goal'["price"] = 0 /\ written' = 0
    BY <1>4, ConstantTypes DEF Stop, GivesUp, Fails, ReturnsError, Return, envVars, dbVars, priceVars,
       TypeOK, PlacesOK, LocalsOK, PriceWalk
  <2>2. torn \cup Breaking(prices) \subseteq torn'
    BY <1>4 DEF Stop, GivesUp, Fails, Breaking, history
  <2>3. QED
    BY <2>1, <2>2, PriceEnds DEF PriceWalk
<1>5. CASE PriceQuiet /\ UNCHANGED <<prices, torn, parsed>>
  BY <1>5, PriceRests
<1>6. QED
  BY <1>1, <1>2, <1>3, <1>4, <1>5, PriceSteps, PriceTableSteps, ParsedSteps, PriceFindsNext,
     PriceFindsNone, PriceAdvances, PriceInsertsMore, PriceInsertsLast, PriceMovesOn

(***************************************************************************)
(* The liquidity that prices rest on                                       *)
(***************************************************************************)
LEMMA LpTypes ==
    ASSUME TypeOK, LpPrefix
    PROVE  /\ Heights \subseteq Nat \ {0} /\ Active \subseteq Heights /\ lp \subseteq Active
           /\ \A h \in Active : h <= parsed
           /\ parsed \in Nat /\ Priced \subseteq Heights
           /\ pos["lp"] \in Nat /\ goal["lp"] \in Nat /\ pos["price"] \in Nat /\ goal["price"] \in Nat
BY QueryTypes, ConstantTypes DEF TypeOK, LocalsOK, LpPrefix

(* A step that leaves the table and takes no position beyond it. *)
LEMMA LpKeeps ==
    ASSUME LpPrefix, UNCHANGED <<lp, parsed>>,
           LpCovers(pos'["lp"]), pos'["lp"] <= parsed,
           pc'["lp"] = "write" => goal'["lp"] <= parsed,
           pc'["price"] = "run" => LpCovers(goal'["price"]),
           LpCovers(pos'["price"]),
           \A h \in Priced' : h \in Priced \/ LpCovers(h),
           ~CleanDups \/ mode' = "up" \/ (mode' = "clean" /\ deletes' > 1)
              => \A h \in Priced : LpCovers(h)
    PROVE  LpPrefix'
<1>1. Active' = Active
  BY DEF Active
<1>2. \A h \in Priced' : \A g \in Active : g <= h /\ g < StartTs => g \in lp
  BY DEF LpPrefix, LpCovers
<1>3. \A h \in lp : LpCovers(h)
  BY DEF LpPrefix
<1>4. lp \subseteq Active
  BY DEF LpPrefix
<1>5. \A b : (\A g \in Active' : g <= b => g \in lp') <=> LpCovers(b)
  BY <1>1 DEF LpCovers
<1>6. QED
  BY <1>1, <1>2, <1>3, <1>4, <1>5 DEF LpPrefix, LpCovers

LEMMA LpRests ==
    ASSUME LpPrefix, Quiet("lp"), Quiet("price"),
           UNCHANGED <<lp, prices, parsed, mode, deletes>>
    PROVE  LpPrefix'
<1>1. Priced' = Priced
  BY DEF Priced
<1>2. QED
  BY <1>1, LpKeeps DEF Quiet, LpPrefix

LEMMA LpParses ==
    ASSUME TypeOK, PriceWalk, LpPrefix, ParserCommits
    PROVE  LpPrefix'
<1>1. UNCHANGED <<lp, prices, pc, pos, goal, mode, deletes>> /\ parsed' = parsed + 1
  BY DEF ParserCommits, dbVars, procVars
<1>2. Priced' = Priced /\ Active \subseteq Active' /\ \A g \in Active' : g \in Active \/ g = parsed + 1
  BY <1>1, QueryTypes, ConstantTypes DEF Priced, Active
<1>3. ASSUME NEW b \in Nat, b <= parsed, LpCovers(b) PROVE \A g \in Active' : g <= b => g \in lp'
  BY <1>1, <1>2, <1>3, QueryTypes DEF LpCovers
<1>4. \A h \in lp : h \in Nat /\ h <= parsed
  BY LpTypes
<1>5. \A h \in Priced : h \in Nat /\ h <= parsed
  BY QueryTypes DEF PriceWalk
<1>6. pos["price"] <= parsed /\ (pc["price"] = "run" => goal["price"] <= parsed)
  BY QueryTypes DEF PriceWalk
<1>7. \A h \in lp : \A g \in Active' : g <= h => g \in lp'
  BY <1>3, <1>4 DEF LpPrefix
<1>8. \A g \in Active' : g <= pos["lp"] => g \in lp'
  BY <1>3, LpTypes DEF LpPrefix
<1>9. \A g \in Active' : g <= pos["price"] => g \in lp'
  BY <1>3, <1>6, LpTypes DEF LpPrefix
<1>10. pc["price"] = "run" => \A g \in Active' : g <= goal["price"] => g \in lp'
  BY <1>3, <1>6, LpTypes DEF LpPrefix
<1>11. \A h \in Priced : \A g \in Active' : g <= h => g \in Active
  BY <1>2, <1>5, LpTypes
<1>12. pos["lp"] <= parsed' /\ (pc["lp"] = "write" => goal["lp"] <= parsed')
  BY <1>1, LpTypes DEF LpPrefix
<1>13. \A h \in Priced : LpCovers(h) => \A g \in Active' : g <= h => g \in lp'
  BY <1>1, <1>11 DEF LpCovers
<1>14. \A h \in Priced : \A g \in Active' : g <= h /\ g < StartTs => g \in lp'
  BY <1>1, <1>11 DEF LpPrefix
<1>15. lp' \subseteq Active'
  BY <1>1, <1>2 DEF LpPrefix
<1>16. QED
  BY <1>1, <1>2, <1>7, <1>8, <1>9, <1>10, <1>12, <1>13, <1>14, <1>15 DEF LpPrefix, LpCovers

(* A batch goes on where the table ends. *)
LEMMA LpAdds ==
    ASSUME TypeOK, LpPrefix, pc["lp"] = "write", UpdateLpHistory,
           UNCHANGED <<parsed, mode, deletes>>, Quiet("price"),
           pos'["lp"] \in {pos["lp"], goal["lp"]}, pc'["lp"] # "write"
    PROVE  LpPrefix'
<1>1. Active' = Active /\ Priced' = Priced /\ lp \subseteq lp'
      /\ lp' = lp \cup {h \in Active : pos["lp"] < h /\ h <= goal["lp"]}
  BY DEF Active, Priced, UpdateLpHistory
<1>2. \A b : LpCovers(b) => LpCovers(b)'
  BY <1>1 DEF LpCovers
<1>3. LpCovers(pos["lp"]) /\ goal["lp"] <= parsed /\ pos["lp"] <= parsed
  BY DEF LpPrefix
<1>4. \A g \in Active : g <= goal["lp"] => g \in lp'
  BY <1>1, <1>3, LpTypes DEF LpCovers
<1>5. \A h \in lp' : \A g \in Active : g <= h => g \in lp'
  <2> SUFFICES ASSUME NEW h \in lp', NEW g \in Active, g <= h PROVE g \in lp'
    OBVIOUS
  <2>1. CASE h \in lp
    BY <1>1, <2>1 DEF LpPrefix, LpCovers
  <2>2. CASE h \in Active /\ h <= goal["lp"]
    BY <1>4, <2>2, LpTypes
  <2>3. QED
    BY <1>1, <2>1, <2>2
<1>6. \A g \in Active : g <= pos'["lp"] => g \in lp'
  BY <1>1, <1>3, <1>4 DEF LpCovers
<1>7. \A g \in Active : g <= pos["price"] => g \in lp'
  BY <1>1 DEF LpPrefix, LpCovers
<1>8. pc["price"] = "run" => \A g \in Active : g <= goal["price"] => g \in lp'
  BY <1>1 DEF LpPrefix, LpCovers
<1>9. \A h \in Priced : LpCovers(h) => \A g \in Active : g <= h => g \in lp'
  BY <1>1 DEF LpCovers
<1>10. \A h \in Priced : \A g \in Active : g <= h /\ g < StartTs => g \in lp'
  BY <1>1 DEF LpPrefix
<1>11. lp' \subseteq Active' /\ pos'["lp"] <= parsed'
  BY <1>1, <1>3 DEF LpPrefix
<1>12. ~CleanDups \/ mode = "up" \/ (mode = "clean" /\ deletes > 1) => \A h \in Priced : LpCovers(h)
  BY DEF LpPrefix
<1>13. QED
  BY <1>1, <1>5, <1>6, <1>7, <1>8, <1>9, <1>10, <1>11, <1>12 DEF LpPrefix, LpCovers, Quiet

LEMMA LpMoves ==
    ASSUME TypeOK, LpPrefix, Steps("lp")
    PROVE  LpPrefix'
<1> USE ConstantTypes, PlaceTypes DEF Goto, Return, ReturnsError
<1>1. /\ UNCHANGED <<parsed, mode, deletes, prices>> /\ Quiet("price")
  BY OwnSteps
<1>2. Priced' = Priced
  BY <1>1 DEF Priced
<1>3. CASE LpWrite \/ LpUnacknowledged
  <2>1. /\ pc["lp"] = "write" /\ UpdateLpHistory
        /\ pos'["lp"] \in {pos["lp"], goal["lp"]} /\ pc'["lp"] # "write"
    BY <1>3 DEF LpWrite, LpUnacknowledged, TypeOK, PlacesOK, LocalsOK
  <2>2. QED
    BY <1>1, <2>1, LpAdds
<1>4. CASE LpBegin
  <2>1. PICK e \in 0..MaxHeight : IsLastLp(e) /\ pos' = [pos EXCEPT !["lp"] = Latest(@, e)]
    BY <1>4 DEF LpBegin
  <2>2. pos'["lp"] = pos["lp"] \/ pos'["lp"] = e
    BY <2>1 DEF Latest, TypeOK, LocalsOK
  <2>3. LpCovers(e) /\ e <= parsed
    BY <2>1, LpTypes DEF IsLastLp, IsTop, LpPrefix, LpCovers
  <2>4. lp' = lp /\ pc'["lp"] = "read"
    BY <1>4 DEF LpBegin, dbVars, TypeOK, PlacesOK
  <2>5. LpCovers(pos'["lp"]) /\ pos'["lp"] <= parsed
    BY <2>2, <2>3 DEF LpPrefix
  <2>6. QED
    BY <1>1, <1>2, <2>4, <2>5, LpKeeps DEF LpPrefix, Quiet
<1>5. CASE LpRead
  <2>1. lp' = lp /\ pos' = pos /\ goal'["lp"] <= parsed
    BY <1>5, LpTypes DEF LpRead, dbVars, TypeOK, LocalsOK
  <2>2. QED
    BY <1>1, <1>2, <2>1, LpKeeps DEF LpPrefix, Quiet
<1>6. CASE LpDone \/ Stop("lp") \/ Fails("lp")
  <2>1. lp' = lp /\ pos' = pos /\ pc'["lp"] # "write"
    BY <1>6 DEF LpDone, Stop, Fails, dbVars, TypeOK, PlacesOK
  <2>2. QED
    BY <1>1, <1>2, <2>1, LpKeeps DEF LpPrefix, Quiet
<1>7. ~Reached("lp") /\ ~GivesUp("lp")
  BY DEF Reached, GivesUp, TypeOK, PlacesOK, Places
<1>8. QED
  BY <1>3, <1>4, <1>5, <1>6, <1>7 DEF Steps

(* The price task has a block priced only when its liquidity is known.     *)
LEMMA LpAllows ==
    ASSUME TypeOK, PriceWalk, LpPrefix, Steps("price")
    PROVE  LpPrefix'
<1> USE ConstantTypes, PlaceTypes, ParentTypes DEF Goto, Return, ReturnsError
<1>1. /\ UNCHANGED <<parsed, mode, deletes, lp>> /\ Quiet("lp") /\ mode = "up"
  BY OwnSteps DEF TypeOK, PlacesOK
<1>2. (\A h \in Priced : LpCovers(h)) /\ LpCovers(pos["lp"]) /\ pos["lp"] <= parsed
      /\ LpCovers(pos["price"]) /\ (pc["lp"] = "write" => goal["lp"] <= parsed)
  BY <1>1 DEF LpPrefix
<1> SUFFICES /\ pc'["price"] = "run" => LpCovers(goal'["price"])
             /\ LpCovers(pos'["price"])
             /\ \A h \in Priced' : h \in Priced \/ LpCovers(h)
  BY <1>1, <1>2, LpKeeps DEF Quiet
<1>3. pc["price"] = "run" => LpCovers(goal["price"])
  BY DEF LpPrefix
<1>4. CASE PriceBegin \/ PriceNext \/ Stop("price") \/ GivesUp("price") \/ Fails("price")
  BY <1>2, <1>4 DEF PriceBegin, PriceNext, Stop, GivesUp, Fails, dbVars, TypeOK, PlacesOK, Priced
<1>5. CASE PriceDone
  <2>1. PICK e \in 0..MaxHeight : IsCurrHeight(e) /\ pos' = [pos EXCEPT !["price"] = e]
    BY <1>5 DEF PriceDone
  <2>2. LpCovers(e)
    BY <1>2, <2>1, LpTypes DEF IsCurrHeight, IsTop, LpCovers
  <2>3. pos'["price"] = e /\ pc'["price"] = "idle" /\ prices' = prices
    BY <1>5, <2>1 DEF PriceDone, dbVars, TypeOK, PlacesOK, LocalsOK
  <2>4. QED
    BY <2>2, <2>3 DEF Priced
<1>6. CASE PriceWrite \/ PriceUnacknowledged
  <2>1. InsertPrice /\ pos' = pos /\ pc["price"] = "run" /\ goal["price"] \in Heights
        /\ (pc'["price"] = "run" => goal' = goal)
    BY <1>6 DEF PriceWrite, PriceUnacknowledged, TypeOK, PlacesOK, LocalsOK
  <2>2. \A h \in Priced' : h \in Priced \/ h = goal["price"]
    BY <2>1 DEF InsertPrice, Priced, TypeOK, TablesOK
  <2>3. QED
    BY <1>2, <1>3, <2>1, <2>2
<1>7. CASE PriceRan
  BY <1>3, <1>7 DEF PriceRan, dbVars, TypeOK, PlacesOK, LocalsOK, Priced
<1>8. CASE Reached("price")
  <2>1. UNCHANGED <<pos, goal, prices>> /\ goal["price"] <= pos["lp"]
    BY <1>8 DEF Reached, dbVars, TypeOK, LocalsOK
  <2>2. LpCovers(goal["price"])
    BY <1>2, <2>1, LpTypes DEF LpCovers
  <2>3. QED
    BY <1>2, <2>1, <2>2 DEF Priced
<1>9. QED
  BY <1>4, <1>5, <1>6, <1>7, <1>8 DEF Steps

(* Liquidity is deleted from the start on, then the prices that need it. *)
LEMMA LpDeletes ==
    ASSUME TypeOK, AtRest, LpPrefix, Delete
    PROVE  LpPrefix'
<1>1. /\ UNCHANGED <<pc, pos, goal, parsed, mode>> /\ deletes' = deletes + 1 /\ deletes \in 0..4
      /\ mode = "clean" /\ CleanDups
      /\ pc["price"] = "off" /\ pc["lp"] = "off" /\ pos["price"] = 0 /\ pos["lp"] = 0
  BY ConstantTypes DEF Delete, priceVars, envVars, AtRest, TypeOK, PlacesOK, WorldOK
<1>2. \A g \in Active : ~(g <= 0)
  BY LpTypes
<1>3. Active' = Active
  BY <1>1 DEF Active
<1>4. CASE deletes = 0
  <2>1. lp' = lp \ SinceStart /\ prices' = prices
    BY <1>4 DEF Delete
  <2>2. \A h \in lp' : \A g \in Active : g <= h => g \in lp'
    BY <2>1, LpTypes, ConstantTypes DEF LpPrefix, LpCovers, SinceStart
  <2>3. \A h \in Priced : \A g \in Active : g <= h /\ g < StartTs => g \in lp'
    BY <2>1, LpTypes, ConstantTypes DEF LpPrefix, SinceStart
  <2>4. lp' \subseteq Active /\ Priced' = Priced
    BY <2>1 DEF LpPrefix, Priced
  <2>5. deletes' = 1 /\ 0 <= parsed
    BY <1>1, <1>4, LpTypes
  <2>6. \A g \in Active' : g <= 0 => g \in lp'
    BY <1>2, <1>3
  <2>7. QED
    BY <1>1, <1>3, <2>2, <2>3, <2>4, <2>5, <2>6 DEF LpPrefix, LpCovers
<1>5. CASE deletes = 1
  <2>1. lp' = lp /\ Priced' \subseteq Priced /\ \A h \in Priced' : h \in Heights /\ h \notin PricesSince
    BY <1>5 DEF Delete, Erase, Priced, TypeOK, TablesOK
  <2>2. ASSUME NEW h \in Priced' PROVE LpCovers(h)
    BY <2>1, LpTypes, ConstantTypes DEF LpPrefix, LpCovers, PricesSince
  <2>3. LpCovers(0) /\ 0 <= parsed
    BY <1>2, LpTypes DEF LpCovers
  <2>4. lp \subseteq Active /\ \A h \in lp : LpCovers(h)
    BY DEF LpPrefix
  <2>5. \A b : (\A g \in Active' : g <= b => g \in lp') <=> LpCovers(b)
    BY <1>3, <2>1 DEF LpCovers
  <2>6. \A h \in Priced' : \A g \in Active' : g <= h => g \in lp'
    BY <1>3, <2>1, <2>2 DEF LpCovers
  <2>7. QED
    BY <1>1, <1>3, <2>1, <2>3, <2>4, <2>5, <2>6 DEF LpPrefix, LpCovers
<1>6. CASE deletes > 1
  <2>1. lp' = lp /\ prices' = prices
    BY <1>1, <1>6 DEF Delete
  <2>2. Priced' = Priced /\ \A h \in Priced : LpCovers(h)
    BY <1>1, <1>6, <2>1 DEF Priced, LpPrefix
  <2>3. QED
    BY <1>1, <2>1, <2>2, LpKeeps DEF LpPrefix
<1>7. QED
  BY <1>1, <1>4, <1>5, <1>6

LEMMA NextLpPrefix ==
    ASSUME TypeOK, AtRest, PriceWalk, LpPrefix, [Next]_vars
    PROVE  LpPrefix'
<1>1. ASSUME NEW t \in Task, Steps(t) PROVE LpPrefix'
  <2>1. CASE t = "lp"
    BY <1>1, <2>1, LpMoves
  <2>2. CASE t = "price"
    BY <1>1, <2>2, LpAllows
  <2>3. CASE t # "lp" /\ t # "price"
    BY <1>1, <2>3, OwnSteps, ConstantTypes, LpRests
  <2>4. QED
    BY <2>1, <2>2, <2>3
<1>2. CASE Tick \/ Catch \/ Signal \/ UNCHANGED vars
  <2>1. UNCHANGED <<lp, prices, parsed, mode, deletes, pc, pos, goal>>
    BY <1>2 DEF Tick, Catch, Signal, vars, envVars, dbVars, procVars
  <2>2. QED
    BY <2>1, LpRests DEF Quiet
<1>3. CASE Launch \/ Cleaned \/ Crash \/ Exit
  <2>1. UNCHANGED <<lp, prices, parsed>>
    BY <1>3 DEF Launch, Cleaned, Crash, Exit, envVars, dbVars
  <2>2. pos'["lp"] = 0 /\ pos'["price"] = 0
    BY <1>3, ConstantTypes DEF Launch, Cleaned, Crash, Exit, Forget, AtRest
  <2>3. pc'["lp"] \in {"off", "idle"} /\ pc'["price"] \in {"off", "idle"}
    <3>1. Launch => mode # "up"
      BY DEF Launch
    <3>2. QED
      BY <1>3, <3>1, ConstantTypes, PlaceTypes DEF Launch, Cleaned, Crash, Exit, BeginTasks, TypeOK, PlacesOK
  <2>4. LpCovers(0) /\ 0 <= parsed
    BY LpTypes DEF LpCovers
  <2>5. ~CleanDups \/ mode' = "up" \/ (mode' = "clean" /\ deletes' > 1)
           => ~CleanDups \/ (mode = "clean" /\ deletes > 1)
    BY <1>3 DEF Launch, Cleaned, Crash, Exit, Forget
  <2>6. ~CleanDups \/ (mode = "clean" /\ deletes > 1) => \A h \in Priced : LpCovers(h)
    BY DEF LpPrefix
  <2>7. Priced' = Priced
    BY <2>1 DEF Priced
  <2>8. LpCovers(pos'["lp"]) /\ pos'["lp"] <= parsed /\ LpCovers(pos'["price"])
    BY <2>2, <2>4
  <2>9. QED
    BY <2>1, <2>3, <2>5, <2>6, <2>7, <2>8, LpKeeps
<1>4. QED
  BY <1>1, <1>2, <1>3, StepOwners, LpParses, LpDeletes

(***************************************************************************)
(* The recent statistics                                                   *)
(***************************************************************************)
LEMMA RecentTypes ==
    ASSUME TypeOK
    PROVE  /\ pos["recent"] \in 0..MaxHeight /\ goal["recent"] \in 0..MaxHeight
           /\ from \in Nat /\ end \in 0..MaxHeight /\ cut \in Int
           /\ recent \in [Heights -> Nat] /\ Counted \subseteq Active /\ Active \subseteq Heights
           /\ Heights \subseteq Nat \ {0} /\ 0..MaxHeight \subseteq Nat /\ Range \in Nat
           /\ parsed \in Nat /\ now \in 0..MaxHeight /\ parsed <= now /\ \A h \in Active : h <= parsed
<1>1. pos["recent"] \in 0..MaxHeight /\ goal["recent"] \in 0..MaxHeight
         /\ from \in Nat /\ end \in 0..MaxHeight
  BY ConstantTypes DEF TypeOK, LocalsOK
<1>2. recent \in [Heights -> Nat] /\ cut \in Int
  BY DEF TypeOK, TablesOK
<1>3. parsed \in 0..MaxHeight /\ now \in 0..MaxHeight /\ parsed <= now
  BY DEF TypeOK, WorldOK
<1>4. MaxHeight \in Nat /\ Heights = 1..MaxHeight /\ Range \in Nat
  BY ConstantTypes
<1>5. Counted \subseteq Active /\ Active \subseteq Heights /\ \A h \in Active : h <= parsed
  BY DEF Counted, Active
<1>6. Heights \subseteq Nat \ {0} /\ 0..MaxHeight \subseteq Nat
  BY <1>4
<1>7. QED
  BY <1>1, <1>2, <1>3, <1>4, <1>5, <1>6

LEMMA RecentRests ==
    ASSUME RecentWalk, Quiet("recent"), UNCHANGED <<recent, cut, from, end, parsed>>,
           lp \subseteq lp' \/ pc["recent"] # "write"
    PROVE  RecentWalk'
<1>1. Active' = Active /\ Counted' = Counted
  BY DEF Active, Counted
<1>2. pc["recent"] = "write" => \A b : LpCovers(b) => \A g \in Active : g <= b => g \in lp'
  BY DEF LpCovers
<1>3. pc["recent"] = "write" /\ pos["recent"] < goal["recent"]
         => \A g \in Active : g <= goal["recent"] => g \in lp'
  BY <1>2 DEF RecentWalk
<1>4. QED
  BY <1>1, <1>3 DEF RecentWalk, Quiet, LpCovers

(* Execute ends, or the process does: what is in the table stays.          *)
LEMMA RecentEnds ==
    ASSUME RecentWalk, UNCHANGED <<recent, cut, parsed>>,
           pos'["recent"] = 0 \/ (pos'["recent"] = pos["recent"] /\ pc'["recent"] # "idle"),
           pc'["recent"] \in {"off", "idle", "stopped"}, Heights \subseteq Nat \ {0}
    PROVE  RecentWalk'
<1>1. Active' = Active /\ Counted' = Counted /\ Counted \subseteq Heights
  BY DEF Active, Counted
<1>2. \A h \in Counted : ~(h <= 0)
  BY <1>1
<1>3. \A h \in Counted : cut <= h /\ h <= pos'["recent"] => recent[h] = 1
  BY <1>2 DEF RecentWalk
<1>4. pos'["recent"] \in Active \cup {0} /\ (pc'["recent"] = "idle" => ~(pos'["recent"] > 0))
  BY DEF RecentWalk
<1>5. QED
  BY <1>1, <1>3, <1>4 DEF RecentWalk

LEMMA RecentParses ==
    ASSUME TypeOK, RecentWalk, ParserCommits
    PROVE  RecentWalk'
<1>1. UNCHANGED <<lp, recent, cut, from, end, pc, pos, goal>> /\ parsed' = parsed + 1
  BY DEF ParserCommits, dbVars, recentVars, history
<1>2. /\ Active \subseteq Active' /\ \A g \in Active' : g \in Active \/ g = parsed + 1
      /\ Counted \subseteq Counted' /\ \A g \in Counted' : g \in Counted \/ g = parsed + 1
  BY <1>1, RecentTypes DEF Active, Counted
<1>3. pos["recent"] <= parsed
  BY RecentTypes DEF RecentWalk
<1>4. \A h \in Heights : recent[h] <= 1 /\ (recent[h] > 0 => h \in Counted')
  BY <1>2 DEF RecentWalk
<1>5. ASSUME NEW h \in Counted', NEW g \in Heights, recent[g] > 0, cut <= h, h <= g PROVE recent[h] = 1
  <2>1. g \in Counted /\ g <= parsed /\ g \in Nat
    BY <1>5, RecentTypes DEF RecentWalk
  <2>2. h \in Counted
    BY <1>2, <1>5, <2>1, RecentTypes
  <2>3. QED
    BY <1>5, <2>2 DEF RecentWalk
<1>6. \A h \in Counted' : cut <= h /\ h <= pos["recent"] => recent[h] = 1
  BY <1>2, <1>3, RecentTypes DEF RecentWalk
<1>7. pos["recent"] \in Active' \cup {0}
  BY <1>2 DEF RecentWalk
<1>8. pc["recent"] \in {"wait", "write"} =>
          /\ goal["recent"] \in Active' \cup {0} /\ pos["recent"] <= goal["recent"]
          /\ pos["recent"] < from /\ from <= parsed' + 1
          /\ \A h \in Active' : pos["recent"] < h /\ end - Range <= h => from <= h
  BY <1>1, <1>2, RecentTypes DEF RecentWalk
<1>9. pc["recent"] = "write" /\ pos["recent"] < goal["recent"]
         => \A g \in Active' : g <= goal["recent"] => g \in lp'
  BY <1>1, <1>2, RecentTypes DEF RecentWalk, LpCovers
<1>10. QED
  BY <1>1, <1>4, <1>5, <1>6, <1>7, <1>8, <1>9 DEF RecentWalk, LpCovers

LEMMA RecentDeletes ==
    ASSUME TypeOK, AtRest, RecentWalk, Delete
    PROVE  RecentWalk'
<1>1. UNCHANGED <<cut, from, end, pc, pos, goal, parsed>> /\ pc["recent"] = "off" /\ pos["recent"] = 0
  BY ConstantTypes DEF Delete, recentVars, envVars, AtRest, TypeOK, PlacesOK
<1>2. CASE deletes # 2
  BY <1>1, <1>2, RecentRests DEF Delete, Quiet
<1>3. CASE deletes = 2
  <2>1. \A h \in Heights : recent'[h] = IF h >= StartTs THEN 0 ELSE recent[h]
    BY <1>3, RecentTypes DEF Delete, Erase, SinceStart
  <2>2. Counted' = Counted /\ Active' = Active
    BY <1>1 DEF Counted, Active
  <2>3. \A h \in Heights : recent'[h] <= 1 /\ (recent'[h] > 0 => h \in Counted /\ recent[h] > 0 /\ ~(h >= StartTs))
    BY <2>1 DEF RecentWalk
  <2>4. ASSUME NEW h \in Counted, NEW g \in Heights, recent'[g] > 0, cut <= h, h <= g PROVE recent'[h] = 1
    <3>1. recent[g] > 0 /\ ~(g >= StartTs)
      BY <2>3, <2>4
    <3>2. recent[h] = 1
      BY <2>4, <3>1 DEF RecentWalk
    <3>3. ~(h >= StartTs) /\ h \in Heights
      BY <2>4, <3>1, RecentTypes, ConstantTypes
    <3>4. QED
      BY <2>1, <3>2, <3>3
  <2>5. \A h \in Counted : ~(h <= 0)
    BY RecentTypes
  <2>6. QED
    BY <1>1, <2>2, <2>3, <2>4, <2>5 DEF RecentWalk
<1>4. QED
  BY <1>2, <1>3

LEMMA RecentChooses ==
    ASSUME TypeOK, RecentWalk, RecentBegin
    PROVE  RecentWalk'
<1>1. PICK last, start, target \in 0..MaxHeight :
          /\ IF pos["recent"] = 0 THEN IsLastRecent(last) ELSE last = pos["recent"]
          /\ IsHeightOn(start, now - Range)
          /\ IsHeightOn(target, now)
          /\ pos' = [pos EXCEPT !["recent"] = last]
          /\ from' = FromAfter(start, last)
          /\ goal' = [goal EXCEPT !["recent"] = target]
          /\ Goto("recent", IF target > last THEN "wait" ELSE "write")
  BY DEF RecentBegin
<1>2. /\ pc["recent"] = "idle" /\ pos'["recent"] = last /\ goal'["recent"] = target /\ end' = now
      /\ pc'["recent"] = (IF target > last THEN "wait" ELSE "write")
      /\ from' = (IF start <= last THEN last + 1 ELSE start)
      /\ UNCHANGED <<recent, cut, parsed>>
  BY <1>1, ConstantTypes DEF RecentBegin, Goto, FromAfter, TypeOK, PlacesOK, LocalsOK, dbVars, history, envVars
<1>3. Active' = Active /\ Counted' = Counted
  BY <1>2 DEF Active, Counted
<1>4. /\ last \in Active \cup {0} /\ \A g \in Heights : recent[g] > 0 => g <= last
      /\ last = pos["recent"] \/ last = 0 \/ (last \in Heights /\ recent[last] > 0)
  <2>1. CASE pos["recent"] = 0
    <3>1. IsLastRecent(last)
      BY <1>1, <2>1
    <3>2. QED
      BY <3>1, RecentTypes DEF IsLastRecent, IsTop, RecentWalk
  <2>2. CASE pos["recent"] # 0
    BY <1>1, <1>2, <2>2, RecentTypes DEF RecentWalk
  <2>3. QED
    BY <2>1, <2>2
<1>5. \A h \in Counted : cut <= h /\ h <= last => recent[h] = 1
  <2>1. CASE last = 0
    BY <2>1, RecentTypes
  <2>2. CASE last # 0
    BY <1>4, <2>2 DEF RecentWalk
  <2>3. QED
    BY <2>1, <2>2
<1>6. target \in Active \cup {0} /\ \A h \in Active : h <= target
  BY <1>1, RecentTypes DEF IsHeightOn, IsTop
<1>7. start \in Active \cup {0} /\ (start # 0 => start <= now - Range)
  BY <1>1 DEF IsHeightOn, IsTop
<1>8. last \in Nat /\ start \in Nat /\ target \in Nat /\ last <= target /\ last <= parsed /\ start <= parsed
  BY <1>4, <1>6, <1>7, RecentTypes
<1>9. last < from' /\ from' <= parsed + 1
  BY <1>2, <1>8, RecentTypes
<1>10. ASSUME NEW h \in Active, last < h, now - Range <= h PROVE from' <= h
  BY <1>2, <1>7, <1>8, <1>10, RecentTypes
<1>11. pc'["recent"] = "write" => ~(last < target)
  BY <1>2, <1>8
<1>12. \A h \in Heights : recent[h] <= 1 /\ (recent[h] > 0 => h \in Counted)
  BY DEF RecentWalk
<1>13. \A h \in Counted : \A g \in Heights : recent[g] > 0 /\ cut <= h /\ h <= g => recent[h] = 1
  BY DEF RecentWalk
<1>14. QED
  BY <1>2, <1>3, <1>4, <1>5, <1>6, <1>8, <1>9, <1>10, <1>11, <1>12, <1>13 DEF RecentWalk

(* What is written joins what is there without a gap and without overlap. *)
LEMMA RecentAdds ==
    ASSUME TypeOK, RecentWalk, pc["recent"] = "write", UpdatePairStatsRecent, parsed' = parsed,
           pos'["recent"] \in {pos["recent"], goal["recent"]},
           pc'["recent"] = "stopped" \/ (pc'["recent"] = "idle" /\ pos'["recent"] = goal["recent"])
    PROVE  RecentWalk'
<1>1. Active' = Active /\ Counted' = Counted
  BY DEF Active, Counted
<1>2. /\ \A h \in Heights : recent'[h] = IF h < end - Range THEN 0
                                         ELSE IF h \in RecentRows THEN recent[h] + 1 ELSE recent[h]
      /\ cut' = Latest(cut, end - Range)
  BY DEF UpdatePairStatsRecent
<1>3. cut <= cut' /\ end - Range <= cut' /\ cut' \in Int
  BY <1>2, RecentTypes DEF Latest
<1>4. /\ goal["recent"] \in Active \cup {0} /\ pos["recent"] <= goal["recent"] /\ pos["recent"] < from
      /\ \A h \in Active : pos["recent"] < h /\ end - Range <= h => from <= h
      /\ \A g \in Heights : recent[g] > 0 => g <= pos["recent"]
      /\ \A h \in Heights : recent[h] <= 1 /\ (recent[h] > 0 => h \in Counted)
      /\ \A h \in Counted : cut <= h /\ h <= pos["recent"] => recent[h] = 1
      /\ pos["recent"] < goal["recent"] => LpCovers(goal["recent"])
      /\ pos["recent"] \in Active \cup {0}
  BY DEF RecentWalk
<1>5. ASSUME NEW h \in RecentRows
      PROVE  h \in Heights /\ h \in Counted /\ pos["recent"] < h /\ h <= goal["recent"] /\ recent[h] = 0
  <2>1. h \in Heights /\ h \in Counted /\ from <= h /\ h <= goal["recent"]
    BY RecentTypes DEF RecentRows
  <2>2. pos["recent"] < h
    BY <1>4, <2>1, RecentTypes
  <2>3. QED
    BY <1>4, <2>1, <2>2, RecentTypes
<1>6. ASSUME NEW h \in Heights
      PROVE  recent'[h] <= 1 /\ (recent'[h] > 0 => h \in Counted /\ h <= goal["recent"])
  <2>1. CASE h \in RecentRows
    BY <1>2, <1>5, <2>1
  <2>2. CASE h \notin RecentRows
    BY <1>2, <1>4, <2>2, RecentTypes
  <2>3. QED
    BY <2>1, <2>2
<1>7. ASSUME NEW h \in Counted, cut' <= h, h <= goal["recent"] PROVE recent'[h] = 1
  <2>1. h \in Heights /\ h \in Active /\ cut <= h /\ end - Range <= h /\ ~(h < end - Range)
    BY <1>3, <1>7, RecentTypes
  <2>2. CASE h <= pos["recent"]
    <3>1. recent[h] = 1
      BY <1>4, <2>1, <2>2
    <3>2. h \notin RecentRows
      BY <1>5, <3>1
    <3>3. QED
      BY <1>2, <2>1, <3>1, <3>2
  <2>3. CASE pos["recent"] < h
    <3>1. from <= h /\ pos["recent"] < goal["recent"]
      BY <1>4, <1>7, <2>1, <2>3, RecentTypes
    <3>2. h \in lp
      BY <1>4, <1>7, <2>1, <3>1 DEF LpCovers
    <3>3. h \in RecentRows
      BY <1>7, <3>1, <3>2 DEF RecentRows
    <3>4. QED
      BY <1>2, <1>5, <2>1, <3>3
  <2>4. QED
    BY <2>1, <2>2, <2>3, RecentTypes
<1>8. ASSUME NEW h \in Counted, NEW g \in Heights, recent'[g] > 0, cut' <= h, h <= g PROVE recent'[h] = 1
  <2>1. h <= goal["recent"]
    BY <1>6, <1>8, RecentTypes
  <2>2. QED
    BY <1>7, <1>8, <2>1
<1>9. ASSUME NEW h \in Counted, cut' <= h, h <= pos'["recent"] PROVE recent'[h] = 1
  <2>1. h <= goal["recent"]
    BY <1>4, <1>9, RecentTypes
  <2>2. QED
    BY <1>7, <1>9, <2>1
<1>10. pos'["recent"] \in Active \cup {0}
  BY <1>4
<1>11. QED
  BY <1>1, <1>6, <1>8, <1>9, <1>10 DEF RecentWalk

LEMMA RecentMoves ==
    ASSUME TypeOK, LpPrefix, RecentWalk, Steps("recent")
    PROVE  RecentWalk'
<1> USE ConstantTypes, PlaceTypes, ParentTypes DEF Goto, Return, ReturnsError
<1>1. parsed' = parsed /\ lp' = lp
  BY OwnSteps
<1>2. CASE RecentBegin
  BY <1>2, RecentChooses
<1>3. CASE RecentWrite \/ RecentUnacknowledged
  <2>1. /\ pc["recent"] = "write" /\ UpdatePairStatsRecent
        /\ pos'["recent"] \in {pos["recent"], goal["recent"]}
        /\ pc'["recent"] = "stopped" \/ (pc'["recent"] = "idle" /\ pos'["recent"] = goal["recent"])
    BY <1>3 DEF RecentWrite, RecentUnacknowledged, TypeOK, PlacesOK, LocalsOK
  <2>2. QED
    BY <1>1, <2>1, RecentAdds
<1>4. CASE GivesUp("recent") \/ Stop("recent") \/ Fails("recent")
  <2>1. UNCHANGED <<recent, cut>> /\ pos' = pos /\ pc'["recent"] = "stopped"
    BY <1>4 DEF GivesUp, Stop, Fails, dbVars, history, TypeOK, PlacesOK
  <2>2. QED
    BY <1>1, <2>1, RecentEnds, RecentTypes
<1>5. CASE Reached("recent")
  <2>1. /\ UNCHANGED <<recent, cut, from, end, pos, goal>> /\ goal["recent"] <= pos["price"]
        /\ pc["recent"] = "wait" /\ pc'["recent"] = "write"
    BY <1>5 DEF Reached, dbVars, history, recentVars, TypeOK, PlacesOK, LocalsOK
  <2>2. LpCovers(goal["recent"])
    <3>1. LpCovers(pos["price"]) /\ pos["price"] \in Nat /\ goal["recent"] \in Nat
      BY LpTypes, RecentTypes DEF LpPrefix
    <3>2. \A g \in Active : g \in Nat
      BY QueryTypes
    <3>3. QED
      BY <2>1, <3>1, <3>2 DEF LpCovers
  <2>3. Active' = Active /\ Counted' = Counted /\ (LpCovers(goal["recent"]) => LpCovers(goal["recent"])')
    <3>1. Active' = Active
      BY <1>1 DEF Active
    <3>2. Counted' = Counted
      BY <1>1, <2>1, <3>1 DEF Counted
    <3>3. LpCovers(goal["recent"]) => LpCovers(goal["recent"])'
      BY <1>1, <2>1, <3>1 DEF LpCovers
    <3>4. QED
      BY <3>1, <3>2, <3>3
  <2>4. QED
    BY <1>1, <2>1, <2>2, <2>3 DEF RecentWalk
<1>6. QED
  BY <1>2, <1>3, <1>4, <1>5 DEF Steps

LEMMA NextRecentWalk ==
    ASSUME TypeOK, AtRest, LpPrefix, RecentWalk, [Next]_vars
    PROVE  RecentWalk'
<1>1. ASSUME NEW t \in Task, Steps(t), t # "recent" PROVE RecentWalk'
  <2>1. UNCHANGED <<recent, cut, from, end, parsed>> /\ Quiet("recent") /\ (t # "lp" => lp' = lp)
    BY <1>1, OwnSteps, ConstantTypes
  <2>2. CASE t = "lp"
    <3>1. lp \subseteq lp'
      BY <1>1, <2>2, PlaceTypes DEF Steps, LpBegin, LpRead, LpDone, LpWrite, LpUnacknowledged, UpdateLpHistory,
         Reached, GivesUp, Stop, Fails, dbVars
    <3>2. QED
      BY <2>1, <3>1, RecentRests
  <2>3. QED
    BY <2>1, <2>2, RecentRests
<1>2. CASE Tick \/ Catch \/ Signal \/ UNCHANGED vars
  <2>1. UNCHANGED <<lp, recent, cut, from, end, parsed, pc, pos, goal>>
    BY <1>2 DEF Tick, Catch, Signal, vars, envVars, dbVars, recentVars, history
  <2>2. QED
    BY <2>1, RecentRests DEF Quiet
<1>3. CASE Launch \/ Cleaned \/ Crash \/ Exit
  <2>1. UNCHANGED <<recent, cut, parsed>> /\ pos'["recent"] = 0
    BY <1>3, ConstantTypes DEF Launch, Cleaned, Crash, Exit, Forget, AtRest, envVars, dbVars, history
  <2>2. pc'["recent"] \in {"off", "idle"}
    <3>1. Launch => mode # "up"
      BY DEF Launch
    <3>2. QED
      BY <1>3, <3>1, ConstantTypes, PlaceTypes DEF Launch, Cleaned, Crash, Exit, BeginTasks, TypeOK, PlacesOK
  <2>3. QED
    BY <2>1, <2>2, RecentEnds, RecentTypes
<1>4. "recent" \in Task
  BY ConstantTypes
<1>5. QED
  BY <1>1, <1>2, <1>3, <1>4, StepOwners, RecentMoves, RecentParses, RecentDeletes

(***************************************************************************)
(* The windows                                                             *)
(***************************************************************************)
WindowFresh(t) ==
    /\ \A k \in Windows : stats[t][k] <= 1
    /\ pc[t] \in {"due", "idle", "wait", "write"} => \A k \in Windows : k >= win[t] => stats[t][k] = 0
    /\ (pc[t] = "init" /\ StartTs > 0) \/ (mode = "clean" /\ deletes > DeletedBy(t))
          => \A k \in WindowsSince : stats[t][k] = 0

LEMMA WindowTypes ==
    ASSUME TypeOK
    PROVE  /\ stats \in [WindowTask -> [Windows -> Nat]] /\ win \in [WindowTask -> Nat]
           /\ Windows \subseteq Nat /\ WindowTask \subseteq Task /\ deletes \in 0..5
           /\ WindowsSince = {k \in Windows : k >= FirstWindow(StartTs)}
           /\ \A t \in WindowTask : DeletedBy(t) \in {3, 4}
           /\ WindowTask \cap {"lp", "price", "recent"} = {}
BY ConstantTypes DEF TypeOK, TablesOK, LocalsOK, WorldOK, Windows, WindowsSince, DeletedBy

LEMMA WindowRests ==
    ASSUME NEW t \in WindowTask, WindowFresh(t),
           stats'[t] = stats[t], win'[t] = win[t], pc'[t] = pc[t], UNCHANGED <<mode, deletes>>
    PROVE  WindowFresh(t)'
BY DEF WindowFresh, WindowsSince, FirstWindow

(* An end keeps what is stored; the beginning of a deletion promises nothing yet. *)
LEMMA WindowEnds ==
    ASSUME TypeOK, NEW t \in WindowTask, WindowFresh(t),
           stats'[t] = stats[t], pc'[t] \in {"off", "stopped"}, mode' # "clean" \/ deletes' = 0
    PROVE  WindowFresh(t)'
BY WindowTypes DEF WindowFresh, WindowsSince, FirstWindow

LEMMA WindowDeletes ==
    ASSUME TypeOK, NEW t \in WindowTask, WindowFresh(t), Delete
    PROVE  WindowFresh(t)'
<1>1. /\ UNCHANGED <<mode, pc, win>> /\ deletes' = deletes + 1 /\ mode = "clean" /\ pc[t] = "off"
      /\ stats'[t] = IF deletes = DeletedBy(t) THEN Erase(stats[t], WindowsSince) ELSE stats[t]
  BY WindowTypes DEF Delete, winVars, TypeOK, PlacesOK
<1>2. CASE deletes = DeletedBy(t)
  <2>1. \A k \in Windows : stats'[t][k] = IF k \in WindowsSince THEN 0 ELSE stats[t][k]
    BY <1>1, <1>2, WindowTypes DEF Erase
  <2>2. WindowsSince \subseteq Windows /\ WindowsSince' = WindowsSince
    BY WindowTypes DEF WindowsSince, FirstWindow
  <2>3. QED
    BY <1>1, <2>1, <2>2, WindowTypes DEF WindowFresh
<1>3. CASE deletes # DeletedBy(t)
  <2>1. deletes' > DeletedBy(t) => deletes > DeletedBy(t)
    BY <1>1, <1>3, WindowTypes
  <2>2. QED
    BY <1>1, <1>3, <2>1 DEF WindowFresh, WindowsSince, FirstWindow
<1>4. QED
  BY <1>2, <1>3

(* The first window lies beyond everything stored. *)
LEMMA WindowStarts ==
    ASSUME TypeOK, NEW t \in WindowTask, WindowFresh(t), WindowInit(t)
    PROVE  WindowFresh(t)'
<1>1. PICK k \in 1..(MaxHeight + StartTs + 1) : IsStart(t, k) /\ win' = [win EXCEPT ![t] = k]
  BY DEF WindowInit
<1>2. /\ pc[t] = "init" /\ pc'[t] = "due" /\ win'[t] = k /\ stats' = stats
      /\ mode' = mode /\ deletes' = deletes /\ mode = "up"
  BY <1>1, WindowTypes DEF WindowInit, Goto, dbVars, procVars, TypeOK, PlacesOK
<1>3. \A l \in Windows : l >= k => stats[t][l] = 0
  <2>1. CASE StartTs > 0
    <3>1. k = FirstWindow(StartTs)
      BY <1>1, <2>1 DEF IsStart
    <3>2. QED
      BY <1>2, <2>1, <3>1, WindowTypes DEF WindowFresh
  <2>2. CASE ~(StartTs > 0)
    <3>1. \/ \E last \in Windows : /\ \A l \in Windows : stats[t][l] > 0 => l <= last
                                   /\ k = last + 1
          \/ \A l \in Windows : stats[t][l] = 0
      BY <1>1, <2>2 DEF IsStart
    <3>2. QED
      BY <3>1, WindowTypes
  <2>3. QED
    BY <2>1, <2>2
<1>4. QED
  BY <1>2, <1>3 DEF WindowFresh

LEMMA WindowStores ==
    ASSUME TypeOK, NEW t \in WindowTask, WindowFresh(t), WindowWrite(t) \/ WindowUnacknowledged(t)
    PROVE  WindowFresh(t)'
<1> DEFINE f == stats[t]
<1>1. /\ pc[t] = "write" /\ mode' = "up" /\ pc'[t] \in {"due", "idle", "stopped"}
      /\ pc'[t] # "stopped" => win'[t] = win[t] + 1
      /\ UpdateStats(t)
  BY WindowTypes DEF WindowWrite, WindowUnacknowledged, Return, ReturnsError, procVars, TypeOK, PlacesOK
<1>2. /\ f \in [Windows -> Nat] /\ \A k \in Windows : f[k] <= 1 /\ (k >= win[t] => f[k] = 0)
      /\ win[t] \in Nat
  BY <1>1, WindowTypes DEF WindowFresh
<1>3. \/ stats'[t] = f
      \/ stats'[t] = [f EXCEPT ![win[t]] = f[win[t]] + 1]
      \/ stats'[t] = [f EXCEPT ![win[t]] = 1]
  BY <1>1, WindowTypes DEF UpdateStats
<1> HIDE DEF f
<1>4. \A k \in Windows : stats'[t][k] <= 1 /\ (k >= win[t] + 1 => stats'[t][k] = 0)
  <2>1. \A k \in Windows : \/ stats'[t][k] = f[k]
                           \/ k = win[t] /\ stats'[t][k] \in {f[win[t]] + 1, 1}
    BY <1>2, <1>3
  <2>2. QED
    BY <1>2, <2>1, WindowTypes
<1>5. pc'[t] \notin {"init", "off"}
  BY <1>1
<1>6. QED
  BY <1>1, <1>4, <1>5 DEF WindowFresh

LEMMA WindowMoves ==
    ASSUME TypeOK, NEW t \in WindowTask, WindowFresh(t), Steps(t)
    PROVE  WindowFresh(t)'
<1>1. UNCHANGED <<mode, deletes>> /\ mode = "up"
  BY OwnSteps, WindowTypes DEF TypeOK, PlacesOK
<1>2. CASE WindowInit(t)
  BY <1>2, WindowStarts
<1>3. CASE WindowWrite(t) \/ WindowUnacknowledged(t)
  BY <1>3, WindowStores
<1>4. CASE WindowCaughtUp(t) \/ WindowBegin(t) \/ Reached(t)
  <2>1. stats' = stats /\ win' = win /\ pc[t] \in {"due", "idle", "wait"} /\ pc'[t] \in {"idle", "wait", "write"}
    BY <1>4, WindowTypes DEF WindowCaughtUp, WindowBegin, Reached, Goto, dbVars, winVars, TypeOK, PlacesOK
  <2>2. QED
    BY <1>1, <2>1 DEF WindowFresh
<1>5. CASE GivesUp(t) \/ Stop(t) \/ Fails(t)
  <2>1. stats' = stats /\ pc'[t] = "stopped"
    BY <1>5, WindowTypes DEF GivesUp, Stop, Fails, ReturnsError, Return, dbVars, TypeOK, PlacesOK
  <2>2. QED
    BY <1>1, <2>1, WindowEnds
<1>6. t # "lp" /\ t # "price" /\ t # "recent"
  BY WindowTypes
<1>7. QED
  BY <1>2, <1>3, <1>4, <1>5, <1>6 DEF Steps

LEMMA NextWindowWalk ==
    ASSUME TypeOK, WindowWalk, [Next]_vars
    PROVE  WindowWalk'
<1> SUFFICES ASSUME StartTs = 0 \/ CleanDups, NEW t \in WindowTask PROVE WindowFresh(t)'
  BY DEF WindowWalk, WindowFresh
<1>1. WindowFresh(t) /\ t \in Task
  BY WindowTypes DEF WindowWalk, WindowFresh
<1>2. CASE Steps(t)
  BY <1>1, <1>2, WindowMoves
<1>3. ASSUME NEW u \in Task, u # t, Steps(u) PROVE WindowFresh(t)'
  BY <1>1, <1>3, OwnSteps, WindowRests DEF Quiet
<1>4. CASE Tick \/ ParserCommits \/ Catch \/ Signal \/ UNCHANGED vars
  <2>1. UNCHANGED <<stats, win, pc, mode, deletes>>
    BY <1>4 DEF Tick, ParserCommits, Catch, Signal, vars, dbVars, winVars, procVars
  <2>2. QED
    BY <1>1, <2>1, WindowRests
<1>5. CASE Delete
  BY <1>1, <1>5, WindowDeletes
<1>6. CASE Crash \/ Exit
  <2>1. stats' = stats /\ pc'[t] = "off" /\ mode' = "down"
    BY <1>1, <1>6 DEF Crash, Exit, dbVars
  <2>2. QED
    BY <1>1, <2>1, WindowEnds
<1>7. CASE Launch
  <2>1. stats' = stats /\ mode = "down" /\ deletes' = 0 /\ pc[t] = "off"
    BY <1>1, <1>7 DEF Launch, Forget, dbVars, TypeOK, PlacesOK
  <2>2. CASE CleanDups
    BY <1>1, <1>7, <2>1, <2>2, WindowEnds DEF Launch
  <2>3. CASE ~CleanDups
    <3>1. StartTs = 0 /\ mode' = "up" /\ pc'[t] = "init"
      BY <1>1, <1>7, <2>3 DEF Launch, BeginTasks
    <3>2. QED
      BY <1>1, <2>1, <3>1 DEF WindowFresh
  <2>4. QED
    BY <2>2, <2>3
<1>8. CASE Cleaned
  <2>1. stats' = stats /\ mode = "clean" /\ deletes = 5 /\ mode' = "up" /\ pc'[t] = "init"
    BY <1>1, <1>8 DEF Cleaned, BeginTasks, dbVars
  <2>2. \A k \in WindowsSince : stats[t][k] = 0
    BY <1>1, <2>1, WindowTypes DEF WindowFresh
  <2>3. QED
    BY <1>1, <2>1, <2>2 DEF WindowFresh, WindowsSince, FirstWindow
<1>9. QED
  BY <1>2, <1>3, <1>4, <1>5, <1>6, <1>7, <1>8, StepOwners

(***************************************************************************)
(* What the windows waited for                                             *)
(***************************************************************************)
LEMMA SettledStays ==
    ASSUME TypeOK, PriceWalk, mode = "up", [Next]_vars, NEW h \in Heights, Settled(h)
    PROVE  Settled(h)'
<1>1. CASE UNCHANGED <<prices, torn>>
  BY <1>1 DEF Settled
<1>2. CASE Crash \/ Fails("price")
  <2>1. prices' = prices /\ torn \subseteq torn'
    BY <1>2 DEF Crash, Fails, dbVars
  <2>2. QED
    BY <2>1 DEF Settled
<1>3. CASE PriceWrite \/ PriceUnacknowledged
  <2>1. /\ pc["price"] = "run" /\ written < PriceRows[goal["price"]] /\ InsertPrice /\ parsed' = parsed
        /\ torn \subseteq torn'
    BY <1>3 DEF PriceWrite, PriceUnacknowledged, envVars, history
  <2>2. \A g \in Heights \ {goal["price"]} : prices'[g] = prices[g]
    BY <2>1, PriceInserts
  <2>3. prices[goal["price"]] # PriceRows[goal["price"]]
    BY <2>1, QueryTypes DEF PriceWalk
  <2>4. QED
    BY <2>1, <2>2, <2>3 DEF Settled
<1>4. ~Delete
  BY DEF Delete
<1>5. QED
  BY <1>1, <1>2, <1>3, <1>4, PriceTableSteps

LEMMA NextWaitedFor ==
    ASSUME TypeOK, AtRest, PriceWalk, WaitedFor, [Next]_vars
    PROVE  WaitedFor'
<1> SUFFICES ASSUME NEW t \in WindowTask
             PROVE  /\ goal'[t] <= parsed'
                    /\ pc'[t] = "write" => \A h \in Swaps' : h <= goal'[t] => Settled(h)'
  BY DEF WaitedFor
<1>1. /\ goal[t] <= parsed /\ goal[t] \in 0..MaxHeight /\ t \in Task
      /\ pc[t] = "write" => \A h \in Swaps : h <= goal[t] => Settled(h)
  BY WindowTypes DEF WaitedFor, TypeOK, LocalsOK
<1>2. parsed \in Nat /\ parsed' \in Nat /\ parsed <= parsed'
  BY ParsedGrows
<1>3. ASSUME NEW h \in Swaps', h <= goal[t] PROVE h \in Swaps /\ h \in Heights
  BY <1>1, <1>2, <1>3, ConstantTypes DEF Swaps, Active
<1>4. mode = "up" => \A h \in Heights : Settled(h) => Settled(h)'
  BY SettledStays
<1>5. CASE pc'[t] = pc[t] /\ goal'[t] = goal[t]
  <2>1. goal'[t] <= parsed'
    BY <1>1, <1>2, <1>5, ConstantTypes
  <2>2. pc[t] = "write" => mode = "up"
    BY <1>1 DEF TypeOK, PlacesOK
  <2>3. QED
    BY <1>1, <1>3, <1>4, <1>5, <2>1, <2>2
<1>6. CASE goal'[t] = 0 /\ pc'[t] # "write"
  BY <1>2, <1>6
<1>7. CASE Steps(t)
  <2> USE WindowTypes DEF Goto, Return, ReturnsError
  <2>1. CASE WindowBegin(t)
    <3>1. PICK e \in 0..MaxHeight : IsHeightOn(e, win[t] * Window) /\ goal' = [goal EXCEPT ![t] = e]
      BY <2>1 DEF WindowBegin
    <3>2. e \in Active \cup {0}
      BY <3>1 DEF IsHeightOn, IsTop
    <3>3. goal'[t] = e /\ e <= parsed /\ parsed' = parsed /\ pc'[t] = "wait"
      <4>1. goal'[t] = e
        BY <1>1, <3>1 DEF TypeOK, LocalsOK
      <4>2. e <= parsed
        BY <1>2, <3>2, QueryTypes, ConstantTypes
      <4>3. parsed' = parsed
        BY <2>1 DEF WindowBegin, envVars
      <4>4. pc'[t] = "wait"
        BY <1>1, <2>1 DEF WindowBegin, TypeOK, PlacesOK
      <4>5. QED
        BY <4>1, <4>2, <4>3, <4>4
    <3>4. QED
      BY <3>3
  <2>2. CASE Reached(t)
    <3>1. goal' = goal /\ goal[t] <= pos["price"] /\ UNCHANGED <<parsed, prices, torn>>
      BY <2>2, ParentTypes, ConstantTypes DEF Reached, envVars, dbVars, history, TypeOK, LocalsOK
    <3>2. \A h \in Swaps : h <= goal[t] => h <= pos["price"]
      BY <1>1, <3>1, QueryTypes, ConstantTypes
    <3>3. \A h \in Swaps : h <= goal[t] => Settled(h)
      BY <3>2 DEF PriceWalk
    <3>4. QED
      BY <1>1, <1>3, <3>1, <3>3 DEF Settled
  <2>3. CASE WindowWrite(t) \/ WindowUnacknowledged(t) \/ GivesUp(t) \/ Fails(t)
    BY <1>1, <1>6, <2>3 DEF WindowWrite, WindowUnacknowledged, GivesUp, Fails, TypeOK, PlacesOK, LocalsOK
  <2>4. CASE WindowInit(t) \/ WindowCaughtUp(t) \/ Stop(t)
    <3>1. goal' = goal /\ pc'[t] # "write" /\ parsed' = parsed
      BY <1>1, <2>4 DEF WindowInit, WindowCaughtUp, Stop, TypeOK, PlacesOK, envVars
    <3>2. QED
      BY <1>1, <3>1
  <2>5. QED
    BY <1>7, <2>1, <2>2, <2>3, <2>4 DEF Steps
<1>8. ASSUME NEW u \in Task, u # t, Steps(u) PROVE pc'[t] = pc[t] /\ goal'[t] = goal[t]
  BY <1>1, <1>8, OwnSteps DEF Quiet
<1>9. Tick \/ ParserCommits \/ Delete \/ Catch \/ Signal \/ UNCHANGED vars => UNCHANGED <<pc, goal>>
  BY DEF Tick, ParserCommits, Delete, Catch, Signal, vars
<1>10. CASE Launch \/ Cleaned \/ Crash \/ Exit
  <2>1. goal'[t] = 0
    BY <1>1, <1>10 DEF Launch, Cleaned, Crash, Exit, Forget, AtRest
  <2>2. pc'[t] # "write"
    <3>1. Launch => mode # "up"
      BY DEF Launch
    <3>2. QED
      BY <1>1, <1>10, <3>1 DEF Launch, Cleaned, Crash, Exit, BeginTasks, TypeOK, PlacesOK
  <2>3. QED
    BY <1>6, <2>1, <2>2
<1>11. QED
  BY <1>5, <1>7, <1>8, <1>9, <1>10, StepOwners

(***************************************************************************)
(* Results                                                                 *)
(***************************************************************************)
LEMMA InitIInv == Init => IInv
<1> SUFFICES ASSUME Init PROVE IInv
  OBVIOUS
<1> USE ConstantTypes DEF Init
<1>1. TypeOK
  BY InitTypes
<1>2. Active = {} /\ Swaps = {} /\ Counted = {} /\ Priced = {} /\ WindowTask \subseteq Task
  BY DEF Active, Swaps, Counted, Priced
<1>3. AtRest
  BY DEF AtRest
<1>4. PriceWalk
  BY <1>2 DEF PriceWalk
<1>5. LpPrefix
  BY <1>2 DEF LpPrefix, LpCovers
<1>6. RecentWalk
  BY <1>2 DEF RecentWalk
<1>7. WindowWalk
  BY <1>2 DEF WindowWalk, WindowsSince
<1>8. WaitedFor
  BY <1>2 DEF WaitedFor
<1>9. QED
  BY <1>1, <1>3, <1>4, <1>5, <1>6, <1>7, <1>8 DEF IInv

LEMMA NextIInv ==
    ASSUME IInv, [Next]_vars
    PROVE  IInv'
BY NextTypes, NextAtRest, NextPriceWalk, NextLpPrefix, NextRecentWalk, NextWindowWalk, NextWaitedFor
   DEF IInv

(* What every step keeps holds in every reachable state. *)
THEOREM AggregatorInvariant == Spec => []IInv
BY InitIInv, NextIInv, PTL DEF Spec

(* No swap behind the position of the price task, or below a priced one,   *)
(* lacks a price, and none is priced twice, over any number of restarts.   *)
THEOREM AggregatorPrices == Spec => []PricesAreComplete
<1>1. IInv => PricesAreComplete
  BY DEF IInv, PriceWalk, PricesAreComplete
<1>2. QED
  BY <1>1, AggregatorInvariant, PTL

(* While the tasks run, the liquidity below every price is known.          *)
THEOREM AggregatorLiquidity == Spec => []LiquidityBeforePrice
<1>1. IInv => LiquidityBeforePrice
  BY DEF IInv, LpPrefix, LpCovers, LiquidityBeforePrice
<1>2. QED
  BY <1>1, AggregatorInvariant, PTL

(* The recent statistics hold every row of their range exactly once.       *)
THEOREM AggregatorRecent == Spec => []RecentExact
<1>1. IInv => RecentExact
  BY DEF IInv, RecentWalk, RecentExact
<1>2. QED
  BY <1>1, AggregatorInvariant, PTL

(* A window is stored at most once when the table says where to go on, or  *)
(* what is done again has been deleted.                                    *)
THEOREM AggregatorWindows == Spec => []WindowsOnce
<1>1. IInv => WindowsOnce
  BY DEF IInv, WindowWalk, WindowsOnce
<1>2. QED
  BY <1>1, AggregatorInvariant, PTL

(* Statistics of a window are only stored on prices that are there.        *)
THEOREM AggregatorPriced == Spec => StatsArePriced
<1> DEFINE Waits(t) == (\E k \in Windows : stats'[t][k] > stats[t][k])
                          => \A h \in Swaps : h <= goal[t] => Settled(h)
           A == \A t \in WindowTask : Waits(t)
<1>1. ASSUME IInv, [Next]_vars PROVE [A]_vars
  <2> SUFFICES ASSUME NEW t \in WindowTask, NEW k \in Windows, stats'[t][k] > stats[t][k]
               PROVE  \A h \in Swaps : h <= goal[t] => Settled(h)
    OBVIOUS
  <2>0. TypeOK /\ WaitedFor /\ [Next]_vars
    BY <1>1 DEF IInv
  <2>1. stats[t][k] \in Nat /\ t \in Task /\ ~(stats[t][k] > stats[t][k])
    BY <2>0, WindowTypes
  <2>2. stats'[t] # stats[t]
    BY <2>1
  <2>3. ASSUME NEW u \in Task, Steps(u) PROVE u = t
    BY <2>0, <2>2, <2>3, OwnSteps
  <2>4. ~Tick /\ ~ParserCommits /\ ~Launch /\ ~Cleaned /\ ~Crash /\ ~Exit /\ ~Catch /\ ~Signal /\ stats' # stats
    BY <2>2 DEF Tick, ParserCommits, Launch, Cleaned, Crash, Exit, Catch, Signal, dbVars
  <2>5. ~Delete
    <3> SUFFICES ASSUME Delete PROVE FALSE
      OBVIOUS
    <3>1. stats'[t] = stats[t] \/ stats'[t] = Erase(stats[t], WindowsSince)
      BY DEF Delete
    <3>2. stats'[t][k] = 0 \/ stats'[t][k] = stats[t][k]
      BY <2>0, <3>1, WindowTypes DEF Erase
    <3>3. QED
      BY <2>1, <3>2
  <2>6. Steps(t)
    BY <2>0, <2>3, <2>4, <2>5, StepOwners DEF vars, dbVars
  <2>7. pc[t] = "write"
    BY <2>0, <2>4, <2>6, WindowTypes DEF Steps, WindowInit, WindowCaughtUp, WindowBegin, WindowWrite,
       WindowUnacknowledged, Reached, GivesUp, Stop, Fails, dbVars
  <2>8. QED
    BY <2>0, <2>7 DEF WaitedFor
<1>2. QED
  BY <1>1, AggregatorInvariant, PTL DEF Spec, StatsArePriced
=============================================================================
