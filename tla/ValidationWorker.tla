--------------------------- MODULE ValidationWorker ---------------------------
(***************************************************************************)
(* Pool validation in parser/dex/dex.go: the main thread of Run commits    *)
(* heights and signals a worker goroutine, which validates the persisted   *)
(* cursor (synced_height.validation_height) up to the signalled height.    *)
(*                                                                         *)
(* The two threads share latestValidationSyncedHeight under validationMu,  *)
(* the channel validationSignal of capacity one, and the cursor in the     *)
(* database under no lock at all.  One action is one critical section, one *)
(* channel operation or one database call.  What Run does with a height is *)
(* the module ParserRun; here a height commits or fails as a whole.        *)
(***************************************************************************)
EXTENDS Integers, FiniteSets

CONSTANTS
    Pair,                 \* pair contracts
    Token,                \* the cw20 tokens of the pairs
    TokenOf,              \* TokenOf[p]: the token of pair p that may levy a tax
    CreatedAt,            \* CreatedAt[p]: the height that creates pair p
    MaxHeight,            \* bound: the last height of the chain
    Interval,             \* validationInterval; 0 would switch validation off
    Modulus,              \* one more than the largest height a uint64 holds
    SameHeightTolerance,  \* sameHeightTolerance
    TaxedAt,              \* TaxedAt[h]: pairs whose token levies a tax in block h,
                          \* so that their rows differ from the chain from then on
    HeldAt,               \* HeldAt[h]: pairs with a transaction of h in quarantine
    MaxFaults             \* bound: transient failures and crashes in a behaviour

ASSUME ValidationAssumption ==
    /\ MaxHeight \in Nat
    /\ Interval \in Nat \ {0}
    /\ Modulus \in Nat /\ MaxHeight < Modulus /\ Interval < Modulus
    /\ SameHeightTolerance \in Nat
    /\ TaxedAt \in [1..MaxHeight -> SUBSET Pair]
    /\ HeldAt \in [1..MaxHeight -> SUBSET Pair]
    /\ TokenOf \in [Pair -> Token]
    /\ CreatedAt \in [Pair -> Nat \ {0}]
    /\ \A h \in 1..MaxHeight : \A p \in TaxedAt[h] \cup HeldAt[h] : CreatedAt[p] <= h
    /\ MaxFaults \in Nat

VARIABLES
    \* the database
    synced,      \* synced_height.height
    cursor,      \* synced_height.validation_height, 0 while it is NULL
    held,        \* pending quarantines: <<height, pair>>
    exempt,      \* the table pair_validation_exception
    \* shared by the threads of the process
    latest,      \* latestValidationSyncedHeight
    signal,      \* whether validationSignal holds a wakeup
    flagged,     \* flaggedAssets of the target app
    \* the main thread
    mpc,         \* where it is
    local,       \* the height it signals
    triggered,   \* whether the signal is one of triggerValidation
    src,         \* srcHeight
    lastSrc,     \* lastSrcHeight
    sameCount,   \* sameHeightCount
    \* the worker
    wpc,         \* where it is
    wSynced,     \* syncedHeight of processPendingValidations
    wHeight,     \* the height it validates
    wDiffer,     \* pairs it found to differ and has not decided about
    wFailed,     \* whether a mismatch is left that nothing excuses
    \* history and surroundings
    passed,      \* heights for which validateAtHeight returned true
    tip,         \* the height of the source
    faults       \* transient failures so far

dbVars   == <<synced, cursor, held, exempt>>
chanVars == <<latest, signal>>
mainVars == <<mpc, local, triggered, src, lastSrc, sameCount>>
workVars == <<wpc, wSynced, wHeight, wDiffer, wFailed>>
vars     == <<dbVars, chanVars, flagged, mainVars, workVars, passed, tip, faults>>

IsValidationHeight(h) == h > 0 /\ h % Interval = 0

(* The pairs the node lists at height h.  Without any, validate returns    *)
(* before it reads the rows; there is nothing to mismatch then.            *)
Expected(h) == {p \in Pair : CreatedAt[p] <= h}

(* Pairs of the node without a parsed row: their creation is held, and     *)
(* what no pair filter holds yet is not parsed.                            *)
Missing(h) == {p \in Expected(h) : <<CreatedAt[p], p>> \in held}

(* Pairs whose parsed pool differs from the node's at height h, the        *)
(* missing ones among them.                                                *)
Mismatched(h) ==
    {p \in Expected(h) : \E x \in 1..h : \/ x <= synced /\ p \in TaxedAt[x]
                                         \/ <<x, p>> \in held}

(* The tokens that parsing the transactions of height h flags. *)
TaxesOf(h) == {TokenOf[p] : p \in TaxedAt[h]}

Fault == faults < MaxFaults /\ faults' = faults + 1

Init ==
    /\ synced = 0 /\ cursor = 0 /\ held = {} /\ exempt = {}
    /\ latest = 0 /\ signal = FALSE /\ flagged = {}
    /\ mpc = "down" /\ local = 0 /\ triggered = FALSE /\ src = 0
    /\ lastSrc = 0 /\ sameCount = 0
    /\ wpc = "off" /\ wSynced = 0 /\ wHeight = 0 /\ wDiffer = {} /\ wFailed = FALSE
    /\ passed = {} /\ tip = 0 /\ faults = 0

-----------------------------------------------------------------------------
(* The process and its surroundings *)

ChainGrows ==
    /\ tip < MaxHeight
    /\ tip' = tip + 1
    /\ UNCHANGED <<dbVars, chanVars, flagged, mainVars, workVars, passed, faults>>

Start ==
    /\ mpc = "down"
    /\ mpc' = "idle"
    /\ UNCHANGED <<dbVars, chanVars, flagged, local, triggered, src, lastSrc, sameCount,
                   workVars, passed, tip, faults>>

(* Everything in memory is lost: the wakeup, the height it was for, the    *)
(* flagged assets.                                                         *)
Crash ==
    /\ mpc # "down"
    /\ Fault
    /\ latest' = 0 /\ signal' = FALSE /\ flagged' = {}
    /\ mpc' = "down" /\ local' = 0 /\ triggered' = FALSE /\ src' = 0
    /\ lastSrc' = 0 /\ sameCount' = 0
    /\ wpc' = "off" /\ wSynced' = 0 /\ wHeight' = 0 /\ wDiffer' = {} /\ wFailed' = FALSE
    /\ UNCHANGED <<dbVars, passed, tip>>

(* The quarantine replay at the start of Run stores a held transaction. *)
ReplayResolves(q) ==
    /\ mpc = "idle"
    /\ q \in held
    /\ held' = held \ {q}
    /\ UNCHANGED <<synced, cursor, exempt, chanVars, flagged, mainVars, workVars, passed, tip,
                   faults>>

-----------------------------------------------------------------------------
(* The main thread *)

SameHeightCount ==
    IF tip # lastSrc THEN 0
    ELSE IF sameCount > SameHeightTolerance THEN sameCount
    ELSE sameCount + 1

(* Run leaves before it signals anything. *)
NoNewHeight ==
    /\ mpc = "idle"
    /\ SameHeightCount > SameHeightTolerance
    /\ sameCount' = SameHeightCount
    /\ UNCHANGED <<dbVars, chanVars, flagged, mpc, local, triggered, src, lastSrc, workVars,
                   passed, tip, faults>>

(* Mutant: only boundaries wake the worker up. *)
BeginRunWithoutSignal ==
    /\ mpc = "idle"
    /\ SameHeightCount <= SameHeightTolerance
    /\ sameCount' = SameHeightCount
    /\ src' = tip
    /\ local' = synced
    /\ triggered' = FALSE
    /\ mpc' = IF IsValidationHeight(synced) THEN "get" ELSE "loop"
    /\ UNCHANGED <<dbVars, chanVars, flagged, lastSrc, workVars, passed, tip, faults>>

(* Run has its heights and calls signalValidation(localSynced). *)
BeginRun ==
    /\ mpc = "idle"
    /\ SameHeightCount <= SameHeightTolerance
    /\ sameCount' = SameHeightCount
    /\ src' = tip
    /\ local' = synced
    /\ triggered' = FALSE
    /\ mpc' = "record"
    /\ UNCHANGED <<dbVars, chanVars, flagged, lastSrc, workVars, passed, tip, faults>>

(* signalValidation starts the worker once and records the height, under   *)
(* the mutex.                                                              *)
Record ==
    /\ mpc = "record"
    /\ latest' = IF local > latest THEN local ELSE latest
    /\ wpc' = IF wpc = "off" THEN "done" ELSE wpc
    /\ mpc' = "send"
    /\ UNCHANGED <<dbVars, signal, flagged, local, triggered, src, lastSrc, sameCount, wSynced,
                   wHeight, wDiffer, wFailed, passed, tip, faults>>

(* Mutant: the wakeup is only sent when the worker already waits for it. *)
SendToWaiting ==
    /\ mpc = "send"
    /\ signal' = (signal \/ wpc = "wait")
    /\ mpc' = IF ~triggered /\ IsValidationHeight(local) THEN "get" ELSE "loop"
    /\ UNCHANGED <<dbVars, latest, flagged, local, triggered, src, lastSrc, sameCount, workVars,
                   passed, tip, faults>>

(* ... and sends a wakeup unless one is in the channel already.  The Run   *)
(* that starts on an interval boundary goes on with triggerValidation.     *)
Send ==
    /\ mpc = "send"
    /\ signal' = TRUE
    /\ mpc' = IF ~triggered /\ IsValidationHeight(local) THEN "get" ELSE "loop"
    /\ UNCHANGED <<dbVars, latest, flagged, local, triggered, src, lastSrc, sameCount, workVars,
                   passed, tip, faults>>

(* Mutant: the cursor is moved to every boundary that is reached. *)
GetCursorAlwaysSets ==
    /\ mpc = "get"
    /\ triggered' = TRUE
    /\ mpc' = "set"
    /\ UNCHANGED <<dbVars, chanVars, flagged, local, src, lastSrc, sameCount, workVars, passed,
                   tip, faults>>

(* triggerValidation(local): only a missing cursor is set. *)
GetCursor ==
    /\ mpc = "get"
    /\ triggered' = TRUE
    /\ mpc' = IF cursor = 0 THEN "set" ELSE "record"
    /\ UNCHANGED <<dbVars, chanVars, flagged, local, src, lastSrc, sameCount, workVars, passed,
                   tip, faults>>

SetCursor ==
    /\ mpc = "set"
    /\ cursor' = local
    /\ mpc' = "record"
    /\ UNCHANGED <<synced, held, exempt, chanVars, flagged, local, triggered, src, lastSrc,
                   sameCount, workVars, passed, tip, faults>>

(* The cursor could not be read or written: logged, and Run goes on. *)
TriggerFails ==
    /\ mpc \in {"get", "set"}
    /\ Fault
    /\ cursor' \in (IF mpc = "set" THEN {cursor, local} ELSE {cursor})
    /\ mpc' = "loop"
    /\ UNCHANGED <<synced, held, exempt, chanVars, flagged, local, triggered, src, lastSrc,
                   sameCount, workVars, passed, tip>>

(* The next height is parsed and committed; a boundary triggers.  Taxed    *)
(* transfers flag their token while they are parsed.                       *)
CommitHeight ==
    /\ mpc = "loop"
    /\ synced < src
    /\ synced' = synced + 1
    /\ held' = held \cup {<<synced', p>> : p \in HeldAt[synced']}
    /\ flagged' = flagged \cup TaxesOf(synced')
    /\ local' = synced'
    /\ mpc' = IF IsValidationHeight(synced') THEN "get" ELSE "loop"
    /\ UNCHANGED <<cursor, exempt, chanVars, triggered, src, lastSrc, sameCount, workVars, passed,
                   tip, faults>>

(* Run fails on the height, having parsed it or not. *)
HeightFails ==
    /\ mpc = "loop"
    /\ synced < src
    /\ Fault
    /\ flagged' \in {flagged, flagged \cup TaxesOf(synced + 1)}
    /\ mpc' = "idle"
    /\ UNCHANGED <<dbVars, chanVars, local, triggered, src, lastSrc, sameCount, workVars, passed,
                   tip>>

RunDone ==
    /\ mpc = "loop"
    /\ synced = src
    /\ lastSrc' = src
    /\ mpc' = "idle"
    /\ UNCHANGED <<dbVars, chanVars, flagged, local, triggered, src, sameCount, workVars, passed,
                   tip, faults>>

-----------------------------------------------------------------------------
(* The worker *)

(* It reaches the receive from the channel. *)
Park ==
    /\ wpc = "done"
    /\ wpc' = "wait"
    /\ UNCHANGED <<dbVars, chanVars, flagged, mainVars, wSynced, wHeight, wDiffer, wFailed,
                   passed, tip, faults>>

WakeUp ==
    /\ wpc = "wait"
    /\ signal
    /\ signal' = FALSE
    /\ wpc' = "take"
    /\ UNCHANGED <<dbVars, latest, flagged, mainVars, wSynced, wHeight, wDiffer, wFailed,
                   passed, tip, faults>>

(* The recorded height is taken, and reset, under the mutex. *)
Take ==
    /\ wpc = "take"
    /\ wSynced' = latest
    /\ latest' = 0
    /\ wpc' = IF latest = 0 THEN "done" ELSE "cursor"
    /\ UNCHANGED <<dbVars, signal, flagged, mainVars, wHeight, wDiffer, wFailed, passed, tip, faults>>

(* processPendingValidations: the cursor is due. *)
ReadCursor ==
    /\ wpc = "cursor"
    /\ wHeight' = cursor
    /\ wpc' = IF cursor = 0 \/ cursor > wSynced THEN "more" ELSE "validate"
    /\ UNCHANGED <<dbVars, chanVars, flagged, mainVars, wSynced, wDiffer, wFailed, passed, tip, faults>>

(* Mutant: pairs of the node that were never parsed are not looked for. *)
ReadPoolsOfRowsOnly ==
    /\ wpc = "validate"
    /\ wDiffer' = Mismatched(wHeight) \ (exempt \cup Missing(wHeight))
    /\ wFailed' = FALSE
    /\ wpc' = "compare"
    /\ UNCHANGED <<dbVars, chanVars, flagged, mainVars, wSynced, wHeight, passed, tip, faults>>

(* The pools of the node, the sums of the rows and the exempted pairs are  *)
(* read.  Of these only the rows may change meanwhile: the node answers    *)
(* for a height, and exemptions are written by the worker alone.  A pair   *)
(* without any row is a mismatch that no flagged token excuses.            *)
ReadPools ==
    /\ wpc = "validate"
    /\ wDiffer' = Mismatched(wHeight) \ (exempt \cup Missing(wHeight))
    /\ wFailed' = (Missing(wHeight) \ exempt # {})
    /\ wpc' = "compare"
    /\ UNCHANGED <<dbVars, chanVars, flagged, mainVars, wSynced, wHeight, passed, tip, faults>>

(* A pair that differs is exempted for good, in a transaction of its own,  *)
(* if its token is flagged by now; otherwise the validation fails.         *)
ComparePair(p) ==
    /\ wpc = "compare"
    /\ p \in wDiffer
    /\ wDiffer' = wDiffer \ {p}
    /\ exempt' = IF TokenOf[p] \in flagged THEN exempt \cup {p} ELSE exempt
    /\ wFailed' = (wFailed \/ TokenOf[p] \notin flagged)
    /\ UNCHANGED <<synced, cursor, held, chanVars, flagged, mainVars, wpc, wSynced, wHeight,
                   passed, tip, faults>>

(* All pairs are compared: validateAtHeight returns. *)
Conclude ==
    /\ wpc = "compare"
    /\ wDiffer = {}
    /\ passed' = IF wFailed THEN passed ELSE passed \cup {wHeight}
    /\ wpc' = IF wFailed THEN "more" ELSE "advance"
    /\ wFailed' = FALSE
    /\ UNCHANGED <<dbVars, chanVars, flagged, mainVars, wSynced, wHeight, wDiffer, tip, faults>>

(* Mutant: the next boundary is counted from the height of the wakeup. *)
AdvanceFromSynced ==
    LET next == (wSynced + Interval) % Modulus
    IN  /\ wpc = "advance"
        /\ cursor' = IF next <= wHeight THEN 0 ELSE next
        /\ wpc' = IF next <= wHeight THEN "more" ELSE "cursor"
        /\ UNCHANGED <<synced, held, exempt, chanVars, flagged, mainVars, wSynced, wHeight, wDiffer,
                       wFailed, passed, tip, faults>>

(* The cursor moves by one interval; a sum that overflows clears it. *)
Advance ==
    LET next == (wHeight + Interval) % Modulus
    IN  /\ wpc = "advance"
        /\ cursor' = IF next <= wHeight THEN 0 ELSE next
        /\ wpc' = IF next <= wHeight THEN "more" ELSE "cursor"
        /\ UNCHANGED <<synced, held, exempt, chanVars, flagged, mainVars, wSynced, wHeight, wDiffer,
                       wFailed, passed, tip, faults>>

(* A call of the worker fails: the node's pools, a query, the exemption of *)
(* a pair, the cursor -- written or not.                                   *)
WorkerFails ==
    LET excusable == {p \in wDiffer : TokenOf[p] \in flagged}
    IN  /\ wpc \in {"cursor", "validate", "advance"} \/ (wpc = "compare" /\ excusable # {})
        /\ Fault
        /\ exempt' \in {exempt} \cup {exempt \cup {p} : p \in excusable}
        /\ cursor' \in (IF wpc = "advance" /\ wHeight + Interval < Modulus
                        THEN {cursor, wHeight + Interval}
                        ELSE IF wpc = "advance" THEN {cursor, 0} ELSE {cursor})
        /\ wpc' = "more" /\ wDiffer' = {} /\ wFailed' = FALSE
        /\ UNCHANGED <<synced, held, chanVars, flagged, mainVars, wSynced, wHeight, passed, tip>>

(* Anything recorded meanwhile is processed without another wakeup. *)
More ==
    /\ wpc = "more"
    /\ wpc' = IF latest > 0 THEN "take" ELSE "done"
    /\ UNCHANGED <<dbVars, chanVars, flagged, mainVars, wSynced, wHeight, wDiffer, wFailed,
                   passed, tip, faults>>

-----------------------------------------------------------------------------
Main   == NoNewHeight \/ BeginRun \/ Record \/ Send \/ GetCursor \/ SetCursor \/ CommitHeight \/ RunDone
Worker ==
    \/ Park \/ WakeUp \/ Take \/ ReadCursor \/ ReadPools \/ Conclude \/ Advance \/ More
    \/ \E p \in Pair : ComparePair(p)
Faults == Crash \/ TriggerFails \/ HeightFails \/ WorkerFails

Next ==
    \/ Start \/ Main \/ Worker \/ Faults \/ ChainGrows
    \/ \E q \in held : ReplayResolves(q)

Spec == Init /\ [][Next]_vars

(* Both threads are scheduled, the supervisor restarts the process, the    *)
(* chain grows.                                                            *)
FairSpec ==
    /\ Spec
    /\ WF_vars(Start) /\ WF_vars(Main) /\ WF_vars(Worker) /\ WF_vars(ChainGrows)

-----------------------------------------------------------------------------
(* Properties *)

MainAt   == {"down", "idle", "record", "send", "get", "set", "loop"}
WorkerAt == {"off", "done", "wait", "take", "cursor", "validate", "compare", "advance", "more"}

(* The type of the state: among it, that the cursor is always a boundary   *)
(* and that the sum that moves it never wraps.                             *)
TypeOK ==
    /\ synced \in 0..MaxHeight
    /\ cursor \in 0..(Modulus - 1) /\ cursor % Interval = 0
    /\ held \subseteq (1..MaxHeight) \X Pair
    /\ exempt \subseteq Pair /\ flagged \subseteq Token
    /\ latest \in 0..MaxHeight
    /\ signal \in BOOLEAN /\ triggered \in BOOLEAN
    /\ mpc \in MainAt /\ wpc \in WorkerAt
    /\ local \in 0..MaxHeight /\ src \in 0..MaxHeight /\ lastSrc \in 0..MaxHeight
    /\ sameCount \in 0..SameHeightTolerance + 1
    /\ wSynced \in 0..MaxHeight
    /\ wHeight \in 0..(Modulus - 1)
    /\ wDiffer \subseteq Pair /\ wFailed \in BOOLEAN
    /\ passed \subseteq 1..MaxHeight
    /\ tip \in 0..MaxHeight
    /\ faults \in 0..MaxFaults

(* A height that was recorded for validation never sleeps: a wakeup is in  *)
(* the channel or about to be sent, or the worker is on its way to look.   *)
NoLostWakeup ==
    latest > 0 => signal \/ mpc = "send" \/ wpc \notin {"off", "done", "wait"}

(* Once set, the cursor only moves from a height that was validated, to    *)
(* the next boundary, whatever the two threads and crashes do to it.       *)
CursorFollowsValidation ==
    [][cursor' # cursor /\ cursor # 0 =>
           cursor \in passed /\ cursor' \in {0, cursor + Interval}]_vars

(* A height is validated against complete data, although heights and       *)
(* replays commit while its pairs are compared: later steps never change   *)
(* the rows it was validated with for the worse, and no exemption hides a  *)
(* pair that was not parsed at all.                                        *)
PassedStaysCorrect ==
    \A b \in passed :
        b <= synced /\ Mismatched(b) \subseteq exempt /\ Missing(b) = {}

(* Every boundary reached is validated if nothing fails and nothing below  *)
(* it was held: the wakeup of a height may be shared with another one's    *)
(* but not be lost.                                                        *)
Boundaries == {b \in 1..MaxHeight : IsValidationHeight(b)}
EveryBoundaryIsValidated ==
    \A b \in Boundaries : (\A x \in 1..b : HeldAt[x] = {}) =>
        (synced >= b) ~> (b \in passed \/ faults > 0)

(* A validation that failed is retried: if the data below the boundary are *)
(* complete, and a new height arrives after the last failure, the boundary *)
(* is validated.                                                           *)
FailedValidationIsRetried ==
    \A b \in Boundaries :
        (/\ synced >= b /\ cursor \in 1..b
         /\ Mismatched(b) \subseteq exempt
         /\ faults = MaxFaults /\ tip < MaxHeight) ~> (b \in passed)

(* The inductive invariant behind the safety properties: neither thread's  *)
(* copy of the cursor is ever stale, although no lock protects it, and     *)
(* neither is what the worker has read of the rows.                        *)
CursorsAgree ==
    /\ mpc = "set" => cursor = 0
    /\ mpc \in {"get", "set"} => IsValidationHeight(local)
    /\ wpc \in {"validate", "compare", "advance"} => cursor # 0 /\ wHeight = cursor /\ wHeight <= wSynced
    /\ wpc = "advance" => wHeight \in passed
    /\ local <= synced /\ latest <= synced /\ wSynced <= synced
    /\ src <= tip /\ synced <= tip
    /\ mpc \notin {"down", "idle"} => synced <= src

RowsAgree ==
    /\ wpc = "compare" /\ ~wFailed =>
           Mismatched(wHeight) \subseteq exempt \cup wDiffer /\ Missing(wHeight) = {}
    /\ \A p \in exempt \cup wDiffer :
           CreatedAt[p] <= synced /\ <<CreatedAt[p], p>> \notin held

ThreadsAgree == CursorsAgree /\ RowsAgree

IInv == TypeOK /\ NoLostWakeup /\ PassedStaysCorrect /\ ThreadsAgree

(* "to avoid skipping validation error" (parser/dex/dex.go:122): no        *)
(* boundary is passed by the cursor without a validation.                  *)
NoBoundaryIsSkipped == \A b \in Boundaries : b < cursor => b \in passed

(* "restarts continue from the next unresolved validation height"          *)
(* (parser/dex/dex.go:459): a process that restarts validates the boundary *)
(* the cursor waits at, if every mismatch below it is a tax that the       *)
(* parser has seen.                                                        *)
RestartContinuesValidation ==
    \A b \in Boundaries :
        (mpc = "down" /\ synced >= b /\ cursor \in 1..b /\ held = {}) ~> (b \in passed)
=============================================================================
