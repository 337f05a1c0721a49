------------------------------ MODULE ParserRun ------------------------------
(***************************************************************************)
(* The parser process: the main loop of cmd/parser/dex/main.go, the Run    *)
(* method of parser/dex/dex.go with its quarantine replay, the database    *)
(* transactions of parser/dex/repo/repository.go it calls, and the source  *)
(* store of parser/dex/srcstore/collector_datastore.go it reads.           *)
(*                                                                         *)
(* One action is one stretch of Run between two database transactions or   *)
(* source reads, so that a crash, a failed or an unacknowledged            *)
(* transaction can fall between any two of them.  What a transaction's     *)
(* events contain is abstracted to the outcome of ParseTxs and to the pair *)
(* it creates or uses.  The validation worker that Run signals keeps its   *)
(* own column (validation_height) and is the module ValidationWorker.      *)
(***************************************************************************)
EXTENDS Integers, FiniteSets

CONSTANTS
    Tx,                   \* raw transactions of the chain, named by hash
    Pair,                 \* pair contracts
    NoPair,               \* not a pair
    MaxHeight,            \* bound: the last height the chain reaches
    Height,               \* Height[t]: the block that contains t
    Position,             \* Position[t]: the place of t in its block
    Creates,              \* Creates[t]: the pair t creates, or NoPair
    Uses,                 \* Uses[t]: the pair whose action t logs, or NoPair
    MaxBuild,             \* bound: parser builds are deployed in order 1..MaxBuild
    Outcome,              \* Outcome[t][b][x]: what ParseTxs of build b makes of t;
                          \* x tells whether t's token is a registered exception
    Registrable,          \* transactions whose failure a token exception can cure
    RetryMode,            \* RetryMode[b]: quarantineretrymode, deployed with build b
    SameHeightTolerance,  \* sameheighttolerance
    ErrTolerance,         \* errtolerance
    SnapshotInterval,     \* poolsnapshotinterval
    MaxFaults             \* bound: transient failures and crashes in a behaviour

Outcomes == {"parsed", "ambiguous", "partial", "error"}

ASSUME ChainAssumption ==
    /\ MaxHeight \in Nat
    /\ Height \in [Tx -> 1..MaxHeight]
    /\ Position \in [Tx -> Nat]
    /\ \A t, u \in Tx : Height[t] = Height[u] /\ Position[t] = Position[u] => t = u

ASSUME PairAssumption ==
    /\ NoPair \notin Pair
    /\ Creates \in [Tx -> Pair \cup {NoPair}]
    /\ Uses \in [Tx -> Pair \cup {NoPair}]
    /\ \A t, u \in Tx : Creates[t] = Creates[u] /\ Creates[t] # NoPair => t = u

ASSUME ParserAssumption ==
    /\ MaxBuild \in Nat \ {0}
    /\ Outcome \in [Tx -> [1..MaxBuild -> [BOOLEAN -> Outcomes]]]
    /\ Registrable \subseteq Tx

ASSUME ConfigAssumption ==
    /\ RetryMode \in [1..MaxBuild -> {"disabled", "startup", "every_run"}]
    /\ SameHeightTolerance \in Nat
    /\ ErrTolerance \in Nat
    /\ SnapshotInterval \in Nat \ {0}
    /\ MaxFaults \in Nat

VARIABLES
    \* the database
    synced,      \* synced_height.height
    copies,      \* copies[t]: how many times rows of t were inserted in parsed_tx
    form,        \* form[t]: how t's use of its pair is recorded in those rows
    quarantine,  \* quarantine[t]: its parse_quarantine row
    dbPairs,     \* the table pair
    snapshots,   \* the heights with rows in pool_info
    exceptions,  \* transactions whose token is in token_parse_exception
    \* the process
    pc,          \* where the process is
    build,       \* the build that runs
    pairs,       \* the map pairs of the target app
    lastSrc,     \* lastSrcHeight
    sameCount,   \* sameHeightCount
    retried,     \* startupRetryAttempted
    errCount,    \* errCount of the main loop
    \* the locals of one call of Run
    excepted,    \* tokenExceptions, read when Run starts
    todo,        \* pending quarantines still to replay
    cur,         \* the height being parsed
    src,         \* srcHeight
    filter,      \* the pairs in the rule finders built by UpdateParsers(cur)
    \* the source
    tip,         \* the height of the chain
    collected,   \* collector_synced_heights.height, 0 while it has no row
    faults       \* transient failures so far

dbVars    == <<synced, copies, form, quarantine, dbPairs, snapshots>>
appVars   == <<build, pairs, lastSrc, sameCount, retried>>
locals    == <<excepted, todo, cur, src, filter>>
envVars   == <<exceptions, tip, collected>>
vars      == <<dbVars, appVars, locals, envVars, pc, errCount, faults>>

-----------------------------------------------------------------------------
(* The chain and what the parser makes of it *)

Block(h)      == {t \in Tx : Height[t] = h}
Before(t, u)  == Height[t] < Height[u] \/ (Height[t] = Height[u] /\ Position[t] < Position[u])
Created(S)    == {Creates[t] : t \in S} \ {NoPair}
ContainsCreatePair(t) == Creates[t] # NoPair

(* A contract acts in the transaction that creates it or later. *)
ASSUME CausalityAssumption ==
    \A t, u \in Tx : Uses[t] = Creates[u] /\ Uses[t] # NoPair => ~Before(t, u)

(* The outcome of ParseTxs in this process, this Run. *)
Result(t) == Outcome[t][build][(t \in excepted)]

IsAmbiguous(t) == Result(t) \in {"ambiguous", "partial"}

(* ParseTxs fails the whole Run: an error that is no ambiguity, or an      *)
(* ambiguity in a transaction that creates a pair.                         *)
Blocking(t) == Result(t) = "error" \/ (IsAmbiguous(t) /\ ContainsCreatePair(t))

(* Pair actions are found with the filter built when the height started,   *)
(* transfers with the live map, which already has the pairs created        *)
(* earlier in the block or by the transaction itself.                      *)
Known(t) == filter \cup Created({u \in Block(Height[t]) : ~Before(t, u)})
RecordedAs(t, found, known) ==
    IF Uses[t] = NoPair THEN "plain"
    ELSE IF Uses[t] \in found THEN "action"
    ELSE IF Uses[t] \in known THEN "transfer"
    ELSE "nothing"

Forms == {"none", "plain", "action", "transfer", "nothing"}

-----------------------------------------------------------------------------
Init ==
    /\ synced = 0
    /\ copies = [t \in Tx |-> 0]
    /\ form = [t \in Tx |-> "none"]
    /\ quarantine = [t \in Tx |-> "none"]
    /\ dbPairs = {}
    /\ snapshots = {}
    /\ exceptions = {}
    /\ pc = "down"
    /\ build = 1
    /\ pairs = {}
    /\ lastSrc = 0 /\ sameCount = 0 /\ retried = FALSE /\ errCount = 0
    /\ excepted = {} /\ todo = {} /\ cur = 0 /\ src = 0 /\ filter = {}
    /\ tip = 0 /\ collected = 0 /\ faults = 0

-----------------------------------------------------------------------------
(* The source *)

ChainGrows ==
    /\ tip < MaxHeight
    /\ tip' = tip + 1
    /\ UNCHANGED <<dbVars, appVars, locals, exceptions, collected, pc, errCount, faults>>

(* A collector started at any height saves it; later it saves the next.    *)
CollectorSaves ==
    /\ \E h \in 1..tip :
          /\ collected = 0 \/ h = collected + 1
          /\ collected' = h
    /\ UNCHANGED <<dbVars, appVars, locals, exceptions, tip, pc, errCount, faults>>

(* The collector's height wins over the node's as soon as it has a row.    *)
SourceHeight == IF collected > 0 THEN collected ELSE tip

(* An operator adds a token to token_parse_exception. *)
RegisterException(t) ==
    /\ t \in Registrable \ exceptions
    /\ exceptions' = exceptions \cup {t}
    /\ UNCHANGED <<dbVars, appVars, locals, tip, collected, pc, errCount, faults>>

-----------------------------------------------------------------------------
(* Leaving Run *)

ForgetLocals ==
    /\ excepted' = {} /\ todo' = {} /\ cur' = 0 /\ src' = 0 /\ filter' = {}

(* Run returns nil: the main loop clears its error count. *)
RunReturns ==
    /\ ForgetLocals
    /\ errCount' = 0
    /\ pc' = "idle"

(* Mutant: the main loop retries for ever. *)
RunFailsForEver ==
    /\ ForgetLocals
    /\ errCount' = errCount + 1
    /\ pc' = "idle"

(* Run returns an error: one error too many ends the process. *)
RunFails ==
    /\ ForgetLocals
    /\ errCount' = errCount + 1
    /\ pc' = IF errCount + 1 > ErrTolerance THEN "down" ELSE "idle"

Fault == faults < MaxFaults /\ faults' = faults + 1

(* A read of the database or of the source fails. *)
ReadFails ==
    /\ pc \in {"idle", "retry", "sync", "parse"}
    /\ Fault
    /\ RunFails
    /\ UNCHANGED <<dbVars, appVars, envVars>>

(* The process dies between two steps. *)
Crash ==
    /\ pc # "down"
    /\ Fault
    /\ pc' = "down"
    /\ ForgetLocals
    /\ UNCHANGED <<dbVars, appVars, envVars, errCount>>

(* Mutant: the pairs of the database are not loaded. *)
StartWithoutPairs ==
    /\ pc = "down"
    /\ pc' = "idle"
    /\ \E b \in build..MaxBuild : build' = b
    /\ pairs' = {}
    /\ lastSrc' = 0 /\ sameCount' = 0 /\ retried' = FALSE /\ errCount' = 0
    /\ UNCHANGED <<dbVars, locals, envVars, faults>>

(* The process starts, possibly with a newer build; the target app loads   *)
(* the pairs once.                                                         *)
Start ==
    /\ pc = "down"
    /\ pc' = "idle"
    /\ \E b \in build..MaxBuild : build' = b
    /\ pairs' = dbPairs
    /\ lastSrc' = 0 /\ sameCount' = 0 /\ retried' = FALSE /\ errCount' = 0
    /\ UNCHANGED <<dbVars, locals, envVars, faults>>

-----------------------------------------------------------------------------
(* Run: token exceptions and quarantine replay *)

ShouldRetry ==
    \/ RetryMode[build] = "every_run"
    \/ RetryMode[build] = "startup" /\ ~retried

(* Entries of a partial_ stage stay in the table and are never replayed. *)
Replayable == {t \in Tx : quarantine[t] = "pending"}

(* Mutant: startup mode counts as attempted before the replay succeeded. *)
BeginRunMarksRetried ==
    /\ pc = "idle"
    /\ excepted' = exceptions
    /\ IF ShouldRetry
       THEN pc' = "retry" /\ todo' = Replayable
       ELSE pc' = "sync" /\ todo' = {}
    /\ retried' = TRUE
    /\ UNCHANGED <<dbVars, build, pairs, lastSrc, sameCount, envVars, cur, src, filter, errCount,
                   faults>>

BeginRun ==
    /\ pc = "idle"
    /\ excepted' = exceptions
    /\ IF ShouldRetry
       THEN pc' = "retry" /\ todo' = Replayable
       ELSE pc' = "sync" /\ todo' = {}
    /\ UNCHANGED <<dbVars, appVars, envVars, cur, src, filter, errCount, faults>>

(* The pending entry with the lowest height and id is next. *)
IsNext(t) == t \in todo /\ \A u \in todo : u # t => Before(t, u)

(* Still ambiguous: the entry stays pending. *)
ReplaySkips(t) ==
    /\ pc = "retry"
    /\ IsNext(t)
    /\ IsAmbiguous(t)
    /\ todo' = todo \ {t}
    /\ UNCHANGED <<dbVars, appVars, envVars, excepted, cur, src, filter, pc, errCount, faults>>

(* Any other parse error fails the Run before it syncs a single height. *)
ReplayErrs(t) ==
    /\ pc = "retry"
    /\ IsNext(t)
    /\ Result(t) = "error"
    /\ RunFails
    /\ UNCHANGED <<dbVars, appVars, envVars, faults>>

(* Mutant: the status is written in a second transaction that may not      *)
(* happen.                                                                 *)
ResolveInTwoTransactions(t) ==
    /\ quarantine[t] = "pending"
    /\ copies' = [copies EXCEPT ![t] = @ + 1]
    /\ form' = [form EXCEPT ![t] = RecordedAs(t, pairs, pairs)]
    /\ quarantine' \in {quarantine, [quarantine EXCEPT ![t] = "resolved"]}
    /\ UNCHANGED <<synced, dbPairs, snapshots>>

(* ResolveParseQuarantine: the rows and the status in one transaction. *)
ResolveParseQuarantine(t) ==
    /\ quarantine[t] = "pending"
    /\ copies' = [copies EXCEPT ![t] = @ + 1]
    /\ form' = [form EXCEPT ![t] = RecordedAs(t, pairs, pairs)]
    /\ quarantine' = [quarantine EXCEPT ![t] = "resolved"]
    /\ UNCHANGED <<synced, dbPairs, snapshots>>

ReplayResolves(t) ==
    /\ pc = "retry"
    /\ IsNext(t)
    /\ Result(t) = "parsed"
    /\ ResolveParseQuarantine(t)
    /\ todo' = todo \ {t}
    /\ UNCHANGED <<appVars, envVars, excepted, cur, src, filter, pc, errCount, faults>>

(* The transaction commits but the process only sees an error. *)
ReplayUnacknowledged(t) ==
    /\ pc = "retry"
    /\ IsNext(t)
    /\ Result(t) = "parsed"
    /\ Fault
    /\ ResolveParseQuarantine(t)
    /\ RunFails
    /\ UNCHANGED <<appVars, envVars>>

(* The replay loop ends; only now does startup mode count as attempted. *)
ReplayDone ==
    /\ pc = "retry"
    /\ todo = {}
    /\ retried' = (RetryMode[build] = "startup" \/ retried)
    /\ pc' = "sync"
    /\ UNCHANGED <<dbVars, build, pairs, lastSrc, sameCount, locals, envVars, errCount, faults>>

-----------------------------------------------------------------------------
(* Run: heights *)

(* The source is behind the database. *)
SourceBehind ==
    /\ pc = "sync"
    /\ SourceHeight < synced
    /\ RunFails
    /\ UNCHANGED <<dbVars, appVars, envVars, faults>>

(* checkRemoteHeight: counting beyond the tolerance changes nothing more. *)
SameHeightCount ==
    IF SourceHeight # lastSrc THEN 0
    ELSE IF sameCount > SameHeightTolerance THEN sameCount
    ELSE sameCount + 1

(* ErrNoNewHeight: the main loop waits without counting an error. *)
NoNewHeight ==
    /\ pc = "sync"
    /\ SourceHeight >= synced
    /\ sameCount' = SameHeightCount
    /\ SameHeightCount > SameHeightTolerance
    /\ ForgetLocals
    /\ pc' = "idle"
    /\ UNCHANGED <<dbVars, build, pairs, lastSrc, retried, envVars, errCount, faults>>

(* Mutant: the source height is remembered before its blocks are parsed. *)
ReadHeightsRemembers ==
    /\ pc = "sync"
    /\ SourceHeight >= synced
    /\ sameCount' = SameHeightCount
    /\ SameHeightCount <= SameHeightTolerance
    /\ src' = SourceHeight
    /\ lastSrc' = SourceHeight
    /\ cur' = synced + 1
    /\ pc' = "parse"
    /\ UNCHANGED <<dbVars, build, pairs, retried, envVars, excepted, todo, filter, errCount, faults>>

ReadHeights ==
    /\ pc = "sync"
    /\ SourceHeight >= synced
    /\ sameCount' = SameHeightCount
    /\ SameHeightCount <= SameHeightTolerance
    /\ src' = SourceHeight
    /\ cur' = synced + 1
    /\ pc' = "parse"
    /\ UNCHANGED <<dbVars, build, pairs, lastSrc, retried, envVars, excepted, todo, filter,
                   errCount, faults>>

(* The node has not indexed the last height yet: Run returns nil and       *)
(* leaves lastSrcHeight as it was.                                         *)
SourceIndexing ==
    /\ pc = "parse"
    /\ cur = src
    /\ collected < cur
    /\ Fault
    /\ RunReturns
    /\ UNCHANGED <<dbVars, appVars, envVars>>

(* Mutant: a created pair is only in the database. *)
ParseHeightForgetsPairs ==
    /\ pc = "parse"
    /\ cur <= src
    /\ \A t \in Block(cur) : ~Blocking(t)
    /\ filter' = pairs
    /\ pc' = "insert"
    /\ UNCHANGED <<dbVars, appVars, envVars, excepted, todo, cur, src, errCount, faults>>

(* UpdateParsers and ParseTxs of the whole block succeed or quarantine. *)
ParseHeight ==
    /\ pc = "parse"
    /\ cur <= src
    /\ \A t \in Block(cur) : ~Blocking(t)
    /\ filter' = pairs
    /\ pairs' = pairs \cup Created(Block(cur))
    /\ pc' = "insert"
    /\ UNCHANGED <<dbVars, build, lastSrc, sameCount, retried, envVars, excepted, todo, cur, src,
                   errCount, faults>>

(* A transaction fails the block.  The pairs created before it stay in the *)
(* map, its own one too if the failure came after the create_pair stage.   *)
ParseFails ==
    /\ pc = "parse"
    /\ cur <= src
    /\ \E b \in Block(cur) :
          /\ Blocking(b)
          /\ \A u \in Block(cur) : Before(u, b) => ~Blocking(u)
          /\ \E own \in {{}, {b}} :
                pairs' = pairs \cup Created(own \cup {u \in Block(cur) : Before(u, b)})
    /\ RunFails
    /\ UNCHANGED <<dbVars, build, lastSrc, sameCount, retried, envVars, faults>>

(* What a height writes besides the cursor. *)
HeldNow == {t \in Block(cur) : Result(t) = "ambiguous"}
FlaggedNow == {t \in Block(cur) : Result(t) = "partial"}
InsertRows ==
    LET rows == Block(cur) \ HeldNow
    IN  /\ copies' = [t \in Tx |-> IF t \in rows THEN copies[t] + 1 ELSE copies[t]]
        /\ form' = [t \in Tx |-> IF t \in rows THEN RecordedAs(t, filter, Known(t)) ELSE form[t]]
InsertQuarantines ==
    quarantine' = [t \in Tx |-> IF t \in HeldNow THEN "pending"
                                ELSE IF t \in FlaggedNow THEN "partial" ELSE quarantine[t]]
InsertPools ==
    snapshots' = IF cur % SnapshotInterval = 0 THEN snapshots \cup {cur} ELSE snapshots

(* The table pair has unique keys. *)
PairExists == Created(Block(cur)) \cap dbPairs # {}

(* Mutant: the cursor is written in a second transaction that may not      *)
(* happen.                                                                 *)
InsertInTwoTransactions ==
    /\ ~PairExists
    /\ InsertRows /\ InsertQuarantines /\ InsertPools
    /\ dbPairs' = dbPairs \cup Created(Block(cur))
    /\ synced' \in {synced, cur}

(* Mutant: the pairs of the block are not inserted. *)
InsertWithoutPairs ==
    /\ InsertRows /\ InsertQuarantines /\ InsertPools
    /\ UNCHANGED dbPairs
    /\ synced' = IF synced = cur - 1 THEN cur ELSE synced

(* Insert(cur-1, cur, ...): rows, pairs, pool snapshot, quarantines and    *)
(* cursor in one transaction.  The cursor update is conditional on the     *)
(* height it was computed from and its row count is not checked.           *)
Insert ==
    /\ ~PairExists
    /\ InsertRows /\ InsertQuarantines /\ InsertPools
    /\ dbPairs' = dbPairs \cup Created(Block(cur))
    /\ synced' = IF synced = cur - 1 THEN cur ELSE synced

CommitHeight ==
    /\ pc = "insert"
    /\ Insert
    /\ cur' = cur + 1
    /\ filter' = {}
    /\ pc' = "parse"
    /\ UNCHANGED <<appVars, envVars, excepted, todo, src, errCount, faults>>

(* Committed, but the process only sees an error. *)
CommitUnacknowledged ==
    /\ pc = "insert"
    /\ Fault
    /\ Insert
    /\ RunFails
    /\ UNCHANGED <<appVars, envVars>>

(* Rolled back; the pairs of the block stay in the process's map. *)
InsertRolledBack ==
    /\ pc = "insert"
    /\ IF PairExists THEN UNCHANGED faults ELSE Fault
    /\ RunFails
    /\ UNCHANGED <<dbVars, appVars, envVars>>

RunDone ==
    /\ pc = "parse"
    /\ cur > src
    /\ lastSrc' = src
    /\ RunReturns
    /\ UNCHANGED <<dbVars, build, pairs, sameCount, retried, envVars, faults>>

-----------------------------------------------------------------------------
(* Steps of the process that need no failure of its surroundings *)
Progress ==
    \/ BeginRun \/ ReplayDone
    \/ \E t \in Tx : ReplaySkips(t) \/ ReplayErrs(t) \/ ReplayResolves(t)
    \/ SourceBehind \/ NoNewHeight \/ ReadHeights
    \/ ParseHeight \/ ParseFails \/ CommitHeight \/ RunDone

Failures ==
    \/ ReadFails \/ Crash \/ SourceIndexing \/ CommitUnacknowledged \/ InsertRolledBack
    \/ \E t \in Tx : ReplayUnacknowledged(t)

Environment ==
    \/ ChainGrows \/ CollectorSaves
    \/ \E t \in Tx : RegisterException(t)

Next == Start \/ Progress \/ Failures \/ Environment

Spec == Init /\ [][Next]_vars

(* The loop of main() and of Run never waits for more than a sleep, the    *)
(* process is restarted by its supervisor, a running collector goes on     *)
(* saving heights, and an operator who sees a token fail registers it.     *)
Fairness ==
    /\ WF_vars(Progress)
    /\ WF_vars(Start)
    /\ WF_vars(collected > 0 /\ CollectorSaves)
    /\ \A t \in Tx : WF_vars(RegisterException(t))

FairSpec == Spec /\ Fairness
-----------------------------------------------------------------------------
(* Properties *)

QuarantineStatus == {"none", "pending", "partial", "resolved"}

(* The type of the state: among it, that the process gives up when it has  *)
(* counted one error more than errtolerance.                               *)
TypeOK ==
    /\ synced \in 0..MaxHeight
    /\ copies \in [Tx -> Nat]
    /\ form \in [Tx -> Forms]
    /\ quarantine \in [Tx -> QuarantineStatus]
    /\ dbPairs \subseteq Pair
    /\ snapshots \subseteq 1..MaxHeight
    /\ exceptions \subseteq Tx
    /\ pc \in {"down", "idle", "retry", "sync", "parse", "insert"}
    /\ build \in 1..MaxBuild
    /\ pairs \subseteq Pair
    /\ lastSrc \in 0..MaxHeight
    /\ sameCount \in 0..SameHeightTolerance + 1
    /\ retried \in BOOLEAN
    /\ errCount \in 0..ErrTolerance + 1
    /\ excepted \subseteq Tx
    /\ todo \subseteq Tx
    /\ cur \in 0..MaxHeight + 1
    /\ src \in 0..MaxHeight
    /\ filter \subseteq Pair
    /\ tip \in 0..MaxHeight
    /\ collected \in 0..tip
    /\ faults \in 0..MaxFaults

(* The database is always the exact image of a prefix of the chain, through *)
(* crashes, rollbacks, lost acknowledgements and replays: beyond the cursor *)
(* nothing is stored; up to it every transaction has its rows once, or has  *)
(* none and a pending entry; every pair and every snapshot is there.        *)
ExactPrefix ==
    /\ \A t \in Tx :
          IF Height[t] > synced
          THEN copies[t] = 0 /\ quarantine[t] = "none"
          ELSE copies[t] = (IF quarantine[t] = "pending" THEN 0 ELSE 1)
    /\ dbPairs = Created({t \in Tx : Height[t] <= synced})
    /\ snapshots = {h \in 1..synced : h % SnapshotInterval = 0}

(* Rows never point to a pair the database does not have. *)
RowsHaveTheirPair ==
    \A t \in Tx : form[t] \in {"action", "transfer"} => Uses[t] \in dbPairs

(* The action of a pair created in an earlier block is always recorded as  *)
(* an action, whatever restarts, failed blocks and replays came between.   *)
EarlierPairsAreFound ==
    \A t \in Tx :
        copies[t] > 0 /\ Uses[t] \in Created({u \in Tx : Height[u] < Height[t]})
            => form[t] = "action"

(* A process that is up knows every pair of the database: the map is       *)
(* loaded once and only kept up to date by parsing.                        *)
PairMapIsFresh == pc # "down" => dbPairs \subseteq pairs

(* When Run gives up with ErrNoNewHeight -- which the main loop does not   *)
(* count as an error -- there is no unparsed height behind it.             *)
NoNewHeightHidesNothing == [][NoNewHeight => synced = SourceHeight]_vars

(* A resolved quarantine is final: no later block, replay or restart       *)
(* reopens it or stores its transaction again.                             *)
ResolvedIsFinal ==
    [][\A t \in Tx : quarantine[t] = "resolved" =>
            quarantine'[t] = "resolved" /\ copies'[t] = copies[t]]_vars

(* The parser implements the ledger it promises. *)
StatusOf(t) ==
    IF quarantine[t] = "pending" THEN IF copies[t] = 0 THEN "held" ELSE "held twice"
    ELSE IF copies[t] = 0 THEN "absent"
    ELSE IF copies[t] > 1 THEN "stored twice"
    ELSE IF quarantine[t] = "partial" THEN "flagged" ELSE "stored"

Ledger == INSTANCE ParsedLedger WITH cursor <- synced, status <- [t \in Tx |-> StatusOf(t)]

ImplementsLedger == Ledger!LedgerSpec

(* Every height the chain stops at is eventually parsed, if the tokens     *)
(* that fail are registered and the build can parse the pairs it meets.    *)
CatchesUp == <>[](synced = tip)

(* A transaction is not left in quarantine by a build that can parse it.   *)
QuarantineDrains ==
    \A t \in Tx : []<>(quarantine[t] # "pending" \/ Outcome[t][build][(t \in exceptions)] # "parsed")

(* "Raw transactions remain available, so parser progress does not prevent *)
(* deterministic replay" (parser/dex/dex.go:186): a transaction resolved   *)
(* from quarantine has the rows its own block would have given it.         *)
DeterministicReplay ==
    \A t \in Tx : quarantine[t] = "resolved" =>
        form[t] = RecordedAs(t, Created({u \in Tx : Height[u] < Height[t]}),
                                Created({u \in Tx : ~Before(t, u)}))

(* The inductive invariant behind the safety properties.                   *)
(* Run works on the height after the cursor, and what it holds in memory   *)
(* is consistent with the database it last read.                           *)
RunIsInStep ==
    /\ pc \in {"parse", "insert"} => cur = synced + 1 /\ cur <= src + 1
    /\ pc = "insert" =>
          /\ cur <= src
          /\ \A t \in Block(cur) : ~Blocking(t)
          /\ dbPairs \subseteq filter
          /\ filter \cup Created(Block(cur)) \subseteq pairs
    /\ pc = "retry" => todo \subseteq Replayable
    /\ pc # "down" => errCount <= ErrTolerance
    /\ pairs \subseteq Created(Tx)
    /\ lastSrc <= synced

IInv ==
    /\ TypeOK
    /\ ExactPrefix
    /\ RowsHaveTheirPair
    /\ EarlierPairsAreFound
    /\ PairMapIsFresh
    /\ RunIsInStep
=============================================================================
