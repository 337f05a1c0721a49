----------------------------- MODULE TxParsing -----------------------------
(***************************************************************************)
(* Transactions executed on a chain and parsed by the chain's target       *)
(* application, one transaction per block: the source store turns the      *)
(* events into logs, the application turns the logs into rows.             *)
(*                                                                         *)
(* The rows have to add up to what the transaction did to every pool the   *)
(* application knows; that is what the pool validation of the parser later *)
(* compares.  The logs come out of a Go map, so in any order.              *)
(***************************************************************************)
EXTENDS DexChain, FiniteSets

CONSTANT MaxOps   \* operations in one transaction

VARIABLES
    mode,    \* the chain: application, contract version, format of the events
    app,     \* the application's state
    ops,     \* the operations of the transaction
    phase,   \* "open" while the transaction is built, "parsed" afterwards
    res,     \* what ParseTxs returned
    funded   \* has P2 had its first provide?
vars == <<mode, app, ops, phase, res, funded>>

Dezswap    == INSTANCE DezswapApp
Starfleit  == INSTANCE StarfleitApp
ColumbusV1 == INSTANCE ColumbusV1App
ColumbusV2 == INSTANCE ColumbusV2App
Phoenix    == INSTANCE PhoenixApp

-----------------------------------------------------------------------------
(* The source stores: from events to logs. *)

(* All attributes of the events of one type; a message is a sequence of    *)
(* events.  Older chains list events per message.                          *)
AttrsOf(event, msg) ==
    [i \in DOMAIN event.attrs |-> [key |-> event.attrs[i].key, val |-> event.attrs[i].val, msg |-> msg]]
groupLogAttrByType(msgs) ==
    LET types == UNION {{msgs[m][e].type : e \in DOMAIN msgs[m]} : m \in DOMAIN msgs}
        Of(m, t) == FlattenSeq([e \in DOMAIN msgs[m] |->
                        IF msgs[m][e].type = t THEN AttrsOf(msgs[m][e], m - 1) ELSE <<>>])
    IN [t \in types |-> FlattenSeq([m \in DOMAIN msgs |-> Of(m, t)])]

(* Newer chains list them in a row, and only an attribute tells the        *)
(* message; its value is not read.                                         *)
groupEventsAttrByType(events) ==
    LET types == {events[e].type : e \in DOMAIN events}
    IN [t \in types |-> FlattenSeq([e \in DOMAIN events |->
            IF events[e].type = t THEN AttrsOf(events[e], 0) ELSE <<>>])]

(* The parser's transaction: one log per type, in the order the map gives. *)
buildRawTx(groups, order, sender) ==
    [logs |-> [k \in DOMAIN order |-> [type |-> order[k], attrs |-> groups[order[k]]]],
     sender |-> sender]

Indexed(event, m) == [event EXCEPT !.attrs = Append(@, At("msg_index", m - 1))]
Messages(done)  == [m \in DOMAIN done |->
    [e \in DOMAIN Events(mode, done[m]) |->
        IF mode.sdk50 THEN Indexed(Events(mode, done[m])[e], m) ELSE Events(mode, done[m])[e]]]

(* The store of the terraswap chains lists older events per message; that  *)
(* of the collector lists all events in a row.                             *)
GetSourceTxs(done) ==
    LET groups == IF mode.app \in Terraswap /\ ~mode.sdk50
                  THEN groupLogAttrByType(Messages(done))
                  ELSE groupEventsAttrByType(FlattenSeq(Messages(done)))
    IN {buildRawTx(groups, order, User) : order \in SetToSeqs(DOMAIN groups)}

-----------------------------------------------------------------------------
(* The application. *)

New(m) == LET stored == P1 :> pair1 IN
    CASE m.app = "dezswap"    -> Dezswap!New(stored, m.v2)
      [] m.app = "starfleit"  -> Starfleit!New(stored, m.v2)
      [] m.app = "columbusv1" -> ColumbusV1!New(stored, m.v2)
      [] m.app = "columbusv2" -> ColumbusV2!New(stored, m.v2)
      [] m.app = "phoenix"    -> Phoenix!New(stored, m.v2)

ParseTxs(a, tx) ==
    CASE mode.app = "dezswap"    -> Dezswap!ParseTxs(a, tx)
      [] mode.app = "starfleit"  -> Starfleit!ParseTxs(a, tx)
      [] mode.app = "columbusv1" -> ColumbusV1!ParseTxs(a, tx)
      [] mode.app = "columbusv2" -> ColumbusV2!ParseTxs(a, tx)
      [] mode.app = "phoenix"    -> Phoenix!ParseTxs(a, tx)

UpdateParsers(m, a, exceptions) ==
    CASE m.app = "dezswap"    -> Dezswap!UpdateParsers(a, exceptions)
      [] m.app = "starfleit"  -> Starfleit!UpdateParsers(a, exceptions)
      [] m.app = "columbusv1" -> ColumbusV1!UpdateParsers(a, exceptions)
      [] m.app = "columbusv2" -> ColumbusV2!UpdateParsers(a, exceptions)
      [] m.app = "phoenix"    -> Phoenix!UpdateParsers(a, exceptions)

-----------------------------------------------------------------------------
NotParsed == [outcome |-> "none", rows |-> <<>>, app |-> None]

Init ==
    /\ mode \in Modes
    /\ app = UpdateParsers(mode, New(mode), {})
    /\ ops = <<>>
    /\ phase = "open"
    /\ res = NotParsed
    /\ funded = FALSE

Created == P2 \in DOMAIN app.pairs \/ \E i \in DOMAIN ops : ops[i] = "create_pair"
Funded  == funded \/ \E i \in DOMAIN ops : ops[i] = "provide_first"

(* A user adds an operation to the transaction. *)
Execute(op) ==
    /\ phase = "open"
    /\ Len(ops) < MaxOps
    /\ Offered(mode, op)
    /\ op = "create_pair" => ~Created
    /\ op \in SecondPairOps => Created
    /\ op = "provide_first" => ~Funded
    /\ op = "provide_joint" => Funded
    /\ ops' = Append(ops, op)
    /\ UNCHANGED <<mode, app, phase, res, funded>>

(* The block is parsed: every transaction with the parsers built when its  *)
(* height started.                                                         *)
Parse1 ==
    /\ phase = "open"
    /\ ops # <<>>
    /\ \E tx \in GetSourceTxs(ops) : res' = ParseTxs(app, tx)
    /\ phase' = "parsed"
    /\ UNCHANGED <<mode, app, ops, funded>>

(* The next height, once the rows are stored or the ambiguous transaction  *)
(* is in quarantine; any other error keeps the parser at this height.  An  *)
(* operator may have registered a flagged token as an exception.           *)
NextHeight ==
    /\ phase = "parsed"
    /\ res.outcome # "error"
    /\ \E exceptions \in SUBSET res.app.flagged :
           app' = UpdateParsers(mode, res.app, app.exceptions \cup exceptions)
    /\ funded' = Funded
    /\ ops' = <<>>
    /\ phase' = "open"
    /\ res' = NotParsed
    /\ UNCHANGED mode

Next ==
    \/ \E op \in Ops : Execute(op)
    \/ Parse1
    \/ NextHeight

Spec == Init /\ [][Next]_vars

-----------------------------------------------------------------------------
(* Properties. *)

(* Everything has its type. *)
TypeOK ==
    /\ mode \in Modes
    /\ app.filter \subseteq DOMAIN app.pairs /\ DOMAIN app.pairs \subseteq {P1, P2}
    /\ app.exceptions \cup app.flagged \subseteq {Token}
    /\ ops \in Seq(Ops) /\ Len(ops) <= MaxOps
    /\ phase \in {"open", "parsed"}
    /\ res.outcome \in {"none", "parsed", "partial", "ambiguous", "error"}
    /\ funded \in BOOLEAN

(* Parsed as the block's own stores and parsers see it, for any order of   *)
(* the logs.                                                               *)
Outcomes(done) == {ParseTxs(app, tx) : tx \in GetSourceTxs(done)}

IsStored(o) == o.outcome \in {"parsed", "partial"}

EffectOf(done, pair) ==
    FoldLeft(LAMBDA sum, op : [k \in 1..3 |-> sum[k] + Effect(mode, op, pair)[k]], <<0, 0, 0>>, done)

(* Transactions the parser is known to misread (see the README).  Where a  *)
(* withdrawal has no amounts of its own, the token it sends is taken for   *)
(* the one an action of the same pair recorded: an earlier one that        *)
(* received it without a transfer, or any later one.  And two equal taxed  *)
(* swaps cannot be told apart without a message index.                     *)
HookSwaps    == {"swap_token_in", "swap_to_pair"} \cup TaxOps
TokenActions == HookSwaps \cup {"swap_coin_in", "swap_fee_out", "provide"}
Before(first, second) ==
    \E i, j \in DOMAIN ops : i < j /\ ops[i] \in first /\ ops[j] \in second
KnownMisread ==
    \/ /\ mode.app \in {"columbusv1", "columbusv2"}
       /\ Before({"withdraw"}, TokenActions) \/ Before(HookSwaps, {"withdraw"})
    \/ mode.sdk50 /\ Before({"swap_tax_paid"}, {"swap_tax_paid"})

(* The rows of a transaction add up to what it did to every pool the       *)
(* parsers knew when its height began, whatever mix of actions, transfers, *)
(* refunds, taxes and burns it has and however much of it is reported      *)
(* twice.  An asset may be off only when its token takes fees and is       *)
(* therefore a candidate for an exception (RemoveDuplicatedTxs,            *)
(* deductTaxFromPairTxs, CollectLpBurnTxs, the mappers).                   *)
RowsAddUp ==
    phase = "parsed" /\ IsStored(res) /\ ~KnownMisread =>
        \A p \in app.filter :
            LET sum    == ParsedPoolsInfo(res.rows, p)
                change == EffectOf(ops, p)
                Excused(i) == app.pairs[p].assets[i] \in res.app.flagged \cup app.exceptions
            IN /\ sum.a0 = change[1] \/ Excused(1)
               /\ sum.a1 = change[2] \/ Excused(2)
               /\ sum.lp = change[3]

(* A token transfer that cannot be read only costs its own row: what is    *)
(* stored of the transaction is what would be stored had the transfer not  *)
(* happened, in some order of the logs.                                    *)
Regular(done) == [i \in DOMAIN done |-> IF done[i] = "irregular" THEN "nothing" ELSE done[i]]
PartialKeepsTheRest ==
    phase = "parsed" /\ res.outcome = "partial" =>
        /\ \E i \in DOMAIN ops : ops[i] = "irregular"
        /\ \E o \in Outcomes(Regular(ops)) : o.outcome = "parsed" /\ o.rows = res.rows

(* Only a coin or a token that is no asset of the pair, and on dezswap an  *)
(* empty amount, makes a transaction fail and keeps the parser at its      *)
(* height; only an unreadable transfer next to a new pair keeps all of it  *)
(* out of the store; and no transaction fails in one order of the logs and *)
(* goes to quarantine in another.                                          *)
Has1(kinds) == \E i \in DOMAIN ops : ops[i] \in kinds
OnlyForeignAssetsBlock ==
    phase = "parsed" =>
        /\ res.outcome = "error" =>
              \/ mode.app \in {"dezswap", "starfleit"} /\ Has1({"foreign_coin", "foreign_token"})
              \/ mode.app = "dezswap" /\ Has1({"empty_amount"})
        /\ res.outcome = "ambiguous" => Has1({"irregular"}) /\ Has1({"create_pair"})
        /\ \A o \in Outcomes(ops) : o.outcome = res.outcome

(* The order of the map the logs come from decides neither whether the     *)
(* transaction is stored, nor what is stored of it, row by row, nor which  *)
(* pairs and exception candidates the application knows afterwards.        *)
LogOrderDoesNotMatter ==
    phase = "parsed" => \A o \in Outcomes(ops) :
        /\ IsStored(o) <=> IsStored(res)
        /\ IsStored(res) => o = res
        /\ o.app.pairs = res.app.pairs

(* The comment at dex.go:731-733 says of RemoveDuplicatedTxs: "By building *)
(* popList from pairTxs (one per asset) and matching each transfer 1:1, it *)
(* prevents a single pair action from consuming more transfers than it     *)
(* produced."  Then what no action recorded keeps its row: a gift, and     *)
(* both transfers of a withdrawal without amounts.                         *)
OwnRows(op) ==
    CASE op \in Gifts -> 1
      [] op = "withdraw" /\ mode.app \in {"columbusv1", "columbusv2"} -> 2
      [] OTHER -> 0
ActionsConsumeTheirOwn ==
    phase = "parsed" /\ res.outcome = "parsed" /\ app.exceptions = {} =>
        FoldLeft(LAMBDA n, op : n + OwnRows(op), 0, ops)
            <= Cardinality({i \in DOMAIN res.rows : res.rows[i].type = "transfer"})
=============================================================================
