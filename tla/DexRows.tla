------------------------------ MODULE DexRows -------------------------------
(***************************************************************************)
(* From the events of one transaction to the rows the parser stores: the   *)
(* parts all target applications share (parser/parser.go, parser/dex).     *)
(*                                                                         *)
(* A row is a record of the fields that decide what the row does to a      *)
(* pool: type, sender, pair, the two asset amounts, LP token and LP        *)
(* amount, message index.  An amount is an integer, negative for an        *)
(* outflow, or None for the empty string.  Hash, timestamp, commission and *)
(* meta data are left out.                                                 *)
(***************************************************************************)
EXTENDS EventLog

CONSTANTS
    Cw20,         \* tokens whose address is a contract
    LongDenoms,   \* native denominations longer than 20 characters
    Factory       \* the configured factory contract

Coin(addr, amt) == [addr |-> addr, amt |-> amt]
NoCoin          == Coin(None, None)
Empty(pair)     == <<Coin(pair.assets[1], None), Coin(pair.assets[2], None)>>
Neg(amt)        == IF amt = None THEN None ELSE 0 - amt
IsOutflow(amt)  == amt # None /\ amt < 0

Row(type, sender, contract, assets, lp, lpAmt, msg) ==
    [type |-> type, sender |-> sender, contract |-> contract, assets |-> assets,
     lp |-> lp, lpAmt |-> lpAmt, msg |-> msg]

(* What a mapper or a parser returns: rows and possibly an error.  An      *)
(* ambiguity carries the rows found so far, any other error none.          *)
Rows(s)   == [err |-> "none", rows |-> s]
Ambiguous == [err |-> "ambiguous", rows |-> <<>>]
Failed    == [err |-> "error", rows |-> <<>>]

IndexOf(slice, target) ==
    IF \E i \in DOMAIN slice : slice[i] = target
    THEN CHOOSE i \in DOMAIN slice : slice[i] = target /\ \A j \in 1..(i - 1) : slice[j] # target
    ELSE 0

isCw20TokenAddress(addr) == addr \in Cw20 \cup LongDenoms

(* A parser: every match of its rule is mapped.  An ambiguous match is     *)
(* left out and reported at the end, any other error gives up.  (The set   *)
(* with one element has TLC find the matches once.)                        *)
TakeMatch(acc, r) ==
    IF acc.err = "error" \/ r.err = "error" THEN Failed
    ELSE IF r.err = "ambiguous" THEN [acc EXCEPT !.err = "ambiguous"]
    ELSE [acc EXCEPT !.rows = @ \o r.rows]
Collect(matches, mapped) ==
    LET taken[i \in 0..Len(matches)] ==
            IF i = 0 THEN Rows(<<>>) ELSE TakeMatch(taken[i - 1], mapped[matches[i]])
    IN taken[Len(matches)]
Parse(rule, logs, Mapper(_)) ==
    LET Mapped(matches) == [match \in Range(matches) |-> Mapper(match)]
    IN CHOOSE r \in {Collect(matches, Mapped(matches)) : matches \in {FindFromLogs(rule, logs)}} : TRUE

-----------------------------------------------------------------------------
(* Rules all applications take from pkg/dex. *)

CreateTransferRuleFinder ==
    [type |-> "transfer", until |-> "amount",
     items |-> <<AnyValue("amount"), AnyValue("recipient")>>]

NormalizeTransferAttrs(attrs) == SortAttributes(attrs, <<"amount", "recipient", "sender">>)

CreatePairInitialProvideRuleFinder(pairFilter) ==
    [type |-> "wasm", until |-> None,
     items |-> <<AnyValue("_contract_address"), ValueIn("action", {"mint"}),
                 AnyValue("amount"), ValueIn("to", pairFilter)>>]

CreateBurnRuleFinder ==
    [type |-> "wasm", until |-> None,
     items |-> <<AnyValue("_contract_address"), ValueIn("action", {"burn"}),
                 AnyValue("amount"), AnyValue("from")>>]

-----------------------------------------------------------------------------
(* Mappers all applications, or the terraswap ones, share. *)

factoryMapper(res) ==
    IF CheckResult(res, 5) # "ok" \/ Len(res[3].val) # 2 THEN Failed
    ELSE Rows(<<Row("create_pair", None, res[4].val,
                    <<Coin(res[3].val[1], None), Coin(res[3].val[2], None)>>,
                    res[5].val, None, MsgIndex(res))>>)

initialProvideMapper(res) ==
    IF CheckResult(res, 4) # "ok" THEN Failed
    ELSE IF AmbiguousFor(res, {"to", "_contract_address", "amount"}) THEN Ambiguous
    ELSE Rows(<<Row("initial_provide", None, Value(res, "to"), <<NoCoin, NoCoin>>,
                    Value(res, "_contract_address"), Value(res, "amount"), 0)>>)

burnMapper(res) ==
    IF CheckResult(res, 4) # "ok" THEN Failed
    ELSE IF AmbiguousFor(res, {"amount", "from", "_contract_address"}) THEN Ambiguous
    ELSE Rows(<<Row("lp_burn", Value(res, "from"), None, <<NoCoin, NoCoin>>,
                    Value(res, "_contract_address"), Neg(Value(res, "amount")), 0)>>)

taxPaymentMapper(res) ==
    IF CheckResult(res, 2) # "ok" THEN Failed
    ELSE IF AmbiguousFor(res, {"tax_amount"}) THEN Ambiguous
    ELSE Rows(<<Row("tax_payment", None, None, <<Value(res, "tax_amount"), NoCoin>>,
                    None, None, MsgIndex(res))>>)

(* Terraswap: the rows of a transfer between a pair and anyone, one per    *)
(* pair involved; a coin that is no asset of the pair goes to the meta     *)
(* data and moves nothing.  (A pair only sends its own assets; the code    *)
(* would index out of range if it ever sent another token.)                *)
wasmTransferToParsedTx(pair, cw20Addr, from, amount, fromPair) ==
    LET idx    == IndexOf(pair.assets, cw20Addr)
        signed == IF fromPair THEN Neg(amount) ELSE amount
    IN Row("transfer", from, pair.contract,
           IF idx = 0 THEN Empty(pair) ELSE [Empty(pair) EXCEPT ![idx].amt = signed],
           None, None, 0)

wasmCommonTransferMapper(res, addrKey, pairs, tokenExceptions) ==
    LET cw20Addr == Value(res, addrKey)
        sender   == Value(res, "from")
        receiver == Value(res, "to")
        amount   == Value(res, "amount")
        RowOf(p, out) ==
            IF p \in DOMAIN pairs
            THEN <<wasmTransferToParsedTx(pairs[p], cw20Addr, sender, amount, out)>> ELSE <<>>
    IN IF cw20Addr \in tokenExceptions THEN Rows(<<>>)
       ELSE IF AmbiguousFor(res, {addrKey, "from", "to", "amount"}) THEN Ambiguous
       ELSE IF amount = None THEN Rows(<<>>)
       ELSE Rows(RowOf(sender, TRUE) \o RowOf(receiver, FALSE))

(* Tokens whose transfers carry a key with "tax" in it: the mapper         *)
(* remembers them as candidates for a validation exception.                *)
taxKeys == {"tax_amount", "cw20_tax_amount"}
(* Mutant: the receiver is remembered. *)
FlaggedByReceiver(rule, logs, addrKey, tokenExceptions) ==
    {Value(res, "to") : res \in {m \in Range(FindFromLogs(rule, logs)) :
                                   \E i \in DOMAIN m : m[i].key \in taxKeys}}
FlaggedBy(rule, logs, addrKey, tokenExceptions) ==
    {Value(res, addrKey) :
        res \in {m \in Range(FindFromLogs(rule, logs)) :
                    /\ Value(m, addrKey) \notin tokenExceptions
                    /\ ~AmbiguousFor(m, {addrKey, "from", "to", "amount"})
                    /\ \E i \in DOMAIN m : m[i].key \in taxKeys}}

transferToParsedTx(pair, from, coins, fromPair, msg) ==
    LET AmountOf(i) ==
            LET ours == SelectSeq(coins, LAMBDA c : c.addr = pair.assets[i])
            IN IF ours = <<>> THEN None
               ELSE IF fromPair THEN Neg(Last(ours).amt) ELSE Last(ours).amt
    IN Row("transfer", from, pair.contract,
           [i \in 1..2 |-> Coin(pair.assets[i], AmountOf(i))], None, None, msg)

TransferFallbackSender(sender, txSender) == IF sender = None THEN txSender ELSE sender

transferMapper(res, pairs, txSender) ==
    LET sender   == TransferFallbackSender(Value(res, "sender"), txSender)
        receiver == Value(res, "recipient")
        RowOf(p, out) ==
            IF p \in DOMAIN pairs
            THEN <<transferToParsedTx(pairs[p], sender, Value(res, "amount"), out, MsgIndex(res))>>
            ELSE <<>>
    IN IF AmbiguousFor(res, {"sender", "recipient", "amount"}) THEN Ambiguous
       ELSE IF {sender, receiver} \cap DOMAIN pairs = {} THEN Rows(<<>>)
       ELSE IF Value(res, "amount") = None THEN Failed
       ELSE Rows(RowOf(sender, TRUE) \o RowOf(receiver, FALSE))

-----------------------------------------------------------------------------
(* Transfers that a pair action already accounts for. *)

(* Mutant: a token may not arrive short of a fee. *)
matchesExactTransferEntry(entry, t) ==
    /\ IF IsOutflow(entry.amt) THEN entry.pair = t.sender ELSE entry.pair = t.contract
    /\ \E i \in 1..2 : t.assets[i].addr = entry.addr /\ t.assets[i].amt = entry.amt

(* Does this transfer move the amount this pair action recorded?  A cw20   *)
(* token sent by the pair may arrive short of a fee, so any amount does.   *)
matchesPairTransferEntry(entry, t) ==
    LET sends == entry.pair = t.sender
    IN /\ IF IsOutflow(entry.amt) THEN sends ELSE entry.pair = t.contract
       /\ \E i \in 1..2 : /\ t.assets[i].addr = entry.addr
                          /\ t.assets[i].amt # None
                          /\ \/ sends /\ isCw20TokenAddress(entry.addr)
                             \/ t.assets[i].amt = entry.amt

(* The amounts the pair actions recorded, in order, without the empty one  *)
(* and "0".  "-0" is 0 here too; no action records an outflow of nothing.  *)
PopEntries(tx, j) ==
    IF tx.assets[j].amt \in {None, 0} THEN <<>>
    ELSE <<[pair |-> tx.contract, addr |-> tx.assets[j].addr, amt |-> tx.assets[j].amt]>>
PopList(pairTxs) ==
    FlattenSeq([i \in DOMAIN pairTxs |-> PopEntries(pairTxs[i], 1) \o PopEntries(pairTxs[i], 2)])

(* Every transfer takes the first entry it matches; what takes none is     *)
(* kept as a row of its own.                                               *)
TakeTransfer(acc, t) ==
    LET hits  == {j \in DOMAIN acc.pop : matchesPairTransferEntry(acc.pop[j], t)}
        first == CHOOSE j \in hits : \A k \in hits : j <= k
    IN IF hits = {} THEN [acc EXCEPT !.kept = Append(@, t)]
       ELSE [acc EXCEPT !.pop = RemoveAt(@, first)]
RemoveDuplicatedTxs(pairTxs, transferTxs) ==
    LET left[i \in 0..Len(transferTxs)] ==
            IF i = 0 THEN [pop |-> PopList(pairTxs), kept |-> <<>>]
            ELSE TakeTransfer(left[i - 1], transferTxs[i])
    IN left[Len(transferTxs)].kept

(* LP tokens burned outside a withdrawal; lpPairs maps an LP token to its  *)
(* pair.                                                                   *)
CollectLpBurnTxs(burnTxs, lpPairs) ==
    LET ours == SelectSeq(burnTxs, LAMBDA t : t.lp \in DOMAIN lpPairs /\ t.sender # lpPairs[t.lp])
    IN [i \in DOMAIN ours |-> [ours[i] EXCEPT !.contract = lpPairs[ours[i].lp]]]

HasProvide(pairTxs) == \E i \in DOMAIN pairTxs : pairTxs[i].type = "provide"

RawTxContainsCreatePair(logs) ==
    \E i \in DOMAIN logs : \E j \in DOMAIN logs[i].attrs :
        logs[i].attrs[j].key = "action" /\ logs[i].attrs[j].val = "create_pair"

(* Only an ambiguity, and only outside a transaction that creates a pair,  *)
(* lets the rest of the transaction be kept.                               *)
Record(err, logs) == err = "ambiguous" /\ ~RawTxContainsCreatePair(logs)

(* The pairs known once the transaction's own create_pair rows are in. *)
LearnPairs(pairs, created) ==
    LET Of(p) == created[CHOOSE i \in DOMAIN created : created[i].contract = p]
        new   == {created[i].contract : i \in DOMAIN created}
    IN [p \in DOMAIN pairs \cup new |->
            IF p \in new
            THEN [contract |-> p, lp |-> Of(p).lp,
                  assets |-> <<Of(p).assets[1].addr, Of(p).assets[2].addr>>]
            ELSE pairs[p]]
LpPairs(pairs) == [lp \in {pairs[p].lp : p \in DOMAIN pairs} |->
                      CHOOSE p \in DOMAIN pairs : pairs[p].lp = lp]

-----------------------------------------------------------------------------
(* The stages every application runs over each log, in this order.  The    *)
(* first stage to fail ends the transaction; an ambiguous token transfer   *)
(* may be recorded instead.  "read" is the logs whose token transfers were *)
(* looked at.                                                              *)
NothingGathered == [err |-> "none", partial |-> FALSE, read |-> <<>>, act |-> <<>>, wasm |-> <<>>,
                    tax |-> <<>>, native |-> <<>>, burn |-> <<>>]
FirstError(errs) ==
    IF \A k \in DOMAIN errs : errs[k] = "none" THEN "none"
    ELSE errs[CHOOSE k \in DOMAIN errs : errs[k] # "none" /\ \A j \in 1..k - 1 : errs[j] = "none"]
AfterStages(acc, recorded, log, act, ip, w, tax, nat, b) ==
    [err     |-> FirstError(<<act.err, ip.err, IF recorded THEN "none" ELSE w.err,
                              tax.err, nat.err, b.err>>),
     partial |-> acc.partial \/ recorded,
     read    |-> IF act.err = "none" /\ ip.err = "none" THEN Append(acc.read, log) ELSE acc.read,
     act     |-> acc.act \o act.rows \o ip.rows,
     wasm    |-> acc.wasm \o w.rows,
     tax     |-> acc.tax \o tax.rows,
     native  |-> acc.native \o nat.rows,
     burn    |-> acc.burn \o b.rows]
TakeLog(acc, logs, log, act, ip, w, tax, nat, b) ==
    IF acc.err # "none" THEN acc
    ELSE AfterStages(acc, Record(w.err, logs), log, act, ip, w, tax, nat, b)

(* The logs one after the other, given what every stage makes of each.     *)
GatherFrom(logs, act, ip, w, tax, nat, b) ==
    LET taken[i \in 0..Len(logs)] ==
            IF i = 0 THEN NothingGathered
            ELSE TakeLog(taken[i - 1], logs, logs[i], act[logs[i]], ip[logs[i]], w[logs[i]],
                         tax[logs[i]], nat[logs[i]], b[logs[i]])
    IN taken[Len(logs)]

NoStage(log) == Rows(<<>>)
Gather(logs, Action(_), Provide(_), Wasm(_), Tax(_), Native(_), Burn(_)) ==
    LET OfLog(Stage(_)) == [log \in Range(logs) |-> Stage(<<log>>)]
        act        == OfLog(Action)
        First(raw) == IF HasProvide(act[raw[1]].rows) THEN Provide(raw) ELSE Rows(<<>>)
        Coins(raw) == Native(IF raw[1].type # "transfer" THEN raw
                             ELSE <<[raw[1] EXCEPT !.attrs = NormalizeTransferAttrs(@)]>>)
    IN GatherFrom(logs, act, OfLog(First), OfLog(Wasm), OfLog(Tax), OfLog(Coins), OfLog(Burn))

(* Mutant: a transaction with an unreadable transfer stores nothing. *)
ResultDropsPartial(g, app, rows) ==
    [outcome |-> IF g.err # "none" THEN g.err ELSE IF g.partial THEN "partial" ELSE "parsed",
     rows    |-> IF g.err = "none" /\ ~g.partial THEN rows ELSE <<>>,
     app     |-> app]

(* What ParseTxs returns: the rows, and the application's state.  A pair   *)
(* created before the failing stage stays known.                           *)
Result(g, app, rows) ==
    [outcome |-> IF g.err # "none" THEN g.err ELSE IF g.partial THEN "partial" ELSE "parsed",
     rows    |-> IF g.err = "none" THEN rows ELSE <<>>,
     app     |-> app]
GaveUp(err, app) == [outcome |-> err, rows |-> <<>>, app |-> app]

SignedBy(sender, rows) == [i \in DOMAIN rows |-> [rows[i] EXCEPT !.sender = sender]]

(* The rows of a transaction: created pairs and actions, what no action    *)
(* recorded, and burnt LP tokens.                                          *)
RowsOf(sender, created, pairs, g) ==
    SignedBy(sender, created.rows) \o SignedBy(sender, g.act)
    \o RemoveDuplicatedTxs(g.act, g.wasm \o g.native)
    \o CollectLpBurnTxs(g.burn, LpPairs(pairs))
Stored(sender, created, app, g) == Result(g, app, RowsOf(sender, created, app.pairs, g))
(* The same, with the tokens the transfers looked at give away (terraswap). *)
StoredFlagging(rule, addrKey, sender, created, app, g) ==
    Stored(sender, created,
           [app EXCEPT !.flagged = @ \cup FlaggedBy(rule, g.read, addrKey, app.exceptions)], g)

-----------------------------------------------------------------------------
(* What a row adds to the pool it names once stored: a withdrawal's LP     *)
(* amount is stored negated, an empty amount as zero.                      *)
emptyStringToZero(amt) == IF amt = None THEN 0 ELSE amt

toParsedTxModel(row) ==
    [contract |-> row.contract,
     amounts  |-> [i \in 1..2 |-> emptyStringToZero(row.assets[i].amt)],
     lp       |-> IF row.type = "withdraw" THEN 0 - emptyStringToZero(row.lpAmt)
                  ELSE emptyStringToZero(row.lpAmt)]

(* The sums a pool validation reads back: per pair, of the stored rows. *)
ParsedPoolsInfo(rows, pair) ==
    LET Add(acc, row) ==
            LET m == toParsedTxModel(row)
            IN IF m.contract # pair THEN acc
               ELSE [a0 |-> acc.a0 + m.amounts[1], a1 |-> acc.a1 + m.amounts[2], lp |-> acc.lp + m.lp]
    IN FoldLeft(Add, [a0 |-> 0, a1 |-> 0, lp |-> 0], rows)
=============================================================================
