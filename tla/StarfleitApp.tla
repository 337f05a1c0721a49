--------------------------- MODULE StarfleitApp ----------------------------
(***************************************************************************)
(* The starfleit target application (parser/dex/starfleit,                 *)
(* pkg/dex/starfleit): the sibling of DezswapApp.  It differs in what it   *)
(* does with a match it cannot use: it skips a bank transfer with an empty *)
(* value, and it reads a token transfer by position whatever its keys are. *)
(* The factory filter is the configured chain id.                          *)
(***************************************************************************)
EXTENDS DexRows

createPairRule ==
    [type |-> "wasm", until |-> None,
     items |-> <<ValueIn("_contract_address", {Factory}), ValueIn("action", {"create_pair"}),
                 AnyValue("pair"), AnyValue("_contract_address"),
                 AnyValue("liquidity_token_addr")>>]

pairCommonRule(pairFilter) ==
    [type |-> "wasm", until |-> "_contract_address",
     items |-> <<ValueIn("_contract_address", pairFilter),
                 ValueIn("action", {"swap", "provide_liquidity", "withdraw_liquidity"})>>]

wasmTransferRule ==
    [type |-> "wasm", until |-> "_contract_address",
     items |-> <<AnyValue("_contract_address"), ValueIn("action", {"transfer", "transfer_from"})>>]

initialProvideRule(pairFilter) ==
    [type |-> "wasm", until |-> None,
     items |-> <<AnyValue("_contract_address"), ValueIn("action", {"mint"}),
                 AnyValue("amount"), ValueIn("to", pairFilter)>>]

burnRule ==
    [type |-> "wasm", until |-> None,
     items |-> <<AnyValue("_contract_address"), ValueIn("action", {"burn"}),
                 AnyValue("from"), AnyValue("amount")>>]

createPairMapper(res) ==
    LET s == SortResult(res)
    IN IF CheckResult(res, 5) # "ok" \/ Len(s[3].val) # 2 THEN Failed
       ELSE Rows(<<Row("create_pair", None, s[4].val,
                       <<Coin(s[3].val[1], None), Coin(s[3].val[2], None)>>, s[5].val, None, 0)>>)

(* A transfer between two pairs belongs to the sending one alone. *)
pairBy(pairs, from, to) ==
    IF from \in DOMAIN pairs THEN [pair |-> pairs[from], fromPair |-> TRUE]
    ELSE IF to \in DOMAIN pairs THEN [pair |-> pairs[to], fromPair |-> FALSE]
    ELSE None

matchedToParsedTx(side, from, token, amount) ==
    LET idx == IndexOf(side.pair.assets, token)
    IN IF idx = 0 THEN Failed
       ELSE Rows(<<Row("transfer", from, side.pair.contract,
                       [Empty(side.pair) EXCEPT ![idx].amt =
                            IF side.fromPair THEN Neg(amount) ELSE amount],
                       None, None, 0)>>)

(* The two contract versions of a token transfer: a plain one, and one on  *)
(* behalf of somebody, which has one more key before "from".               *)
v1MatchedToParsedTx(res, pairs) ==
    IF CheckResult(res, 5) # "ok" THEN Failed
    ELSE LET side == pairBy(pairs, res[4].val, res[5].val)
         IN IF side = None THEN Rows(<<>>)
            ELSE matchedToParsedTx(side, res[4].val, res[1].val, res[3].val)

v2MatchedToParsedTx(res, pairs) ==
    IF CheckResult(res, 6) # "ok" THEN Failed
    ELSE LET side == pairBy(pairs, res[5].val, res[6].val)
         IN IF side = None THEN Rows(<<>>)
            ELSE matchedToParsedTx(side, res[5].val, res[1].val, res[3].val)

wasmTransferMapper(res, app) ==
    LET s == SortResult(res)
    IN IF s[1].val \in app.exceptions THEN Rows(<<>>)
       ELSE IF s[2].val = "transfer" THEN v1MatchedToParsedTx(s, app.pairs)
       ELSE IF s[2].val = "transfer_from" THEN v2MatchedToParsedTx(s, app.pairs)
       ELSE Failed

(* Mutant: a bank transfer with an empty value is an error. *)
strictTransferMapper(res, app, txSender) ==
    LET from == TransferFallbackSender(Value(res, "sender"), txSender)
        side == pairBy(app.pairs, from, Value(res, "recipient"))
    IN IF CheckResult(res, 2) # "ok" THEN Failed
       ELSE IF side = None THEN Rows(<<>>)
       ELSE Rows(<<transferToParsedTx(side.pair, from, Value(res, "amount"), side.fromPair, 0)>>)

bankTransferMapper(res, app, txSender) ==
    LET from  == TransferFallbackSender(Value(res, "sender"), txSender)
        side  == pairBy(app.pairs, from, Value(res, "recipient"))
        coins == Value(res, "amount")
    IN IF CheckResult(res, 2) # "ok" THEN Rows(<<>>)
       ELSE IF AmbiguousFor(res, {"sender", "recipient", "amount"}) THEN Ambiguous
       ELSE IF side = None THEN Rows(<<>>)
       ELSE IF \E i \in DOMAIN coins : IndexOf(side.pair.assets, coins[i].addr) = 0 THEN Failed
       ELSE Rows(<<transferToParsedTx(side.pair, from, coins, side.fromPair, 0)>>)

-----------------------------------------------------------------------------
(* Pair actions, read from a match sorted by key. *)

InPairOrder(coins, pair) ==
    IF coins[1].addr = pair.assets[1] THEN coins ELSE <<coins[2], coins[1]>>

swapMatchedToParsedTx(res, pair) ==
    LET offer == IF Value(res, "offer_asset") = pair.assets[2] THEN 2 ELSE 1
    IN IF CheckResult(res, 10) # "ok" THEN Failed
       ELSE IF AmbiguousFor(res, {"offer_asset", "offer_amount", "return_amount", "sender",
                               "commission_amount"}) THEN Ambiguous
       ELSE Rows(<<Row("swap", Value(res, "sender"), res[1].val,
                [i \in 1..2 |-> Coin(pair.assets[i],
                    IF i = offer THEN Value(res, "offer_amount")
                    ELSE Neg(Value(res, "return_amount")))],
                None, None, 0)>>)

provideMatchedToParsedTx(res, pair) ==
    IF CheckResult(res, 6) # "ok" \/ Len(res[3].val) # 2 THEN Failed
    ELSE Rows(<<Row("provide", res[5].val, res[1].val, InPairOrder(res[3].val, pair),
                    pair.lp, res[6].val, 0)>>)

withdrawMatchedToParsedTx(res, pair) ==
    IF CheckResult(res, 5) # "ok" \/ Len(res[3].val) # 2 THEN Failed
    ELSE LET refund == InPairOrder(res[3].val, pair)
         IN Rows(<<Row("withdraw", res[4].val, res[1].val,
                       [i \in 1..2 |-> Coin(refund[i].addr, Neg(refund[i].amt))],
                       pair.lp, res[5].val, 0)>>)

(* Version 2 reports a refund as well; it is kept as meta data only. *)
provideMatchedToParsedTxV2(res, pair) ==
    IF CheckResult(res, 7) # "ok" \/ Len(res[3].val) # 2 \/ Len(res[5].val) # 2 THEN Failed
    ELSE Rows(<<Row("provide", res[6].val, res[1].val, InPairOrder(res[3].val, pair),
                    pair.lp, res[7].val, 0)>>)

pairMapperBy(v2, res, pair) ==
    IF v2 THEN provideMatchedToParsedTxV2(res, pair) ELSE provideMatchedToParsedTx(res, pair)

pairMapper(res, app) ==
    LET s == SortResult(res) IN
    IF s[1].val \notin DOMAIN app.pairs THEN Failed
    ELSE LET pair == app.pairs[s[1].val]
         IN CASE s[2].val = "swap"               -> swapMatchedToParsedTx(s, pair)
              [] s[2].val = "provide_liquidity"  -> pairMapperBy(app.v2, s, pair)
              [] s[2].val = "withdraw_liquidity" -> withdrawMatchedToParsedTx(s, pair)
              [] OTHER                           -> Failed

-----------------------------------------------------------------------------
(* The parsers in force at a height: the finders filter by the pairs known *)
(* when it started, the mappers see every pair known by now.               *)
PairActionParser(app, raw) == Parse(pairCommonRule(app.filter), raw, LAMBDA m : pairMapper(m, app))
InitialProvide(app, raw)   == Parse(initialProvideRule(app.filter), raw, initialProvideMapper)
WasmTransfer(app, raw)     == Parse(wasmTransferRule, raw, LAMBDA m : wasmTransferMapper(m, app))
Transfer(app, txSender, raw) ==
    Parse(CreateTransferRuleFinder, raw, LAMBDA m : bankTransferMapper(m, app, txSender))
BurnParser(raw) == Parse(burnRule, raw, burnMapper)

(* What is parsed once the pairs the transaction created are known.        *)
ParseLogs(app, tx, created) ==
    LET known == [app EXCEPT !.pairs = LearnPairs(@, created.rows)]
    IN IF created.err # "none" THEN GaveUp(created.err, app)
       ELSE Stored(tx.sender, created, known,
           Gather(tx.logs, LAMBDA raw : PairActionParser(known, raw),
               LAMBDA raw : InitialProvide(known, raw), LAMBDA raw : WasmTransfer(known, raw),
               NoStage, LAMBDA raw : Transfer(known, tx.sender, raw), BurnParser))

(* The pairs a transaction creates come first; its other events are read   *)
(* with them in the map, but with the filters as they were.                *)
ParseTxs(app, tx) == ParseLogs(app, tx, Parse(createPairRule, tx.logs, createPairMapper))

UpdateParsers(app, tokenExceptions) ==
    [app EXCEPT !.filter = DOMAIN app.pairs, !.exceptions = tokenExceptions]

New(storedPairs, v2) ==
    [pairs |-> storedPairs, filter |-> {}, exceptions |-> {}, flagged |-> {}, v2 |-> v2]
=============================================================================
