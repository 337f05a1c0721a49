---------------------------- MODULE DezswapApp -----------------------------
(***************************************************************************)
(* The dezswap target application (parser/dex/dezswap, pkg/dex/dezswap).   *)
(* Mappers sort a match by key and read it by position.                    *)
(*                                                                         *)
(* app is the application's state: the pairs it knows, the snapshot of     *)
(* them its finders filter by (taken by UpdateParsers), the registered     *)
(* token exceptions, the tokens flagged as candidates for one (terraswap   *)
(* only) and the contract version in force at the height.                  *)
(***************************************************************************)
EXTENDS DexRows

createPairRule ==
    [type |-> "wasm", until |-> None,
     items |-> <<ValueIn("_contract_address", {Factory}), ValueIn("action", {"create_pair"}),
                 AnyValue("pair"), AnyValue("_contract_address"),
                 AnyValue("liquidity_token_addr")>>]

pairCommonRule(pairFilter) ==
    [type |-> "wasm", until |-> "_contract_address",
     items |-> <<ValueIn("_contract_address", pairFilter),
                 ValueIn("action", {"swap", "provide_liquidity", "withdraw_liquidity"})>>]

wasmTransferRule ==
    [type |-> "wasm", until |-> "_contract_address",
     items |-> <<AnyValue("_contract_address"), ValueIn("action", {"transfer", "transfer_from"})>>]

createPairMapper(res) ==
    LET s == SortResult(res)
    IN IF CheckResult(res, 5) # "ok" \/ Len(s[3].val) # 2 THEN Failed
       ELSE Rows(<<Row("create_pair", None, s[4].val,
                       <<Coin(s[3].val[1], None), Coin(s[3].val[2], None)>>, s[5].val, None, 0)>>)

(* A transfer between two pairs belongs to the sending one alone. *)
pairBy(pairs, from, to) ==
    IF from \in DOMAIN pairs THEN [pair |-> pairs[from], fromPair |-> TRUE]
    ELSE IF to \in DOMAIN pairs THEN [pair |-> pairs[to], fromPair |-> FALSE]
    ELSE None

(* A token that is no asset of the pair is an error. *)
matchedToParsedTx(side, from, token, amount) ==
    LET idx == IndexOf(side.pair.assets, token)
    IN IF idx = 0 THEN Failed
       ELSE Rows(<<Row("transfer", from, side.pair.contract,
                       [Empty(side.pair) EXCEPT ![idx].amt =
                            IF side.fromPair THEN Neg(amount) ELSE amount],
                       None, None, 0)>>)

transferMatchedToParsedTx(res, pairs) ==
    IF Len(res) < 5 \/ res[4].key # "from" THEN Rows(<<>>)
    ELSE LET side == pairBy(pairs, res[4].val, res[5].val)
         IN IF side = None THEN Rows(<<>>)
            ELSE matchedToParsedTx(side, res[4].val, res[1].val, res[3].val)

transferFromMatchedToParsedTx(res, pairs) ==
    IF CheckResult(res, 6) # "ok" THEN Failed
    ELSE LET side == pairBy(pairs, res[5].val, res[6].val)
         IN IF side = None THEN Rows(<<>>)
            ELSE matchedToParsedTx(side, res[5].val, res[1].val, res[3].val)

wasmTransferMapper(res, app) ==
    LET s == SortResult(res)
    IN IF s[1].val \in app.exceptions THEN Rows(<<>>)
       ELSE IF s[2].val = "transfer" THEN transferMatchedToParsedTx(s, app.pairs)
       ELSE IF s[2].val = "transfer_from" THEN transferFromMatchedToParsedTx(s, app.pairs)
       ELSE Failed

(* Every value of the match is checked before the pair is looked up, so an *)
(* empty value fails the transaction whoever the transfer is between.      *)
nativeTransferMapper(res, app, txSender) ==
    LET from  == TransferFallbackSender(Value(res, "sender"), txSender)
        side  == pairBy(app.pairs, from, Value(res, "recipient"))
        coins == Value(res, "amount")
    IN IF CheckResult(res, 2) # "ok" THEN Failed
       ELSE IF AmbiguousFor(res, {"sender", "recipient", "amount"}) THEN Ambiguous
       ELSE IF side = None THEN Rows(<<>>)
       ELSE IF \E i \in DOMAIN coins : IndexOf(side.pair.assets, coins[i].addr) = 0 THEN Failed
       ELSE Rows(<<transferToParsedTx(side.pair, from, coins, side.fromPair, 0)>>)

-----------------------------------------------------------------------------
(* Pair actions. *)

(* A list of two coins put in the pair's order. *)
InPairOrder(coins, pair) ==
    IF coins[1].addr = pair.assets[1] THEN coins ELSE <<coins[2], coins[1]>>

swapMatchedToParsedTx(res, pair) ==
    LET offer == IF Value(res, "offer_asset") = pair.assets[2] THEN 2 ELSE 1
    IN IF CheckResult(res, 10) # "ok" THEN Failed
       ELSE IF AmbiguousFor(res, {"offer_asset", "offer_amount", "return_amount", "sender",
                               "commission_amount"}) THEN Ambiguous
       ELSE Rows(<<Row("swap", Value(res, "sender"), res[1].val,
                [i \in 1..2 |-> Coin(pair.assets[i],
                    IF i = offer THEN Value(res, "offer_amount")
                    ELSE Neg(Value(res, "return_amount")))],
                None, None, 0)>>)

provideMatchedToParsedTx(res, pair) ==
    IF CheckResult(res, 6) # "ok" \/ Len(res[3].val) # 2 THEN Failed
    ELSE Rows(<<Row("provide", res[5].val, res[1].val, InPairOrder(res[3].val, pair),
                    pair.lp, res[6].val, 0)>>)

withdrawMatchedToParsedTx(res, pair) ==
    IF CheckResult(res, 5) # "ok" \/ Len(res[3].val) # 2 THEN Failed
    ELSE LET refund == InPairOrder(res[3].val, pair)
         IN Rows(<<Row("withdraw", res[4].val, res[1].val,
                       [i \in 1..2 |-> Coin(refund[i].addr, Neg(refund[i].amt))],
                       pair.lp, res[5].val, 0)>>)

(* A cw20 token is transferred once, net of the refund. *)
applyRefundAsset(provide, refund) ==
    [i \in 1..2 |-> IF provide[i].addr \in Cw20
                    THEN Coin(provide[i].addr, provide[i].amt - refund[i].amt) ELSE provide[i]]

provideMatchedToParsedTxV2(res, pair) ==
    IF CheckResult(res, 7) # "ok" \/ Len(res[3].val) # 2 \/ Len(res[5].val) # 2 THEN Failed
    ELSE LET provide == InPairOrder(res[3].val, pair)
             refund  == InPairOrder(res[5].val, pair)
         IN IF \E i \in 1..2 : provide[i].addr # refund[i].addr THEN Failed
            ELSE Rows(<<Row("provide", res[6].val, res[1].val, applyRefundAsset(provide, refund),
                            pair.lp, res[7].val, 0)>>)

(* The version of the pair contract decides how a provide is read. *)
pairMapperBy(v2, res, pair) ==
    IF v2 THEN provideMatchedToParsedTxV2(res, pair) ELSE provideMatchedToParsedTx(res, pair)

pairMapper(res, app) ==
    LET s == SortResult(res) IN
    IF s[1].val \notin DOMAIN app.pairs THEN Failed
    ELSE LET pair == app.pairs[s[1].val]
         IN CASE s[2].val = "swap"               -> swapMatchedToParsedTx(s, pair)
              [] s[2].val = "provide_liquidity"  -> pairMapperBy(app.v2, s, pair)
              [] s[2].val = "withdraw_liquidity" -> withdrawMatchedToParsedTx(s, pair)
              [] OTHER                           -> Failed

-----------------------------------------------------------------------------
(* The parsers in force at a height: the finders filter by the pairs known *)
(* when it started, the mappers see every pair known by now.               *)
PairActionParser(app, raw) == Parse(pairCommonRule(app.filter), raw, LAMBDA m : pairMapper(m, app))
InitialProvide(app, raw)   == Parse(CreatePairInitialProvideRuleFinder(app.filter), raw, initialProvideMapper)
WasmTransfer(app, raw)     == Parse(wasmTransferRule, raw, LAMBDA m : wasmTransferMapper(m, app))
Transfer(app, txSender, raw) ==
    Parse(CreateTransferRuleFinder, raw, LAMBDA m : nativeTransferMapper(m, app, txSender))
BurnParser(raw) == Parse(CreateBurnRuleFinder, raw, burnMapper)

(* What is parsed once the pairs the transaction created are known.        *)
ParseLogs(app, tx, created) ==
    LET known == [app EXCEPT !.pairs = LearnPairs(@, created.rows)]
    IN IF created.err # "none" THEN GaveUp(created.err, app)
       ELSE Stored(tx.sender, created, known,
           Gather(tx.logs, LAMBDA raw : PairActionParser(known, raw),
               LAMBDA raw : InitialProvide(known, raw), LAMBDA raw : WasmTransfer(known, raw),
               NoStage, LAMBDA raw : Transfer(known, tx.sender, raw), BurnParser))

(* The pairs a transaction creates come first; its other events are read   *)
(* with them in the map, but with the filters as they were.                *)
ParseTxs(app, tx) == ParseLogs(app, tx, Parse(createPairRule, tx.logs, createPairMapper))

(* The finders filter by the pairs known when the height starts. *)
UpdateParsers(app, tokenExceptions) ==
    [app EXCEPT !.filter = DOMAIN app.pairs, !.exceptions = tokenExceptions]

(* A fresh application: the pairs the database holds. *)
New(storedPairs, v2) ==
    [pairs |-> storedPairs, filter |-> {}, exceptions |-> {}, flagged |-> {}, v2 |-> v2]
=============================================================================
