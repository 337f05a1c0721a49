---------------------------- MODULE PhoenixApp -----------------------------
(***************************************************************************)
(* The terraswap target application for phoenix-1                          *)
(* (parser/dex/terraswap/phoenix, pkg/dex/terraswap/phoenix).  Mappers     *)
(* look values up by key, so a missing key reads as an empty value and a   *)
(* repeated one makes the match ambiguous.                                 *)
(***************************************************************************)
EXTENDS DexRows

createPairRule ==
    [type |-> "wasm", until |-> None,
     items |-> <<ValueIn("_contract_address", {Factory}), ValueIn("action", {"create_pair"}),
                 AnyValue("pair"), AnyValue("_contract_address"),
                 AnyValue("liquidity_token_addr")>>]

pairCommonRule(pairFilter) ==
    [type |-> "wasm", until |-> "_contract_address",
     items |-> <<ValueIn("_contract_address", pairFilter),
                 ValueIn("action", {"swap", "provide_liquidity", "withdraw_liquidity"})>>]

wasmTransferCommonRule ==
    [type |-> "wasm", until |-> "_contract_address",
     items |-> <<AnyValue("_contract_address"), ValueIn("action", {"transfer", "transfer_from"})>>]

InPairOrder(coins, pair) ==
    IF coins[1].addr = pair.assets[1] THEN coins ELSE <<coins[2], coins[1]>>

swapMatchedToParsedTx(res, pair) ==
    LET offer == IF Value(res, "offer_asset") = pair.assets[2] THEN 2 ELSE 1
    IN IF AmbiguousFor(res, {"_contract_address", "offer_asset", "offer_amount", "return_amount",
                             "sender", "commission_amount"}) THEN Ambiguous
       ELSE Rows(<<Row("swap", Value(res, "sender"), Value(res, "_contract_address"),
                [i \in 1..2 |-> Coin(pair.assets[i],
                    IF i = offer THEN Value(res, "offer_amount")
                    ELSE Neg(Value(res, "return_amount")))],
                None, None, 0)>>)

(* A cw20 token is transferred once, net of the refund. *)
applyRefundAsset(provide, refund) ==
    [i \in 1..2 |-> IF provide[i].addr \in Cw20
                    THEN Coin(provide[i].addr, provide[i].amt - refund[i].amt) ELSE provide[i]]

provideMatchedToParsedTx(res, pair) ==
    LET Of(key)  == InPairOrder(Value(res, key), pair)
        refunded == Has(res, "refund_assets")
        assets   == IF refunded THEN applyRefundAsset(Of("assets"), Of("refund_assets"))
                    ELSE Of("assets")
    IN IF AmbiguousFor(res, {"_contract_address", "assets", "sender", "share", "refund_assets"})
           THEN Ambiguous
       ELSE IF \/ Value(res, "assets") = None
               \/ refunded /\ \E i \in 1..2 : Of("assets")[i].addr # Of("refund_assets")[i].addr
           THEN Failed
       ELSE Rows(<<Row("provide", Value(res, "sender"), Value(res, "_contract_address"),
                                assets, pair.lp, Value(res, "share"), 0)>>)

withdrawMatchedToParsedTx(res, pair) ==
    LET refund == InPairOrder(Value(res, "refund_assets"), pair)
    IN IF AmbiguousFor(res, {"_contract_address", "refund_assets", "sender", "withdrawn_share"})
           THEN Ambiguous
       ELSE IF Value(res, "refund_assets") = None THEN Failed
       ELSE Rows(<<Row("withdraw", Value(res, "sender"), Value(res, "_contract_address"),
                                [i \in 1..2 |-> Coin(refund[i].addr, Neg(refund[i].amt))],
                                pair.lp, Value(res, "withdrawn_share"), 0)>>)

pairMapper(res, pairs) ==
    IF res[1].val \notin DOMAIN pairs THEN Failed
    ELSE LET pair == pairs[res[1].val]
         IN CASE res[2].val = "swap"               -> swapMatchedToParsedTx(res, pair)
              [] res[2].val = "provide_liquidity"  -> provideMatchedToParsedTx(res, pair)
              [] res[2].val = "withdraw_liquidity" -> withdrawMatchedToParsedTx(res, pair)
              [] OTHER                           -> Failed

-----------------------------------------------------------------------------
(* The parsers in force at a height: the finders filter by the pairs known *)
(* when it started, the mappers see every pair known by now.               *)
PairActionParser(app, raw) == Parse(pairCommonRule(app.filter), raw, LAMBDA m : pairMapper(m, app.pairs))
InitialProvide(app, raw)   == Parse(CreatePairInitialProvideRuleFinder(app.filter), raw, initialProvideMapper)
WasmTransfer(app, raw) ==
    Parse(wasmTransferCommonRule, raw, LAMBDA m :
        wasmCommonTransferMapper(m, "_contract_address", app.pairs, app.exceptions))
Transfer(app, txSender, raw) ==
    Parse(CreateTransferRuleFinder, raw, LAMBDA m : transferMapper(m, app.pairs, txSender))
BurnParser(raw) == Parse(CreateBurnRuleFinder, raw, burnMapper)

(* What is parsed once the pairs the transaction created are known.        *)
ParseLogs(app, tx, created) ==
    LET known == [app EXCEPT !.pairs = LearnPairs(@, created.rows)]
    IN IF created.err # "none" THEN GaveUp(created.err, app)
       ELSE StoredFlagging(wasmTransferCommonRule, "_contract_address", tx.sender, created, known,
           Gather(tx.logs, LAMBDA raw : PairActionParser(known, raw),
               LAMBDA raw : InitialProvide(known, raw), LAMBDA raw : WasmTransfer(known, raw),
               NoStage, LAMBDA raw : Transfer(known, tx.sender, raw), BurnParser))

(* The pairs a transaction creates come first; its other events are read   *)
(* with them in the map, but with the filters as they were.                *)
ParseTxs(app, tx) == ParseLogs(app, tx, Parse(createPairRule, tx.logs, factoryMapper))

UpdateParsers(app, tokenExceptions) ==
    [app EXCEPT !.filter = DOMAIN app.pairs, !.exceptions = tokenExceptions]

New(storedPairs, v2) ==
    [pairs |-> storedPairs, filter |-> {}, exceptions |-> {}, flagged |-> {}, v2 |-> v2]
=============================================================================
