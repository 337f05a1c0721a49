--------------------------- MODULE ColumbusV1App ---------------------------
(***************************************************************************)
(* The terraswap target application for the first columbus chain           *)
(* (parser/dex/terraswap/columbusv1, pkg/dex/terraswap/columbusv1).  Its   *)
(* events have another type and another address key, mappers read a match  *)
(* by position, and neither a first provide nor a burn of LP tokens is     *)
(* looked for.                                                             *)
(***************************************************************************)
EXTENDS DexRows

col4CreatePairRule ==
    [type |-> "from_contract", until |-> None,
     items |-> <<ValueIn("contract_address", {Factory}), ValueIn("action", {"create_pair"}),
                 AnyValue("pair"), AnyValue("contract_address"),
                 AnyValue("liquidity_token_addr")>>]

col4PairCommonRule(pairFilter) ==
    [type |-> "from_contract", until |-> "contract_address",
     items |-> <<ValueIn("contract_address", pairFilter),
                 ValueIn("action", {"swap", "provide_liquidity", "withdraw_liquidity"})>>]

col4WasmTransferCommonRule ==
    [type |-> "from_contract", until |-> "contract_address",
     items |-> <<AnyValue("contract_address"), ValueIn("action", {"transfer", "transfer_from"})>>]

InPairOrder(coins, pair) ==
    IF coins[1].addr = pair.assets[1] THEN coins ELSE <<coins[2], coins[1]>>

(* The amount returned leaves the pool net of the chain's tax. *)
swapMatchedToParsedTx(res, pair) ==
    IF CheckResult(res, 9) # "ok" THEN Failed
    ELSE LET offer == IF res[3].val = pair.assets[2] THEN 2 ELSE 1
         IN Rows(<<Row("swap", None, res[1].val,
                [i \in 1..2 |-> Coin(pair.assets[i],
                    IF i = offer THEN res[5].val ELSE Neg(res[6].val) + res[7].val)],
                None, None, 0)>>)

provideMatchedToParsedTx(res, pair) ==
    IF CheckResult(res, 4) # "ok" \/ Len(res[3].val) # 2 THEN Failed
    ELSE Rows(<<Row("provide", None, res[1].val, InPairOrder(res[3].val, pair),
                    pair.lp, res[4].val, 0)>>)

(* The refund is taxed too, so the amounts are left to the transfers. *)
withdrawMatchedToParsedTx(res, pair) ==
    IF CheckResult(res, 4) # "ok" \/ Len(res[4].val) # 2 THEN Failed
    ELSE Rows(<<Row("withdraw", None, res[1].val,
                    [i \in 1..2 |-> Coin(InPairOrder(res[4].val, pair)[i].addr, 0)],
                    pair.lp, res[3].val, 0)>>)

pairMapper(res, pairs) ==
    IF res[1].val \notin DOMAIN pairs THEN Failed
    ELSE LET pair == pairs[res[1].val]
         IN CASE res[2].val = "swap"               -> swapMatchedToParsedTx(res, pair)
              [] res[2].val = "provide_liquidity"  -> provideMatchedToParsedTx(res, pair)
              [] res[2].val = "withdraw_liquidity" -> withdrawMatchedToParsedTx(res, pair)
              [] OTHER                           -> Failed

-----------------------------------------------------------------------------
(* The parsers in force at a height: the finders filter by the pairs known *)
(* when it started, the mappers see every pair known by now.               *)
PairActionParser(app, raw) == Parse(col4PairCommonRule(app.filter), raw, LAMBDA m : pairMapper(m, app.pairs))
WasmTransfer(app, raw) ==
    Parse(col4WasmTransferCommonRule, raw, LAMBDA m :
        wasmCommonTransferMapper(m, "contract_address", app.pairs, app.exceptions))
Transfer(app, txSender, raw) ==
    Parse(CreateTransferRuleFinder, raw, LAMBDA m : transferMapper(m, app.pairs, txSender))

(* What is parsed once the pairs the transaction created are known.        *)
ParseLogs(app, tx, created) ==
    LET known == [app EXCEPT !.pairs = LearnPairs(@, created.rows)]
    IN IF created.err # "none" THEN GaveUp(created.err, app)
       ELSE StoredFlagging(col4WasmTransferCommonRule, "contract_address", tx.sender, created, known,
           Gather(tx.logs, LAMBDA raw : PairActionParser(known, raw),
               NoStage, LAMBDA raw : WasmTransfer(known, raw),
               NoStage, LAMBDA raw : Transfer(known, tx.sender, raw), NoStage))

(* The pairs a transaction creates come first; its other events are read   *)
(* with them in the map, but with the filters as they were.                *)
ParseTxs(app, tx) == ParseLogs(app, tx, Parse(col4CreatePairRule, tx.logs, factoryMapper))

UpdateParsers(app, tokenExceptions) ==
    [app EXCEPT !.filter = DOMAIN app.pairs, !.exceptions = tokenExceptions]

New(storedPairs, v2) ==
    [pairs |-> storedPairs, filter |-> {}, exceptions |-> {}, flagged |-> {}, v2 |-> v2]
=============================================================================
