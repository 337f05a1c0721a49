--------------------------- MODULE ColumbusV2App ---------------------------
(***************************************************************************)
(* The terraswap target application for columbus-5                         *)
(* (parser/dex/terraswap/columbusv2, pkg/dex/terraswap/columbusv2).  The   *)
(* chain taxes what a pair sends: first as a key of the swap event, later  *)
(* as a transfer and an event of its own, which the application matches    *)
(* with the pair actions by amount and message.                            *)
(***************************************************************************)
EXTENDS DexRows

createPairRule ==
    [type |-> "wasm", until |-> None,
     items |-> <<ValueIn("_contract_address", {Factory}), ValueIn("action", {"create_pair"}),
                 AnyValue("pair"), AnyValue("_contract_address"),
                 AnyValue("liquidity_token_addr")>>]

pairCommonRule(pairFilter) ==
    [type |-> "wasm", until |-> "_contract_address",
     items |-> <<ValueIn("_contract_address", pairFilter),
                 ValueIn("action", {"swap", "provide_liquidity", "withdraw_liquidity"})>>]

wasmTransferCommonRule ==
    [type |-> "wasm", until |-> "_contract_address",
     items |-> <<AnyValue("_contract_address"), ValueIn("action", {"transfer", "transfer_from"})>>]

taxPaymentRule ==
    [type |-> "tax_payment", until |-> None,
     items |-> <<AnyValue("reverse_charge"), AnyValue("tax_amount")>>]

burnRule ==
    [type |-> "wasm", until |-> None,
     items |-> <<AnyValue("_contract_address"), ValueIn("action", {"burn"}),
                 AnyValue("from"), AnyValue("amount")>>]

InPairOrder(coins, pair) ==
    IF coins[1].addr = pair.assets[1] THEN coins ELSE <<coins[2], coins[1]>>

swapMatchedToParsedTx(res, pair) ==
    LET offer == IF Value(res, "offer_asset") = pair.assets[2] THEN 2 ELSE 1
        tax   == IF Has(res, "tax_amount") THEN Value(res, "tax_amount") ELSE 0
    IN IF AmbiguousFor(res, {"_contract_address", "offer_asset", "offer_amount", "return_amount",
                             "sender", "commission_amount", "tax_amount"}) THEN Ambiguous
       ELSE Rows(<<Row("swap", Value(res, "sender"), Value(res, "_contract_address"),
                [i \in 1..2 |-> Coin(pair.assets[i],
                    IF i = offer THEN Value(res, "offer_amount")
                    ELSE Neg(Value(res, "return_amount")) + tax)],
                None, None, MsgIndex(res))>>)

(* A cw20 token is transferred once, net of the refund. *)
applyRefundAsset(provide, refund) ==
    [i \in 1..2 |-> IF provide[i].addr \in Cw20
                    THEN Coin(provide[i].addr, provide[i].amt - refund[i].amt) ELSE provide[i]]

provideMatchedToParsedTx(res, pair) ==
    LET Of(key)  == InPairOrder(Value(res, key), pair)
        refunded == Has(res, "refund_assets")
        assets   == IF refunded THEN applyRefundAsset(Of("assets"), Of("refund_assets"))
                    ELSE Of("assets")
    IN IF AmbiguousFor(res, {"_contract_address", "assets", "sender", "share", "refund_assets"})
           THEN Ambiguous
       ELSE IF \/ Value(res, "assets") = None
               \/ refunded /\ \E i \in 1..2 : Of("assets")[i].addr # Of("refund_assets")[i].addr
           THEN Failed
       ELSE Rows(<<Row("provide", Value(res, "sender"), Value(res, "_contract_address"),
                                assets, pair.lp, Value(res, "share"), MsgIndex(res))>>)

(* The refund is taxed, so the amounts are left to the transfers. *)
withdrawMatchedToParsedTx(res, pair) ==
    IF AmbiguousFor(res, {"_contract_address", "refund_assets", "sender", "withdrawn_share"})
        THEN Ambiguous
    ELSE IF Value(res, "refund_assets") = None THEN Failed
    ELSE Rows(<<Row("withdraw", Value(res, "sender"), Value(res, "_contract_address"),
                             [i \in 1..2 |-> Coin(InPairOrder(Value(res, "refund_assets"), pair)[i].addr, 0)],
                             pair.lp, Value(res, "withdrawn_share"), MsgIndex(res))>>)

pairMapper(res, pairs) ==
    IF res[1].val \notin DOMAIN pairs THEN Failed
    ELSE LET pair == pairs[res[1].val]
         IN CASE res[2].val = "swap"               -> swapMatchedToParsedTx(res, pair)
              [] res[2].val = "provide_liquidity"  -> provideMatchedToParsedTx(res, pair)
              [] res[2].val = "withdraw_liquidity" -> withdrawMatchedToParsedTx(res, pair)
              [] OTHER                           -> Failed

-----------------------------------------------------------------------------
(* Tax payments. *)

getPairAddrs(pairTxs) == {pairTxs[i].contract : i \in DOMAIN pairTxs}

getPairTransfers(pairAddrs, transferTxs) ==
    SelectSeq(transferTxs, LAMBDA t : t.contract \in pairAddrs)

(* A tax payment takes one transfer of that amount out of a pair in the    *)
(* same message: the one to the collector.                                 *)
extractTaxTransfers(transferTxs, taxTxs, pairAddrs) ==
    LET Single(t) == IF t.assets[1].amt = None THEN t.assets[2] ELSE t.assets[1]
        Pays(tax, t) ==
            /\ t.sender \in pairAddrs
            /\ ~(t.assets[1].amt # None /\ t.assets[2].amt # None)
            /\ IsOutflow(Single(t).amt)
            /\ tax.msg = t.msg
            /\ tax.assets[1] = Coin(Single(t).addr, Neg(Single(t).amt))
        Take(acc, t) ==
            LET due == {i \in DOMAIN acc.due : Pays(acc.due[i], t)}
            IN IF due = {} THEN [acc EXCEPT !.remaining = Append(@, t)]
               ELSE [acc EXCEPT !.taxTransfers = Append(@, t),
                                !.due = RemoveAt(@, CHOOSE i \in due : TRUE)]
    IN FoldLeft(Take, [due |-> taxTxs, taxTransfers |-> <<>>, remaining |-> <<>>], transferTxs)

(* The absolute value of an amount, zero for the empty one.  The code has  *)
(* int64 here and drops the error of an amount that does not fit; amounts  *)
(* are below that width in the model.                                      *)
AbsOf(amt) == IF IsOutflow(amt) THEN 0 - amt ELSE emptyStringToZero(amt)

(* A pair action that recorded the gross amount is set to the net amount   *)
(* transferred when the two differ by a tax payment of the same message.   *)
(* Of two actions with the same pair, side, amount and message only the    *)
(* last is found; a found one is not used again.                           *)
deductTaxFromPairTxs(taxTxs, pairTransferTxs, pairTxs) ==
    LET Key(i, j)  == <<pairTxs[i].contract, j, AbsOf(pairTxs[i].assets[j].amt), pairTxs[i].msg>>
        Indexed(used, key) ==
            {i \in DOMAIN pairTxs :
                key \notin used /\ \E j \in {k \in 1..2 : pairTxs[i].assets[k].amt # None} : Key(i, j) = key}
        Last1(S) == CHOOSE i \in S : \A k \in S : k <= i
        First(S) == CHOOSE i \in S : \A k \in S : i <= k
        Take(acc, t) ==
            LET side  == IF t.assets[1].amt # None THEN 1 ELSE 2
                net   == t.assets[side]
                Gross(q) == <<t.contract, side, AbsOf(net.amt) + acc.due[q].assets[1].amt, t.msg>>
                fits  == {q \in DOMAIN acc.due :
                            /\ acc.due[q].assets[1].addr = net.addr
                            /\ acc.due[q].msg = t.msg
                            /\ Indexed(acc.used, Gross(q)) # {}}
            IN IF fits = {} THEN acc
               ELSE LET q == First(fits)
                    IN [txs  |-> [acc.txs EXCEPT ![Last1(Indexed(acc.used, Gross(q)))].assets[side].amt = net.amt],
                        used |-> acc.used \cup {Gross(q)},
                        due  |-> RemoveAt(acc.due, q)]
    IN FoldLeft(Take, [txs |-> pairTxs, used |-> {}, due |-> taxTxs], pairTransferTxs).txs

-----------------------------------------------------------------------------
(* The parsers in force at a height: the finders filter by the pairs known *)
(* when it started, the mappers see every pair known by now.               *)
PairActionParser(app, raw) == Parse(pairCommonRule(app.filter), raw, LAMBDA m : pairMapper(m, app.pairs))
InitialProvide(app, raw)   == Parse(CreatePairInitialProvideRuleFinder(app.filter), raw, initialProvideMapper)
WasmTransfer(app, raw) ==
    Parse(wasmTransferCommonRule, raw, LAMBDA m :
        wasmCommonTransferMapper(m, "_contract_address", app.pairs, app.exceptions))
TaxPaymentParser(raw) == Parse(taxPaymentRule, raw, taxPaymentMapper)
Transfer(app, txSender, raw) ==
    Parse(CreateTransferRuleFinder, raw, LAMBDA m : transferMapper(m, app.pairs, txSender))
BurnParser(raw) == Parse(burnRule, raw, burnMapper)

-----------------------------------------------------------------------------
(* The actions and transfers of a transaction once its taxes are settled. *)
SettledBy(g, split) ==
    [act |-> deductTaxFromPairTxs(g.tax, getPairTransfers(getPairAddrs(g.act), split.remaining), g.act),
     taxTransfers |-> split.taxTransfers,
     native       |-> split.remaining]
Settled(g) ==
    IF g.tax = <<>> THEN [act |-> g.act, taxTransfers |-> <<>>, native |-> g.native]
    ELSE SettledBy(g, extractTaxTransfers(g.native, g.tax, getPairAddrs(g.act)))

RowsAfterTax(sender, created, known, g, settled) ==
    SignedBy(sender, created.rows) \o SignedBy(sender, settled.act)
    \o settled.taxTransfers
    \o RemoveDuplicatedTxs(settled.act, g.wasm \o settled.native)
    \o CollectLpBurnTxs(g.burn, LpPairs(known.pairs))

Finish(tx, created, known, g) ==
    Result(g, [known EXCEPT !.flagged =
                  @ \cup FlaggedBy(wasmTransferCommonRule, g.read, "_contract_address", known.exceptions)],
           RowsAfterTax(tx.sender, created, known, g, Settled(g)))

(* What is parsed once the pairs the transaction created are known.        *)
ParseLogs(app, tx, created) ==
    LET known == [app EXCEPT !.pairs = LearnPairs(@, created.rows)]
    IN IF created.err # "none" THEN GaveUp(created.err, app)
       ELSE Finish(tx, created, known,
           Gather(tx.logs, LAMBDA raw : PairActionParser(known, raw),
               LAMBDA raw : InitialProvide(known, raw), LAMBDA raw : WasmTransfer(known, raw),
               TaxPaymentParser, LAMBDA raw : Transfer(known, tx.sender, raw), BurnParser))

(* The pairs a transaction creates come first; its other events are read   *)
(* with them in the map, but with the filters as they were.                *)
ParseTxs(app, tx) == ParseLogs(app, tx, Parse(createPairRule, tx.logs, factoryMapper))

UpdateParsers(app, tokenExceptions) ==
    [app EXCEPT !.filter = DOMAIN app.pairs, !.exceptions = tokenExceptions]

New(storedPairs, v2) ==
    [pairs |-> storedPairs, filter |-> {}, exceptions |-> {}, flagged |-> {}, v2 |-> v2]
=============================================================================
