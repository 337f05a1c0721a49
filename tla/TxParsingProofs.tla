-------------------------- MODULE TxParsingProofs --------------------------
(***************************************************************************)
(* The order in which a transaction's logs come out of the source's map    *)
(* decides nothing (LogOrderDoesNotMatter), for every application,         *)
(* version and format of events and for transactions of any length.        *)
(*                                                                         *)
(* There is one log per type of event, and every parser of an application  *)
(* looks at logs of one type.  So the rows of each parser come from one    *)
(* log, wherever it stands (GatherInAnyOrder).  That an application's      *)
(* parsers are such stages is shown for each of them by the same lemmas;   *)
(* each application module repeats the definitions of DexRows under names  *)
(* of its own, which the ...Copies lemmas identify.                        *)
(***************************************************************************)
EXTENDS TxParsing, DexRowsProofs, FiniteSetTheorems

(* What a mapper makes of a match. *)
Plain(r) == r.rows = <<>> \/ r.rows = <<r.rows[1]>>
(* No rows are a sequence of rows.                                         *)
LEMMA NoneIsSeq == IsSeq(<<>>)
<1>1. <<>> \in Seq({})
  OBVIOUS
<1> QED  BY <1>1 DEF IsSeq

(* So is what a mapper gives that makes at most one row.                   *)
LEMMA PlainIsSeq == ASSUME NEW r, Plain(r) PROVE IsSeq(r.rows)
<1>1. <<>> \in Seq({}) /\ <<r.rows[1]>> \in Seq({r.rows[1]})
  OBVIOUS
<1> QED  BY <1>1 DEF Plain, IsSeq

(* And what a transfer mapper gives: a row for a sender that is a pair,    *)
(* and one for a receiver that is.                                         *)
LEMMA JoinedIsSeq ==
    ASSUME NEW x, NEW y, NEW A, NEW B
    PROVE  IsSeq((IF A THEN <<x>> ELSE <<>>) \o (IF B THEN <<y>> ELSE <<>>))
<1>1. \A s, t \in Seq({x, y}) : s \o t \in Seq({x, y})
  OBVIOUS
<1>2. <<>> \in Seq({x, y}) /\ <<x>> \in Seq({x, y}) /\ <<y>> \in Seq({x, y})
  OBVIOUS
<1> QED  BY <1>1, <1>2 DEF IsSeq

(* What a parser gives for a log, and what a log is.                       *)
Reads(r, type, log) == IsResult(r) /\ (log.type # type => r = Rows(<<>>))
Logs(S, R) == [type : S, attrs : Seq(R)]

(* What no stage looks at gives no rows.                                   *)
LEMMA NothingRead == ASSUME NEW type, NEW log PROVE Reads(Rows(<<>>), type, log)
BY NoneIsSeq DEF Reads, IsResult, Errors, Rows

(* A parser gives what its mapper makes of the matches of its rule, and    *)
(* nothing for a log of another type.                                      *)
LEMMA ParserReads ==
    ASSUME NEW rule, NEW log, Len(log.attrs) \in Nat, NEW mapped,
           \A match \in Range(FindFromLogs(rule, <<log>>)) : IsSeq(mapped[match].rows)
    PROVE  Reads(Collect(FindFromLogs(rule, <<log>>), mapped), rule.type, log)
BY ParserIsStage DEF Reads

(* Sorting the attributes of a transfer log gives attributes.              *)
LEMMA NormalizedIsSeq ==
    ASSUME NEW R, NEW attrs \in Seq(R)
    PROVE  NormalizeTransferAttrs(attrs) \in Seq(R)
<1>1. <<"amount", "recipient", "sender">> \in Seq({"amount", "recipient", "sender"})
  OBVIOUS
<1> QED  BY <1>1, SortedIsSeq DEF NormalizeTransferAttrs

(* What the order of the logs may not change.                              *)
SameOutcome(o, p) ==
    /\ IsStored(o) <=> IsStored(p)
    /\ IsStored(p) => o = p
    /\ o.app.pairs = p.app.pairs

-----------------------------------------------------------------------------
(* Dezswap. *)

(* The application module repeats the shared definitions under names of    *)
(* its own; they say the same.                                             *)
LEMMA DezswapCopies ==
    ASSUME NEW rule, NEW logs, NEW attrs, NEW matches, NEW mapped,
           NEW act, NEW ip, NEW w, NEW tax, NEW nat, NEW b, NEW s
    PROVE  /\ Dezswap!FindFromLogs(rule, logs) = FindFromLogs(rule, logs)
           /\ Dezswap!Collect(matches, mapped) = Collect(matches, mapped)
           /\ Dezswap!GatherFrom(logs, act, ip, w, tax, nat, b) = GatherFrom(logs, act, ip, w, tax, nat, b)
           /\ Dezswap!NormalizeTransferAttrs(attrs) = NormalizeTransferAttrs(attrs)
           /\ Dezswap!Rows(s) = Rows(s) /\ Dezswap!Range(s) = Range(s)
<1>1. Dezswap!FindFromLogs(rule, logs) = FindFromLogs(rule, logs)
  BY ZenonT(60) DEF Dezswap!FindFromLogs, FindFromLogs, Dezswap!FlattenSeq, FlattenSeq, Dezswap!FindFromAttrs, FindFromAttrs,
     Dezswap!SearchAt, SearchAt, Dezswap!NothingSearched, NothingSearched, Dezswap!appendUntil, appendUntil,
     Dezswap!Until, Until, Dezswap!Unskipped, Unskipped, Dezswap!findMatchingSubseq, findMatchingSubseq,
     Dezswap!MatchItem, MatchItem, Dezswap!Match, Match, Dezswap!NothingFound, NothingFound, Dezswap!skipKeys, skipKeys, Dezswap!Last, Last
<1>2. Dezswap!Collect(matches, mapped) = Collect(matches, mapped)
  BY Zenon DEF Dezswap!Collect, Collect, Dezswap!Rows, Rows, Dezswap!TakeMatch, TakeMatch, Dezswap!Failed, Failed
<1>3. Dezswap!GatherFrom(logs, act, ip, w, tax, nat, b) = GatherFrom(logs, act, ip, w, tax, nat, b)
  BY Zenon DEF Dezswap!GatherFrom, GatherFrom, Dezswap!NothingGathered, NothingGathered, Dezswap!TakeLog, TakeLog,
     Dezswap!AfterStages, AfterStages, Dezswap!FirstError, FirstError, Dezswap!Record, Record,
     Dezswap!RawTxContainsCreatePair, RawTxContainsCreatePair
<1>4. Dezswap!NormalizeTransferAttrs(attrs) = NormalizeTransferAttrs(attrs)
  <2>1. ASSUME NEW f, NEW g PROVE Dezswap!InOrder(f, g) = InOrder(f, g)
    BY Zenon DEF Dezswap!InOrder, InOrder, Dezswap!FlattenSeq, FlattenSeq
  <2>2. ASSUME NEW f, NEW a PROVE Dezswap!Flush(f, a) = Flush(f, a)
    BY <2>1, Zenon DEF Dezswap!Flush, Flush
  <2>3. ASSUME NEW f, NEW a, NEW x PROVE Dezswap!Grow(f, a, x) = Grow(f, a, x)
    BY <2>2, Zenon DEF Dezswap!Grow, Grow
  <2>4. ASSUME NEW f, NEW a, NEW x PROVE Dezswap!TakeAttr(f, a, x) = TakeAttr(f, a, x)
    BY <2>2, <2>3, Zenon DEF Dezswap!TakeAttr, TakeAttr
  <2> DEFINE f == <<"amount", "recipient", "sender">>
             base == [sorted |-> <<>>, group |-> <<>>]
             P(t) == t = [i \in 0..Len(attrs) |-> IF i = 0 THEN base ELSE Dezswap!TakeAttr(f, t[i - 1], attrs[i])]
             Q(t) == t = [i \in 0..Len(attrs) |-> IF i = 0 THEN base ELSE TakeAttr(f, t[i - 1], attrs[i])]
  <2>5. \A t : P(t) <=> Q(t)
    BY <2>4, Zenon
  <2>6. (CHOOSE t : P(t)) = (CHOOSE t : Q(t))
    <3> HIDE DEF P, Q
    <3> QED  BY <2>5, Zenon
  <2>7. Dezswap!NormalizeTransferAttrs(attrs) = Dezswap!Flush(f, (CHOOSE t : P(t))[Len(attrs)]).sorted
    BY Zenon DEF Dezswap!NormalizeTransferAttrs, Dezswap!SortAttributes
  <2>8. NormalizeTransferAttrs(attrs) = Flush(f, (CHOOSE t : Q(t))[Len(attrs)]).sorted
    BY Zenon DEF NormalizeTransferAttrs, SortAttributes
  <2> HIDE DEF P, Q, f
  <2> QED  BY <2>2, <2>6, <2>7, <2>8
<1>5. Dezswap!Rows(s) = Rows(s) /\ Dezswap!Range(s) = Range(s)
  BY DEF Dezswap!Rows, Rows, Dezswap!Range, Range
<1> QED  BY <1>1, <1>2, <1>3, <1>4, <1>5

(* No mapper gives more than a sequence of rows.                           *)
LEMMA DezswapMappers ==
    ASSUME NEW m, NEW dex, NEW sender
    PROVE  /\ IsSeq(Dezswap!pairMapper(m, dex).rows)
           /\ IsSeq(Dezswap!initialProvideMapper(m).rows)
           /\ IsSeq(Dezswap!wasmTransferMapper(m, dex).rows)
           /\ IsSeq(Dezswap!nativeTransferMapper(m, dex, sender).rows)
           /\ IsSeq(Dezswap!burnMapper(m).rows)
<1> USE DEF Plain, Dezswap!Failed, Dezswap!Ambiguous, Dezswap!Rows
<1>1. ASSUME NEW s, NEW pair PROVE Plain(Dezswap!swapMatchedToParsedTx(s, pair))
  BY DEF Dezswap!swapMatchedToParsedTx
<1>2. ASSUME NEW s, NEW pair PROVE Plain(Dezswap!withdrawMatchedToParsedTx(s, pair))
  BY DEF Dezswap!withdrawMatchedToParsedTx
<1>3. ASSUME NEW s, NEW pair, NEW v2 PROVE Plain(Dezswap!pairMapperBy(v2, s, pair))
  BY DEF Dezswap!pairMapperBy, Dezswap!provideMatchedToParsedTx, Dezswap!provideMatchedToParsedTxV2
<1>4. Plain(Dezswap!pairMapper(m, dex))
  BY <1>1, <1>2, <1>3 DEF Dezswap!pairMapper
<1>5. Plain(Dezswap!initialProvideMapper(m))
  BY DEF Dezswap!initialProvideMapper
<1>6. ASSUME NEW side, NEW from, NEW token, NEW amount PROVE Plain(Dezswap!matchedToParsedTx(side, from, token, amount))
  BY DEF Dezswap!matchedToParsedTx
<1>7. Plain(Dezswap!wasmTransferMapper(m, dex))
  BY <1>6 DEF Dezswap!wasmTransferMapper, Dezswap!transferMatchedToParsedTx, Dezswap!transferFromMatchedToParsedTx
<1>8. Plain(Dezswap!nativeTransferMapper(m, dex, sender))
  BY DEF Dezswap!nativeTransferMapper
<1>9. Plain(Dezswap!burnMapper(m))
  BY DEF Dezswap!burnMapper
<1> HIDE DEF Plain
<1> QED  BY <1>4, <1>5, <1>7, <1>8, <1>9, PlainIsSeq

(* Every parser gives rows, and none for a log of another type.            *)
LEMMA DezswapReads ==
    ASSUME NEW S, NEW R, NEW log \in Logs(S, R), NEW dex, NEW sender
    PROVE  /\ Reads(Dezswap!PairActionParser(dex, <<log>>), "wasm", log)
           /\ Reads(Dezswap!InitialProvide(dex, <<log>>), "wasm", log)
           /\ Reads(Dezswap!WasmTransfer(dex, <<log>>), "wasm", log)
           /\ Reads(Dezswap!Transfer(dex, sender, <<log>>), "transfer", log)
           /\ Reads(Dezswap!BurnParser(<<log>>), "wasm", log)
<1> DEFINE found(rule) == FindFromLogs(rule, <<log>>)
<1>0. Len(log.attrs) \in Nat
  BY DEF Logs
<1>1. Reads(Dezswap!PairActionParser(dex, <<log>>), "wasm", log)
  <2> DEFINE rule == Dezswap!pairCommonRule(dex.filter)
             mapped == [m \in Range(found(rule)) |-> Dezswap!pairMapper(m, dex)]
  <2>1. Dezswap!PairActionParser(dex, <<log>>) = Collect(found(rule), mapped)
    <3>1. Dezswap!PairActionParser(dex, <<log>>) = CHOOSE r \in {Dezswap!Collect(matches, [m \in Dezswap!Range(matches) |-> Dezswap!pairMapper(m, dex)]) : matches \in {Dezswap!FindFromLogs(rule, <<log>>)}} : TRUE
      BY Zenon DEF Dezswap!PairActionParser, Dezswap!Parse
    <3> HIDE DEF rule
    <3>2. \A matches : Dezswap!Range(matches) = Range(matches)
      BY DezswapCopies
    <3>3. Dezswap!FindFromLogs(rule, <<log>>) = found(rule)
      BY DezswapCopies
    <3>4. Dezswap!PairActionParser(dex, <<log>>) = Dezswap!Collect(found(rule), mapped)
      BY <3>1, <3>2, <3>3
    <3> QED  BY <3>4, DezswapCopies
  <2>2. \A m \in Range(found(rule)) : IsSeq(mapped[m].rows)
    <3> HIDE DEF rule
    <3> QED  BY DezswapMappers
  <2>3. rule.type = "wasm"
    BY DEF Dezswap!pairCommonRule
  <2> HIDE DEF mapped, rule
  <2>4. Reads(Collect(found(rule), mapped), rule.type, log)
    BY <1>0, <2>2, ParserReads
  <2> QED  BY <2>1, <2>3, <2>4, Zenon
<1>2. Reads(Dezswap!InitialProvide(dex, <<log>>), "wasm", log)
  <2> DEFINE rule == Dezswap!CreatePairInitialProvideRuleFinder(dex.filter)
             mapped == [m \in Range(found(rule)) |-> Dezswap!initialProvideMapper(m)]
  <2>1. Dezswap!InitialProvide(dex, <<log>>) = Collect(found(rule), mapped)
    <3>1. Dezswap!InitialProvide(dex, <<log>>) = CHOOSE r \in {Dezswap!Collect(matches, [m \in Dezswap!Range(matches) |-> Dezswap!initialProvideMapper(m)]) : matches \in {Dezswap!FindFromLogs(rule, <<log>>)}} : TRUE
      BY Zenon DEF Dezswap!InitialProvide, Dezswap!Parse
    <3> HIDE DEF rule
    <3>2. \A matches : Dezswap!Range(matches) = Range(matches)
      BY DezswapCopies
    <3>3. Dezswap!FindFromLogs(rule, <<log>>) = found(rule)
      BY DezswapCopies
    <3>4. Dezswap!InitialProvide(dex, <<log>>) = Dezswap!Collect(found(rule), mapped)
      BY <3>1, <3>2, <3>3
    <3> QED  BY <3>4, DezswapCopies
  <2>2. \A m \in Range(found(rule)) : IsSeq(mapped[m].rows)
    <3> HIDE DEF rule
    <3> QED  BY DezswapMappers
  <2>3. rule.type = "wasm"
    BY DEF Dezswap!CreatePairInitialProvideRuleFinder
  <2> HIDE DEF mapped, rule
  <2>4. Reads(Collect(found(rule), mapped), rule.type, log)
    BY <1>0, <2>2, ParserReads
  <2> QED  BY <2>1, <2>3, <2>4, Zenon
<1>3. Reads(Dezswap!WasmTransfer(dex, <<log>>), "wasm", log)
  <2> DEFINE rule == Dezswap!wasmTransferRule
             mapped == [m \in Range(found(rule)) |-> Dezswap!wasmTransferMapper(m, dex)]
  <2>1. Dezswap!WasmTransfer(dex, <<log>>) = Collect(found(rule), mapped)
    <3>1. Dezswap!WasmTransfer(dex, <<log>>) = CHOOSE r \in {Dezswap!Collect(matches, [m \in Dezswap!Range(matches) |-> Dezswap!wasmTransferMapper(m, dex)]) : matches \in {Dezswap!FindFromLogs(rule, <<log>>)}} : TRUE
      BY Zenon DEF Dezswap!WasmTransfer, Dezswap!Parse
    <3> HIDE DEF rule
    <3>2. \A matches : Dezswap!Range(matches) = Range(matches)
      BY DezswapCopies
    <3>3. Dezswap!FindFromLogs(rule, <<log>>) = found(rule)
      BY DezswapCopies
    <3>4. Dezswap!WasmTransfer(dex, <<log>>) = Dezswap!Collect(found(rule), mapped)
      BY <3>1, <3>2, <3>3
    <3> QED  BY <3>4, DezswapCopies
  <2>2. \A m \in Range(found(rule)) : IsSeq(mapped[m].rows)
    <3> HIDE DEF rule
    <3> QED  BY DezswapMappers
  <2>3. rule.type = "wasm"
    BY DEF Dezswap!wasmTransferRule
  <2> HIDE DEF mapped, rule
  <2>4. Reads(Collect(found(rule), mapped), rule.type, log)
    BY <1>0, <2>2, ParserReads
  <2> QED  BY <2>1, <2>3, <2>4, Zenon
<1>4. Reads(Dezswap!Transfer(dex, sender, <<log>>), "transfer", log)
  <2> DEFINE rule == Dezswap!CreateTransferRuleFinder
             mapped == [m \in Range(found(rule)) |-> Dezswap!nativeTransferMapper(m, dex, sender)]
  <2>1. Dezswap!Transfer(dex, sender, <<log>>) = Collect(found(rule), mapped)
    <3>1. Dezswap!Transfer(dex, sender, <<log>>) = CHOOSE r \in {Dezswap!Collect(matches, [m \in Dezswap!Range(matches) |-> Dezswap!nativeTransferMapper(m, dex, sender)]) : matches \in {Dezswap!FindFromLogs(rule, <<log>>)}} : TRUE
      BY Zenon DEF Dezswap!Transfer, Dezswap!Parse
    <3> HIDE DEF rule
    <3>2. \A matches : Dezswap!Range(matches) = Range(matches)
      BY DezswapCopies
    <3>3. Dezswap!FindFromLogs(rule, <<log>>) = found(rule)
      BY DezswapCopies
    <3>4. Dezswap!Transfer(dex, sender, <<log>>) = Dezswap!Collect(found(rule), mapped)
      BY <3>1, <3>2, <3>3
    <3> QED  BY <3>4, DezswapCopies
  <2>2. \A m \in Range(found(rule)) : IsSeq(mapped[m].rows)
    <3> HIDE DEF rule
    <3> QED  BY DezswapMappers
  <2>3. rule.type = "transfer"
    BY DEF Dezswap!CreateTransferRuleFinder
  <2> HIDE DEF mapped, rule
  <2>4. Reads(Collect(found(rule), mapped), rule.type, log)
    BY <1>0, <2>2, ParserReads
  <2> QED  BY <2>1, <2>3, <2>4, Zenon
<1>5. Reads(Dezswap!BurnParser(<<log>>), "wasm", log)
  <2> DEFINE rule == Dezswap!CreateBurnRuleFinder
             mapped == [m \in Range(found(rule)) |-> Dezswap!burnMapper(m)]
  <2>1. Dezswap!BurnParser(<<log>>) = Collect(found(rule), mapped)
    <3>1. Dezswap!BurnParser(<<log>>) = CHOOSE r \in {Dezswap!Collect(matches, [m \in Dezswap!Range(matches) |-> Dezswap!burnMapper(m)]) : matches \in {Dezswap!FindFromLogs(rule, <<log>>)}} : TRUE
      BY Zenon DEF Dezswap!BurnParser, Dezswap!Parse
    <3> HIDE DEF rule
    <3>2. \A matches : Dezswap!Range(matches) = Range(matches)
      BY DezswapCopies
    <3>3. Dezswap!FindFromLogs(rule, <<log>>) = found(rule)
      BY DezswapCopies
    <3>4. Dezswap!BurnParser(<<log>>) = Dezswap!Collect(found(rule), mapped)
      BY <3>1, <3>2, <3>3
    <3> QED  BY <3>4, DezswapCopies
  <2>2. \A m \in Range(found(rule)) : IsSeq(mapped[m].rows)
    <3> HIDE DEF rule
    <3> QED  BY DezswapMappers
  <2>3. rule.type = "wasm"
    BY DEF Dezswap!CreateBurnRuleFinder
  <2> HIDE DEF mapped, rule
  <2>4. Reads(Collect(found(rule), mapped), rule.type, log)
    BY <1>0, <2>2, ParserReads
  <2> QED  BY <2>1, <2>3, <2>4, Zenon
<1> QED  BY <1>1, <1>2, <1>3, <1>4, <1>5

DezswapStages(dex, sender, S) ==
    LET act == [log \in S |-> Dezswap!PairActionParser(dex, <<log>>)]
    IN [act |-> act,
        ip  |-> [log \in S |-> IF Dezswap!HasProvide(act[<<log>>[1]].rows) THEN Dezswap!InitialProvide(dex, <<log>>) ELSE Dezswap!Rows(<<>>)],
        w   |-> [log \in S |-> Dezswap!WasmTransfer(dex, <<log>>)],
        tax |-> [log \in S |-> Dezswap!NoStage(<<log>>)],
        nat |-> [log \in S |-> Dezswap!Transfer(dex, sender,
                    IF <<log>>[1].type # "transfer" THEN <<log>> ELSE <<[<<log>>[1] EXCEPT !.attrs = Dezswap!NormalizeTransferAttrs(@)]>>)],
        b   |-> [log \in S |-> Dezswap!BurnParser(<<log>>)]]
DezswapTypes == [act |-> "wasm", w |-> "wasm", tax |-> "tax_payment", nat |-> "transfer", b |-> "wasm"]
DezswapKnown(a, created) == [a EXCEPT !.pairs = Dezswap!LearnPairs(@, created.rows)]

(* So the parsers of the application are stages in the sense of            *)
(* DexRowsProofs, each for one type of log.                                *)
LEMMA DezswapStagesAre ==
    ASSUME NEW S, NEW R, NEW logs \in Seq(Logs(S, R)), NEW dex, NEW sender
    PROVE  Stages(DezswapStages(dex, sender, Range(logs)), DezswapTypes, logs)
<1> DEFINE st == DezswapStages(dex, sender, Range(logs))
           type == DezswapTypes
<1>1. ASSUME NEW log \in Range(logs)
      PROVE  /\ Reads(st.act[log], type.act, log) /\ Reads(st.ip[log], type.act, log)
             /\ Reads(st.w[log], type.w, log)     /\ Reads(st.tax[log], type.tax, log)
             /\ Reads(st.nat[log], type.nat, log) /\ Reads(st.b[log], type.b, log)
  <2>1. log \in Logs(S, R)
    BY <1>1 DEF Range
  <2>2. \A t : Reads(Dezswap!Rows(<<>>), t, log)
    <3>1. Dezswap!Rows(<<>>) = Rows(<<>>)
      BY DezswapCopies
    <3> QED  BY <3>1, NothingRead
  <2>3. Dezswap!NoStage(<<log>>) = Dezswap!Rows(<<>>)
    BY DEF Dezswap!NoStage
  <2>4. Reads(st.act[log], "wasm", log)
    <3>1. st.act[log] = Dezswap!PairActionParser(dex, <<log>>)
      BY <1>1 DEF DezswapStages
    <3> QED  BY <2>1, <2>2, <2>3, <3>1, DezswapReads, Zenon
  <2>5. Reads(st.ip[log], "wasm", log)
    <3>1. st.ip[log] = Dezswap!InitialProvide(dex, <<log>>) \/ st.ip[log] = Dezswap!Rows(<<>>)
      BY <1>1, Zenon DEF DezswapStages
    <3> QED  BY <2>1, <2>2, <2>3, <3>1, DezswapReads, Zenon
  <2>6. Reads(st.w[log], "wasm", log)
    <3>1. st.w[log] = Dezswap!WasmTransfer(dex, <<log>>)
      BY <1>1, Zenon DEF DezswapStages
    <3> QED  BY <2>1, <2>2, <2>3, <3>1, DezswapReads, Zenon
  <2>7. Reads(st.tax[log], "tax_payment", log)
    <3>1. st.tax[log] = Dezswap!NoStage(<<log>>)
      BY <1>1, Zenon DEF DezswapStages
    <3> QED  BY <2>1, <2>2, <2>3, <3>1, DezswapReads, Zenon
  <2>8. Reads(st.nat[log], "transfer", log)
    <3> DEFINE sorted == [log EXCEPT !.attrs = Dezswap!NormalizeTransferAttrs(@)]
               raw == IF <<log>>[1].type # "transfer" THEN <<log>> ELSE <<[<<log>>[1] EXCEPT !.attrs = Dezswap!NormalizeTransferAttrs(@)]>>
    <3>1. st.nat[log] = Dezswap!Transfer(dex, sender, raw)
      BY <1>1, Zenon DEF DezswapStages
    <3>2. raw = IF log.type # "transfer" THEN <<log>> ELSE <<sorted>>
      OBVIOUS
    <3>3. sorted \in Logs(S, R) /\ sorted.type = log.type
      <4>1. Dezswap!NormalizeTransferAttrs(log.attrs) \in Seq(R)
        BY <2>1, DezswapCopies, NormalizedIsSeq DEF Logs
      <4> QED  BY <2>1, <4>1 DEF Logs
    <3> HIDE DEF raw, sorted
    <3>4. Reads(Dezswap!Transfer(dex, sender, <<log>>), "transfer", log)
      BY <2>1, DezswapReads, Zenon
    <3>5. Reads(Dezswap!Transfer(dex, sender, <<sorted>>), "transfer", sorted)
      BY <3>3, DezswapReads, Zenon
    <3> QED  BY <3>1, <3>2, <3>3, <3>4, <3>5 DEF Reads
  <2>9. Reads(st.b[log], "wasm", log)
    <3>1. st.b[log] = Dezswap!BurnParser(<<log>>)
      BY <1>1, Zenon DEF DezswapStages
    <3> QED  BY <2>1, <2>2, <2>3, <3>1, DezswapReads, Zenon
  <2>10. /\ type.act = "wasm" /\ type.w = "wasm" /\ type.tax = "tax_payment"
         /\ type.nat = "transfer" /\ type.b = "wasm"
    BY DEF DezswapTypes
  <2> HIDE DEF st, type
  <2> QED  BY <2>4, <2>5, <2>6, <2>7, <2>8, <2>9, <2>10
<1> HIDE DEF st, type
<1>2. Stages(st, type, logs)
  BY <1>1 DEF Stages, Stage, Reads
<1> QED  BY <1>2 DEF st, type

(* ParseLogs, unless the creation of pairs fails, stores what these stages *)
(* gather from the logs.                                                   *)
LEMMA DezswapIs ==
    ASSUME NEW a, NEW tx, NEW created, created.err = "none"
    PROVE  Dezswap!ParseLogs(a, tx, created)
           = Dezswap!Stored(tx.sender, created, DezswapKnown(a, created), 
               AllOf(tx.logs, DezswapStages(DezswapKnown(a, created), tx.sender, Range(tx.logs))))
<1> DEFINE known == DezswapKnown(a, created)
           st == DezswapStages(known, tx.sender, Range(tx.logs))
           g == Dezswap!GatherFrom(tx.logs, st.act, st.ip, st.w, st.tax, st.nat, st.b)
<1>1. Dezswap!ParseLogs(a, tx, created) = Dezswap!Stored(tx.sender, created, known, g)
  BY Zenon DEF DezswapStages, DezswapKnown, Dezswap!ParseLogs, Dezswap!Gather, Dezswap!NoStage, Dezswap!Range, Range
<1>2. g = AllOf(tx.logs, st)
  BY DezswapCopies DEF AllOf
<1> HIDE DEF g, st
<1> QED  BY <1>1, <1>2 DEF st, known

(* So it stores the same for the same logs in another order.               *)
LEMMA DezswapInAnyOrder ==
    ASSUME NEW S, NEW R, NEW one \in Seq(Logs(S, R)), NEW two \in Seq(Logs(S, R)), SameLogs(one, two),
           NEW a, "pairs" \in DOMAIN a, NEW sender
    PROVE  SameOutcome(Dezswap!ParseTxs(a, [logs |-> one, sender |-> sender]),
                       Dezswap!ParseTxs(a, [logs |-> two, sender |-> sender]))
<1> DEFINE t1 == [logs |-> one, sender |-> sender]
           t2 == [logs |-> two, sender |-> sender]
           c == Dezswap!Parse(Dezswap!createPairRule, one, Dezswap!createPairMapper)
           d == Dezswap!Parse(Dezswap!createPairRule, two, Dezswap!createPairMapper)
<1>1. \A rule : Dezswap!FindFromLogs(rule, one) = Dezswap!FindFromLogs(rule, two)
  <2>1. \A log \in Logs(S, R) : Len(log.attrs) \in Nat
    BY DEF Logs
  <2>2. \A rule : FindFromLogs(rule, one) = FindFromLogs(rule, two)
    BY <2>1, SameFound
  <2> QED  BY <2>2, DezswapCopies
<1>2. c = d
  BY <1>1 DEF Dezswap!Parse
<1>3. /\ Dezswap!ParseTxs(a, t1) = Dezswap!ParseLogs(a, t1, c)
      /\ Dezswap!ParseTxs(a, t2) = Dezswap!ParseLogs(a, t2, c)
  <2>1. Dezswap!ParseTxs(a, t1) = Dezswap!ParseLogs(a, t1, c) /\ Dezswap!ParseTxs(a, t2) = Dezswap!ParseLogs(a, t2, d)
    BY Zenon DEF Dezswap!ParseTxs
  <2> HIDE DEF c, d
  <2> QED  BY <1>2, <2>1
<1> HIDE DEF c, d
<1>4. CASE c.err # "none"
  <2>1. Dezswap!ParseLogs(a, t1, c) = Dezswap!GaveUp(c.err, a) /\ Dezswap!ParseLogs(a, t2, c) = Dezswap!GaveUp(c.err, a)
    BY <1>4, Zenon DEF Dezswap!ParseLogs
  <2> QED  BY <1>3, <2>1 DEF SameOutcome
<1>5. CASE c.err = "none"
  <2> DEFINE k == DezswapKnown(a, c)
             st == DezswapStages(k, sender, Range(one))
             g == AllOf(one, st)
             h == AllOf(two, st)
  <2>1. Range(one) = Range(two)
    BY DEF SameLogs
  <2>2. /\ g.err \in Errors /\ h.err \in Errors /\ (g.err = "none" <=> h.err = "none")
        /\ g.err = "none" => g.read = one /\ h.read = two /\ SameRows(g, h)
    BY DezswapStagesAre, GatherInAnyOrder
  <2>3. /\ Dezswap!ParseTxs(a, t1) = Dezswap!Stored(sender, c, k, g)
        /\ Dezswap!ParseTxs(a, t2) = Dezswap!Stored(sender, c, k, h)
    <3>1. t1.logs = one /\ t1.sender = sender /\ t2.logs = two /\ t2.sender = sender
      OBVIOUS
    <3>2. Dezswap!ParseLogs(a, t1, c) = Dezswap!Stored(t1.sender, c, k, AllOf(t1.logs, DezswapStages(k, t1.sender, Range(t1.logs))))
      BY <1>5, DezswapIs
    <3>3. Dezswap!ParseLogs(a, t2, c) = Dezswap!Stored(t2.sender, c, k, AllOf(t2.logs, DezswapStages(k, t2.sender, Range(t2.logs))))
      BY <1>5, DezswapIs
    <3> HIDE DEF k, t1, t2
    <3> QED  BY <1>3, <2>1, <3>1, <3>2, <3>3
  <2>4. "pairs" \in DOMAIN k
    BY DEF DezswapKnown
  <2> HIDE DEF k, g, h, st
  <2> DEFINE o == Dezswap!Result(g, k, Dezswap!RowsOf(sender, c, k.pairs, g))
             p == Dezswap!Result(h, k, Dezswap!RowsOf(sender, c, k.pairs, h))
  <2>7. Dezswap!ParseTxs(a, t1) = o /\ Dezswap!ParseTxs(a, t2) = p
    BY <2>3, Zenon DEF Dezswap!Stored
  <2>8. o.app.pairs = p.app.pairs
    BY DEF Dezswap!Result
  <2>9. ASSUME g.err # "none" PROVE SameOutcome(o, p)
    <3>1. o.outcome = g.err /\ p.outcome = h.err
      BY <2>2, <2>9 DEF Dezswap!Result
    <3>2. ~IsStored(o) /\ ~IsStored(p)
      BY <2>2, <2>9, <3>1 DEF IsStored, Errors
    <3> HIDE DEF o, p
    <3> QED  BY <2>8, <3>2 DEF SameOutcome
  <2>10. ASSUME g.err = "none" PROVE SameOutcome(o, p)
    <3>1. SameRows(g, h)
      BY <2>2, <2>10
    <3>2. Dezswap!RowsOf(sender, c, k.pairs, g) = Dezswap!RowsOf(sender, c, k.pairs, h)
      BY <2>10, <3>1 DEF SameRows, Dezswap!RowsOf
    <3>3. o = p
      BY <2>10, <3>1, <3>2 DEF SameRows, Dezswap!Result
    <3> HIDE DEF o, p
    <3> QED  BY <3>3 DEF SameOutcome
  <2> HIDE DEF o, p
  <2>11. SameOutcome(o, p)
    BY <2>9, <2>10
  <2> QED  BY <2>7, <2>11
<1> QED  BY <1>4, <1>5

-----------------------------------------------------------------------------
(* Starfleit. *)

(* The application module repeats the shared definitions under names of    *)
(* its own; they say the same.                                             *)
LEMMA StarfleitCopies ==
    ASSUME NEW rule, NEW logs, NEW attrs, NEW matches, NEW mapped,
           NEW act, NEW ip, NEW w, NEW tax, NEW nat, NEW b, NEW s
    PROVE  /\ Starfleit!FindFromLogs(rule, logs) = FindFromLogs(rule, logs)
           /\ Starfleit!Collect(matches, mapped) = Collect(matches, mapped)
           /\ Starfleit!GatherFrom(logs, act, ip, w, tax, nat, b) = GatherFrom(logs, act, ip, w, tax, nat, b)
           /\ Starfleit!NormalizeTransferAttrs(attrs) = NormalizeTransferAttrs(attrs)
           /\ Starfleit!Rows(s) = Rows(s) /\ Starfleit!Range(s) = Range(s)
<1>1. Starfleit!FindFromLogs(rule, logs) = FindFromLogs(rule, logs)
  BY ZenonT(60) DEF Starfleit!FindFromLogs, FindFromLogs, Starfleit!FlattenSeq, FlattenSeq, Starfleit!FindFromAttrs, FindFromAttrs,
     Starfleit!SearchAt, SearchAt, Starfleit!NothingSearched, NothingSearched, Starfleit!appendUntil, appendUntil,
     Starfleit!Until, Until, Starfleit!Unskipped, Unskipped, Starfleit!findMatchingSubseq, findMatchingSubseq,
     Starfleit!MatchItem, MatchItem, Starfleit!Match, Match, Starfleit!NothingFound, NothingFound, Starfleit!skipKeys, skipKeys, Starfleit!Last, Last
<1>2. Starfleit!Collect(matches, mapped) = Collect(matches, mapped)
  BY Zenon DEF Starfleit!Collect, Collect, Starfleit!Rows, Rows, Starfleit!TakeMatch, TakeMatch, Starfleit!Failed, Failed
<1>3. Starfleit!GatherFrom(logs, act, ip, w, tax, nat, b) = GatherFrom(logs, act, ip, w, tax, nat, b)
  BY Zenon DEF Starfleit!GatherFrom, GatherFrom, Starfleit!NothingGathered, NothingGathered, Starfleit!TakeLog, TakeLog,
     Starfleit!AfterStages, AfterStages, Starfleit!FirstError, FirstError, Starfleit!Record, Record,
     Starfleit!RawTxContainsCreatePair, RawTxContainsCreatePair
<1>4. Starfleit!NormalizeTransferAttrs(attrs) = NormalizeTransferAttrs(attrs)
  <2>1. ASSUME NEW f, NEW g PROVE Starfleit!InOrder(f, g) = InOrder(f, g)
    BY Zenon DEF Starfleit!InOrder, InOrder, Starfleit!FlattenSeq, FlattenSeq
  <2>2. ASSUME NEW f, NEW a PROVE Starfleit!Flush(f, a) = Flush(f, a)
    BY <2>1, Zenon DEF Starfleit!Flush, Flush
  <2>3. ASSUME NEW f, NEW a, NEW x PROVE Starfleit!Grow(f, a, x) = Grow(f, a, x)
    BY <2>2, Zenon DEF Starfleit!Grow, Grow
  <2>4. ASSUME NEW f, NEW a, NEW x PROVE Starfleit!TakeAttr(f, a, x) = TakeAttr(f, a, x)
    BY <2>2, <2>3, Zenon DEF Starfleit!TakeAttr, TakeAttr
  <2> DEFINE f == <<"amount", "recipient", "sender">>
             base == [sorted |-> <<>>, group |-> <<>>]
             P(t) == t = [i \in 0..Len(attrs) |-> IF i = 0 THEN base ELSE Starfleit!TakeAttr(f, t[i - 1], attrs[i])]
             Q(t) == t = [i \in 0..Len(attrs) |-> IF i = 0 THEN base ELSE TakeAttr(f, t[i - 1], attrs[i])]
  <2>5. \A t : P(t) <=> Q(t)
    BY <2>4, Zenon
  <2>6. (CHOOSE t : P(t)) = (CHOOSE t : Q(t))
    <3> HIDE DEF P, Q
    <3> QED  BY <2>5, Zenon
  <2>7. Starfleit!NormalizeTransferAttrs(attrs) = Starfleit!Flush(f, (CHOOSE t : P(t))[Len(attrs)]).sorted
    BY Zenon DEF Starfleit!NormalizeTransferAttrs, Starfleit!SortAttributes
  <2>8. NormalizeTransferAttrs(attrs) = Flush(f, (CHOOSE t : Q(t))[Len(attrs)]).sorted
    BY Zenon DEF NormalizeTransferAttrs, SortAttributes
  <2> HIDE DEF P, Q, f
  <2> QED  BY <2>2, <2>6, <2>7, <2>8
<1>5. Starfleit!Rows(s) = Rows(s) /\ Starfleit!Range(s) = Range(s)
  BY DEF Starfleit!Rows, Rows, Starfleit!Range, Range
<1> QED  BY <1>1, <1>2, <1>3, <1>4, <1>5

(* No mapper gives more than a sequence of rows.                           *)
LEMMA StarfleitMappers ==
    ASSUME NEW m, NEW dex, NEW sender
    PROVE  /\ IsSeq(Starfleit!pairMapper(m, dex).rows)
           /\ IsSeq(Starfleit!initialProvideMapper(m).rows)
           /\ IsSeq(Starfleit!wasmTransferMapper(m, dex).rows)
           /\ IsSeq(Starfleit!bankTransferMapper(m, dex, sender).rows)
           /\ IsSeq(Starfleit!burnMapper(m).rows)
<1> USE DEF Plain, Starfleit!Failed, Starfleit!Ambiguous, Starfleit!Rows
<1>1. ASSUME NEW s, NEW pair PROVE Plain(Starfleit!swapMatchedToParsedTx(s, pair))
  BY DEF Starfleit!swapMatchedToParsedTx
<1>2. ASSUME NEW s, NEW pair PROVE Plain(Starfleit!withdrawMatchedToParsedTx(s, pair))
  BY DEF Starfleit!withdrawMatchedToParsedTx
<1>3. ASSUME NEW s, NEW pair, NEW v2 PROVE Plain(Starfleit!pairMapperBy(v2, s, pair))
  BY DEF Starfleit!pairMapperBy, Starfleit!provideMatchedToParsedTx, Starfleit!provideMatchedToParsedTxV2
<1>4. Plain(Starfleit!pairMapper(m, dex))
  BY <1>1, <1>2, <1>3 DEF Starfleit!pairMapper
<1>5. Plain(Starfleit!initialProvideMapper(m))
  BY DEF Starfleit!initialProvideMapper
<1>6. ASSUME NEW side, NEW from, NEW token, NEW amount PROVE Plain(Starfleit!matchedToParsedTx(side, from, token, amount))
  BY DEF Starfleit!matchedToParsedTx
<1>7. Plain(Starfleit!wasmTransferMapper(m, dex))
  BY <1>6 DEF Starfleit!wasmTransferMapper, Starfleit!v1MatchedToParsedTx, Starfleit!v2MatchedToParsedTx
<1>8. Plain(Starfleit!bankTransferMapper(m, dex, sender))
  BY DEF Starfleit!bankTransferMapper
<1>9. Plain(Starfleit!burnMapper(m))
  BY DEF Starfleit!burnMapper
<1> HIDE DEF Plain
<1> QED  BY <1>4, <1>5, <1>7, <1>8, <1>9, PlainIsSeq

(* Every parser gives rows, and none for a log of another type.            *)
LEMMA StarfleitReads ==
    ASSUME NEW S, NEW R, NEW log \in Logs(S, R), NEW dex, NEW sender
    PROVE  /\ Reads(Starfleit!PairActionParser(dex, <<log>>), "wasm", log)
           /\ Reads(Starfleit!InitialProvide(dex, <<log>>), "wasm", log)
           /\ Reads(Starfleit!WasmTransfer(dex, <<log>>), "wasm", log)
           /\ Reads(Starfleit!Transfer(dex, sender, <<log>>), "transfer", log)
           /\ Reads(Starfleit!BurnParser(<<log>>), "wasm", log)
<1> DEFINE found(rule) == FindFromLogs(rule, <<log>>)
<1>0. Len(log.attrs) \in Nat
  BY DEF Logs
<1>1. Reads(Starfleit!PairActionParser(dex, <<log>>), "wasm", log)
  <2> DEFINE rule == Starfleit!pairCommonRule(dex.filter)
             mapped == [m \in Range(found(rule)) |-> Starfleit!pairMapper(m, dex)]
  <2>1. Starfleit!PairActionParser(dex, <<log>>) = Collect(found(rule), mapped)
    <3>1. Starfleit!PairActionParser(dex, <<log>>) = CHOOSE r \in {Starfleit!Collect(matches, [m \in Starfleit!Range(matches) |-> Starfleit!pairMapper(m, dex)]) : matches \in {Starfleit!FindFromLogs(rule, <<log>>)}} : TRUE
      BY Zenon DEF Starfleit!PairActionParser, Starfleit!Parse
    <3> HIDE DEF rule
    <3>2. \A matches : Starfleit!Range(matches) = Range(matches)
      BY StarfleitCopies
    <3>3. Starfleit!FindFromLogs(rule, <<log>>) = found(rule)
      BY StarfleitCopies
    <3>4. Starfleit!PairActionParser(dex, <<log>>) = Starfleit!Collect(found(rule), mapped)
      BY <3>1, <3>2, <3>3
    <3> QED  BY <3>4, StarfleitCopies
  <2>2. \A m \in Range(found(rule)) : IsSeq(mapped[m].rows)
    <3> HIDE DEF rule
    <3> QED  BY StarfleitMappers
  <2>3. rule.type = "wasm"
    BY DEF Starfleit!pairCommonRule
  <2> HIDE DEF mapped, rule
  <2>4. Reads(Collect(found(rule), mapped), rule.type, log)
    BY <1>0, <2>2, ParserReads
  <2> QED  BY <2>1, <2>3, <2>4, Zenon
<1>2. Reads(Starfleit!InitialProvide(dex, <<log>>), "wasm", log)
  <2> DEFINE rule == Starfleit!initialProvideRule(dex.filter)
             mapped == [m \in Range(found(rule)) |-> Starfleit!initialProvideMapper(m)]
  <2>1. Starfleit!InitialProvide(dex, <<log>>) = Collect(found(rule), mapped)
    <3>1. Starfleit!InitialProvide(dex, <<log>>) = CHOOSE r \in {Starfleit!Collect(matches, [m \in Starfleit!Range(matches) |-> Starfleit!initialProvideMapper(m)]) : matches \in {Starfleit!FindFromLogs(rule, <<log>>)}} : TRUE
      BY Zenon DEF Starfleit!InitialProvide, Starfleit!Parse
    <3> HIDE DEF rule
    <3>2. \A matches : Starfleit!Range(matches) = Range(matches)
      BY StarfleitCopies
    <3>3. Starfleit!FindFromLogs(rule, <<log>>) = found(rule)
      BY StarfleitCopies
    <3>4. Starfleit!InitialProvide(dex, <<log>>) = Starfleit!Collect(found(rule), mapped)
      BY <3>1, <3>2, <3>3
    <3> QED  BY <3>4, StarfleitCopies
  <2>2. \A m \in Range(found(rule)) : IsSeq(mapped[m].rows)
    <3> HIDE DEF rule
    <3> QED  BY StarfleitMappers
  <2>3. rule.type = "wasm"
    BY DEF Starfleit!initialProvideRule
  <2> HIDE DEF mapped, rule
  <2>4. Reads(Collect(found(rule), mapped), rule.type, log)
    BY <1>0, <2>2, ParserReads
  <2> QED  BY <2>1, <2>3, <2>4, Zenon
<1>3. Reads(Starfleit!WasmTransfer(dex, <<log>>), "wasm", log)
  <2> DEFINE rule == Starfleit!wasmTransferRule
             mapped == [m \in Range(found(rule)) |-> Starfleit!wasmTransferMapper(m, dex)]
  <2>1. Starfleit!WasmTransfer(dex, <<log>>) = Collect(found(rule), mapped)
    <3>1. Starfleit!WasmTransfer(dex, <<log>>) = CHOOSE r \in {Starfleit!Collect(matches, [m \in Starfleit!Range(matches) |-> Starfleit!wasmTransferMapper(m, dex)]) : matches \in {Starfleit!FindFromLogs(rule, <<log>>)}} : TRUE
      BY Zenon DEF Starfleit!WasmTransfer, Starfleit!Parse
    <3> HIDE DEF rule
    <3>2. \A matches : Starfleit!Range(matches) = Range(matches)
      BY StarfleitCopies
    <3>3. Starfleit!FindFromLogs(rule, <<log>>) = found(rule)
      BY StarfleitCopies
    <3>4. Starfleit!WasmTransfer(dex, <<log>>) = Starfleit!Collect(found(rule), mapped)
      BY <3>1, <3>2, <3>3
    <3> QED  BY <3>4, StarfleitCopies
  <2>2. \A m \in Range(found(rule)) : IsSeq(mapped[m].rows)
    <3> HIDE DEF rule
    <3> QED  BY StarfleitMappers
  <2>3. rule.type = "wasm"
    BY DEF Starfleit!wasmTransferRule
  <2> HIDE DEF mapped, rule
  <2>4. Reads(Collect(found(rule), mapped), rule.type, log)
    BY <1>0, <2>2, ParserReads
  <2> QED  BY <2>1, <2>3, <2>4, Zenon
<1>4. Reads(Starfleit!Transfer(dex, sender, <<log>>), "transfer", log)
  <2> DEFINE rule == Starfleit!CreateTransferRuleFinder
             mapped == [m \in Range(found(rule)) |-> Starfleit!bankTransferMapper(m, dex, sender)]
  <2>1. Starfleit!Transfer(dex, sender, <<log>>) = Collect(found(rule), mapped)
    <3>1. Starfleit!Transfer(dex, sender, <<log>>) = CHOOSE r \in {Starfleit!Collect(matches, [m \in Starfleit!Range(matches) |-> Starfleit!bankTransferMapper(m, dex, sender)]) : matches \in {Starfleit!FindFromLogs(rule, <<log>>)}} : TRUE
      BY Zenon DEF Starfleit!Transfer, Starfleit!Parse
    <3> HIDE DEF rule
    <3>2. \A matches : Starfleit!Range(matches) = Range(matches)
      BY StarfleitCopies
    <3>3. Starfleit!FindFromLogs(rule, <<log>>) = found(rule)
      BY StarfleitCopies
    <3>4. Starfleit!Transfer(dex, sender, <<log>>) = Starfleit!Collect(found(rule), mapped)
      BY <3>1, <3>2, <3>3
    <3> QED  BY <3>4, StarfleitCopies
  <2>2. \A m \in Range(found(rule)) : IsSeq(mapped[m].rows)
    <3> HIDE DEF rule
    <3> QED  BY StarfleitMappers
  <2>3. rule.type = "transfer"
    BY DEF Starfleit!CreateTransferRuleFinder
  <2> HIDE DEF mapped, rule
  <2>4. Reads(Collect(found(rule), mapped), rule.type, log)
    BY <1>0, <2>2, ParserReads
  <2> QED  BY <2>1, <2>3, <2>4, Zenon
<1>5. Reads(Starfleit!BurnParser(<<log>>), "wasm", log)
  <2> DEFINE rule == Starfleit!burnRule
             mapped == [m \in Range(found(rule)) |-> Starfleit!burnMapper(m)]
  <2>1. Starfleit!BurnParser(<<log>>) = Collect(found(rule), mapped)
    <3>1. Starfleit!BurnParser(<<log>>) = CHOOSE r \in {Starfleit!Collect(matches, [m \in Starfleit!Range(matches) |-> Starfleit!burnMapper(m)]) : matches \in {Starfleit!FindFromLogs(rule, <<log>>)}} : TRUE
      BY Zenon DEF Starfleit!BurnParser, Starfleit!Parse
    <3> HIDE DEF rule
    <3>2. \A matches : Starfleit!Range(matches) = Range(matches)
      BY StarfleitCopies
    <3>3. Starfleit!FindFromLogs(rule, <<log>>) = found(rule)
      BY StarfleitCopies
    <3>4. Starfleit!BurnParser(<<log>>) = Starfleit!Collect(found(rule), mapped)
      BY <3>1, <3>2, <3>3
    <3> QED  BY <3>4, StarfleitCopies
  <2>2. \A m \in Range(found(rule)) : IsSeq(mapped[m].rows)
    <3> HIDE DEF rule
    <3> QED  BY StarfleitMappers
  <2>3. rule.type = "wasm"
    BY DEF Starfleit!burnRule
  <2> HIDE DEF mapped, rule
  <2>4. Reads(Collect(found(rule), mapped), rule.type, log)
    BY <1>0, <2>2, ParserReads
  <2> QED  BY <2>1, <2>3, <2>4, Zenon
<1> QED  BY <1>1, <1>2, <1>3, <1>4, <1>5

StarfleitStages(dex, sender, S) ==
    LET act == [log \in S |-> Starfleit!PairActionParser(dex, <<log>>)]
    IN [act |-> act,
        ip  |-> [log \in S |-> IF Starfleit!HasProvide(act[<<log>>[1]].rows) THEN Starfleit!InitialProvide(dex, <<log>>) ELSE Starfleit!Rows(<<>>)],
        w   |-> [log \in S |-> Starfleit!WasmTransfer(dex, <<log>>)],
        tax |-> [log \in S |-> Starfleit!NoStage(<<log>>)],
        nat |-> [log \in S |-> Starfleit!Transfer(dex, sender,
                    IF <<log>>[1].type # "transfer" THEN <<log>> ELSE <<[<<log>>[1] EXCEPT !.attrs = Starfleit!NormalizeTransferAttrs(@)]>>)],
        b   |-> [log \in S |-> Starfleit!BurnParser(<<log>>)]]
StarfleitTypes == [act |-> "wasm", w |-> "wasm", tax |-> "tax_payment", nat |-> "transfer", b |-> "wasm"]
StarfleitKnown(a, created) == [a EXCEPT !.pairs = Starfleit!LearnPairs(@, created.rows)]

(* So the parsers of the application are stages in the sense of            *)
(* DexRowsProofs, each for one type of log.                                *)
LEMMA StarfleitStagesAre ==
    ASSUME NEW S, NEW R, NEW logs \in Seq(Logs(S, R)), NEW dex, NEW sender
    PROVE  Stages(StarfleitStages(dex, sender, Range(logs)), StarfleitTypes, logs)
<1> DEFINE st == StarfleitStages(dex, sender, Range(logs))
           type == StarfleitTypes
<1>1. ASSUME NEW log \in Range(logs)
      PROVE  /\ Reads(st.act[log], type.act, log) /\ Reads(st.ip[log], type.act, log)
             /\ Reads(st.w[log], type.w, log)     /\ Reads(st.tax[log], type.tax, log)
             /\ Reads(st.nat[log], type.nat, log) /\ Reads(st.b[log], type.b, log)
  <2>1. log \in Logs(S, R)
    BY <1>1 DEF Range
  <2>2. \A t : Reads(Starfleit!Rows(<<>>), t, log)
    <3>1. Starfleit!Rows(<<>>) = Rows(<<>>)
      BY StarfleitCopies
    <3> QED  BY <3>1, NothingRead
  <2>3. Starfleit!NoStage(<<log>>) = Starfleit!Rows(<<>>)
    BY DEF Starfleit!NoStage
  <2>4. Reads(st.act[log], "wasm", log)
    <3>1. st.act[log] = Starfleit!PairActionParser(dex, <<log>>)
      BY <1>1 DEF StarfleitStages
    <3> QED  BY <2>1, <2>2, <2>3, <3>1, StarfleitReads, Zenon
  <2>5. Reads(st.ip[log], "wasm", log)
    <3>1. st.ip[log] = Starfleit!InitialProvide(dex, <<log>>) \/ st.ip[log] = Starfleit!Rows(<<>>)
      BY <1>1, Zenon DEF StarfleitStages
    <3> QED  BY <2>1, <2>2, <2>3, <3>1, StarfleitReads, Zenon
  <2>6. Reads(st.w[log], "wasm", log)
    <3>1. st.w[log] = Starfleit!WasmTransfer(dex, <<log>>)
      BY <1>1, Zenon DEF StarfleitStages
    <3> QED  BY <2>1, <2>2, <2>3, <3>1, StarfleitReads, Zenon
  <2>7. Reads(st.tax[log], "tax_payment", log)
    <3>1. st.tax[log] = Starfleit!NoStage(<<log>>)
      BY <1>1, Zenon DEF StarfleitStages
    <3> QED  BY <2>1, <2>2, <2>3, <3>1, StarfleitReads, Zenon
  <2>8. Reads(st.nat[log], "transfer", log)
    <3> DEFINE sorted == [log EXCEPT !.attrs = Starfleit!NormalizeTransferAttrs(@)]
               raw == IF <<log>>[1].type # "transfer" THEN <<log>> ELSE <<[<<log>>[1] EXCEPT !.attrs = Starfleit!NormalizeTransferAttrs(@)]>>
    <3>1. st.nat[log] = Starfleit!Transfer(dex, sender, raw)
      BY <1>1, Zenon DEF StarfleitStages
    <3>2. raw = IF log.type # "transfer" THEN <<log>> ELSE <<sorted>>
      OBVIOUS
    <3>3. sorted \in Logs(S, R) /\ sorted.type = log.type
      <4>1. Starfleit!NormalizeTransferAttrs(log.attrs) \in Seq(R)
        BY <2>1, StarfleitCopies, NormalizedIsSeq DEF Logs
      <4> QED  BY <2>1, <4>1 DEF Logs
    <3> HIDE DEF raw, sorted
    <3>4. Reads(Starfleit!Transfer(dex, sender, <<log>>), "transfer", log)
      BY <2>1, StarfleitReads, Zenon
    <3>5. Reads(Starfleit!Transfer(dex, sender, <<sorted>>), "transfer", sorted)
      BY <3>3, StarfleitReads, Zenon
    <3> QED  BY <3>1, <3>2, <3>3, <3>4, <3>5 DEF Reads
  <2>9. Reads(st.b[log], "wasm", log)
    <3>1. st.b[log] = Starfleit!BurnParser(<<log>>)
      BY <1>1, Zenon DEF StarfleitStages
    <3> QED  BY <2>1, <2>2, <2>3, <3>1, StarfleitReads, Zenon
  <2>10. /\ type.act = "wasm" /\ type.w = "wasm" /\ type.tax = "tax_payment"
         /\ type.nat = "transfer" /\ type.b = "wasm"
    BY DEF StarfleitTypes
  <2> HIDE DEF st, type
  <2> QED  BY <2>4, <2>5, <2>6, <2>7, <2>8, <2>9, <2>10
<1> HIDE DEF st, type
<1>2. Stages(st, type, logs)
  BY <1>1 DEF Stages, Stage, Reads
<1> QED  BY <1>2 DEF st, type

(* ParseLogs, unless the creation of pairs fails, stores what these stages *)
(* gather from the logs.                                                   *)
LEMMA StarfleitIs ==
    ASSUME NEW a, NEW tx, NEW created, created.err = "none"
    PROVE  Starfleit!ParseLogs(a, tx, created)
           = Starfleit!Stored(tx.sender, created, StarfleitKnown(a, created), 
               AllOf(tx.logs, StarfleitStages(StarfleitKnown(a, created), tx.sender, Range(tx.logs))))
<1> DEFINE known == StarfleitKnown(a, created)
           st == StarfleitStages(known, tx.sender, Range(tx.logs))
           g == Starfleit!GatherFrom(tx.logs, st.act, st.ip, st.w, st.tax, st.nat, st.b)
<1>1. Starfleit!ParseLogs(a, tx, created) = Starfleit!Stored(tx.sender, created, known, g)
  BY Zenon DEF StarfleitStages, StarfleitKnown, Starfleit!ParseLogs, Starfleit!Gather, Starfleit!NoStage, Starfleit!Range, Range
<1>2. g = AllOf(tx.logs, st)
  BY StarfleitCopies DEF AllOf
<1> HIDE DEF g, st
<1> QED  BY <1>1, <1>2 DEF st, known

(* So it stores the same for the same logs in another order.               *)
LEMMA StarfleitInAnyOrder ==
    ASSUME NEW S, NEW R, NEW one \in Seq(Logs(S, R)), NEW two \in Seq(Logs(S, R)), SameLogs(one, two),
           NEW a, "pairs" \in DOMAIN a, NEW sender
    PROVE  SameOutcome(Starfleit!ParseTxs(a, [logs |-> one, sender |-> sender]),
                       Starfleit!ParseTxs(a, [logs |-> two, sender |-> sender]))
<1> DEFINE t1 == [logs |-> one, sender |-> sender]
           t2 == [logs |-> two, sender |-> sender]
           c == Starfleit!Parse(Starfleit!createPairRule, one, Starfleit!createPairMapper)
           d == Starfleit!Parse(Starfleit!createPairRule, two, Starfleit!createPairMapper)
<1>1. \A rule : Starfleit!FindFromLogs(rule, one) = Starfleit!FindFromLogs(rule, two)
  <2>1. \A log \in Logs(S, R) : Len(log.attrs) \in Nat
    BY DEF Logs
  <2>2. \A rule : FindFromLogs(rule, one) = FindFromLogs(rule, two)
    BY <2>1, SameFound
  <2> QED  BY <2>2, StarfleitCopies
<1>2. c = d
  BY <1>1 DEF Starfleit!Parse
<1>3. /\ Starfleit!ParseTxs(a, t1) = Starfleit!ParseLogs(a, t1, c)
      /\ Starfleit!ParseTxs(a, t2) = Starfleit!ParseLogs(a, t2, c)
  <2>1. Starfleit!ParseTxs(a, t1) = Starfleit!ParseLogs(a, t1, c) /\ Starfleit!ParseTxs(a, t2) = Starfleit!ParseLogs(a, t2, d)
    BY Zenon DEF Starfleit!ParseTxs
  <2> HIDE DEF c, d
  <2> QED  BY <1>2, <2>1
<1> HIDE DEF c, d
<1>4. CASE c.err # "none"
  <2>1. Starfleit!ParseLogs(a, t1, c) = Starfleit!GaveUp(c.err, a) /\ Starfleit!ParseLogs(a, t2, c) = Starfleit!GaveUp(c.err, a)
    BY <1>4, Zenon DEF Starfleit!ParseLogs
  <2> QED  BY <1>3, <2>1 DEF SameOutcome
<1>5. CASE c.err = "none"
  <2> DEFINE k == StarfleitKnown(a, c)
             st == StarfleitStages(k, sender, Range(one))
             g == AllOf(one, st)
             h == AllOf(two, st)
  <2>1. Range(one) = Range(two)
    BY DEF SameLogs
  <2>2. /\ g.err \in Errors /\ h.err \in Errors /\ (g.err = "none" <=> h.err = "none")
        /\ g.err = "none" => g.read = one /\ h.read = two /\ SameRows(g, h)
    BY StarfleitStagesAre, GatherInAnyOrder
  <2>3. /\ Starfleit!ParseTxs(a, t1) = Starfleit!Stored(sender, c, k, g)
        /\ Starfleit!ParseTxs(a, t2) = Starfleit!Stored(sender, c, k, h)
    <3>1. t1.logs = one /\ t1.sender = sender /\ t2.logs = two /\ t2.sender = sender
      OBVIOUS
    <3>2. Starfleit!ParseLogs(a, t1, c) = Starfleit!Stored(t1.sender, c, k, AllOf(t1.logs, StarfleitStages(k, t1.sender, Range(t1.logs))))
      BY <1>5, StarfleitIs
    <3>3. Starfleit!ParseLogs(a, t2, c) = Starfleit!Stored(t2.sender, c, k, AllOf(t2.logs, StarfleitStages(k, t2.sender, Range(t2.logs))))
      BY <1>5, StarfleitIs
    <3> HIDE DEF k, t1, t2
    <3> QED  BY <1>3, <2>1, <3>1, <3>2, <3>3
  <2>4. "pairs" \in DOMAIN k
    BY DEF StarfleitKnown
  <2> HIDE DEF k, g, h, st
  <2> DEFINE o == Starfleit!Result(g, k, Starfleit!RowsOf(sender, c, k.pairs, g))
             p == Starfleit!Result(h, k, Starfleit!RowsOf(sender, c, k.pairs, h))
  <2>7. Starfleit!ParseTxs(a, t1) = o /\ Starfleit!ParseTxs(a, t2) = p
    BY <2>3, Zenon DEF Starfleit!Stored
  <2>8. o.app.pairs = p.app.pairs
    BY DEF Starfleit!Result
  <2>9. ASSUME g.err # "none" PROVE SameOutcome(o, p)
    <3>1. o.outcome = g.err /\ p.outcome = h.err
      BY <2>2, <2>9 DEF Starfleit!Result
    <3>2. ~IsStored(o) /\ ~IsStored(p)
      BY <2>2, <2>9, <3>1 DEF IsStored, Errors
    <3> HIDE DEF o, p
    <3> QED  BY <2>8, <3>2 DEF SameOutcome
  <2>10. ASSUME g.err = "none" PROVE SameOutcome(o, p)
    <3>1. SameRows(g, h)
      BY <2>2, <2>10
    <3>2. Starfleit!RowsOf(sender, c, k.pairs, g) = Starfleit!RowsOf(sender, c, k.pairs, h)
      BY <2>10, <3>1 DEF SameRows, Starfleit!RowsOf
    <3>3. o = p
      BY <2>10, <3>1, <3>2 DEF SameRows, Starfleit!Result
    <3> HIDE DEF o, p
    <3> QED  BY <3>3 DEF SameOutcome
  <2> HIDE DEF o, p
  <2>11. SameOutcome(o, p)
    BY <2>9, <2>10
  <2> QED  BY <2>7, <2>11
<1> QED  BY <1>4, <1>5

-----------------------------------------------------------------------------
(* ColumbusV1. *)

(* The application module repeats the shared definitions under names of    *)
(* its own; they say the same.                                             *)
LEMMA ColumbusV1Copies ==
    ASSUME NEW rule, NEW logs, NEW attrs, NEW matches, NEW mapped,
           NEW act, NEW ip, NEW w, NEW tax, NEW nat, NEW b, NEW s
    PROVE  /\ ColumbusV1!FindFromLogs(rule, logs) = FindFromLogs(rule, logs)
           /\ ColumbusV1!Collect(matches, mapped) = Collect(matches, mapped)
           /\ ColumbusV1!GatherFrom(logs, act, ip, w, tax, nat, b) = GatherFrom(logs, act, ip, w, tax, nat, b)
           /\ ColumbusV1!NormalizeTransferAttrs(attrs) = NormalizeTransferAttrs(attrs)
           /\ ColumbusV1!Rows(s) = Rows(s) /\ ColumbusV1!Range(s) = Range(s)
<1>1. ColumbusV1!FindFromLogs(rule, logs) = FindFromLogs(rule, logs)
  BY ZenonT(60) DEF ColumbusV1!FindFromLogs, FindFromLogs, ColumbusV1!FlattenSeq, FlattenSeq, ColumbusV1!FindFromAttrs, FindFromAttrs,
     ColumbusV1!SearchAt, SearchAt, ColumbusV1!NothingSearched, NothingSearched, ColumbusV1!appendUntil, appendUntil,
     ColumbusV1!Until, Until, ColumbusV1!Unskipped, Unskipped, ColumbusV1!findMatchingSubseq, findMatchingSubseq,
     ColumbusV1!MatchItem, MatchItem, ColumbusV1!Match, Match, ColumbusV1!NothingFound, NothingFound, ColumbusV1!skipKeys, skipKeys, ColumbusV1!Last, Last
<1>2. ColumbusV1!Collect(matches, mapped) = Collect(matches, mapped)
  BY Zenon DEF ColumbusV1!Collect, Collect, ColumbusV1!Rows, Rows, ColumbusV1!TakeMatch, TakeMatch, ColumbusV1!Failed, Failed
<1>3. ColumbusV1!GatherFrom(logs, act, ip, w, tax, nat, b) = GatherFrom(logs, act, ip, w, tax, nat, b)
  BY Zenon DEF ColumbusV1!GatherFrom, GatherFrom, ColumbusV1!NothingGathered, NothingGathered, ColumbusV1!TakeLog, TakeLog,
     ColumbusV1!AfterStages, AfterStages, ColumbusV1!FirstError, FirstError, ColumbusV1!Record, Record,
     ColumbusV1!RawTxContainsCreatePair, RawTxContainsCreatePair
<1>4. ColumbusV1!NormalizeTransferAttrs(attrs) = NormalizeTransferAttrs(attrs)
  <2>1. ASSUME NEW f, NEW g PROVE ColumbusV1!InOrder(f, g) = InOrder(f, g)
    BY Zenon DEF ColumbusV1!InOrder, InOrder, ColumbusV1!FlattenSeq, FlattenSeq
  <2>2. ASSUME NEW f, NEW a PROVE ColumbusV1!Flush(f, a) = Flush(f, a)
    BY <2>1, Zenon DEF ColumbusV1!Flush, Flush
  <2>3. ASSUME NEW f, NEW a, NEW x PROVE ColumbusV1!Grow(f, a, x) = Grow(f, a, x)
    BY <2>2, Zenon DEF ColumbusV1!Grow, Grow
  <2>4. ASSUME NEW f, NEW a, NEW x PROVE ColumbusV1!TakeAttr(f, a, x) = TakeAttr(f, a, x)
    BY <2>2, <2>3, Zenon DEF ColumbusV1!TakeAttr, TakeAttr
  <2> DEFINE f == <<"amount", "recipient", "sender">>
             base == [sorted |-> <<>>, group |-> <<>>]
             P(t) == t = [i \in 0..Len(attrs) |-> IF i = 0 THEN base ELSE ColumbusV1!TakeAttr(f, t[i - 1], attrs[i])]
             Q(t) == t = [i \in 0..Len(attrs) |-> IF i = 0 THEN base ELSE TakeAttr(f, t[i - 1], attrs[i])]
  <2>5. \A t : P(t) <=> Q(t)
    BY <2>4, Zenon
  <2>6. (CHOOSE t : P(t)) = (CHOOSE t : Q(t))
    <3> HIDE DEF P, Q
    <3> QED  BY <2>5, Zenon
  <2>7. ColumbusV1!NormalizeTransferAttrs(attrs) = ColumbusV1!Flush(f, (CHOOSE t : P(t))[Len(attrs)]).sorted
    BY Zenon DEF ColumbusV1!NormalizeTransferAttrs, ColumbusV1!SortAttributes
  <2>8. NormalizeTransferAttrs(attrs) = Flush(f, (CHOOSE t : Q(t))[Len(attrs)]).sorted
    BY Zenon DEF NormalizeTransferAttrs, SortAttributes
  <2> HIDE DEF P, Q, f
  <2> QED  BY <2>2, <2>6, <2>7, <2>8
<1>5. ColumbusV1!Rows(s) = Rows(s) /\ ColumbusV1!Range(s) = Range(s)
  BY DEF ColumbusV1!Rows, Rows, ColumbusV1!Range, Range
<1> QED  BY <1>1, <1>2, <1>3, <1>4, <1>5

(* No mapper gives more than a sequence of rows.                           *)
LEMMA ColumbusV1Mappers ==
    ASSUME NEW m, NEW dex, NEW sender
    PROVE  /\ IsSeq(ColumbusV1!pairMapper(m, dex.pairs).rows)
           /\ IsSeq(ColumbusV1!wasmCommonTransferMapper(m, "contract_address", dex.pairs, dex.exceptions).rows)
           /\ IsSeq(ColumbusV1!transferMapper(m, dex.pairs, sender).rows)
<1> USE DEF Plain, ColumbusV1!Failed, ColumbusV1!Ambiguous, ColumbusV1!Rows
<1>1. ASSUME NEW s, NEW pair PROVE Plain(ColumbusV1!swapMatchedToParsedTx(s, pair))
  BY DEF ColumbusV1!swapMatchedToParsedTx
<1>2. ASSUME NEW s, NEW pair PROVE Plain(ColumbusV1!withdrawMatchedToParsedTx(s, pair))
  BY DEF ColumbusV1!withdrawMatchedToParsedTx
<1>3. ASSUME NEW s, NEW pair PROVE Plain(ColumbusV1!provideMatchedToParsedTx(s, pair))
  BY DEF ColumbusV1!provideMatchedToParsedTx
<1>4. Plain(ColumbusV1!pairMapper(m, dex.pairs))
  BY <1>1, <1>2, <1>3 DEF ColumbusV1!pairMapper
<1>5. IsSeq(ColumbusV1!wasmCommonTransferMapper(m, "contract_address", dex.pairs, dex.exceptions).rows)
  <2> DEFINE pairs == dex.pairs
             out(p) == IF p \in DOMAIN pairs
                       THEN <<ColumbusV1!wasmTransferToParsedTx(pairs[p], ColumbusV1!Value(m, "contract_address"), ColumbusV1!Value(m, "from"), ColumbusV1!Value(m, "amount"), TRUE)>>
                       ELSE <<>>
             in(p) == IF p \in DOMAIN pairs
                      THEN <<ColumbusV1!wasmTransferToParsedTx(pairs[p], ColumbusV1!Value(m, "contract_address"), ColumbusV1!Value(m, "from"), ColumbusV1!Value(m, "amount"), FALSE)>>
                      ELSE <<>>
             r == ColumbusV1!wasmCommonTransferMapper(m, "contract_address", dex.pairs, dex.exceptions)
  <2>1. IsSeq(out(ColumbusV1!Value(m, "from")) \o in(ColumbusV1!Value(m, "to")))
    BY JoinedIsSeq
  <2>2. r.rows = <<>> \/ r.rows = out(ColumbusV1!Value(m, "from")) \o in(ColumbusV1!Value(m, "to"))
    BY Zenon DEF ColumbusV1!wasmCommonTransferMapper
  <2> HIDE DEF out, in, r
  <2> QED  BY <2>1, <2>2, NoneIsSeq DEF r
<1>6. IsSeq(ColumbusV1!transferMapper(m, dex.pairs, sender).rows)
  <2> DEFINE pairs == dex.pairs
             from == ColumbusV1!TransferFallbackSender(ColumbusV1!Value(m, "sender"), sender)
             out(p) == IF p \in DOMAIN pairs
                       THEN <<ColumbusV1!transferToParsedTx(pairs[p], from, ColumbusV1!Value(m, "amount"), TRUE, ColumbusV1!MsgIndex(m))>>
                       ELSE <<>>
             in(p) == IF p \in DOMAIN pairs
                      THEN <<ColumbusV1!transferToParsedTx(pairs[p], from, ColumbusV1!Value(m, "amount"), FALSE, ColumbusV1!MsgIndex(m))>>
                      ELSE <<>>
             r == ColumbusV1!transferMapper(m, dex.pairs, sender)
  <2>1. IsSeq(out(from) \o in(ColumbusV1!Value(m, "recipient")))
    BY JoinedIsSeq
  <2>2. r.rows = <<>> \/ r.rows = out(from) \o in(ColumbusV1!Value(m, "recipient"))
    BY Zenon DEF ColumbusV1!transferMapper
  <2> HIDE DEF out, in, r
  <2> QED  BY <2>1, <2>2, NoneIsSeq DEF r
<1> HIDE DEF Plain
<1> QED  BY <1>4, <1>5, <1>6, PlainIsSeq

(* Every parser gives rows, and none for a log of another type.            *)
LEMMA ColumbusV1Reads ==
    ASSUME NEW S, NEW R, NEW log \in Logs(S, R), NEW dex, NEW sender
    PROVE  /\ Reads(ColumbusV1!PairActionParser(dex, <<log>>), "from_contract", log)
           /\ Reads(ColumbusV1!WasmTransfer(dex, <<log>>), "from_contract", log)
           /\ Reads(ColumbusV1!Transfer(dex, sender, <<log>>), "transfer", log)
<1> DEFINE found(rule) == FindFromLogs(rule, <<log>>)
<1>0. Len(log.attrs) \in Nat
  BY DEF Logs
<1>1. Reads(ColumbusV1!PairActionParser(dex, <<log>>), "from_contract", log)
  <2> DEFINE rule == ColumbusV1!col4PairCommonRule(dex.filter)
             mapped == [m \in Range(found(rule)) |-> ColumbusV1!pairMapper(m, dex.pairs)]
  <2>1. ColumbusV1!PairActionParser(dex, <<log>>) = Collect(found(rule), mapped)
    <3>1. ColumbusV1!PairActionParser(dex, <<log>>) = CHOOSE r \in {ColumbusV1!Collect(matches, [m \in ColumbusV1!Range(matches) |-> ColumbusV1!pairMapper(m, dex.pairs)]) : matches \in {ColumbusV1!FindFromLogs(rule, <<log>>)}} : TRUE
      BY Zenon DEF ColumbusV1!PairActionParser, ColumbusV1!Parse
    <3> HIDE DEF rule
    <3>2. \A matches : ColumbusV1!Range(matches) = Range(matches)
      BY ColumbusV1Copies
    <3>3. ColumbusV1!FindFromLogs(rule, <<log>>) = found(rule)
      BY ColumbusV1Copies
    <3>4. ColumbusV1!PairActionParser(dex, <<log>>) = ColumbusV1!Collect(found(rule), mapped)
      BY <3>1, <3>2, <3>3
    <3> QED  BY <3>4, ColumbusV1Copies
  <2>2. \A m \in Range(found(rule)) : IsSeq(mapped[m].rows)
    <3> HIDE DEF rule
    <3> QED  BY ColumbusV1Mappers
  <2>3. rule.type = "from_contract"
    BY DEF ColumbusV1!col4PairCommonRule
  <2> HIDE DEF mapped, rule
  <2>4. Reads(Collect(found(rule), mapped), rule.type, log)
    BY <1>0, <2>2, ParserReads
  <2> QED  BY <2>1, <2>3, <2>4, Zenon
<1>2. Reads(ColumbusV1!WasmTransfer(dex, <<log>>), "from_contract", log)
  <2> DEFINE rule == ColumbusV1!col4WasmTransferCommonRule
             mapped == [m \in Range(found(rule)) |-> ColumbusV1!wasmCommonTransferMapper(m, "contract_address", dex.pairs, dex.exceptions)]
  <2>1. ColumbusV1!WasmTransfer(dex, <<log>>) = Collect(found(rule), mapped)
    <3>1. ColumbusV1!WasmTransfer(dex, <<log>>) = CHOOSE r \in {ColumbusV1!Collect(matches, [m \in ColumbusV1!Range(matches) |-> ColumbusV1!wasmCommonTransferMapper(m, "contract_address", dex.pairs, dex.exceptions)]) : matches \in {ColumbusV1!FindFromLogs(rule, <<log>>)}} : TRUE
      BY Zenon DEF ColumbusV1!WasmTransfer, ColumbusV1!Parse
    <3> HIDE DEF rule
    <3>2. \A matches : ColumbusV1!Range(matches) = Range(matches)
      BY ColumbusV1Copies
    <3>3. ColumbusV1!FindFromLogs(rule, <<log>>) = found(rule)
      BY ColumbusV1Copies
    <3>4. ColumbusV1!WasmTransfer(dex, <<log>>) = ColumbusV1!Collect(found(rule), mapped)
      BY <3>1, <3>2, <3>3
    <3> QED  BY <3>4, ColumbusV1Copies
  <2>2. \A m \in Range(found(rule)) : IsSeq(mapped[m].rows)
    <3> HIDE DEF rule
    <3> QED  BY ColumbusV1Mappers
  <2>3. rule.type = "from_contract"
    BY DEF ColumbusV1!col4WasmTransferCommonRule
  <2> HIDE DEF mapped, rule
  <2>4. Reads(Collect(found(rule), mapped), rule.type, log)
    BY <1>0, <2>2, ParserReads
  <2> QED  BY <2>1, <2>3, <2>4, Zenon
<1>3. Reads(ColumbusV1!Transfer(dex, sender, <<log>>), "transfer", log)
  <2> DEFINE rule == ColumbusV1!CreateTransferRuleFinder
             mapped == [m \in Range(found(rule)) |-> ColumbusV1!transferMapper(m, dex.pairs, sender)]
  <2>1. ColumbusV1!Transfer(dex, sender, <<log>>) = Collect(found(rule), mapped)
    <3>1. ColumbusV1!Transfer(dex, sender, <<log>>) = CHOOSE r \in {ColumbusV1!Collect(matches, [m \in ColumbusV1!Range(matches) |-> ColumbusV1!transferMapper(m, dex.pairs, sender)]) : matches \in {ColumbusV1!FindFromLogs(rule, <<log>>)}} : TRUE
      BY Zenon DEF ColumbusV1!Transfer, ColumbusV1!Parse
    <3> HIDE DEF rule
    <3>2. \A matches : ColumbusV1!Range(matches) = Range(matches)
      BY ColumbusV1Copies
    <3>3. ColumbusV1!FindFromLogs(rule, <<log>>) = found(rule)
      BY ColumbusV1Copies
    <3>4. ColumbusV1!Transfer(dex, sender, <<log>>) = ColumbusV1!Collect(found(rule), mapped)
      BY <3>1, <3>2, <3>3
    <3> QED  BY <3>4, ColumbusV1Copies
  <2>2. \A m \in Range(found(rule)) : IsSeq(mapped[m].rows)
    <3> HIDE DEF rule
    <3> QED  BY ColumbusV1Mappers
  <2>3. rule.type = "transfer"
    BY DEF ColumbusV1!CreateTransferRuleFinder
  <2> HIDE DEF mapped, rule
  <2>4. Reads(Collect(found(rule), mapped), rule.type, log)
    BY <1>0, <2>2, ParserReads
  <2> QED  BY <2>1, <2>3, <2>4, Zenon
<1> QED  BY <1>1, <1>2, <1>3

ColumbusV1Stages(dex, sender, S) ==
    LET act == [log \in S |-> ColumbusV1!PairActionParser(dex, <<log>>)]
    IN [act |-> act,
        ip  |-> [log \in S |-> IF ColumbusV1!HasProvide(act[<<log>>[1]].rows) THEN ColumbusV1!NoStage(<<log>>) ELSE ColumbusV1!Rows(<<>>)],
        w   |-> [log \in S |-> ColumbusV1!WasmTransfer(dex, <<log>>)],
        tax |-> [log \in S |-> ColumbusV1!NoStage(<<log>>)],
        nat |-> [log \in S |-> ColumbusV1!Transfer(dex, sender,
                    IF <<log>>[1].type # "transfer" THEN <<log>> ELSE <<[<<log>>[1] EXCEPT !.attrs = ColumbusV1!NormalizeTransferAttrs(@)]>>)],
        b   |-> [log \in S |-> ColumbusV1!NoStage(<<log>>)]]
ColumbusV1Types == [act |-> "from_contract", w |-> "from_contract", tax |-> "tax_payment", nat |-> "transfer", b |-> "wasm"]
ColumbusV1Known(a, created) == [a EXCEPT !.pairs = ColumbusV1!LearnPairs(@, created.rows)]

(* So the parsers of the application are stages in the sense of            *)
(* DexRowsProofs, each for one type of log.                                *)
LEMMA ColumbusV1StagesAre ==
    ASSUME NEW S, NEW R, NEW logs \in Seq(Logs(S, R)), NEW dex, NEW sender
    PROVE  Stages(ColumbusV1Stages(dex, sender, Range(logs)), ColumbusV1Types, logs)
<1> DEFINE st == ColumbusV1Stages(dex, sender, Range(logs))
           type == ColumbusV1Types
<1>1. ASSUME NEW log \in Range(logs)
      PROVE  /\ Reads(st.act[log], type.act, log) /\ Reads(st.ip[log], type.act, log)
             /\ Reads(st.w[log], type.w, log)     /\ Reads(st.tax[log], type.tax, log)
             /\ Reads(st.nat[log], type.nat, log) /\ Reads(st.b[log], type.b, log)
  <2>1. log \in Logs(S, R)
    BY <1>1 DEF Range
  <2>2. \A t : Reads(ColumbusV1!Rows(<<>>), t, log)
    <3>1. ColumbusV1!Rows(<<>>) = Rows(<<>>)
      BY ColumbusV1Copies
    <3> QED  BY <3>1, NothingRead
  <2>3. ColumbusV1!NoStage(<<log>>) = ColumbusV1!Rows(<<>>)
    BY DEF ColumbusV1!NoStage
  <2>4. Reads(st.act[log], "from_contract", log)
    <3>1. st.act[log] = ColumbusV1!PairActionParser(dex, <<log>>)
      BY <1>1 DEF ColumbusV1Stages
    <3> QED  BY <2>1, <2>2, <2>3, <3>1, ColumbusV1Reads, Zenon
  <2>5. Reads(st.ip[log], "from_contract", log)
    <3>1. st.ip[log] = ColumbusV1!NoStage(<<log>>) \/ st.ip[log] = ColumbusV1!Rows(<<>>)
      BY <1>1, Zenon DEF ColumbusV1Stages
    <3> QED  BY <2>1, <2>2, <2>3, <3>1, ColumbusV1Reads, Zenon
  <2>6. Reads(st.w[log], "from_contract", log)
    <3>1. st.w[log] = ColumbusV1!WasmTransfer(dex, <<log>>)
      BY <1>1, Zenon DEF ColumbusV1Stages
    <3> QED  BY <2>1, <2>2, <2>3, <3>1, ColumbusV1Reads, Zenon
  <2>7. Reads(st.tax[log], "tax_payment", log)
    <3>1. st.tax[log] = ColumbusV1!NoStage(<<log>>)
      BY <1>1, Zenon DEF ColumbusV1Stages
    <3> QED  BY <2>1, <2>2, <2>3, <3>1, ColumbusV1Reads, Zenon
  <2>8. Reads(st.nat[log], "transfer", log)
    <3> DEFINE sorted == [log EXCEPT !.attrs = ColumbusV1!NormalizeTransferAttrs(@)]
               raw == IF <<log>>[1].type # "transfer" THEN <<log>> ELSE <<[<<log>>[1] EXCEPT !.attrs = ColumbusV1!NormalizeTransferAttrs(@)]>>
    <3>1. st.nat[log] = ColumbusV1!Transfer(dex, sender, raw)
      BY <1>1, Zenon DEF ColumbusV1Stages
    <3>2. raw = IF log.type # "transfer" THEN <<log>> ELSE <<sorted>>
      OBVIOUS
    <3>3. sorted \in Logs(S, R) /\ sorted.type = log.type
      <4>1. ColumbusV1!NormalizeTransferAttrs(log.attrs) \in Seq(R)
        BY <2>1, ColumbusV1Copies, NormalizedIsSeq DEF Logs
      <4> QED  BY <2>1, <4>1 DEF Logs
    <3> HIDE DEF raw, sorted
    <3>4. Reads(ColumbusV1!Transfer(dex, sender, <<log>>), "transfer", log)
      BY <2>1, ColumbusV1Reads, Zenon
    <3>5. Reads(ColumbusV1!Transfer(dex, sender, <<sorted>>), "transfer", sorted)
      BY <3>3, ColumbusV1Reads, Zenon
    <3> QED  BY <3>1, <3>2, <3>3, <3>4, <3>5 DEF Reads
  <2>9. Reads(st.b[log], "wasm", log)
    <3>1. st.b[log] = ColumbusV1!NoStage(<<log>>)
      BY <1>1, Zenon DEF ColumbusV1Stages
    <3> QED  BY <2>1, <2>2, <2>3, <3>1, ColumbusV1Reads, Zenon
  <2>10. /\ type.act = "from_contract" /\ type.w = "from_contract" /\ type.tax = "tax_payment"
         /\ type.nat = "transfer" /\ type.b = "wasm"
    BY DEF ColumbusV1Types
  <2> HIDE DEF st, type
  <2> QED  BY <2>4, <2>5, <2>6, <2>7, <2>8, <2>9, <2>10
<1> HIDE DEF st, type
<1>2. Stages(st, type, logs)
  BY <1>1 DEF Stages, Stage, Reads
<1> QED  BY <1>2 DEF st, type

(* ParseLogs, unless the creation of pairs fails, stores what these stages *)
(* gather from the logs.                                                   *)
LEMMA ColumbusV1Is ==
    ASSUME NEW a, NEW tx, NEW created, created.err = "none"
    PROVE  ColumbusV1!ParseLogs(a, tx, created)
           = ColumbusV1!StoredFlagging(ColumbusV1!col4WasmTransferCommonRule, "contract_address", tx.sender, created, ColumbusV1Known(a, created), 
               AllOf(tx.logs, ColumbusV1Stages(ColumbusV1Known(a, created), tx.sender, Range(tx.logs))))
<1> DEFINE known == ColumbusV1Known(a, created)
           st == ColumbusV1Stages(known, tx.sender, Range(tx.logs))
           g == ColumbusV1!GatherFrom(tx.logs, st.act, st.ip, st.w, st.tax, st.nat, st.b)
<1>1. ColumbusV1!ParseLogs(a, tx, created) = ColumbusV1!StoredFlagging(ColumbusV1!col4WasmTransferCommonRule, "contract_address", tx.sender, created, known, g)
  BY Zenon DEF ColumbusV1Stages, ColumbusV1Known, ColumbusV1!ParseLogs, ColumbusV1!Gather, ColumbusV1!NoStage, ColumbusV1!Range, Range
<1>2. g = AllOf(tx.logs, st)
  BY ColumbusV1Copies DEF AllOf
<1> HIDE DEF g, st
<1> QED  BY <1>1, <1>2 DEF st, known

(* So it stores the same for the same logs in another order.               *)
LEMMA ColumbusV1InAnyOrder ==
    ASSUME NEW S, NEW R, NEW one \in Seq(Logs(S, R)), NEW two \in Seq(Logs(S, R)), SameLogs(one, two),
           NEW a, "pairs" \in DOMAIN a, NEW sender
    PROVE  SameOutcome(ColumbusV1!ParseTxs(a, [logs |-> one, sender |-> sender]),
                       ColumbusV1!ParseTxs(a, [logs |-> two, sender |-> sender]))
<1> DEFINE t1 == [logs |-> one, sender |-> sender]
           t2 == [logs |-> two, sender |-> sender]
           c == ColumbusV1!Parse(ColumbusV1!col4CreatePairRule, one, ColumbusV1!factoryMapper)
           d == ColumbusV1!Parse(ColumbusV1!col4CreatePairRule, two, ColumbusV1!factoryMapper)
<1>1. \A rule : ColumbusV1!FindFromLogs(rule, one) = ColumbusV1!FindFromLogs(rule, two)
  <2>1. \A log \in Logs(S, R) : Len(log.attrs) \in Nat
    BY DEF Logs
  <2>2. \A rule : FindFromLogs(rule, one) = FindFromLogs(rule, two)
    BY <2>1, SameFound
  <2> QED  BY <2>2, ColumbusV1Copies
<1>2. c = d
  BY <1>1 DEF ColumbusV1!Parse
<1>3. /\ ColumbusV1!ParseTxs(a, t1) = ColumbusV1!ParseLogs(a, t1, c)
      /\ ColumbusV1!ParseTxs(a, t2) = ColumbusV1!ParseLogs(a, t2, c)
  <2>1. ColumbusV1!ParseTxs(a, t1) = ColumbusV1!ParseLogs(a, t1, c) /\ ColumbusV1!ParseTxs(a, t2) = ColumbusV1!ParseLogs(a, t2, d)
    BY Zenon DEF ColumbusV1!ParseTxs
  <2> HIDE DEF c, d
  <2> QED  BY <1>2, <2>1
<1> HIDE DEF c, d
<1>4. CASE c.err # "none"
  <2>1. ColumbusV1!ParseLogs(a, t1, c) = ColumbusV1!GaveUp(c.err, a) /\ ColumbusV1!ParseLogs(a, t2, c) = ColumbusV1!GaveUp(c.err, a)
    BY <1>4, Zenon DEF ColumbusV1!ParseLogs
  <2> QED  BY <1>3, <2>1 DEF SameOutcome
<1>5. CASE c.err = "none"
  <2> DEFINE k == ColumbusV1Known(a, c)
             st == ColumbusV1Stages(k, sender, Range(one))
             g == AllOf(one, st)
             h == AllOf(two, st)
             f(x) == [k EXCEPT !.flagged = @ \cup ColumbusV1!FlaggedBy(ColumbusV1!col4WasmTransferCommonRule, x.read, "contract_address", k.exceptions)]
  <2>1. Range(one) = Range(two)
    BY DEF SameLogs
  <2>2. /\ g.err \in Errors /\ h.err \in Errors /\ (g.err = "none" <=> h.err = "none")
        /\ g.err = "none" => g.read = one /\ h.read = two /\ SameRows(g, h)
    BY ColumbusV1StagesAre, GatherInAnyOrder
  <2>3. /\ ColumbusV1!ParseTxs(a, t1) = ColumbusV1!StoredFlagging(ColumbusV1!col4WasmTransferCommonRule, "contract_address", sender, c, k, g)
        /\ ColumbusV1!ParseTxs(a, t2) = ColumbusV1!StoredFlagging(ColumbusV1!col4WasmTransferCommonRule, "contract_address", sender, c, k, h)
    <3>1. t1.logs = one /\ t1.sender = sender /\ t2.logs = two /\ t2.sender = sender
      OBVIOUS
    <3>2. ColumbusV1!ParseLogs(a, t1, c) = ColumbusV1!StoredFlagging(ColumbusV1!col4WasmTransferCommonRule, "contract_address", t1.sender, c, k, AllOf(t1.logs, ColumbusV1Stages(k, t1.sender, Range(t1.logs))))
      BY <1>5, ColumbusV1Is
    <3>3. ColumbusV1!ParseLogs(a, t2, c) = ColumbusV1!StoredFlagging(ColumbusV1!col4WasmTransferCommonRule, "contract_address", t2.sender, c, k, AllOf(t2.logs, ColumbusV1Stages(k, t2.sender, Range(t2.logs))))
      BY <1>5, ColumbusV1Is
    <3> HIDE DEF k, t1, t2
    <3> QED  BY <1>3, <2>1, <3>1, <3>2, <3>3
  <2>4. "pairs" \in DOMAIN k
    BY DEF ColumbusV1Known
  <2>5. f(g).pairs = k.pairs /\ f(h).pairs = k.pairs
    <3> HIDE DEF k, g, h
    <3> QED  BY <2>4
  <2>6. g.err = "none" => f(g) = f(h)
    BY <1>1, <2>2 DEF ColumbusV1!FlaggedBy
  <2> HIDE DEF f
  <2> HIDE DEF k, g, h, st
  <2> DEFINE o == ColumbusV1!Result(g, f(g), ColumbusV1!RowsOf(sender, c, f(g).pairs, g))
             p == ColumbusV1!Result(h, f(h), ColumbusV1!RowsOf(sender, c, f(h).pairs, h))
  <2>7. ColumbusV1!ParseTxs(a, t1) = o /\ ColumbusV1!ParseTxs(a, t2) = p
    BY <2>3, Zenon DEF ColumbusV1!StoredFlagging, ColumbusV1!Stored, f
  <2>8. o.app.pairs = p.app.pairs
    BY <2>5 DEF ColumbusV1!Result
  <2>9. ASSUME g.err # "none" PROVE SameOutcome(o, p)
    <3>1. o.outcome = g.err /\ p.outcome = h.err
      BY <2>2, <2>9 DEF ColumbusV1!Result
    <3>2. ~IsStored(o) /\ ~IsStored(p)
      BY <2>2, <2>9, <3>1 DEF IsStored, Errors
    <3> HIDE DEF o, p
    <3> QED  BY <2>8, <3>2 DEF SameOutcome
  <2>10. ASSUME g.err = "none" PROVE SameOutcome(o, p)
    <3>1. SameRows(g, h)
      BY <2>2, <2>10
    <3>2. ColumbusV1!RowsOf(sender, c, f(g).pairs, g) = ColumbusV1!RowsOf(sender, c, f(h).pairs, h)
      BY <2>10, <3>1, <2>6 DEF SameRows, ColumbusV1!RowsOf
    <3>3. o = p
      BY <2>10, <3>1, <3>2, <2>6 DEF SameRows, ColumbusV1!Result
    <3> HIDE DEF o, p
    <3> QED  BY <3>3 DEF SameOutcome
  <2> HIDE DEF o, p
  <2>11. SameOutcome(o, p)
    BY <2>9, <2>10
  <2> QED  BY <2>7, <2>11
<1> QED  BY <1>4, <1>5

-----------------------------------------------------------------------------
(* ColumbusV2. *)

(* The application module repeats the shared definitions under names of    *)
(* its own; they say the same.                                             *)
LEMMA ColumbusV2Copies ==
    ASSUME NEW rule, NEW logs, NEW attrs, NEW matches, NEW mapped,
           NEW act, NEW ip, NEW w, NEW tax, NEW nat, NEW b, NEW s
    PROVE  /\ ColumbusV2!FindFromLogs(rule, logs) = FindFromLogs(rule, logs)
           /\ ColumbusV2!Collect(matches, mapped) = Collect(matches, mapped)
           /\ ColumbusV2!GatherFrom(logs, act, ip, w, tax, nat, b) = GatherFrom(logs, act, ip, w, tax, nat, b)
           /\ ColumbusV2!NormalizeTransferAttrs(attrs) = NormalizeTransferAttrs(attrs)
           /\ ColumbusV2!Rows(s) = Rows(s) /\ ColumbusV2!Range(s) = Range(s)
<1>1. ColumbusV2!FindFromLogs(rule, logs) = FindFromLogs(rule, logs)
  BY ZenonT(60) DEF ColumbusV2!FindFromLogs, FindFromLogs, ColumbusV2!FlattenSeq, FlattenSeq, ColumbusV2!FindFromAttrs, FindFromAttrs,
     ColumbusV2!SearchAt, SearchAt, ColumbusV2!NothingSearched, NothingSearched, ColumbusV2!appendUntil, appendUntil,
     ColumbusV2!Until, Until, ColumbusV2!Unskipped, Unskipped, ColumbusV2!findMatchingSubseq, findMatchingSubseq,
     ColumbusV2!MatchItem, MatchItem, ColumbusV2!Match, Match, ColumbusV2!NothingFound, NothingFound, ColumbusV2!skipKeys, skipKeys, ColumbusV2!Last, Last
<1>2. ColumbusV2!Collect(matches, mapped) = Collect(matches, mapped)
  BY Zenon DEF ColumbusV2!Collect, Collect, ColumbusV2!Rows, Rows, ColumbusV2!TakeMatch, TakeMatch, ColumbusV2!Failed, Failed
<1>3. ColumbusV2!GatherFrom(logs, act, ip, w, tax, nat, b) = GatherFrom(logs, act, ip, w, tax, nat, b)
  BY Zenon DEF ColumbusV2!GatherFrom, GatherFrom, ColumbusV2!NothingGathered, NothingGathered, ColumbusV2!TakeLog, TakeLog,
     ColumbusV2!AfterStages, AfterStages, ColumbusV2!FirstError, FirstError, ColumbusV2!Record, Record,
     ColumbusV2!RawTxContainsCreatePair, RawTxContainsCreatePair
<1>4. ColumbusV2!NormalizeTransferAttrs(attrs) = NormalizeTransferAttrs(attrs)
  <2>1. ASSUME NEW f, NEW g PROVE ColumbusV2!InOrder(f, g) = InOrder(f, g)
    BY Zenon DEF ColumbusV2!InOrder, InOrder, ColumbusV2!FlattenSeq, FlattenSeq
  <2>2. ASSUME NEW f, NEW a PROVE ColumbusV2!Flush(f, a) = Flush(f, a)
    BY <2>1, Zenon DEF ColumbusV2!Flush, Flush
  <2>3. ASSUME NEW f, NEW a, NEW x PROVE ColumbusV2!Grow(f, a, x) = Grow(f, a, x)
    BY <2>2, Zenon DEF ColumbusV2!Grow, Grow
  <2>4. ASSUME NEW f, NEW a, NEW x PROVE ColumbusV2!TakeAttr(f, a, x) = TakeAttr(f, a, x)
    BY <2>2, <2>3, Zenon DEF ColumbusV2!TakeAttr, TakeAttr
  <2> DEFINE f == <<"amount", "recipient", "sender">>
             base == [sorted |-> <<>>, group |-> <<>>]
             P(t) == t = [i \in 0..Len(attrs) |-> IF i = 0 THEN base ELSE ColumbusV2!TakeAttr(f, t[i - 1], attrs[i])]
             Q(t) == t = [i \in 0..Len(attrs) |-> IF i = 0 THEN base ELSE TakeAttr(f, t[i - 1], attrs[i])]
  <2>5. \A t : P(t) <=> Q(t)
    BY <2>4, Zenon
  <2>6. (CHOOSE t : P(t)) = (CHOOSE t : Q(t))
    <3> HIDE DEF P, Q
    <3> QED  BY <2>5, Zenon
  <2>7. ColumbusV2!NormalizeTransferAttrs(attrs) = ColumbusV2!Flush(f, (CHOOSE t : P(t))[Len(attrs)]).sorted
    BY Zenon DEF ColumbusV2!NormalizeTransferAttrs, ColumbusV2!SortAttributes
  <2>8. NormalizeTransferAttrs(attrs) = Flush(f, (CHOOSE t : Q(t))[Len(attrs)]).sorted
    BY Zenon DEF NormalizeTransferAttrs, SortAttributes
  <2> HIDE DEF P, Q, f
  <2> QED  BY <2>2, <2>6, <2>7, <2>8
<1>5. ColumbusV2!Rows(s) = Rows(s) /\ ColumbusV2!Range(s) = Range(s)
  BY DEF ColumbusV2!Rows, Rows, ColumbusV2!Range, Range
<1> QED  BY <1>1, <1>2, <1>3, <1>4, <1>5

(* No mapper gives more than a sequence of rows.                           *)
LEMMA ColumbusV2Mappers ==
    ASSUME NEW m, NEW dex, NEW sender
    PROVE  /\ IsSeq(ColumbusV2!pairMapper(m, dex.pairs).rows)
           /\ IsSeq(ColumbusV2!initialProvideMapper(m).rows)
           /\ IsSeq(ColumbusV2!wasmCommonTransferMapper(m, "_contract_address", dex.pairs, dex.exceptions).rows)
           /\ IsSeq(ColumbusV2!taxPaymentMapper(m).rows)
           /\ IsSeq(ColumbusV2!transferMapper(m, dex.pairs, sender).rows)
           /\ IsSeq(ColumbusV2!burnMapper(m).rows)
<1> USE DEF Plain, ColumbusV2!Failed, ColumbusV2!Ambiguous, ColumbusV2!Rows
<1>1. ASSUME NEW s, NEW pair PROVE Plain(ColumbusV2!swapMatchedToParsedTx(s, pair))
  BY DEF ColumbusV2!swapMatchedToParsedTx
<1>2. ASSUME NEW s, NEW pair PROVE Plain(ColumbusV2!withdrawMatchedToParsedTx(s, pair))
  BY DEF ColumbusV2!withdrawMatchedToParsedTx
<1>3. ASSUME NEW s, NEW pair PROVE Plain(ColumbusV2!provideMatchedToParsedTx(s, pair))
  BY DEF ColumbusV2!provideMatchedToParsedTx
<1>4. Plain(ColumbusV2!pairMapper(m, dex.pairs))
  BY <1>1, <1>2, <1>3 DEF ColumbusV2!pairMapper
<1>5. Plain(ColumbusV2!initialProvideMapper(m))
  BY DEF ColumbusV2!initialProvideMapper
<1>6. IsSeq(ColumbusV2!wasmCommonTransferMapper(m, "_contract_address", dex.pairs, dex.exceptions).rows)
  <2> DEFINE pairs == dex.pairs
             out(p) == IF p \in DOMAIN pairs
                       THEN <<ColumbusV2!wasmTransferToParsedTx(pairs[p], ColumbusV2!Value(m, "_contract_address"), ColumbusV2!Value(m, "from"), ColumbusV2!Value(m, "amount"), TRUE)>>
                       ELSE <<>>
             in(p) == IF p \in DOMAIN pairs
                      THEN <<ColumbusV2!wasmTransferToParsedTx(pairs[p], ColumbusV2!Value(m, "_contract_address"), ColumbusV2!Value(m, "from"), ColumbusV2!Value(m, "amount"), FALSE)>>
                      ELSE <<>>
             r == ColumbusV2!wasmCommonTransferMapper(m, "_contract_address", dex.pairs, dex.exceptions)
  <2>1. IsSeq(out(ColumbusV2!Value(m, "from")) \o in(ColumbusV2!Value(m, "to")))
    BY JoinedIsSeq
  <2>2. r.rows = <<>> \/ r.rows = out(ColumbusV2!Value(m, "from")) \o in(ColumbusV2!Value(m, "to"))
    BY Zenon DEF ColumbusV2!wasmCommonTransferMapper
  <2> HIDE DEF out, in, r
  <2> QED  BY <2>1, <2>2, NoneIsSeq DEF r
<1>7. IsSeq(ColumbusV2!transferMapper(m, dex.pairs, sender).rows)
  <2> DEFINE pairs == dex.pairs
             from == ColumbusV2!TransferFallbackSender(ColumbusV2!Value(m, "sender"), sender)
             out(p) == IF p \in DOMAIN pairs
                       THEN <<ColumbusV2!transferToParsedTx(pairs[p], from, ColumbusV2!Value(m, "amount"), TRUE, ColumbusV2!MsgIndex(m))>>
                       ELSE <<>>
             in(p) == IF p \in DOMAIN pairs
                      THEN <<ColumbusV2!transferToParsedTx(pairs[p], from, ColumbusV2!Value(m, "amount"), FALSE, ColumbusV2!MsgIndex(m))>>
                      ELSE <<>>
             r == ColumbusV2!transferMapper(m, dex.pairs, sender)
  <2>1. IsSeq(out(from) \o in(ColumbusV2!Value(m, "recipient")))
    BY JoinedIsSeq
  <2>2. r.rows = <<>> \/ r.rows = out(from) \o in(ColumbusV2!Value(m, "recipient"))
    BY Zenon DEF ColumbusV2!transferMapper
  <2> HIDE DEF out, in, r
  <2> QED  BY <2>1, <2>2, NoneIsSeq DEF r
<1>8. Plain(ColumbusV2!taxPaymentMapper(m))
  BY DEF ColumbusV2!taxPaymentMapper
<1>9. Plain(ColumbusV2!burnMapper(m))
  BY DEF ColumbusV2!burnMapper
<1> HIDE DEF Plain
<1> QED  BY <1>4, <1>5, <1>8, <1>9, <1>6, <1>7, PlainIsSeq

(* Every parser gives rows, and none for a log of another type.            *)
LEMMA ColumbusV2Reads ==
    ASSUME NEW S, NEW R, NEW log \in Logs(S, R), NEW dex, NEW sender
    PROVE  /\ Reads(ColumbusV2!PairActionParser(dex, <<log>>), "wasm", log)
           /\ Reads(ColumbusV2!InitialProvide(dex, <<log>>), "wasm", log)
           /\ Reads(ColumbusV2!WasmTransfer(dex, <<log>>), "wasm", log)
           /\ Reads(ColumbusV2!TaxPaymentParser(<<log>>), "tax_payment", log)
           /\ Reads(ColumbusV2!Transfer(dex, sender, <<log>>), "transfer", log)
           /\ Reads(ColumbusV2!BurnParser(<<log>>), "wasm", log)
<1> DEFINE found(rule) == FindFromLogs(rule, <<log>>)
<1>0. Len(log.attrs) \in Nat
  BY DEF Logs
<1>1. Reads(ColumbusV2!PairActionParser(dex, <<log>>), "wasm", log)
  <2> DEFINE rule == ColumbusV2!pairCommonRule(dex.filter)
             mapped == [m \in Range(found(rule)) |-> ColumbusV2!pairMapper(m, dex.pairs)]
  <2>1. ColumbusV2!PairActionParser(dex, <<log>>) = Collect(found(rule), mapped)
    <3>1. ColumbusV2!PairActionParser(dex, <<log>>) = CHOOSE r \in {ColumbusV2!Collect(matches, [m \in ColumbusV2!Range(matches) |-> ColumbusV2!pairMapper(m, dex.pairs)]) : matches \in {ColumbusV2!FindFromLogs(rule, <<log>>)}} : TRUE
      BY Zenon DEF ColumbusV2!PairActionParser, ColumbusV2!Parse
    <3> HIDE DEF rule
    <3>2. \A matches : ColumbusV2!Range(matches) = Range(matches)
      BY ColumbusV2Copies
    <3>3. ColumbusV2!FindFromLogs(rule, <<log>>) = found(rule)
      BY ColumbusV2Copies
    <3>4. ColumbusV2!PairActionParser(dex, <<log>>) = ColumbusV2!Collect(found(rule), mapped)
      BY <3>1, <3>2, <3>3
    <3> QED  BY <3>4, ColumbusV2Copies
  <2>2. \A m \in Range(found(rule)) : IsSeq(mapped[m].rows)
    <3> HIDE DEF rule
    <3> QED  BY ColumbusV2Mappers
  <2>3. rule.type = "wasm"
    BY DEF ColumbusV2!pairCommonRule
  <2> HIDE DEF mapped, rule
  <2>4. Reads(Collect(found(rule), mapped), rule.type, log)
    BY <1>0, <2>2, ParserReads
  <2> QED  BY <2>1, <2>3, <2>4, Zenon
<1>2. Reads(ColumbusV2!InitialProvide(dex, <<log>>), "wasm", log)
  <2> DEFINE rule == ColumbusV2!CreatePairInitialProvideRuleFinder(dex.filter)
             mapped == [m \in Range(found(rule)) |-> ColumbusV2!initialProvideMapper(m)]
  <2>1. ColumbusV2!InitialProvide(dex, <<log>>) = Collect(found(rule), mapped)
    <3>1. ColumbusV2!InitialProvide(dex, <<log>>) = CHOOSE r \in {ColumbusV2!Collect(matches, [m \in ColumbusV2!Range(matches) |-> ColumbusV2!initialProvideMapper(m)]) : matches \in {ColumbusV2!FindFromLogs(rule, <<log>>)}} : TRUE
      BY Zenon DEF ColumbusV2!InitialProvide, ColumbusV2!Parse
    <3> HIDE DEF rule
    <3>2. \A matches : ColumbusV2!Range(matches) = Range(matches)
      BY ColumbusV2Copies
    <3>3. ColumbusV2!FindFromLogs(rule, <<log>>) = found(rule)
      BY ColumbusV2Copies
    <3>4. ColumbusV2!InitialProvide(dex, <<log>>) = ColumbusV2!Collect(found(rule), mapped)
      BY <3>1, <3>2, <3>3
    <3> QED  BY <3>4, ColumbusV2Copies
  <2>2. \A m \in Range(found(rule)) : IsSeq(mapped[m].rows)
    <3> HIDE DEF rule
    <3> QED  BY ColumbusV2Mappers
  <2>3. rule.type = "wasm"
    BY DEF ColumbusV2!CreatePairInitialProvideRuleFinder
  <2> HIDE DEF mapped, rule
  <2>4. Reads(Collect(found(rule), mapped), rule.type, log)
    BY <1>0, <2>2, ParserReads
  <2> QED  BY <2>1, <2>3, <2>4, Zenon
<1>3. Reads(ColumbusV2!WasmTransfer(dex, <<log>>), "wasm", log)
  <2> DEFINE rule == ColumbusV2!wasmTransferCommonRule
             mapped == [m \in Range(found(rule)) |-> ColumbusV2!wasmCommonTransferMapper(m, "_contract_address", dex.pairs, dex.exceptions)]
  <2>1. ColumbusV2!WasmTransfer(dex, <<log>>) = Collect(found(rule), mapped)
    <3>1. ColumbusV2!WasmTransfer(dex, <<log>>) = CHOOSE r \in {ColumbusV2!Collect(matches, [m \in ColumbusV2!Range(matches) |-> ColumbusV2!wasmCommonTransferMapper(m, "_contract_address", dex.pairs, dex.exceptions)]) : matches \in {ColumbusV2!FindFromLogs(rule, <<log>>)}} : TRUE
      BY Zenon DEF ColumbusV2!WasmTransfer, ColumbusV2!Parse
    <3> HIDE DEF rule
    <3>2. \A matches : ColumbusV2!Range(matches) = Range(matches)
      BY ColumbusV2Copies
    <3>3. ColumbusV2!FindFromLogs(rule, <<log>>) = found(rule)
      BY ColumbusV2Copies
    <3>4. ColumbusV2!WasmTransfer(dex, <<log>>) = ColumbusV2!Collect(found(rule), mapped)
      BY <3>1, <3>2, <3>3
    <3> QED  BY <3>4, ColumbusV2Copies
  <2>2. \A m \in Range(found(rule)) : IsSeq(mapped[m].rows)
    <3> HIDE DEF rule
    <3> QED  BY ColumbusV2Mappers
  <2>3. rule.type = "wasm"
    BY DEF ColumbusV2!wasmTransferCommonRule
  <2> HIDE DEF mapped, rule
  <2>4. Reads(Collect(found(rule), mapped), rule.type, log)
    BY <1>0, <2>2, ParserReads
  <2> QED  BY <2>1, <2>3, <2>4, Zenon
<1>4. Reads(ColumbusV2!TaxPaymentParser(<<log>>), "tax_payment", log)
  <2> DEFINE rule == ColumbusV2!taxPaymentRule
             mapped == [m \in Range(found(rule)) |-> ColumbusV2!taxPaymentMapper(m)]
  <2>1. ColumbusV2!TaxPaymentParser(<<log>>) = Collect(found(rule), mapped)
    <3>1. ColumbusV2!TaxPaymentParser(<<log>>) = CHOOSE r \in {ColumbusV2!Collect(matches, [m \in ColumbusV2!Range(matches) |-> ColumbusV2!taxPaymentMapper(m)]) : matches \in {ColumbusV2!FindFromLogs(rule, <<log>>)}} : TRUE
      BY Zenon DEF ColumbusV2!TaxPaymentParser, ColumbusV2!Parse
    <3> HIDE DEF rule
    <3>2. \A matches : ColumbusV2!Range(matches) = Range(matches)
      BY ColumbusV2Copies
    <3>3. ColumbusV2!FindFromLogs(rule, <<log>>) = found(rule)
      BY ColumbusV2Copies
    <3>4. ColumbusV2!TaxPaymentParser(<<log>>) = ColumbusV2!Collect(found(rule), mapped)
      BY <3>1, <3>2, <3>3
    <3> QED  BY <3>4, ColumbusV2Copies
  <2>2. \A m \in Range(found(rule)) : IsSeq(mapped[m].rows)
    <3> HIDE DEF rule
    <3> QED  BY ColumbusV2Mappers
  <2>3. rule.type = "tax_payment"
    BY DEF ColumbusV2!taxPaymentRule
  <2> HIDE DEF mapped, rule
  <2>4. Reads(Collect(found(rule), mapped), rule.type, log)
    BY <1>0, <2>2, ParserReads
  <2> QED  BY <2>1, <2>3, <2>4, Zenon
<1>5. Reads(ColumbusV2!Transfer(dex, sender, <<log>>), "transfer", log)
  <2> DEFINE rule == ColumbusV2!CreateTransferRuleFinder
             mapped == [m \in Range(found(rule)) |-> ColumbusV2!transferMapper(m, dex.pairs, sender)]
  <2>1. ColumbusV2!Transfer(dex, sender, <<log>>) = Collect(found(rule), mapped)
    <3>1. ColumbusV2!Transfer(dex, sender, <<log>>) = CHOOSE r \in {ColumbusV2!Collect(matches, [m \in ColumbusV2!Range(matches) |-> ColumbusV2!transferMapper(m, dex.pairs, sender)]) : matches \in {ColumbusV2!FindFromLogs(rule, <<log>>)}} : TRUE
      BY Zenon DEF ColumbusV2!Transfer, ColumbusV2!Parse
    <3> HIDE DEF rule
    <3>2. \A matches : ColumbusV2!Range(matches) = Range(matches)
      BY ColumbusV2Copies
    <3>3. ColumbusV2!FindFromLogs(rule, <<log>>) = found(rule)
      BY ColumbusV2Copies
    <3>4. ColumbusV2!Transfer(dex, sender, <<log>>) = ColumbusV2!Collect(found(rule), mapped)
      BY <3>1, <3>2, <3>3
    <3> QED  BY <3>4, ColumbusV2Copies
  <2>2. \A m \in Range(found(rule)) : IsSeq(mapped[m].rows)
    <3> HIDE DEF rule
    <3> QED  BY ColumbusV2Mappers
  <2>3. rule.type = "transfer"
    BY DEF ColumbusV2!CreateTransferRuleFinder
  <2> HIDE DEF mapped, rule
  <2>4. Reads(Collect(found(rule), mapped), rule.type, log)
    BY <1>0, <2>2, ParserReads
  <2> QED  BY <2>1, <2>3, <2>4, Zenon
<1>6. Reads(ColumbusV2!BurnParser(<<log>>), "wasm", log)
  <2> DEFINE rule == ColumbusV2!burnRule
             mapped == [m \in Range(found(rule)) |-> ColumbusV2!burnMapper(m)]
  <2>1. ColumbusV2!BurnParser(<<log>>) = Collect(found(rule), mapped)
    <3>1. ColumbusV2!BurnParser(<<log>>) = CHOOSE r \in {ColumbusV2!Collect(matches, [m \in ColumbusV2!Range(matches) |-> ColumbusV2!burnMapper(m)]) : matches \in {ColumbusV2!FindFromLogs(rule, <<log>>)}} : TRUE
      BY Zenon DEF ColumbusV2!BurnParser, ColumbusV2!Parse
    <3> HIDE DEF rule
    <3>2. \A matches : ColumbusV2!Range(matches) = Range(matches)
      BY ColumbusV2Copies
    <3>3. ColumbusV2!FindFromLogs(rule, <<log>>) = found(rule)
      BY ColumbusV2Copies
    <3>4. ColumbusV2!BurnParser(<<log>>) = ColumbusV2!Collect(found(rule), mapped)
      BY <3>1, <3>2, <3>3
    <3> QED  BY <3>4, ColumbusV2Copies
  <2>2. \A m \in Range(found(rule)) : IsSeq(mapped[m].rows)
    <3> HIDE DEF rule
    <3> QED  BY ColumbusV2Mappers
  <2>3. rule.type = "wasm"
    BY DEF ColumbusV2!burnRule
  <2> HIDE DEF mapped, rule
  <2>4. Reads(Collect(found(rule), mapped), rule.type, log)
    BY <1>0, <2>2, ParserReads
  <2> QED  BY <2>1, <2>3, <2>4, Zenon
<1> QED  BY <1>1, <1>2, <1>3, <1>4, <1>5, <1>6

ColumbusV2Stages(dex, sender, S) ==
    LET act == [log \in S |-> ColumbusV2!PairActionParser(dex, <<log>>)]
    IN [act |-> act,
        ip  |-> [log \in S |-> IF ColumbusV2!HasProvide(act[<<log>>[1]].rows) THEN ColumbusV2!InitialProvide(dex, <<log>>) ELSE ColumbusV2!Rows(<<>>)],
        w   |-> [log \in S |-> ColumbusV2!WasmTransfer(dex, <<log>>)],
        tax |-> [log \in S |-> ColumbusV2!TaxPaymentParser(<<log>>)],
        nat |-> [log \in S |-> ColumbusV2!Transfer(dex, sender,
                    IF <<log>>[1].type # "transfer" THEN <<log>> ELSE <<[<<log>>[1] EXCEPT !.attrs = ColumbusV2!NormalizeTransferAttrs(@)]>>)],
        b   |-> [log \in S |-> ColumbusV2!BurnParser(<<log>>)]]
ColumbusV2Types == [act |-> "wasm", w |-> "wasm", tax |-> "tax_payment", nat |-> "transfer", b |-> "wasm"]
ColumbusV2Known(a, created) == [a EXCEPT !.pairs = ColumbusV2!LearnPairs(@, created.rows)]

(* So the parsers of the application are stages in the sense of            *)
(* DexRowsProofs, each for one type of log.                                *)
LEMMA ColumbusV2StagesAre ==
    ASSUME NEW S, NEW R, NEW logs \in Seq(Logs(S, R)), NEW dex, NEW sender
    PROVE  Stages(ColumbusV2Stages(dex, sender, Range(logs)), ColumbusV2Types, logs)
<1> DEFINE st == ColumbusV2Stages(dex, sender, Range(logs))
           type == ColumbusV2Types
<1>1. ASSUME NEW log \in Range(logs)
      PROVE  /\ Reads(st.act[log], type.act, log) /\ Reads(st.ip[log], type.act, log)
             /\ Reads(st.w[log], type.w, log)     /\ Reads(st.tax[log], type.tax, log)
             /\ Reads(st.nat[log], type.nat, log) /\ Reads(st.b[log], type.b, log)
  <2>1. log \in Logs(S, R)
    BY <1>1 DEF Range
  <2>2. \A t : Reads(ColumbusV2!Rows(<<>>), t, log)
    <3>1. ColumbusV2!Rows(<<>>) = Rows(<<>>)
      BY ColumbusV2Copies
    <3> QED  BY <3>1, NothingRead
  <2>3. ColumbusV2!NoStage(<<log>>) = ColumbusV2!Rows(<<>>)
    BY DEF ColumbusV2!NoStage
  <2>4. Reads(st.act[log], "wasm", log)
    <3>1. st.act[log] = ColumbusV2!PairActionParser(dex, <<log>>)
      BY <1>1 DEF ColumbusV2Stages
    <3> QED  BY <2>1, <2>2, <2>3, <3>1, ColumbusV2Reads, Zenon
  <2>5. Reads(st.ip[log], "wasm", log)
    <3>1. st.ip[log] = ColumbusV2!InitialProvide(dex, <<log>>) \/ st.ip[log] = ColumbusV2!Rows(<<>>)
      BY <1>1, Zenon DEF ColumbusV2Stages
    <3> QED  BY <2>1, <2>2, <2>3, <3>1, ColumbusV2Reads, Zenon
  <2>6. Reads(st.w[log], "wasm", log)
    <3>1. st.w[log] = ColumbusV2!WasmTransfer(dex, <<log>>)
      BY <1>1, Zenon DEF ColumbusV2Stages
    <3> QED  BY <2>1, <2>2, <2>3, <3>1, ColumbusV2Reads, Zenon
  <2>7. Reads(st.tax[log], "tax_payment", log)
    <3>1. st.tax[log] = ColumbusV2!TaxPaymentParser(<<log>>)
      BY <1>1, Zenon DEF ColumbusV2Stages
    <3> QED  BY <2>1, <2>2, <2>3, <3>1, ColumbusV2Reads, Zenon
  <2>8. Reads(st.nat[log], "transfer", log)
    <3> DEFINE sorted == [log EXCEPT !.attrs = ColumbusV2!NormalizeTransferAttrs(@)]
               raw == IF <<log>>[1].type # "transfer" THEN <<log>> ELSE <<[<<log>>[1] EXCEPT !.attrs = ColumbusV2!NormalizeTransferAttrs(@)]>>
    <3>1. st.nat[log] = ColumbusV2!Transfer(dex, sender, raw)
      BY <1>1, Zenon DEF ColumbusV2Stages
    <3>2. raw = IF log.type # "transfer" THEN <<log>> ELSE <<sorted>>
      OBVIOUS
    <3>3. sorted \in Logs(S, R) /\ sorted.type = log.type
      <4>1. ColumbusV2!NormalizeTransferAttrs(log.attrs) \in Seq(R)
        BY <2>1, ColumbusV2Copies, NormalizedIsSeq DEF Logs
      <4> QED  BY <2>1, <4>1 DEF Logs
    <3> HIDE DEF raw, sorted
    <3>4. Reads(ColumbusV2!Transfer(dex, sender, <<log>>), "transfer", log)
      BY <2>1, ColumbusV2Reads, Zenon
    <3>5. Reads(ColumbusV2!Transfer(dex, sender, <<sorted>>), "transfer", sorted)
      BY <3>3, ColumbusV2Reads, Zenon
    <3> QED  BY <3>1, <3>2, <3>3, <3>4, <3>5 DEF Reads
  <2>9. Reads(st.b[log], "wasm", log)
    <3>1. st.b[log] = ColumbusV2!BurnParser(<<log>>)
      BY <1>1, Zenon DEF ColumbusV2Stages
    <3> QED  BY <2>1, <2>2, <2>3, <3>1, ColumbusV2Reads, Zenon
  <2>10. /\ type.act = "wasm" /\ type.w = "wasm" /\ type.tax = "tax_payment"
         /\ type.nat = "transfer" /\ type.b = "wasm"
    BY DEF ColumbusV2Types
  <2> HIDE DEF st, type
  <2> QED  BY <2>4, <2>5, <2>6, <2>7, <2>8, <2>9, <2>10
<1> HIDE DEF st, type
<1>2. Stages(st, type, logs)
  BY <1>1 DEF Stages, Stage, Reads
<1> QED  BY <1>2 DEF st, type

(* ParseLogs, unless the creation of pairs fails, stores what these stages *)
(* gather from the logs.                                                   *)
LEMMA ColumbusV2Is ==
    ASSUME NEW a, NEW tx, NEW created, created.err = "none"
    PROVE  ColumbusV2!ParseLogs(a, tx, created)
           = ColumbusV2!Finish(tx, created, ColumbusV2Known(a, created), 
               AllOf(tx.logs, ColumbusV2Stages(ColumbusV2Known(a, created), tx.sender, Range(tx.logs))))
<1> DEFINE known == ColumbusV2Known(a, created)
           st == ColumbusV2Stages(known, tx.sender, Range(tx.logs))
           g == ColumbusV2!GatherFrom(tx.logs, st.act, st.ip, st.w, st.tax, st.nat, st.b)
<1>1. ColumbusV2!ParseLogs(a, tx, created) = ColumbusV2!Finish(tx, created, known, g)
  BY Zenon DEF ColumbusV2Stages, ColumbusV2Known, ColumbusV2!ParseLogs, ColumbusV2!Gather, ColumbusV2!NoStage, ColumbusV2!Range, Range
<1>2. g = AllOf(tx.logs, st)
  BY ColumbusV2Copies DEF AllOf
<1> HIDE DEF g, st
<1> QED  BY <1>1, <1>2 DEF st, known

(* So it stores the same for the same logs in another order.               *)
LEMMA ColumbusV2InAnyOrder ==
    ASSUME NEW S, NEW R, NEW one \in Seq(Logs(S, R)), NEW two \in Seq(Logs(S, R)), SameLogs(one, two),
           NEW a, "pairs" \in DOMAIN a, NEW sender
    PROVE  SameOutcome(ColumbusV2!ParseTxs(a, [logs |-> one, sender |-> sender]),
                       ColumbusV2!ParseTxs(a, [logs |-> two, sender |-> sender]))
<1> DEFINE t1 == [logs |-> one, sender |-> sender]
           t2 == [logs |-> two, sender |-> sender]
           c == ColumbusV2!Parse(ColumbusV2!createPairRule, one, ColumbusV2!factoryMapper)
           d == ColumbusV2!Parse(ColumbusV2!createPairRule, two, ColumbusV2!factoryMapper)
<1>1. \A rule : ColumbusV2!FindFromLogs(rule, one) = ColumbusV2!FindFromLogs(rule, two)
  <2>1. \A log \in Logs(S, R) : Len(log.attrs) \in Nat
    BY DEF Logs
  <2>2. \A rule : FindFromLogs(rule, one) = FindFromLogs(rule, two)
    BY <2>1, SameFound
  <2> QED  BY <2>2, ColumbusV2Copies
<1>2. c = d
  BY <1>1 DEF ColumbusV2!Parse
<1>3. /\ ColumbusV2!ParseTxs(a, t1) = ColumbusV2!ParseLogs(a, t1, c)
      /\ ColumbusV2!ParseTxs(a, t2) = ColumbusV2!ParseLogs(a, t2, c)
  <2>1. ColumbusV2!ParseTxs(a, t1) = ColumbusV2!ParseLogs(a, t1, c) /\ ColumbusV2!ParseTxs(a, t2) = ColumbusV2!ParseLogs(a, t2, d)
    BY Zenon DEF ColumbusV2!ParseTxs
  <2> HIDE DEF c, d
  <2> QED  BY <1>2, <2>1
<1> HIDE DEF c, d
<1>4. CASE c.err # "none"
  <2>1. ColumbusV2!ParseLogs(a, t1, c) = ColumbusV2!GaveUp(c.err, a) /\ ColumbusV2!ParseLogs(a, t2, c) = ColumbusV2!GaveUp(c.err, a)
    BY <1>4, Zenon DEF ColumbusV2!ParseLogs
  <2> QED  BY <1>3, <2>1 DEF SameOutcome
<1>5. CASE c.err = "none"
  <2> DEFINE k == ColumbusV2Known(a, c)
             st == ColumbusV2Stages(k, sender, Range(one))
             g == AllOf(one, st)
             h == AllOf(two, st)
             f(x) == [k EXCEPT !.flagged = @ \cup ColumbusV2!FlaggedBy(ColumbusV2!wasmTransferCommonRule, x.read, "_contract_address", k.exceptions)]
  <2>1. Range(one) = Range(two)
    BY DEF SameLogs
  <2>2. /\ g.err \in Errors /\ h.err \in Errors /\ (g.err = "none" <=> h.err = "none")
        /\ g.err = "none" => g.read = one /\ h.read = two /\ SameRows(g, h)
    BY ColumbusV2StagesAre, GatherInAnyOrder
  <2>3. /\ ColumbusV2!ParseTxs(a, t1) = ColumbusV2!Finish(t1, c, k, g)
        /\ ColumbusV2!ParseTxs(a, t2) = ColumbusV2!Finish(t2, c, k, h)
    <3>1. t1.logs = one /\ t1.sender = sender /\ t2.logs = two /\ t2.sender = sender
      OBVIOUS
    <3>2. ColumbusV2!ParseLogs(a, t1, c) = ColumbusV2!Finish(t1, c, k, AllOf(t1.logs, ColumbusV2Stages(k, t1.sender, Range(t1.logs))))
      BY <1>5, ColumbusV2Is
    <3>3. ColumbusV2!ParseLogs(a, t2, c) = ColumbusV2!Finish(t2, c, k, AllOf(t2.logs, ColumbusV2Stages(k, t2.sender, Range(t2.logs))))
      BY <1>5, ColumbusV2Is
    <3> HIDE DEF k, t1, t2
    <3> QED  BY <1>3, <2>1, <3>1, <3>2, <3>3
  <2>4. "pairs" \in DOMAIN k
    BY DEF ColumbusV2Known
  <2>5. f(g).pairs = k.pairs /\ f(h).pairs = k.pairs
    <3> HIDE DEF k, g, h
    <3> QED  BY <2>4
  <2>6. g.err = "none" => f(g) = f(h)
    BY <1>1, <2>2 DEF ColumbusV2!FlaggedBy
  <2> HIDE DEF f
  <2> HIDE DEF k, g, h, st
  <2> DEFINE o == ColumbusV2!Result(g, f(g), ColumbusV2!RowsAfterTax(sender, c, k, g, ColumbusV2!Settled(g)))
             p == ColumbusV2!Result(h, f(h), ColumbusV2!RowsAfterTax(sender, c, k, h, ColumbusV2!Settled(h)))
  <2>7. ColumbusV2!ParseTxs(a, t1) = o /\ ColumbusV2!ParseTxs(a, t2) = p
    BY <2>3, Zenon DEF ColumbusV2!Finish, f
  <2>8. o.app.pairs = p.app.pairs
    BY <2>5 DEF ColumbusV2!Result
  <2>9. ASSUME g.err # "none" PROVE SameOutcome(o, p)
    <3>1. o.outcome = g.err /\ p.outcome = h.err
      BY <2>2, <2>9 DEF ColumbusV2!Result
    <3>2. ~IsStored(o) /\ ~IsStored(p)
      BY <2>2, <2>9, <3>1 DEF IsStored, Errors
    <3> HIDE DEF o, p
    <3> QED  BY <2>8, <3>2 DEF SameOutcome
  <2>10. ASSUME g.err = "none" PROVE SameOutcome(o, p)
    <3>1. SameRows(g, h)
      BY <2>2, <2>10
    <3>2. ColumbusV2!RowsAfterTax(sender, c, k, g, ColumbusV2!Settled(g)) = ColumbusV2!RowsAfterTax(sender, c, k, h, ColumbusV2!Settled(h))
      <4>1. ColumbusV2!Settled(g) = ColumbusV2!Settled(h)
        <5>1. \A split : ColumbusV2!SettledBy(g, split) = ColumbusV2!SettledBy(h, split)
          BY <3>1 DEF SameRows, ColumbusV2!SettledBy
        <5> QED  BY <3>1, <5>1 DEF SameRows, ColumbusV2!Settled
      <4> DEFINE now == ColumbusV2!Settled(g)
      <4> HIDE DEF now
      <4>2. ColumbusV2!RowsAfterTax(sender, c, k, g, now) = ColumbusV2!RowsAfterTax(sender, c, k, h, now)
        BY <3>1 DEF SameRows, ColumbusV2!RowsAfterTax
      <4> QED  BY <4>1, <4>2 DEF now
    <3>3. o = p
      BY <2>10, <3>1, <3>2, <2>6 DEF SameRows, ColumbusV2!Result
    <3> HIDE DEF o, p
    <3> QED  BY <3>3 DEF SameOutcome
  <2> HIDE DEF o, p
  <2>11. SameOutcome(o, p)
    BY <2>9, <2>10
  <2> QED  BY <2>7, <2>11
<1> QED  BY <1>4, <1>5

-----------------------------------------------------------------------------
(* Phoenix. *)

(* The application module repeats the shared definitions under names of    *)
(* its own; they say the same.                                             *)
LEMMA PhoenixCopies ==
    ASSUME NEW rule, NEW logs, NEW attrs, NEW matches, NEW mapped,
           NEW act, NEW ip, NEW w, NEW tax, NEW nat, NEW b, NEW s
    PROVE  /\ Phoenix!FindFromLogs(rule, logs) = FindFromLogs(rule, logs)
           /\ Phoenix!Collect(matches, mapped) = Collect(matches, mapped)
           /\ Phoenix!GatherFrom(logs, act, ip, w, tax, nat, b) = GatherFrom(logs, act, ip, w, tax, nat, b)
           /\ Phoenix!NormalizeTransferAttrs(attrs) = NormalizeTransferAttrs(attrs)
           /\ Phoenix!Rows(s) = Rows(s) /\ Phoenix!Range(s) = Range(s)
<1>1. Phoenix!FindFromLogs(rule, logs) = FindFromLogs(rule, logs)
  BY ZenonT(60) DEF Phoenix!FindFromLogs, FindFromLogs, Phoenix!FlattenSeq, FlattenSeq, Phoenix!FindFromAttrs, FindFromAttrs,
     Phoenix!SearchAt, SearchAt, Phoenix!NothingSearched, NothingSearched, Phoenix!appendUntil, appendUntil,
     Phoenix!Until, Until, Phoenix!Unskipped, Unskipped, Phoenix!findMatchingSubseq, findMatchingSubseq,
     Phoenix!MatchItem, MatchItem, Phoenix!Match, Match, Phoenix!NothingFound, NothingFound, Phoenix!skipKeys, skipKeys, Phoenix!Last, Last
<1>2. Phoenix!Collect(matches, mapped) = Collect(matches, mapped)
  BY Zenon DEF Phoenix!Collect, Collect, Phoenix!Rows, Rows, Phoenix!TakeMatch, TakeMatch, Phoenix!Failed, Failed
<1>3. Phoenix!GatherFrom(logs, act, ip, w, tax, nat, b) = GatherFrom(logs, act, ip, w, tax, nat, b)
  BY Zenon DEF Phoenix!GatherFrom, GatherFrom, Phoenix!NothingGathered, NothingGathered, Phoenix!TakeLog, TakeLog,
     Phoenix!AfterStages, AfterStages, Phoenix!FirstError, FirstError, Phoenix!Record, Record,
     Phoenix!RawTxContainsCreatePair, RawTxContainsCreatePair
<1>4. Phoenix!NormalizeTransferAttrs(attrs) = NormalizeTransferAttrs(attrs)
  <2>1. ASSUME NEW f, NEW g PROVE Phoenix!InOrder(f, g) = InOrder(f, g)
    BY Zenon DEF Phoenix!InOrder, InOrder, Phoenix!FlattenSeq, FlattenSeq
  <2>2. ASSUME NEW f, NEW a PROVE Phoenix!Flush(f, a) = Flush(f, a)
    BY <2>1, Zenon DEF Phoenix!Flush, Flush
  <2>3. ASSUME NEW f, NEW a, NEW x PROVE Phoenix!Grow(f, a, x) = Grow(f, a, x)
    BY <2>2, Zenon DEF Phoenix!Grow, Grow
  <2>4. ASSUME NEW f, NEW a, NEW x PROVE Phoenix!TakeAttr(f, a, x) = TakeAttr(f, a, x)
    BY <2>2, <2>3, Zenon DEF Phoenix!TakeAttr, TakeAttr
  <2> DEFINE f == <<"amount", "recipient", "sender">>
             base == [sorted |-> <<>>, group |-> <<>>]
             P(t) == t = [i \in 0..Len(attrs) |-> IF i = 0 THEN base ELSE Phoenix!TakeAttr(f, t[i - 1], attrs[i])]
             Q(t) == t = [i \in 0..Len(attrs) |-> IF i = 0 THEN base ELSE TakeAttr(f, t[i - 1], attrs[i])]
  <2>5. \A t : P(t) <=> Q(t)
    BY <2>4, Zenon
  <2>6. (CHOOSE t : P(t)) = (CHOOSE t : Q(t))
    <3> HIDE DEF P, Q
    <3> QED  BY <2>5, Zenon
  <2>7. Phoenix!NormalizeTransferAttrs(attrs) = Phoenix!Flush(f, (CHOOSE t : P(t))[Len(attrs)]).sorted
    BY Zenon DEF Phoenix!NormalizeTransferAttrs, Phoenix!SortAttributes
  <2>8. NormalizeTransferAttrs(attrs) = Flush(f, (CHOOSE t : Q(t))[Len(attrs)]).sorted
    BY Zenon DEF NormalizeTransferAttrs, SortAttributes
  <2> HIDE DEF P, Q, f
  <2> QED  BY <2>2, <2>6, <2>7, <2>8
<1>5. Phoenix!Rows(s) = Rows(s) /\ Phoenix!Range(s) = Range(s)
  BY DEF Phoenix!Rows, Rows, Phoenix!Range, Range
<1> QED  BY <1>1, <1>2, <1>3, <1>4, <1>5

(* No mapper gives more than a sequence of rows.                           *)
LEMMA PhoenixMappers ==
    ASSUME NEW m, NEW dex, NEW sender
    PROVE  /\ IsSeq(Phoenix!pairMapper(m, dex.pairs).rows)
           /\ IsSeq(Phoenix!initialProvideMapper(m).rows)
           /\ IsSeq(Phoenix!wasmCommonTransferMapper(m, "_contract_address", dex.pairs, dex.exceptions).rows)
           /\ IsSeq(Phoenix!transferMapper(m, dex.pairs, sender).rows)
           /\ IsSeq(Phoenix!burnMapper(m).rows)
<1> USE DEF Plain, Phoenix!Failed, Phoenix!Ambiguous, Phoenix!Rows
<1>1. ASSUME NEW s, NEW pair PROVE Plain(Phoenix!swapMatchedToParsedTx(s, pair))
  BY DEF Phoenix!swapMatchedToParsedTx
<1>2. ASSUME NEW s, NEW pair PROVE Plain(Phoenix!withdrawMatchedToParsedTx(s, pair))
  BY DEF Phoenix!withdrawMatchedToParsedTx
<1>3. ASSUME NEW s, NEW pair PROVE Plain(Phoenix!provideMatchedToParsedTx(s, pair))
  BY DEF Phoenix!provideMatchedToParsedTx
<1>4. Plain(Phoenix!pairMapper(m, dex.pairs))
  BY <1>1, <1>2, <1>3 DEF Phoenix!pairMapper
<1>5. Plain(Phoenix!initialProvideMapper(m))
  BY DEF Phoenix!initialProvideMapper
<1>6. IsSeq(Phoenix!wasmCommonTransferMapper(m, "_contract_address", dex.pairs, dex.exceptions).rows)
  <2> DEFINE pairs == dex.pairs
             out(p) == IF p \in DOMAIN pairs
                       THEN <<Phoenix!wasmTransferToParsedTx(pairs[p], Phoenix!Value(m, "_contract_address"), Phoenix!Value(m, "from"), Phoenix!Value(m, "amount"), TRUE)>>
                       ELSE <<>>
             in(p) == IF p \in DOMAIN pairs
                      THEN <<Phoenix!wasmTransferToParsedTx(pairs[p], Phoenix!Value(m, "_contract_address"), Phoenix!Value(m, "from"), Phoenix!Value(m, "amount"), FALSE)>>
                      ELSE <<>>
             r == Phoenix!wasmCommonTransferMapper(m, "_contract_address", dex.pairs, dex.exceptions)
  <2>1. IsSeq(out(Phoenix!Value(m, "from")) \o in(Phoenix!Value(m, "to")))
    BY JoinedIsSeq
  <2>2. r.rows = <<>> \/ r.rows = out(Phoenix!Value(m, "from")) \o in(Phoenix!Value(m, "to"))
    BY Zenon DEF Phoenix!wasmCommonTransferMapper
  <2> HIDE DEF out, in, r
  <2> QED  BY <2>1, <2>2, NoneIsSeq DEF r
<1>7. IsSeq(Phoenix!transferMapper(m, dex.pairs, sender).rows)
  <2> DEFINE pairs == dex.pairs
             from == Phoenix!TransferFallbackSender(Phoenix!Value(m, "sender"), sender)
             out(p) == IF p \in DOMAIN pairs
                       THEN <<Phoenix!transferToParsedTx(pairs[p], from, Phoenix!Value(m, "amount"), TRUE, Phoenix!MsgIndex(m))>>
                       ELSE <<>>
             in(p) == IF p \in DOMAIN pairs
                      THEN <<Phoenix!transferToParsedTx(pairs[p], from, Phoenix!Value(m, "amount"), FALSE, Phoenix!MsgIndex(m))>>
                      ELSE <<>>
             r == Phoenix!transferMapper(m, dex.pairs, sender)
  <2>1. IsSeq(out(from) \o in(Phoenix!Value(m, "recipient")))
    BY JoinedIsSeq
  <2>2. r.rows = <<>> \/ r.rows = out(from) \o in(Phoenix!Value(m, "recipient"))
    BY Zenon DEF Phoenix!transferMapper
  <2> HIDE DEF out, in, r
  <2> QED  BY <2>1, <2>2, NoneIsSeq DEF r
<1>8. Plain(Phoenix!burnMapper(m))
  BY DEF Phoenix!burnMapper
<1> HIDE DEF Plain
<1> QED  BY <1>4, <1>5, <1>8, <1>6, <1>7, PlainIsSeq

(* Every parser gives rows, and none for a log of another type.            *)
LEMMA PhoenixReads ==
    ASSUME NEW S, NEW R, NEW log \in Logs(S, R), NEW dex, NEW sender
    PROVE  /\ Reads(Phoenix!PairActionParser(dex, <<log>>), "wasm", log)
           /\ Reads(Phoenix!InitialProvide(dex, <<log>>), "wasm", log)
           /\ Reads(Phoenix!WasmTransfer(dex, <<log>>), "wasm", log)
           /\ Reads(Phoenix!Transfer(dex, sender, <<log>>), "transfer", log)
           /\ Reads(Phoenix!BurnParser(<<log>>), "wasm", log)
<1> DEFINE found(rule) == FindFromLogs(rule, <<log>>)
<1>0. Len(log.attrs) \in Nat
  BY DEF Logs
<1>1. Reads(Phoenix!PairActionParser(dex, <<log>>), "wasm", log)
  <2> DEFINE rule == Phoenix!pairCommonRule(dex.filter)
             mapped == [m \in Range(found(rule)) |-> Phoenix!pairMapper(m, dex.pairs)]
  <2>1. Phoenix!PairActionParser(dex, <<log>>) = Collect(found(rule), mapped)
    <3>1. Phoenix!PairActionParser(dex, <<log>>) = CHOOSE r \in {Phoenix!Collect(matches, [m \in Phoenix!Range(matches) |-> Phoenix!pairMapper(m, dex.pairs)]) : matches \in {Phoenix!FindFromLogs(rule, <<log>>)}} : TRUE
      BY Zenon DEF Phoenix!PairActionParser, Phoenix!Parse
    <3> HIDE DEF rule
    <3>2. \A matches : Phoenix!Range(matches) = Range(matches)
      BY PhoenixCopies
    <3>3. Phoenix!FindFromLogs(rule, <<log>>) = found(rule)
      BY PhoenixCopies
    <3>4. Phoenix!PairActionParser(dex, <<log>>) = Phoenix!Collect(found(rule), mapped)
      BY <3>1, <3>2, <3>3
    <3> QED  BY <3>4, PhoenixCopies
  <2>2. \A m \in Range(found(rule)) : IsSeq(mapped[m].rows)
    <3> HIDE DEF rule
    <3> QED  BY PhoenixMappers
  <2>3. rule.type = "wasm"
    BY DEF Phoenix!pairCommonRule
  <2> HIDE DEF mapped, rule
  <2>4. Reads(Collect(found(rule), mapped), rule.type, log)
    BY <1>0, <2>2, ParserReads
  <2> QED  BY <2>1, <2>3, <2>4, Zenon
<1>2. Reads(Phoenix!InitialProvide(dex, <<log>>), "wasm", log)
  <2> DEFINE rule == Phoenix!CreatePairInitialProvideRuleFinder(dex.filter)
             mapped == [m \in Range(found(rule)) |-> Phoenix!initialProvideMapper(m)]
  <2>1. Phoenix!InitialProvide(dex, <<log>>) = Collect(found(rule), mapped)
    <3>1. Phoenix!InitialProvide(dex, <<log>>) = CHOOSE r \in {Phoenix!Collect(matches, [m \in Phoenix!Range(matches) |-> Phoenix!initialProvideMapper(m)]) : matches \in {Phoenix!FindFromLogs(rule, <<log>>)}} : TRUE
      BY Zenon DEF Phoenix!InitialProvide, Phoenix!Parse
    <3> HIDE DEF rule
    <3>2. \A matches : Phoenix!Range(matches) = Range(matches)
      BY PhoenixCopies
    <3>3. Phoenix!FindFromLogs(rule, <<log>>) = found(rule)
      BY PhoenixCopies
    <3>4. Phoenix!InitialProvide(dex, <<log>>) = Phoenix!Collect(found(rule), mapped)
      BY <3>1, <3>2, <3>3
    <3> QED  BY <3>4, PhoenixCopies
  <2>2. \A m \in Range(found(rule)) : IsSeq(mapped[m].rows)
    <3> HIDE DEF rule
    <3> QED  BY PhoenixMappers
  <2>3. rule.type = "wasm"
    BY DEF Phoenix!CreatePairInitialProvideRuleFinder
  <2> HIDE DEF mapped, rule
  <2>4. Reads(Collect(found(rule), mapped), rule.type, log)
    BY <1>0, <2>2, ParserReads
  <2> QED  BY <2>1, <2>3, <2>4, Zenon
<1>3. Reads(Phoenix!WasmTransfer(dex, <<log>>), "wasm", log)
  <2> DEFINE rule == Phoenix!wasmTransferCommonRule
             mapped == [m \in Range(found(rule)) |-> Phoenix!wasmCommonTransferMapper(m, "_contract_address", dex.pairs, dex.exceptions)]
  <2>1. Phoenix!WasmTransfer(dex, <<log>>) = Collect(found(rule), mapped)
    <3>1. Phoenix!WasmTransfer(dex, <<log>>) = CHOOSE r \in {Phoenix!Collect(matches, [m \in Phoenix!Range(matches) |-> Phoenix!wasmCommonTransferMapper(m, "_contract_address", dex.pairs, dex.exceptions)]) : matches \in {Phoenix!FindFromLogs(rule, <<log>>)}} : TRUE
      BY Zenon DEF Phoenix!WasmTransfer, Phoenix!Parse
    <3> HIDE DEF rule
    <3>2. \A matches : Phoenix!Range(matches) = Range(matches)
      BY PhoenixCopies
    <3>3. Phoenix!FindFromLogs(rule, <<log>>) = found(rule)
      BY PhoenixCopies
    <3>4. Phoenix!WasmTransfer(dex, <<log>>) = Phoenix!Collect(found(rule), mapped)
      BY <3>1, <3>2, <3>3
    <3> QED  BY <3>4, PhoenixCopies
  <2>2. \A m \in Range(found(rule)) : IsSeq(mapped[m].rows)
    <3> HIDE DEF rule
    <3> QED  BY PhoenixMappers
  <2>3. rule.type = "wasm"
    BY DEF Phoenix!wasmTransferCommonRule
  <2> HIDE DEF mapped, rule
  <2>4. Reads(Collect(found(rule), mapped), rule.type, log)
    BY <1>0, <2>2, ParserReads
  <2> QED  BY <2>1, <2>3, <2>4, Zenon
<1>4. Reads(Phoenix!Transfer(dex, sender, <<log>>), "transfer", log)
  <2> DEFINE rule == Phoenix!CreateTransferRuleFinder
             mapped == [m \in Range(found(rule)) |-> Phoenix!transferMapper(m, dex.pairs, sender)]
  <2>1. Phoenix!Transfer(dex, sender, <<log>>) = Collect(found(rule), mapped)
    <3>1. Phoenix!Transfer(dex, sender, <<log>>) = CHOOSE r \in {Phoenix!Collect(matches, [m \in Phoenix!Range(matches) |-> Phoenix!transferMapper(m, dex.pairs, sender)]) : matches \in {Phoenix!FindFromLogs(rule, <<log>>)}} : TRUE
      BY Zenon DEF Phoenix!Transfer, Phoenix!Parse
    <3> HIDE DEF rule
    <3>2. \A matches : Phoenix!Range(matches) = Range(matches)
      BY PhoenixCopies
    <3>3. Phoenix!FindFromLogs(rule, <<log>>) = found(rule)
      BY PhoenixCopies
    <3>4. Phoenix!Transfer(dex, sender, <<log>>) = Phoenix!Collect(found(rule), mapped)
      BY <3>1, <3>2, <3>3
    <3> QED  BY <3>4, PhoenixCopies
  <2>2. \A m \in Range(found(rule)) : IsSeq(mapped[m].rows)
    <3> HIDE DEF rule
    <3> QED  BY PhoenixMappers
  <2>3. rule.type = "transfer"
    BY DEF Phoenix!CreateTransferRuleFinder
  <2> HIDE DEF mapped, rule
  <2>4. Reads(Collect(found(rule), mapped), rule.type, log)
    BY <1>0, <2>2, ParserReads
  <2> QED  BY <2>1, <2>3, <2>4, Zenon
<1>5. Reads(Phoenix!BurnParser(<<log>>), "wasm", log)
  <2> DEFINE rule == Phoenix!CreateBurnRuleFinder
             mapped == [m \in Range(found(rule)) |-> Phoenix!burnMapper(m)]
  <2>1. Phoenix!BurnParser(<<log>>) = Collect(found(rule), mapped)
    <3>1. Phoenix!BurnParser(<<log>>) = CHOOSE r \in {Phoenix!Collect(matches, [m \in Phoenix!Range(matches) |-> Phoenix!burnMapper(m)]) : matches \in {Phoenix!FindFromLogs(rule, <<log>>)}} : TRUE
      BY Zenon DEF Phoenix!BurnParser, Phoenix!Parse
    <3> HIDE DEF rule
    <3>2. \A matches : Phoenix!Range(matches) = Range(matches)
      BY PhoenixCopies
    <3>3. Phoenix!FindFromLogs(rule, <<log>>) = found(rule)
      BY PhoenixCopies
    <3>4. Phoenix!BurnParser(<<log>>) = Phoenix!Collect(found(rule), mapped)
      BY <3>1, <3>2, <3>3
    <3> QED  BY <3>4, PhoenixCopies
  <2>2. \A m \in Range(found(rule)) : IsSeq(mapped[m].rows)
    <3> HIDE DEF rule
    <3> QED  BY PhoenixMappers
  <2>3. rule.type = "wasm"
    BY DEF Phoenix!CreateBurnRuleFinder
  <2> HIDE DEF mapped, rule
  <2>4. Reads(Collect(found(rule), mapped), rule.type, log)
    BY <1>0, <2>2, ParserReads
  <2> QED  BY <2>1, <2>3, <2>4, Zenon
<1> QED  BY <1>1, <1>2, <1>3, <1>4, <1>5

PhoenixStages(dex, sender, S) ==
    LET act == [log \in S |-> Phoenix!PairActionParser(dex, <<log>>)]
    IN [act |-> act,
        ip  |-> [log \in S |-> IF Phoenix!HasProvide(act[<<log>>[1]].rows) THEN Phoenix!InitialProvide(dex, <<log>>) ELSE Phoenix!Rows(<<>>)],
        w   |-> [log \in S |-> Phoenix!WasmTransfer(dex, <<log>>)],
        tax |-> [log \in S |-> Phoenix!NoStage(<<log>>)],
        nat |-> [log \in S |-> Phoenix!Transfer(dex, sender,
                    IF <<log>>[1].type # "transfer" THEN <<log>> ELSE <<[<<log>>[1] EXCEPT !.attrs = Phoenix!NormalizeTransferAttrs(@)]>>)],
        b   |-> [log \in S |-> Phoenix!BurnParser(<<log>>)]]
PhoenixTypes == [act |-> "wasm", w |-> "wasm", tax |-> "tax_payment", nat |-> "transfer", b |-> "wasm"]
PhoenixKnown(a, created) == [a EXCEPT !.pairs = Phoenix!LearnPairs(@, created.rows)]

(* So the parsers of the application are stages in the sense of            *)
(* DexRowsProofs, each for one type of log.                                *)
LEMMA PhoenixStagesAre ==
    ASSUME NEW S, NEW R, NEW logs \in Seq(Logs(S, R)), NEW dex, NEW sender
    PROVE  Stages(PhoenixStages(dex, sender, Range(logs)), PhoenixTypes, logs)
<1> DEFINE st == PhoenixStages(dex, sender, Range(logs))
           type == PhoenixTypes
<1>1. ASSUME NEW log \in Range(logs)
      PROVE  /\ Reads(st.act[log], type.act, log) /\ Reads(st.ip[log], type.act, log)
             /\ Reads(st.w[log], type.w, log)     /\ Reads(st.tax[log], type.tax, log)
             /\ Reads(st.nat[log], type.nat, log) /\ Reads(st.b[log], type.b, log)
  <2>1. log \in Logs(S, R)
    BY <1>1 DEF Range
  <2>2. \A t : Reads(Phoenix!Rows(<<>>), t, log)
    <3>1. Phoenix!Rows(<<>>) = Rows(<<>>)
      BY PhoenixCopies
    <3> QED  BY <3>1, NothingRead
  <2>3. Phoenix!NoStage(<<log>>) = Phoenix!Rows(<<>>)
    BY DEF Phoenix!NoStage
  <2>4. Reads(st.act[log], "wasm", log)
    <3>1. st.act[log] = Phoenix!PairActionParser(dex, <<log>>)
      BY <1>1 DEF PhoenixStages
    <3> QED  BY <2>1, <2>2, <2>3, <3>1, PhoenixReads, Zenon
  <2>5. Reads(st.ip[log], "wasm", log)
    <3>1. st.ip[log] = Phoenix!InitialProvide(dex, <<log>>) \/ st.ip[log] = Phoenix!Rows(<<>>)
      BY <1>1, Zenon DEF PhoenixStages
    <3> QED  BY <2>1, <2>2, <2>3, <3>1, PhoenixReads, Zenon
  <2>6. Reads(st.w[log], "wasm", log)
    <3>1. st.w[log] = Phoenix!WasmTransfer(dex, <<log>>)
      BY <1>1, Zenon DEF PhoenixStages
    <3> QED  BY <2>1, <2>2, <2>3, <3>1, PhoenixReads, Zenon
  <2>7. Reads(st.tax[log], "tax_payment", log)
    <3>1. st.tax[log] = Phoenix!NoStage(<<log>>)
      BY <1>1, Zenon DEF PhoenixStages
    <3> QED  BY <2>1, <2>2, <2>3, <3>1, PhoenixReads, Zenon
  <2>8. Reads(st.nat[log], "transfer", log)
    <3> DEFINE sorted == [log EXCEPT !.attrs = Phoenix!NormalizeTransferAttrs(@)]
               raw == IF <<log>>[1].type # "transfer" THEN <<log>> ELSE <<[<<log>>[1] EXCEPT !.attrs = Phoenix!NormalizeTransferAttrs(@)]>>
    <3>1. st.nat[log] = Phoenix!Transfer(dex, sender, raw)
      BY <1>1, Zenon DEF PhoenixStages
    <3>2. raw = IF log.type # "transfer" THEN <<log>> ELSE <<sorted>>
      OBVIOUS
    <3>3. sorted \in Logs(S, R) /\ sorted.type = log.type
      <4>1. Phoenix!NormalizeTransferAttrs(log.attrs) \in Seq(R)
        BY <2>1, PhoenixCopies, NormalizedIsSeq DEF Logs
      <4> QED  BY <2>1, <4>1 DEF Logs
    <3> HIDE DEF raw, sorted
    <3>4. Reads(Phoenix!Transfer(dex, sender, <<log>>), "transfer", log)
      BY <2>1, PhoenixReads, Zenon
    <3>5. Reads(Phoenix!Transfer(dex, sender, <<sorted>>), "transfer", sorted)
      BY <3>3, PhoenixReads, Zenon
    <3> QED  BY <3>1, <3>2, <3>3, <3>4, <3>5 DEF Reads
  <2>9. Reads(st.b[log], "wasm", log)
    <3>1. st.b[log] = Phoenix!BurnParser(<<log>>)
      BY <1>1, Zenon DEF PhoenixStages
    <3> QED  BY <2>1, <2>2, <2>3, <3>1, PhoenixReads, Zenon
  <2>10. /\ type.act = "wasm" /\ type.w = "wasm" /\ type.tax = "tax_payment"
         /\ type.nat = "transfer" /\ type.b = "wasm"
    BY DEF PhoenixTypes
  <2> HIDE DEF st, type
  <2> QED  BY <2>4, <2>5, <2>6, <2>7, <2>8, <2>9, <2>10
<1> HIDE DEF st, type
<1>2. Stages(st, type, logs)
  BY <1>1 DEF Stages, Stage, Reads
<1> QED  BY <1>2 DEF st, type

(* ParseLogs, unless the creation of pairs fails, stores what these stages *)
(* gather from the logs.                                                   *)
LEMMA PhoenixIs ==
    ASSUME NEW a, NEW tx, NEW created, created.err = "none"
    PROVE  Phoenix!ParseLogs(a, tx, created)
           = Phoenix!StoredFlagging(Phoenix!wasmTransferCommonRule, "_contract_address", tx.sender, created, PhoenixKnown(a, created), 
               AllOf(tx.logs, PhoenixStages(PhoenixKnown(a, created), tx.sender, Range(tx.logs))))
<1> DEFINE known == PhoenixKnown(a, created)
           st == PhoenixStages(known, tx.sender, Range(tx.logs))
           g == Phoenix!GatherFrom(tx.logs, st.act, st.ip, st.w, st.tax, st.nat, st.b)
<1>1. Phoenix!ParseLogs(a, tx, created) = Phoenix!StoredFlagging(Phoenix!wasmTransferCommonRule, "_contract_address", tx.sender, created, known, g)
  BY Zenon DEF PhoenixStages, PhoenixKnown, Phoenix!ParseLogs, Phoenix!Gather, Phoenix!NoStage, Phoenix!Range, Range
<1>2. g = AllOf(tx.logs, st)
  BY PhoenixCopies DEF AllOf
<1> HIDE DEF g, st
<1> QED  BY <1>1, <1>2 DEF st, known

(* So it stores the same for the same logs in another order.               *)
LEMMA PhoenixInAnyOrder ==
    ASSUME NEW S, NEW R, NEW one \in Seq(Logs(S, R)), NEW two \in Seq(Logs(S, R)), SameLogs(one, two),
           NEW a, "pairs" \in DOMAIN a, NEW sender
    PROVE  SameOutcome(Phoenix!ParseTxs(a, [logs |-> one, sender |-> sender]),
                       Phoenix!ParseTxs(a, [logs |-> two, sender |-> sender]))
<1> DEFINE t1 == [logs |-> one, sender |-> sender]
           t2 == [logs |-> two, sender |-> sender]
           c == Phoenix!Parse(Phoenix!createPairRule, one, Phoenix!factoryMapper)
           d == Phoenix!Parse(Phoenix!createPairRule, two, Phoenix!factoryMapper)
<1>1. \A rule : Phoenix!FindFromLogs(rule, one) = Phoenix!FindFromLogs(rule, two)
  <2>1. \A log \in Logs(S, R) : Len(log.attrs) \in Nat
    BY DEF Logs
  <2>2. \A rule : FindFromLogs(rule, one) = FindFromLogs(rule, two)
    BY <2>1, SameFound
  <2> QED  BY <2>2, PhoenixCopies
<1>2. c = d
  BY <1>1 DEF Phoenix!Parse
<1>3. /\ Phoenix!ParseTxs(a, t1) = Phoenix!ParseLogs(a, t1, c)
      /\ Phoenix!ParseTxs(a, t2) = Phoenix!ParseLogs(a, t2, c)
  <2>1. Phoenix!ParseTxs(a, t1) = Phoenix!ParseLogs(a, t1, c) /\ Phoenix!ParseTxs(a, t2) = Phoenix!ParseLogs(a, t2, d)
    BY Zenon DEF Phoenix!ParseTxs
  <2> HIDE DEF c, d
  <2> QED  BY <1>2, <2>1
<1> HIDE DEF c, d
<1>4. CASE c.err # "none"
  <2>1. Phoenix!ParseLogs(a, t1, c) = Phoenix!GaveUp(c.err, a) /\ Phoenix!ParseLogs(a, t2, c) = Phoenix!GaveUp(c.err, a)
    BY <1>4, Zenon DEF Phoenix!ParseLogs
  <2> QED  BY <1>3, <2>1 DEF SameOutcome
<1>5. CASE c.err = "none"
  <2> DEFINE k == PhoenixKnown(a, c)
             st == PhoenixStages(k, sender, Range(one))
             g == AllOf(one, st)
             h == AllOf(two, st)
             f(x) == [k EXCEPT !.flagged = @ \cup Phoenix!FlaggedBy(Phoenix!wasmTransferCommonRule, x.read, "_contract_address", k.exceptions)]
  <2>1. Range(one) = Range(two)
    BY DEF SameLogs
  <2>2. /\ g.err \in Errors /\ h.err \in Errors /\ (g.err = "none" <=> h.err = "none")
        /\ g.err = "none" => g.read = one /\ h.read = two /\ SameRows(g, h)
    BY PhoenixStagesAre, GatherInAnyOrder
  <2>3. /\ Phoenix!ParseTxs(a, t1) = Phoenix!StoredFlagging(Phoenix!wasmTransferCommonRule, "_contract_address", sender, c, k, g)
        /\ Phoenix!ParseTxs(a, t2) = Phoenix!StoredFlagging(Phoenix!wasmTransferCommonRule, "_contract_address", sender, c, k, h)
    <3>1. t1.logs = one /\ t1.sender = sender /\ t2.logs = two /\ t2.sender = sender
      OBVIOUS
    <3>2. Phoenix!ParseLogs(a, t1, c) = Phoenix!StoredFlagging(Phoenix!wasmTransferCommonRule, "_contract_address", t1.sender, c, k, AllOf(t1.logs, PhoenixStages(k, t1.sender, Range(t1.logs))))
      BY <1>5, PhoenixIs
    <3>3. Phoenix!ParseLogs(a, t2, c) = Phoenix!StoredFlagging(Phoenix!wasmTransferCommonRule, "_contract_address", t2.sender, c, k, AllOf(t2.logs, PhoenixStages(k, t2.sender, Range(t2.logs))))
      BY <1>5, PhoenixIs
    <3> HIDE DEF k, t1, t2
    <3> QED  BY <1>3, <2>1, <3>1, <3>2, <3>3
  <2>4. "pairs" \in DOMAIN k
    BY DEF PhoenixKnown
  <2>5. f(g).pairs = k.pairs /\ f(h).pairs = k.pairs
    <3> HIDE DEF k, g, h
    <3> QED  BY <2>4
  <2>6. g.err = "none" => f(g) = f(h)
    BY <1>1, <2>2 DEF Phoenix!FlaggedBy
  <2> HIDE DEF f
  <2> HIDE DEF k, g, h, st
  <2> DEFINE o == Phoenix!Result(g, f(g), Phoenix!RowsOf(sender, c, f(g).pairs, g))
             p == Phoenix!Result(h, f(h), Phoenix!RowsOf(sender, c, f(h).pairs, h))
  <2>7. Phoenix!ParseTxs(a, t1) = o /\ Phoenix!ParseTxs(a, t2) = p
    BY <2>3, Zenon DEF Phoenix!StoredFlagging, Phoenix!Stored, f
  <2>8. o.app.pairs = p.app.pairs
    BY <2>5 DEF Phoenix!Result
  <2>9. ASSUME g.err # "none" PROVE SameOutcome(o, p)
    <3>1. o.outcome = g.err /\ p.outcome = h.err
      BY <2>2, <2>9 DEF Phoenix!Result
    <3>2. ~IsStored(o) /\ ~IsStored(p)
      BY <2>2, <2>9, <3>1 DEF IsStored, Errors
    <3> HIDE DEF o, p
    <3> QED  BY <2>8, <3>2 DEF SameOutcome
  <2>10. ASSUME g.err = "none" PROVE SameOutcome(o, p)
    <3>1. SameRows(g, h)
      BY <2>2, <2>10
    <3>2. Phoenix!RowsOf(sender, c, f(g).pairs, g) = Phoenix!RowsOf(sender, c, f(h).pairs, h)
      BY <2>10, <3>1, <2>6 DEF SameRows, Phoenix!RowsOf
    <3>3. o = p
      BY <2>10, <3>1, <3>2, <2>6 DEF SameRows, Phoenix!Result
    <3> HIDE DEF o, p
    <3> QED  BY <3>3 DEF SameOutcome
  <2> HIDE DEF o, p
  <2>11. SameOutcome(o, p)
    BY <2>9, <2>10
  <2> QED  BY <2>7, <2>11
<1> QED  BY <1>4, <1>5

-----------------------------------------------------------------------------
(* The logs of a transaction. *)

EventTypes == {"wasm", "from_contract", "transfer", "tax_payment"}
IsEvent(e) == e = [type |-> e.type, attrs |-> e.attrs] /\ e.type \in EventTypes /\ IsSeq(e.attrs)
IsEvents(s) == \E S : s \in Seq(S) /\ \A e \in S : IsEvent(e)

(* The attributes of an event are written out or put together.             *)
LEMMA TupleIsSeq ==
    /\ \A a : IsSeq(<<a>>)
    /\ \A a, b : IsSeq(<<a, b>>)
    /\ \A a, b, c : IsSeq(<<a, b, c>>)
    /\ \A a, b, c, d : IsSeq(<<a, b, c, d>>)
<1>1. ASSUME NEW a PROVE IsSeq(<<a>>)
  <2>1. <<a>> \in Seq({a})
    OBVIOUS
  <2> QED  BY <2>1 DEF IsSeq
<1>2. ASSUME NEW a, NEW b PROVE IsSeq(<<a, b>>)
  <2>1. <<a, b>> \in Seq({a, b})
    OBVIOUS
  <2> QED  BY <2>1 DEF IsSeq
<1>3. ASSUME NEW a, NEW b, NEW c PROVE IsSeq(<<a, b, c>>)
  <2>1. <<a, b, c>> \in Seq({a, b, c})
    OBVIOUS
  <2> QED  BY <2>1 DEF IsSeq
<1>4. ASSUME NEW a, NEW b, NEW c, NEW d PROVE IsSeq(<<a, b, c, d>>)
  <2>1. <<a, b, c, d>> \in Seq({a, b, c, d})
    OBVIOUS
  <2> QED  BY <2>1 DEF IsSeq
<1> QED  BY <1>1, <1>2, <1>3, <1>4

(* Two sequences make a sequence.                                          *)
LEMMA SeqsJoin == ASSUME NEW s, NEW t, IsSeq(s), IsSeq(t) PROVE IsSeq(s \o t)
<1>1. PICK E : s \in Seq(E)
  BY DEF IsSeq
<1>2. PICK F : t \in Seq(F)
  BY DEF IsSeq
<1>3. s \in Seq(E \cup F) /\ t \in Seq(E \cup F)
  BY <1>1, <1>2
<1>4. s \o t \in Seq(E \cup F)
  BY <1>3
<1> QED  BY <1>4 DEF IsSeq

(* A sequence over a set of events is a sequence of events.                *)
LEMMA EventsIn == ASSUME NEW S, NEW s \in Seq(S), \A e \in S : IsEvent(e) PROVE IsEvents(s)
BY DEF IsEvents

(* So are up to five events written out.                                   *)
LEMMA TupleIsEvents ==
    /\ \A a : IsEvent(a) => IsEvents(<<a>>)
    /\ \A a, b : IsEvent(a) /\ IsEvent(b) => IsEvents(<<a, b>>)
    /\ \A a, b, c : IsEvent(a) /\ IsEvent(b) /\ IsEvent(c) => IsEvents(<<a, b, c>>)
    /\ \A a, b, c, d : IsEvent(a) /\ IsEvent(b) /\ IsEvent(c) /\ IsEvent(d) => IsEvents(<<a, b, c, d>>)
    /\ \A a, b, c, d, e : IsEvent(a) /\ IsEvent(b) /\ IsEvent(c) /\ IsEvent(d) /\ IsEvent(e) => IsEvents(<<a, b, c, d, e>>)
<1>1. ASSUME NEW a, IsEvent(a) PROVE IsEvents(<<a>>)
  <2> DEFINE S == {a}
  <2>1. <<a>> \in Seq(S)
    OBVIOUS
  <2>2. \A x \in S : IsEvent(x)
    BY <1>1
  <2> HIDE DEF S
  <2> QED  BY <2>1, <2>2, EventsIn
<1>2. ASSUME NEW a, NEW b, IsEvent(a), IsEvent(b) PROVE IsEvents(<<a, b>>)
  <2> DEFINE S == {a, b}
  <2>1. <<a, b>> \in Seq(S)
    OBVIOUS
  <2>2. \A x \in S : IsEvent(x)
    BY <1>2
  <2> HIDE DEF S
  <2> QED  BY <2>1, <2>2, EventsIn
<1>3. ASSUME NEW a, NEW b, NEW c, IsEvent(a), IsEvent(b), IsEvent(c) PROVE IsEvents(<<a, b, c>>)
  <2> DEFINE S == {a, b, c}
  <2>1. <<a, b, c>> \in Seq(S)
    OBVIOUS
  <2>2. \A x \in S : IsEvent(x)
    BY <1>3
  <2> HIDE DEF S
  <2> QED  BY <2>1, <2>2, EventsIn
<1>4. ASSUME NEW a, NEW b, NEW c, NEW d, IsEvent(a), IsEvent(b), IsEvent(c), IsEvent(d) PROVE IsEvents(<<a, b, c, d>>)
  <2> DEFINE S == {a, b, c, d}
  <2>1. <<a, b, c, d>> \in Seq(S)
    OBVIOUS
  <2>2. \A x \in S : IsEvent(x)
    BY <1>4
  <2> HIDE DEF S
  <2> QED  BY <2>1, <2>2, EventsIn
<1>5. ASSUME NEW a, NEW b, NEW c, NEW d, NEW e, IsEvent(a), IsEvent(b), IsEvent(c), IsEvent(d), IsEvent(e) PROVE IsEvents(<<a, b, c, d, e>>)
  <2> DEFINE S == {a, b, c, d, e}
  <2>1. <<a, b, c, d, e>> \in Seq(S)
    OBVIOUS
  <2>2. \A x \in S : IsEvent(x)
    BY <1>5
  <2> HIDE DEF S
  <2> QED  BY <2>1, <2>2, EventsIn
<1> QED  BY <1>1, <1>2, <1>3, <1>4, <1>5

(* No events.                                                              *)
LEMMA NoEvents == IsEvents(<<>>)
<1> DEFINE S == {}
<1>1. <<>> \in Seq(S)
  OBVIOUS
<1>2. \A e \in S : IsEvent(e)
  OBVIOUS
<1> HIDE DEF S
<1> QED  BY <1>1, <1>2, EventsIn

(* Two sequences of events make one.                                       *)
LEMMA EventsJoin == ASSUME NEW s, NEW t, IsEvents(s), IsEvents(t) PROVE IsEvents(s \o t)
<1>1. PICK E : s \in Seq(E) /\ \A x \in E : IsEvent(x)
  BY DEF IsEvents
<1>2. PICK F : t \in Seq(F) /\ \A x \in F : IsEvent(x)
  BY DEF IsEvents
<1>3. s \in Seq(E \cup F) /\ t \in Seq(E \cup F) /\ \A x \in E \cup F : IsEvent(x)
  BY <1>1, <1>2
<1>4. s \o t \in Seq(E \cup F)
  BY <1>3
<1> QED  BY <1>3, <1>4 DEF IsEvents

(* Every operation emits events.                                           *)
LEMMA EventsAre ==
    ASSUME NEW m, NEW op \in Ops
    PROVE  IsEvents(Events(m, op))
<1>1. ASSUME NEW t \in EventTypes, NEW a, IsSeq(a) PROVE IsEvent(Ev(t, a))
  BY <1>1 DEF IsEvent, Ev
<1>2. "wasm" \in EventTypes /\ "from_contract" \in EventTypes /\ "transfer" \in EventTypes /\ "tax_payment" \in EventTypes
  BY DEF EventTypes
<1>3. ASSUME NEW addr, NEW action, NEW a, IsSeq(a) PROVE IsEvent(Contract(m, addr, action, a))
  <2>1. \A key : IsSeq(<<At(key, addr), At("action", action)>> \o a)
    BY <1>3, TupleIsSeq, SeqsJoin
  <2> QED  BY <1>1, <1>2, <2>1 DEF Contract
<1>4. \A from, to, coins : IsEvent(Bank(from, to, coins)) /\ IsEvent(BankUnsigned(to, coins))
  BY <1>1, <1>2, TupleIsSeq DEF Bank, BankUnsigned
<1>5. \A token, from, to, amt, fee :
         /\ IsEvent(TokenTransfer(m, from, to, amt)) /\ IsEvent(TokenSend(m, token, from, to, amt))
         /\ IsEvent(TokenTransferFrom(m, from, to, amt)) /\ IsEvent(TokenTransferWithFee(m, from, to, amt, fee))
  BY <1>3, TupleIsSeq DEF TokenTransfer, TokenSend, TokenTransferFrom, TokenTransferWithFee
<1>6. \A lp, x, amt : IsEvent(Mint(m, lp, x, amt)) /\ IsEvent(Burn(m, lp, x, amt))
  BY <1>3, TupleIsSeq DEF Mint, Burn
<1>7. ASSUME NEW receiver, NEW offer, NEW ask, NEW tax PROVE IsEvent(Swap(m, receiver, offer, ask, tax))
  <2> DEFINE who  == IF m.app = "columbusv1" THEN <<>> ELSE <<At("sender", User), At("receiver", receiver)>>
             what == <<At("offer_asset", offer.addr), At("ask_asset", ask.addr),
                       At("offer_amount", offer.amt), At("return_amount", ask.amt)>>
             key  == IF m.app = "columbusv1" \/ tax > 0 THEN <<At("tax_amount", tax)>> ELSE <<>>
             rest == <<At("spread_amount", 0), At("commission_amount", 0)>>
  <2>1. Swap(m, receiver, offer, ask, tax) = Contract(m, P1, "swap", who \o what \o key \o rest)
    BY DEF Swap
  <2>2. IsSeq(who) /\ IsSeq(what) /\ IsSeq(key) /\ IsSeq(rest)
    BY TupleIsSeq, NoneIsSeq
  <2> HIDE DEF who, what, key, rest
  <2>3. IsSeq(who \o what) /\ IsSeq(who \o what \o key) /\ IsSeq(who \o what \o key \o rest)
    BY <2>2, SeqsJoin
  <2> QED  BY <1>3, <2>1, <2>3
<1>8. ASSUME NEW pair, NEW assets, NEW refund, NEW share PROVE IsEvent(Provide(m, pair, assets, refund, share))
  <2> DEFINE who  == IF m.app = "columbusv1" THEN <<>> ELSE <<At("sender", User), At("receiver", User)>>
             what == <<At("assets", assets), At("share", share)>>
             back == IF Refunds(m) THEN <<At("refund_assets", refund)>> ELSE <<>>
  <2>1. Provide(m, pair, assets, refund, share) = Contract(m, pair, "provide_liquidity", who \o what \o back)
    BY DEF Provide
  <2>2. IsSeq(who) /\ IsSeq(what) /\ IsSeq(back)
    BY TupleIsSeq, NoneIsSeq
  <2> HIDE DEF who, what, back
  <2>3. IsSeq(who \o what) /\ IsSeq(who \o what \o back)
    BY <2>2, SeqsJoin
  <2> QED  BY <1>3, <2>1, <2>3
<1>9. ASSUME NEW share, NEW refund PROVE IsEvent(Withdraw(m, share, refund))
  <2> DEFINE who  == IF m.app = "columbusv1" THEN <<>> ELSE <<At("sender", User)>>
             what == <<At("withdrawn_share", share), At("refund_assets", refund)>>
  <2>1. Withdraw(m, share, refund) = Contract(m, P1, "withdraw_liquidity", who \o what)
    BY DEF Withdraw
  <2>2. IsSeq(who) /\ IsSeq(what)
    BY TupleIsSeq, NoneIsSeq
  <2> HIDE DEF who, what
  <2>3. IsSeq(who \o what)
    BY <2>2, SeqsJoin
  <2> QED  BY <1>3, <2>1, <2>3
<1>10. CASE op = "swap_coin_in"
  <2> DEFINE s == <<Bank(User, P1, <<Coin(Coin1, 7)>>), Swap(m, User, Coin(Coin1, 7), Coin(Token, 3), 0), TokenTransfer(m, P1, User, 3)>>
  <2>1. Events(m, op) = s
    BY <1>10 DEF Events
  <2>2. IsEvents(s)
    <3>1. IsEvent(Bank(User, P1, <<Coin(Coin1, 7)>>)) /\ IsEvent(Swap(m, User, Coin(Coin1, 7), Coin(Token, 3), 0)) /\ IsEvent(TokenTransfer(m, P1, User, 3))
      BY <1>4, <1>5, <1>7
    <3> QED  BY <3>1, TupleIsEvents
  <2> HIDE DEF s
  <2> QED  BY <2>1, <2>2
<1>11. CASE op = "swap_fee_out"
  <2> DEFINE s == <<Bank(User, P1, <<Coin(Coin1, 7)>>), Swap(m, User, Coin(Coin1, 7), Coin(Token, 3), 0), TokenTransfer(m, P1, User, 2)>>
  <2>1. Events(m, op) = s
    BY <1>11 DEF Events
  <2>2. IsEvents(s)
    <3>1. IsEvent(Bank(User, P1, <<Coin(Coin1, 7)>>)) /\ IsEvent(Swap(m, User, Coin(Coin1, 7), Coin(Token, 3), 0)) /\ IsEvent(TokenTransfer(m, P1, User, 2))
      BY <1>4, <1>5, <1>7
    <3> QED  BY <3>1, TupleIsEvents
  <2> HIDE DEF s
  <2> QED  BY <2>1, <2>2
<1>12. CASE op = "swap_token_in"
  <2> DEFINE s == <<TokenSend(m, Token, User, P1, 6), Swap(m, User, Coin(Token, 6), Coin(Coin1, 4), 0), Bank(P1, User, <<Coin(Coin1, 4)>>)>>
  <2>1. Events(m, op) = s
    BY <1>12 DEF Events
  <2>2. IsEvents(s)
    <3>1. IsEvent(TokenSend(m, Token, User, P1, 6)) /\ IsEvent(Swap(m, User, Coin(Token, 6), Coin(Coin1, 4), 0)) /\ IsEvent(Bank(P1, User, <<Coin(Coin1, 4)>>))
      BY <1>4, <1>5, <1>7
    <3> QED  BY <3>1, TupleIsEvents
  <2> HIDE DEF s
  <2> QED  BY <2>1, <2>2
<1>13. CASE op = "swap_to_pair"
  <2> DEFINE s == <<TokenSend(m, Token, User, P1, 6), Swap(m, P2, Coin(Token, 6), Coin(Coin1, 4), 0), Bank(P1, P2, <<Coin(Coin1, 4)>>)>>
  <2>1. Events(m, op) = s
    BY <1>13 DEF Events
  <2>2. IsEvents(s)
    <3>1. IsEvent(TokenSend(m, Token, User, P1, 6)) /\ IsEvent(Swap(m, P2, Coin(Token, 6), Coin(Coin1, 4), 0)) /\ IsEvent(Bank(P1, P2, <<Coin(Coin1, 4)>>))
      BY <1>4, <1>5, <1>7
    <3> QED  BY <3>1, TupleIsEvents
  <2> HIDE DEF s
  <2> QED  BY <2>1, <2>2
<1>14. CASE op = "swap_tax_key"
  <2> DEFINE s == <<TokenSend(m, Token, User, P1, 6), Swap(m, User, Coin(Token, 6), Coin(Coin1, 9), 1), Bank(P1, User, <<Coin(Coin1, 8)>>)>>
  <2>1. Events(m, op) = s
    BY <1>14 DEF Events
  <2>2. IsEvents(s)
    <3>1. IsEvent(TokenSend(m, Token, User, P1, 6)) /\ IsEvent(Swap(m, User, Coin(Token, 6), Coin(Coin1, 9), 1)) /\ IsEvent(Bank(P1, User, <<Coin(Coin1, 8)>>))
      BY <1>4, <1>5, <1>7
    <3> QED  BY <3>1, TupleIsEvents
  <2> HIDE DEF s
  <2> QED  BY <2>1, <2>2
<1>15. CASE op = "swap_tax_paid"
  <2> DEFINE s == <<TokenSend(m, Token, User, P1, 6), Swap(m, User, Coin(Token, 6), Coin(Coin1, 9), 0), Bank(P1, User, <<Coin(Coin1, 8)>>), Bank(P1, Collector, <<Coin(Coin1, 1)>>), Ev("tax_payment", <<At("reverse_charge", TRUE), At("tax_amount", Coin(Coin1, 1))>>)>>
  <2>1. Events(m, op) = s
    BY <1>15 DEF Events
  <2>2. IsEvents(s)
    <3>1. IsEvent(TokenSend(m, Token, User, P1, 6)) /\ IsEvent(Swap(m, User, Coin(Token, 6), Coin(Coin1, 9), 0)) /\ IsEvent(Bank(P1, User, <<Coin(Coin1, 8)>>)) /\ IsEvent(Bank(P1, Collector, <<Coin(Coin1, 1)>>)) /\ IsEvent(Ev("tax_payment", <<At("reverse_charge", TRUE), At("tax_amount", Coin(Coin1, 1))>>))
      BY <1>1, <1>2, TupleIsSeq, <1>4, <1>5, <1>7
    <3> QED  BY <3>1, TupleIsEvents
  <2> HIDE DEF s
  <2> QED  BY <2>1, <2>2
<1>16. CASE op = "provide"
  <2> DEFINE s == <<Bank(User, P1, <<Coin(Coin1, 10)>>), Provide(m, P1, <<Coin(Coin1, 10), Coin(Token, 20)>>, <<Coin(Coin1, CoinRefund(m)), Coin(Token, TokenRefund(m))>>, 15), TokenTransferFrom(m, User, P1, 20 - TokenRefund(m))>>
             t == (IF Refunds(m) THEN <<Bank(P1, User, <<Coin(Coin1, 1)>>)>> ELSE <<>>)
             u == <<Mint(m, Lp1, User, 15)>>
  <2>1. Events(m, op) = s \o t \o u
    BY <1>16 DEF Events
  <2>2. IsEvents(s)
    <3>1. IsEvent(Bank(User, P1, <<Coin(Coin1, 10)>>)) /\ IsEvent(Provide(m, P1, <<Coin(Coin1, 10), Coin(Token, 20)>>, <<Coin(Coin1, CoinRefund(m)), Coin(Token, TokenRefund(m))>>, 15)) /\ IsEvent(TokenTransferFrom(m, User, P1, 20 - TokenRefund(m)))
      BY <1>4, <1>5, <1>8
    <3> QED  BY <3>1, TupleIsEvents
  <2>3. IsEvents(t)
    <3>1. IsEvent(Bank(P1, User, <<Coin(Coin1, 1)>>))
      BY <1>4
    <3> QED  BY <3>1, TupleIsEvents, NoEvents
  <2>4. IsEvents(u)
    <3>1. IsEvent(Mint(m, Lp1, User, 15))
      BY <1>6
    <3> QED  BY <3>1, TupleIsEvents
  <2> HIDE DEF s, t, u
  <2> QED  BY <2>1, <2>2, <2>3, <2>4, EventsJoin
<1>17. CASE op = "provide_first"
  <2> DEFINE s == <<Bank(User, P2, <<Coin(Coin1, 12), Coin(Coin2, 13)>>), Provide(m, P2, <<Coin(Coin1, 12), Coin(Coin2, 13)>>, <<Coin(Coin1, 0), Coin(Coin2, 0)>>, 14)>>
             t == (IF m.app = "columbusv1" THEN <<>> ELSE <<Mint(m, Lp2, P2, 1)>>)
             u == <<Mint(m, Lp2, User, 14)>>
  <2>1. Events(m, op) = s \o t \o u
    BY <1>17 DEF Events
  <2>2. IsEvents(s)
    <3>1. IsEvent(Bank(User, P2, <<Coin(Coin1, 12), Coin(Coin2, 13)>>)) /\ IsEvent(Provide(m, P2, <<Coin(Coin1, 12), Coin(Coin2, 13)>>, <<Coin(Coin1, 0), Coin(Coin2, 0)>>, 14))
      BY <1>4, <1>8
    <3> QED  BY <3>1, TupleIsEvents
  <2>3. IsEvents(t)
    <3>1. IsEvent(Mint(m, Lp2, P2, 1))
      BY <1>6
    <3> QED  BY <3>1, TupleIsEvents, NoEvents
  <2>4. IsEvents(u)
    <3>1. IsEvent(Mint(m, Lp2, User, 14))
      BY <1>6
    <3> QED  BY <3>1, TupleIsEvents
  <2> HIDE DEF s, t, u
  <2> QED  BY <2>1, <2>2, <2>3, <2>4, EventsJoin
<1>18. CASE op = "provide_joint"
  <2> DEFINE s == <<Bank(User, P2, <<Coin(Coin1, 16), Coin(Coin2, 17)>>), Provide(m, P2, <<Coin(Coin1, 16), Coin(Coin2, 17)>>, <<Coin(Coin1, 0), Coin(Coin2, 0)>>, 18), Mint(m, Lp2, User, 18)>>
  <2>1. Events(m, op) = s
    BY <1>18 DEF Events
  <2>2. IsEvents(s)
    <3>1. IsEvent(Bank(User, P2, <<Coin(Coin1, 16), Coin(Coin2, 17)>>)) /\ IsEvent(Provide(m, P2, <<Coin(Coin1, 16), Coin(Coin2, 17)>>, <<Coin(Coin1, 0), Coin(Coin2, 0)>>, 18)) /\ IsEvent(Mint(m, Lp2, User, 18))
      BY <1>4, <1>6, <1>8
    <3> QED  BY <3>1, TupleIsEvents
  <2> HIDE DEF s
  <2> QED  BY <2>1, <2>2
<1>19. CASE op = "withdraw"
  <2> DEFINE s == <<TokenSend(m, Lp1, User, P1, 8), Withdraw(m, 8, <<Coin(Token, 5), Coin(Coin1, 14)>>), TokenTransfer(m, P1, User, 5), Bank(P1, User, <<Coin(Coin1, 14)>>), Burn(m, Lp1, P1, 8)>>
  <2>1. Events(m, op) = s
    BY <1>19 DEF Events
  <2>2. IsEvents(s)
    <3>1. IsEvent(TokenSend(m, Lp1, User, P1, 8)) /\ IsEvent(Withdraw(m, 8, <<Coin(Token, 5), Coin(Coin1, 14)>>)) /\ IsEvent(TokenTransfer(m, P1, User, 5)) /\ IsEvent(Bank(P1, User, <<Coin(Coin1, 14)>>)) /\ IsEvent(Burn(m, Lp1, P1, 8))
      BY <1>4, <1>5, <1>6, <1>9
    <3> QED  BY <3>1, TupleIsEvents
  <2> HIDE DEF s
  <2> QED  BY <2>1, <2>2
<1>20. CASE op = "burn_lp"
  <2> DEFINE s == <<Burn(m, Lp1, User, 19)>>
  <2>1. Events(m, op) = s
    BY <1>20 DEF Events
  <2>2. IsEvents(s)
    <3>1. IsEvent(Burn(m, Lp1, User, 19))
      BY <1>6
    <3> QED  BY <3>1, TupleIsEvents
  <2> HIDE DEF s
  <2> QED  BY <2>1, <2>2
<1>21. CASE op = "gift_token"
  <2> DEFINE s == <<TokenTransfer(m, User, P1, TokenGift)>>
  <2>1. Events(m, op) = s
    BY <1>21 DEF Events
  <2>2. IsEvents(s)
    <3>1. IsEvent(TokenTransfer(m, User, P1, TokenGift))
      BY <1>5
    <3> QED  BY <3>1, TupleIsEvents
  <2> HIDE DEF s
  <2> QED  BY <2>1, <2>2
<1>22. CASE op = "gift_with_fee"
  <2> DEFINE s == <<TokenTransferWithFee(m, User, P1, 24, 3)>>
  <2>1. Events(m, op) = s
    BY <1>22 DEF Events
  <2>2. IsEvents(s)
    <3>1. IsEvent(TokenTransferWithFee(m, User, P1, 24, 3))
      BY <1>5
    <3> QED  BY <3>1, TupleIsEvents
  <2> HIDE DEF s
  <2> QED  BY <2>1, <2>2
<1>23. CASE op = "gift_coin"
  <2> DEFINE s == <<Bank(User, P1, <<Coin(Coin1, 22)>>)>>
  <2>1. Events(m, op) = s
    BY <1>23 DEF Events
  <2>2. IsEvents(s)
    <3>1. IsEvent(Bank(User, P1, <<Coin(Coin1, 22)>>))
      BY <1>4
    <3> QED  BY <3>1, TupleIsEvents
  <2> HIDE DEF s
  <2> QED  BY <2>1, <2>2
<1>24. CASE op = "gift_unsigned"
  <2> DEFINE s == <<BankUnsigned(P1, <<Coin(Coin1, 23)>>)>>
  <2>1. Events(m, op) = s
    BY <1>24 DEF Events
  <2>2. IsEvents(s)
    <3>1. IsEvent(BankUnsigned(P1, <<Coin(Coin1, 23)>>))
      BY <1>4
    <3> QED  BY <3>1, TupleIsEvents
  <2> HIDE DEF s
  <2> QED  BY <2>1, <2>2
<1>25. CASE op = "irregular"
  <2> DEFINE s == <<Contract(m, Token, "transfer", <<At("from", User), At("to", Friend), At("amount", 25), At("amount", 26)>>)>>
  <2>1. Events(m, op) = s
    BY <1>25 DEF Events
  <2>2. IsEvents(s)
    <3>1. IsEvent(Contract(m, Token, "transfer", <<At("from", User), At("to", Friend), At("amount", 25), At("amount", 26)>>))
      BY <1>3, TupleIsSeq
    <3> QED  BY <3>1, TupleIsEvents
  <2> HIDE DEF s
  <2> QED  BY <2>1, <2>2
<1>26. CASE op = "foreign_coin"
  <2> DEFINE s == <<Bank(User, P1, <<Coin(Foreign, 27)>>)>>
  <2>1. Events(m, op) = s
    BY <1>26 DEF Events
  <2>2. IsEvents(s)
    <3>1. IsEvent(Bank(User, P1, <<Coin(Foreign, 27)>>))
      BY <1>4
    <3> QED  BY <3>1, TupleIsEvents
  <2> HIDE DEF s
  <2> QED  BY <2>1, <2>2
<1>27. CASE op = "foreign_token"
  <2> DEFINE s == <<Contract(m, ForeignToken, "transfer", <<At("from", User), At("to", P1), At("amount", 28)>>)>>
  <2>1. Events(m, op) = s
    BY <1>27 DEF Events
  <2>2. IsEvents(s)
    <3>1. IsEvent(Contract(m, ForeignToken, "transfer", <<At("from", User), At("to", P1), At("amount", 28)>>))
      BY <1>3, TupleIsSeq
    <3> QED  BY <3>1, TupleIsEvents
  <2> HIDE DEF s
  <2> QED  BY <2>1, <2>2
<1>28. CASE op = "empty_amount"
  <2> DEFINE s == <<Bank(User, Friend, None)>>
  <2>1. Events(m, op) = s
    BY <1>28 DEF Events
  <2>2. IsEvents(s)
    <3>1. IsEvent(Bank(User, Friend, None))
      BY <1>4
    <3> QED  BY <3>1, TupleIsEvents
  <2> HIDE DEF s
  <2> QED  BY <2>1, <2>2
<1>29. CASE op = "create_pair"
  <2> DEFINE s == <<Contract(m, Factory, "create_pair", <<At("pair", pair2.assets)>>), IF m.app = "columbusv1" THEN Ev("from_contract", <<At("contract_address", P2), At("liquidity_token_addr", Lp2)>>) ELSE Ev("wasm", <<At("_contract_address", P2), At("liquidity_token_addr", Lp2)>>)>>
  <2>1. Events(m, op) = s
    BY <1>29 DEF Events
  <2>2. IsEvents(s)
    <3>1. IsEvent(Contract(m, Factory, "create_pair", <<At("pair", pair2.assets)>>)) /\ IsEvent(IF m.app = "columbusv1" THEN Ev("from_contract", <<At("contract_address", P2), At("liquidity_token_addr", Lp2)>>) ELSE Ev("wasm", <<At("_contract_address", P2), At("liquidity_token_addr", Lp2)>>))
      BY <1>1, <1>2, <1>3, TupleIsSeq
    <3> QED  BY <3>1, TupleIsEvents
  <2> HIDE DEF s
  <2> QED  BY <2>1, <2>2
<1> QED  BY <1>10, <1>11, <1>12, <1>13, <1>14, <1>15, <1>16, <1>17, <1>18, <1>19, <1>20, <1>21, <1>22, <1>23, <1>24, <1>25, <1>26, <1>27, <1>28, <1>29 DEF Ops, TerraswapOps, TaxOps, SecondPairOps

(* Sequences of sequences and of what is made of a sequence.               *)
LEMMA MadeIsSeq ==
    ASSUME NEW n \in Nat, NEW f, DOMAIN f = 1..n, f = [i \in 1..n |-> f[i]]
    PROVE  IsSeq(f) /\ Len(f) = n /\ \A S : (\A i \in 1..n : f[i] \in S) => f \in Seq(S)
<1>1. ASSUME NEW S, \A i \in 1..n : f[i] \in S
      PROVE  f \in Seq(S) /\ Len(f) = n
  <2>1. f \in [1..n -> S]
    BY <1>1
  <2> QED  BY <2>1
<1> DEFINE S == {f[i] : i \in 1..n}
<1>2. \A i \in 1..n : f[i] \in S
  OBVIOUS
<1> HIDE DEF S
<1>3. f \in Seq(S) /\ Len(f) = n
  BY <1>1, <1>2
<1> QED  BY <1>1, <1>3 DEF IsSeq

(* Sequences one after the other are a sequence.                           *)
LEMMA FlatIsSeq ==
    ASSUME NEW n \in Nat, NEW f, DOMAIN f = 1..n, f = [i \in 1..n |-> f[i]], \A i \in 1..n : IsSeq(f[i])
    PROVE  IsSeq(FlattenSeq(f))
<1>1. PICK E : \A i \in 1..n : f[i] \in Seq(E)
  BY SeqUnion
<1>2. f \in Seq(Seq(E))
  BY <1>1, MadeIsSeq
<1> QED  BY <1>2, FlattenIsSeq DEF IsSeq

(* The attributes of an event with their message are a sequence.           *)
LEMMA AttrsIsSeq ==
    ASSUME NEW e, IsSeq(e.attrs), NEW i
    PROVE  IsSeq(AttrsOf(e, i))
<1>1. PICK E : e.attrs \in Seq(E)
  BY DEF IsSeq
<1> DEFINE f == AttrsOf(e, i)
<1>2. Len(e.attrs) \in Nat /\ DOMAIN e.attrs = 1..Len(e.attrs)
  BY <1>1
<1>3. DOMAIN f = 1..Len(e.attrs) /\ f = [j \in 1..Len(e.attrs) |-> f[j]]
  BY <1>2 DEF AttrsOf
<1> HIDE DEF f
<1>4. IsSeq(f)
  BY <1>2, <1>3, MadeIsSeq
<1> QED  BY <1>4 DEF f

(* An event with a message index is an event.                              *)
LEMMA IndexedIsEvent ==
    ASSUME NEW e, IsEvent(e), NEW i
    PROVE  IsEvent(Indexed(e, i))
<1>1. PICK E : e.attrs \in Seq(E)
  BY DEF IsEvent, IsSeq
<1> DEFINE a == At("msg_index", i - 1)
<1>2. Append(e.attrs, a) \in Seq(E \cup {a})
  <2>1. e.attrs \in Seq(E \cup {a}) /\ a \in E \cup {a}
    BY <1>1
  <2> HIDE DEF a
  <2> QED  BY <2>1
<1>3. Indexed(e, i) = [type |-> e.type, attrs |-> Append(e.attrs, a)]
  BY DEF Indexed, IsEvent
<1> HIDE DEF a
<1> QED  BY <1>2, <1>3 DEF IsEvent, IsSeq

(* What a transaction emits, message by message, is events.                *)
LEMMA MessagesAre ==
    ASSUME NEW done \in Seq(Ops)
    PROVE  /\ DOMAIN Messages(done) = 1..Len(done)
           /\ Messages(done) = [m \in 1..Len(done) |-> Messages(done)[m]]
           /\ \A m \in 1..Len(done) : IsEvents(Messages(done)[m])
<1>1. Len(done) \in Nat /\ DOMAIN done = 1..Len(done) /\ \A m \in 1..Len(done) : done[m] \in Ops
  OBVIOUS
<1>2. DOMAIN Messages(done) = 1..Len(done) /\ Messages(done) = [m \in 1..Len(done) |-> Messages(done)[m]]
  BY <1>1 DEF Messages
<1>3. ASSUME NEW m \in 1..Len(done)
      PROVE  IsEvents(Messages(done)[m])
  <2> DEFINE events == Events(mode, done[m])
             f == Messages(done)[m]
  <2>1. PICK S : events \in Seq(S) /\ \A e \in S : IsEvent(e)
    BY <1>1, EventsAre DEF IsEvents
  <2>2. f = [e \in DOMAIN events |-> IF mode.sdk50 THEN Indexed(events[e], m) ELSE events[e]]
    BY <1>1 DEF Messages
  <2> HIDE DEF events, f
  <2>3. Len(events) \in Nat /\ DOMAIN events = 1..Len(events) /\ \A e \in 1..Len(events) : events[e] \in S
    BY <2>1
  <2>4. /\ DOMAIN f = 1..Len(events) /\ f = [e \in 1..Len(events) |-> f[e]]
        /\ \A e \in 1..Len(events) : f[e] = events[e] \/ f[e] = Indexed(events[e], m)
    BY <2>2, <2>3
  <2> DEFINE T == S \cup {Indexed(e, m) : e \in S}
  <2>5. \A e \in 1..Len(events) : f[e] \in T
    BY <2>3, <2>4
  <2>6. \A e \in T : IsEvent(e)
    BY <2>1, IndexedIsEvent
  <2> HIDE DEF T
  <2>7. f \in Seq(T)
    BY <2>3, <2>4, <2>5, MadeIsSeq
  <2>8. IsEvents(f)
    BY <2>6, <2>7, EventsIn
  <2> QED  BY <2>8 DEF f
<1> QED  BY <1>2, <1>3

(* The attributes of one type, and the groups of all types.                *)
IsGroups(g) == DOMAIN g \subseteq EventTypes /\ \A t \in DOMAIN g : IsSeq(g[t])
OfType(events, t, i) ==
    FlattenSeq([e \in DOMAIN events |-> IF events[e].type = t THEN AttrsOf(events[e], i) ELSE <<>>])

(* The attributes of one type are a sequence.                              *)
LEMMA OfTypeIsSeq ==
    ASSUME NEW events, IsEvents(events), NEW t, NEW i
    PROVE  IsSeq(OfType(events, t, i))
<1>1. PICK S : events \in Seq(S) /\ \A e \in S : IsEvent(e)
  BY DEF IsEvents
<1> DEFINE n == Len(events)
           f == [e \in DOMAIN events |-> IF events[e].type = t THEN AttrsOf(events[e], i) ELSE <<>>]
<1>2. n \in Nat /\ DOMAIN events = 1..n /\ \A e \in 1..n : IsSeq(events[e].attrs)
  <2>1. n \in Nat /\ DOMAIN events = 1..n /\ \A e \in 1..n : events[e] \in S
    BY <1>1
  <2> QED  BY <1>1, <2>1 DEF IsEvent
<1>3. /\ DOMAIN f = 1..n /\ f = [e \in 1..n |-> f[e]]
      /\ \A e \in 1..n : f[e] = <<>> \/ f[e] = AttrsOf(events[e], i)
  BY <1>2
<1>4. \A e \in 1..n : IsSeq(f[e])
  <2> HIDE DEF f, n
  <2> QED  BY <1>2, <1>3, AttrsIsSeq, NoneIsSeq
<1>5. OfType(events, t, i) = FlattenSeq(f)
  BY DEF OfType
<1> HIDE DEF f, n
<1> QED  BY <1>2, <1>3, <1>4, <1>5, FlatIsSeq

(* So are the groups of newer events, listed in a row.                     *)
LEMMA EventGroups ==
    ASSUME NEW events, IsEvents(events)
    PROVE  IsGroups(groupEventsAttrByType(events))
<1>1. PICK S : events \in Seq(S) /\ \A e \in S : IsEvent(e)
  BY DEF IsEvents
<1>2. \A e \in DOMAIN events : events[e].type \in EventTypes
  <2>1. \A e \in DOMAIN events : events[e] \in S
    BY <1>1
  <2> QED  BY <1>1, <2>1 DEF IsEvent
<1>3. groupEventsAttrByType(events) = [t \in {events[e].type : e \in DOMAIN events} |-> OfType(events, t, 0)]
  BY Zenon DEF groupEventsAttrByType, OfType
<1> QED  BY <1>2, <1>3, OfTypeIsSeq DEF IsGroups

(* And of older ones, listed per message.                                  *)
LEMMA MessageGroups ==
    ASSUME NEW n \in Nat, NEW msgs, DOMAIN msgs = 1..n, \A m \in 1..n : IsEvents(msgs[m])
    PROVE  IsGroups(groupLogAttrByType(msgs))
<1> DEFINE types == UNION {{msgs[m][e].type : e \in DOMAIN msgs[m]} : m \in DOMAIN msgs}
           f(t) == [m \in DOMAIN msgs |-> OfType(msgs[m], t, m - 1)]
<1>1. groupLogAttrByType(msgs) = [t \in types |-> FlattenSeq(f(t))]
  BY Zenon DEF groupLogAttrByType, OfType
<1>2. types \subseteq EventTypes
  <2>1. ASSUME NEW m \in 1..n, NEW e \in DOMAIN msgs[m] PROVE msgs[m][e].type \in EventTypes
    <3>1. PICK S : msgs[m] \in Seq(S) /\ \A x \in S : IsEvent(x)
      BY <2>1 DEF IsEvents
    <3>2. msgs[m][e] \in S
      BY <2>1, <3>1
    <3> QED  BY <3>1, <3>2 DEF IsEvent
  <2> QED  BY <2>1
<1>3. ASSUME NEW t PROVE IsSeq(FlattenSeq(f(t)))
  <2> DEFINE ft == f(t)
  <2>1. DOMAIN ft = 1..n /\ ft = [m \in 1..n |-> ft[m]] /\ \A m \in 1..n : IsSeq(ft[m])
    BY OfTypeIsSeq
  <2> HIDE DEF ft
  <2>2. IsSeq(FlattenSeq(ft))
    BY <2>1, FlatIsSeq
  <2> QED  BY <2>2 DEF ft
<1> HIDE DEF types, f
<1> QED  BY <1>1, <1>2, <1>3 DEF IsGroups

(* The events of all messages in a row are events.                         *)
LEMMA FlatIsEvents ==
    ASSUME NEW n \in Nat, NEW msgs, DOMAIN msgs = 1..n, msgs = [m \in 1..n |-> msgs[m]],
           \A m \in 1..n : IsEvents(msgs[m])
    PROVE  IsEvents(FlattenSeq(msgs))
<1> DEFINE S(m) == CHOOSE S : msgs[m] \in Seq(S) /\ \A e \in S : IsEvent(e)
           T == UNION {S(m) : m \in 1..n}
<1>1. ASSUME NEW m \in 1..n
      PROVE  msgs[m] \in Seq(S(m)) /\ \A e \in S(m) : IsEvent(e)
  <2>1. \E X : msgs[m] \in Seq(X) /\ \A e \in X : IsEvent(e)
    BY <1>1 DEF IsEvents
  <2> QED  BY <2>1, Zenon
<1> HIDE DEF S
<1>2. \A e \in T : IsEvent(e)
  BY <1>1
<1>3. \A m \in 1..n : S(m) \subseteq T
  OBVIOUS
<1> HIDE DEF T
<1>4. \A m \in 1..n : msgs[m] \in Seq(T)
  BY <1>1, <1>3
<1>5. msgs \in Seq(Seq(T))
  BY <1>4, MadeIsSeq
<1> QED  BY <1>2, <1>5, FlattenIsSeq, EventsIn

(* The transactions a block's source may give: the same groups, in any     *)
(* order.                                                                  *)
LEMMA SourceTxsAre ==
    ASSUME NEW done \in Seq(Ops)
    PROVE  \E g : /\ IsGroups(g)
                  /\ GetSourceTxs(done) = {buildRawTx(g, order, User) : order \in SetToSeqs(DOMAIN g)}
<1> DEFINE msgs == Messages(done)
           g == IF mode.app \in Terraswap /\ ~mode.sdk50 THEN groupLogAttrByType(msgs)
                ELSE groupEventsAttrByType(FlattenSeq(msgs))
<1>1. GetSourceTxs(done) = {buildRawTx(g, order, User) : order \in SetToSeqs(DOMAIN g)}
  BY Zenon DEF GetSourceTxs
<1>2. Len(done) \in Nat
  OBVIOUS
<1>3. IsGroups(groupLogAttrByType(msgs))
  BY <1>2, MessagesAre, MessageGroups
<1>4. IsGroups(groupEventsAttrByType(FlattenSeq(msgs)))
  BY <1>2, MessagesAre, FlatIsEvents, EventGroups
<1>5. IsGroups(g)
  BY <1>3, <1>4
<1> HIDE DEF g
<1> QED  BY <1>1, <1>5

(* An order of the types names each of them once.                          *)
LEMMA OrderIsOnto ==
    ASSUME NEW T, IsFiniteSet(T), NEW f \in SetToSeqs(T)
    PROVE  /\ Cardinality(T) \in Nat /\ f \in [1..Cardinality(T) -> T]
           /\ \A i, j \in 1..Cardinality(T) : f[i] = f[j] => i = j
           /\ \A t \in T : \E i \in 1..Cardinality(T) : f[i] = t
<1> DEFINE n == Cardinality(T)
<1>1. n \in Nat
  BY FS_CardinalityType
<1>2. f \in [1..n -> T] /\ \A i, j \in 1..n : f[i] = f[j] => i = j
  BY DEF SetToSeqs
<1>3. f \in Injection(1..n, T)
  BY <1>2 DEF Injection, IsInjective
<1>4. Cardinality(1..n) = n
  <2>1. IsFiniteSet(1..n) /\ Cardinality(1..n) = IF 1 > n THEN 0 ELSE n - 1 + 1
    BY <1>1, FS_Interval
  <2> QED  BY <1>1, <2>1
<1>5. f \in Surjection(1..n, T)
  BY <1>3, <1>4, FS_Injection
<1> QED  BY <1>1, <1>2, <1>5 DEF Surjection

(* Two orders of the same groups give the same logs, one per type          *)
(* (buildRawTx).                                                           *)
LEMMA SameLogsInAnyOrder ==
    ASSUME NEW g, IsGroups(g), NEW o \in SetToSeqs(DOMAIN g), NEW p \in SetToSeqs(DOMAIN g)
    PROVE  \E R : /\ buildRawTx(g, o, User).logs \in Seq(Logs(EventTypes, R))
                  /\ buildRawTx(g, p, User).logs \in Seq(Logs(EventTypes, R))
                  /\ SameLogs(buildRawTx(g, o, User).logs, buildRawTx(g, p, User).logs)
<1> DEFINE n == Cardinality(DOMAIN g)
           Of(t) == [type |-> t, attrs |-> g[t]]
           logs(f) == buildRawTx(g, f, User).logs
<1>1. IsFiniteSet(DOMAIN g)
  <2>1. IsFiniteSet(EventTypes)
    <3>1. IsFiniteSet({}) /\ \A S, x : IsFiniteSet(S) => IsFiniteSet(S \cup {x})
      BY FS_EmptySet, FS_AddElement
    <3>2. IsFiniteSet(((({} \cup {"wasm"}) \cup {"from_contract"}) \cup {"transfer"}) \cup {"tax_payment"})
      BY <3>1, Zenon
    <3>3. EventTypes = ((({} \cup {"wasm"}) \cup {"from_contract"}) \cup {"transfer"}) \cup {"tax_payment"}
      BY DEF EventTypes
    <3> QED  BY <3>2, <3>3
  <2> QED  BY <2>1, FS_Subset DEF IsGroups
<1>2. PICK R : \A t \in DOMAIN g : g[t] \in Seq(R)
  BY SeqUnion DEF IsGroups
<1>3. ASSUME NEW f \in SetToSeqs(DOMAIN g)
      PROVE  /\ logs(f) \in Seq(Logs(EventTypes, R)) /\ OnePerType(logs(f))
             /\ Range(logs(f)) = {Of(t) : t \in DOMAIN g}
  <2>1. /\ n \in Nat /\ f \in [1..n -> DOMAIN g]
        /\ \A i, j \in 1..n : f[i] = f[j] => i = j
        /\ \A t \in DOMAIN g : \E i \in 1..n : f[i] = t
    BY <1>1, <1>3, OrderIsOnto
  <2>2. DOMAIN f = 1..n
    BY <2>1
  <2>3. logs(f) = [k \in 1..n |-> Of(f[k])]
    BY <2>2 DEF buildRawTx
  <2> DEFINE s == logs(f)
  <2> HIDE DEF s, n
  <2>4. DOMAIN s = 1..n /\ s = [k \in 1..n |-> s[k]] /\ \A k \in 1..n : s[k] = Of(f[k])
    BY <2>3 DEF s
  <2>5. \A t \in DOMAIN g : Of(t) \in Logs(EventTypes, R)
    BY <1>2 DEF IsGroups, Logs
  <2>6. \A t : Of(t).type = t
    OBVIOUS
  <2> HIDE DEF Of
  <2>7. s \in Seq(Logs(EventTypes, R)) /\ Len(s) = n
    <3>1. \A k \in 1..n : s[k] \in Logs(EventTypes, R)
      BY <2>1, <2>4, <2>5
    <3> QED  BY <2>1, <2>4, <3>1, MadeIsSeq
  <2>8. OnePerType(s)
    BY <2>1, <2>4, <2>6, <2>7 DEF OnePerType
  <2>9. Range(s) = {Of(t) : t \in DOMAIN g}
    BY <2>1, <2>4 DEF Range
  <2> QED  BY <2>7, <2>8, <2>9 DEF s
<1> HIDE DEF logs, Of
<1>4. SameLogs(logs(o), logs(p))
  BY <1>3 DEF SameLogs
<1> QED  BY <1>3, <1>4, Zenon DEF logs

(* For every application: what it stores of a transaction does not depend  *)
(* on the order of the logs (ParseTxs of the application in force).        *)
LEMMA ParsedInAnyOrder ==
    ASSUME mode \in Modes, NEW done \in Seq(Ops), NEW a, "pairs" \in DOMAIN a,
           NEW tx1 \in GetSourceTxs(done), NEW tx2 \in GetSourceTxs(done)
    PROVE  SameOutcome(ParseTxs(a, tx1), ParseTxs(a, tx2))
<1>1. PICK g : IsGroups(g) /\ GetSourceTxs(done) = {buildRawTx(g, order, User) : order \in SetToSeqs(DOMAIN g)}
  BY SourceTxsAre
<1>2. PICK o \in SetToSeqs(DOMAIN g) : tx1 = buildRawTx(g, o, User)
  BY <1>1
<1>3. PICK p \in SetToSeqs(DOMAIN g) : tx2 = buildRawTx(g, p, User)
  BY <1>1
<1>4. PICK R : /\ tx1.logs \in Seq(Logs(EventTypes, R)) /\ tx2.logs \in Seq(Logs(EventTypes, R))
               /\ SameLogs(tx1.logs, tx2.logs)
  BY <1>1, <1>2, <1>3, SameLogsInAnyOrder
<1>5. tx1 = [logs |-> tx1.logs, sender |-> User] /\ tx2 = [logs |-> tx2.logs, sender |-> User]
  BY <1>2, <1>3 DEF buildRawTx
<1>6. PICK one, two : one = tx1.logs /\ two = tx2.logs
  OBVIOUS
<1>7. /\ one \in Seq(Logs(EventTypes, R)) /\ two \in Seq(Logs(EventTypes, R)) /\ SameLogs(one, two)
      /\ tx1 = [logs |-> one, sender |-> User] /\ tx2 = [logs |-> two, sender |-> User]
  BY <1>4, <1>5, <1>6
<1>8. mode.app \in {"dezswap", "starfleit", "columbusv1", "columbusv2", "phoenix"}
  BY DEF Modes, Terraswap
<1>9. CASE mode.app = "dezswap"
  <2>1. ParseTxs(a, tx1) = Dezswap!ParseTxs(a, tx1) /\ ParseTxs(a, tx2) = Dezswap!ParseTxs(a, tx2)
    BY <1>9 DEF ParseTxs
  <2>2. SameOutcome(Dezswap!ParseTxs(a, [logs |-> one, sender |-> User]),
                    Dezswap!ParseTxs(a, [logs |-> two, sender |-> User]))
    BY <1>7, DezswapInAnyOrder
  <2> QED  BY <1>7, <2>1, <2>2
<1>10. CASE mode.app = "starfleit"
  <2>1. ParseTxs(a, tx1) = Starfleit!ParseTxs(a, tx1) /\ ParseTxs(a, tx2) = Starfleit!ParseTxs(a, tx2)
    BY <1>10 DEF ParseTxs
  <2>2. SameOutcome(Starfleit!ParseTxs(a, [logs |-> one, sender |-> User]),
                    Starfleit!ParseTxs(a, [logs |-> two, sender |-> User]))
    BY <1>7, StarfleitInAnyOrder
  <2> QED  BY <1>7, <2>1, <2>2
<1>11. CASE mode.app = "columbusv1"
  <2>1. ParseTxs(a, tx1) = ColumbusV1!ParseTxs(a, tx1) /\ ParseTxs(a, tx2) = ColumbusV1!ParseTxs(a, tx2)
    BY <1>11 DEF ParseTxs
  <2>2. SameOutcome(ColumbusV1!ParseTxs(a, [logs |-> one, sender |-> User]),
                    ColumbusV1!ParseTxs(a, [logs |-> two, sender |-> User]))
    BY <1>7, ColumbusV1InAnyOrder
  <2> QED  BY <1>7, <2>1, <2>2
<1>12. CASE mode.app = "columbusv2"
  <2>1. ParseTxs(a, tx1) = ColumbusV2!ParseTxs(a, tx1) /\ ParseTxs(a, tx2) = ColumbusV2!ParseTxs(a, tx2)
    BY <1>12 DEF ParseTxs
  <2>2. SameOutcome(ColumbusV2!ParseTxs(a, [logs |-> one, sender |-> User]),
                    ColumbusV2!ParseTxs(a, [logs |-> two, sender |-> User]))
    BY <1>7, ColumbusV2InAnyOrder
  <2> QED  BY <1>7, <2>1, <2>2
<1>13. CASE mode.app = "phoenix"
  <2>1. ParseTxs(a, tx1) = Phoenix!ParseTxs(a, tx1) /\ ParseTxs(a, tx2) = Phoenix!ParseTxs(a, tx2)
    BY <1>13 DEF ParseTxs
  <2>2. SameOutcome(Phoenix!ParseTxs(a, [logs |-> one, sender |-> User]),
                    Phoenix!ParseTxs(a, [logs |-> two, sender |-> User]))
    BY <1>7, PhoenixInAnyOrder
  <2> QED  BY <1>7, <2>1, <2>2
<1> QED  BY <1>8, <1>9, <1>10, <1>11, <1>12, <1>13

(* The application keeps its map of pairs, whatever it parses.             *)
LEMMA DezswapKeepsPairs ==
    ASSUME NEW a, "pairs" \in DOMAIN a, NEW tx
    PROVE  "pairs" \in DOMAIN Dezswap!ParseTxs(a, tx).app
<1> DEFINE c == Dezswap!Parse(Dezswap!createPairRule, tx.logs, Dezswap!createPairMapper)
           k == DezswapKnown(a, c)
           g == AllOf(tx.logs, DezswapStages(k, tx.sender, Range(tx.logs)))
<1>1. Dezswap!ParseTxs(a, tx) = Dezswap!ParseLogs(a, tx, c)
  BY Zenon DEF Dezswap!ParseTxs
<1> HIDE DEF c
<1>2. CASE c.err # "none"
  <2>1. Dezswap!ParseLogs(a, tx, c) = Dezswap!GaveUp(c.err, a)
    BY <1>2, Zenon DEF Dezswap!ParseLogs
  <2> QED  BY <1>1, <2>1 DEF Dezswap!GaveUp
<1>3. CASE c.err = "none"
  <2>1. "pairs" \in DOMAIN k
    BY DEF DezswapKnown
  <2>2. Dezswap!ParseLogs(a, tx, c) = Dezswap!Stored(tx.sender, c, k, g)
    BY <1>3, DezswapIs
  <2> HIDE DEF k, g
  <2>3. "pairs" \in DOMAIN Dezswap!ParseLogs(a, tx, c).app
    BY <2>1, <2>2 DEF Dezswap!Stored, Dezswap!Result
  <2> QED  BY <1>1, <2>3
<1> QED  BY <1>2, <1>3

(* Parsing keeps the application's map of pairs.                           *)
LEMMA StarfleitKeepsPairs ==
    ASSUME NEW a, "pairs" \in DOMAIN a, NEW tx
    PROVE  "pairs" \in DOMAIN Starfleit!ParseTxs(a, tx).app
<1> DEFINE c == Starfleit!Parse(Starfleit!createPairRule, tx.logs, Starfleit!createPairMapper)
           k == StarfleitKnown(a, c)
           g == AllOf(tx.logs, StarfleitStages(k, tx.sender, Range(tx.logs)))
<1>1. Starfleit!ParseTxs(a, tx) = Starfleit!ParseLogs(a, tx, c)
  BY Zenon DEF Starfleit!ParseTxs
<1> HIDE DEF c
<1>2. CASE c.err # "none"
  <2>1. Starfleit!ParseLogs(a, tx, c) = Starfleit!GaveUp(c.err, a)
    BY <1>2, Zenon DEF Starfleit!ParseLogs
  <2> QED  BY <1>1, <2>1 DEF Starfleit!GaveUp
<1>3. CASE c.err = "none"
  <2>1. "pairs" \in DOMAIN k
    BY DEF StarfleitKnown
  <2>2. Starfleit!ParseLogs(a, tx, c) = Starfleit!Stored(tx.sender, c, k, g)
    BY <1>3, StarfleitIs
  <2> HIDE DEF k, g
  <2>3. "pairs" \in DOMAIN Starfleit!ParseLogs(a, tx, c).app
    BY <2>1, <2>2 DEF Starfleit!Stored, Starfleit!Result
  <2> QED  BY <1>1, <2>3
<1> QED  BY <1>2, <1>3

(* Parsing keeps the application's map of pairs.                           *)
LEMMA ColumbusV1KeepsPairs ==
    ASSUME NEW a, "pairs" \in DOMAIN a, NEW tx
    PROVE  "pairs" \in DOMAIN ColumbusV1!ParseTxs(a, tx).app
<1> DEFINE c == ColumbusV1!Parse(ColumbusV1!col4CreatePairRule, tx.logs, ColumbusV1!factoryMapper)
           k == ColumbusV1Known(a, c)
           g == AllOf(tx.logs, ColumbusV1Stages(k, tx.sender, Range(tx.logs)))
<1>1. ColumbusV1!ParseTxs(a, tx) = ColumbusV1!ParseLogs(a, tx, c)
  BY Zenon DEF ColumbusV1!ParseTxs
<1> HIDE DEF c
<1>2. CASE c.err # "none"
  <2>1. ColumbusV1!ParseLogs(a, tx, c) = ColumbusV1!GaveUp(c.err, a)
    BY <1>2, Zenon DEF ColumbusV1!ParseLogs
  <2> QED  BY <1>1, <2>1 DEF ColumbusV1!GaveUp
<1>3. CASE c.err = "none"
  <2>1. "pairs" \in DOMAIN k
    BY DEF ColumbusV1Known
  <2>2. ColumbusV1!ParseLogs(a, tx, c) = ColumbusV1!StoredFlagging(ColumbusV1!col4WasmTransferCommonRule, "contract_address", tx.sender, c, k, g)
    BY <1>3, ColumbusV1Is
  <2> HIDE DEF k, g
  <2>3. "pairs" \in DOMAIN ColumbusV1!ParseLogs(a, tx, c).app
    BY <2>1, <2>2 DEF ColumbusV1!StoredFlagging, ColumbusV1!Stored, ColumbusV1!Result
  <2> QED  BY <1>1, <2>3
<1> QED  BY <1>2, <1>3

(* Parsing keeps the application's map of pairs.                           *)
LEMMA ColumbusV2KeepsPairs ==
    ASSUME NEW a, "pairs" \in DOMAIN a, NEW tx
    PROVE  "pairs" \in DOMAIN ColumbusV2!ParseTxs(a, tx).app
<1> DEFINE c == ColumbusV2!Parse(ColumbusV2!createPairRule, tx.logs, ColumbusV2!factoryMapper)
           k == ColumbusV2Known(a, c)
           g == AllOf(tx.logs, ColumbusV2Stages(k, tx.sender, Range(tx.logs)))
<1>1. ColumbusV2!ParseTxs(a, tx) = ColumbusV2!ParseLogs(a, tx, c)
  BY Zenon DEF ColumbusV2!ParseTxs
<1> HIDE DEF c
<1>2. CASE c.err # "none"
  <2>1. ColumbusV2!ParseLogs(a, tx, c) = ColumbusV2!GaveUp(c.err, a)
    BY <1>2, Zenon DEF ColumbusV2!ParseLogs
  <2> QED  BY <1>1, <2>1 DEF ColumbusV2!GaveUp
<1>3. CASE c.err = "none"
  <2>1. "pairs" \in DOMAIN k
    BY DEF ColumbusV2Known
  <2>2. ColumbusV2!ParseLogs(a, tx, c) = ColumbusV2!Finish(tx, c, k, g)
    BY <1>3, ColumbusV2Is
  <2> HIDE DEF k, g
  <2>3. "pairs" \in DOMAIN ColumbusV2!ParseLogs(a, tx, c).app
    BY <2>1, <2>2 DEF ColumbusV2!Finish, ColumbusV2!Result
  <2> QED  BY <1>1, <2>3
<1> QED  BY <1>2, <1>3

(* Parsing keeps the application's map of pairs.                           *)
LEMMA PhoenixKeepsPairs ==
    ASSUME NEW a, "pairs" \in DOMAIN a, NEW tx
    PROVE  "pairs" \in DOMAIN Phoenix!ParseTxs(a, tx).app
<1> DEFINE c == Phoenix!Parse(Phoenix!createPairRule, tx.logs, Phoenix!factoryMapper)
           k == PhoenixKnown(a, c)
           g == AllOf(tx.logs, PhoenixStages(k, tx.sender, Range(tx.logs)))
<1>1. Phoenix!ParseTxs(a, tx) = Phoenix!ParseLogs(a, tx, c)
  BY Zenon DEF Phoenix!ParseTxs
<1> HIDE DEF c
<1>2. CASE c.err # "none"
  <2>1. Phoenix!ParseLogs(a, tx, c) = Phoenix!GaveUp(c.err, a)
    BY <1>2, Zenon DEF Phoenix!ParseLogs
  <2> QED  BY <1>1, <2>1 DEF Phoenix!GaveUp
<1>3. CASE c.err = "none"
  <2>1. "pairs" \in DOMAIN k
    BY DEF PhoenixKnown
  <2>2. Phoenix!ParseLogs(a, tx, c) = Phoenix!StoredFlagging(Phoenix!wasmTransferCommonRule, "_contract_address", tx.sender, c, k, g)
    BY <1>3, PhoenixIs
  <2> HIDE DEF k, g
  <2>3. "pairs" \in DOMAIN Phoenix!ParseLogs(a, tx, c).app
    BY <2>1, <2>2 DEF Phoenix!StoredFlagging, Phoenix!Stored, Phoenix!Result
  <2> QED  BY <1>1, <2>3
<1> QED  BY <1>2, <1>3

(* A fresh application has a map of pairs, the stored ones.                *)
LEMMA NewHasPairs == ASSUME NEW m \in Modes PROVE "pairs" \in DOMAIN New(m)
<1>1. m.app \in {"dezswap", "starfleit", "columbusv1", "columbusv2", "phoenix"}
  BY DEF Modes, Terraswap
<1> QED  BY <1>1 DEF New, Dezswap!New, Starfleit!New, ColumbusV1!New, ColumbusV2!New, Phoenix!New

(* And no step of the application takes it away.                           *)
LEMMA AppKeepsPairs ==
    ASSUME NEW m \in Modes, NEW a, "pairs" \in DOMAIN a, NEW exceptions
    PROVE  /\ mode = m => \A tx : "pairs" \in DOMAIN ParseTxs(a, tx).app
           /\ "pairs" \in DOMAIN UpdateParsers(m, a, exceptions)
<1>1. m.app \in {"dezswap", "starfleit", "columbusv1", "columbusv2", "phoenix"}
  BY DEF Modes, Terraswap
<1>2. ASSUME mode = m, NEW tx PROVE "pairs" \in DOMAIN ParseTxs(a, tx).app
  <2>1. CASE m.app = "dezswap"
    <3>1. ParseTxs(a, tx) = Dezswap!ParseTxs(a, tx)
      BY <1>2, <2>1 DEF ParseTxs
    <3> QED  BY <3>1, DezswapKeepsPairs
  <2>2. CASE m.app = "starfleit"
    <3>1. ParseTxs(a, tx) = Starfleit!ParseTxs(a, tx)
      BY <1>2, <2>2 DEF ParseTxs
    <3> QED  BY <3>1, StarfleitKeepsPairs
  <2>3. CASE m.app = "columbusv1"
    <3>1. ParseTxs(a, tx) = ColumbusV1!ParseTxs(a, tx)
      BY <1>2, <2>3 DEF ParseTxs
    <3> QED  BY <3>1, ColumbusV1KeepsPairs
  <2>4. CASE m.app = "columbusv2"
    <3>1. ParseTxs(a, tx) = ColumbusV2!ParseTxs(a, tx)
      BY <1>2, <2>4 DEF ParseTxs
    <3> QED  BY <3>1, ColumbusV2KeepsPairs
  <2>5. CASE m.app = "phoenix"
    <3>1. ParseTxs(a, tx) = Phoenix!ParseTxs(a, tx)
      BY <1>2, <2>5 DEF ParseTxs
    <3> QED  BY <3>1, PhoenixKeepsPairs
  <2> QED  BY <1>1, <2>1, <2>2, <2>3, <2>4, <2>5
<1>3. "pairs" \in DOMAIN UpdateParsers(m, a, exceptions)
  BY <1>1 DEF UpdateParsers, Dezswap!UpdateParsers, Starfleit!UpdateParsers, ColumbusV1!UpdateParsers, ColumbusV2!UpdateParsers, Phoenix!UpdateParsers
<1> QED  BY <1>2, <1>3

-----------------------------------------------------------------------------
(* The inductive invariant: the application has its map of pairs, and what *)
(* was parsed is what it makes of the transaction in some order of the     *)
(* logs, by the parsers still in force.                                    *)
IInv ==
    /\ mode \in Modes
    /\ ops \in Seq(Ops)
    /\ "pairs" \in DOMAIN app
    /\ phase = "parsed" => \E tx \in GetSourceTxs(ops) : res = ParseTxs(app, tx)

(* It holds at the start.                                                  *)
LEMMA IInvInit == Init => IInv
<1> SUFFICES ASSUME Init PROVE IInv
  OBVIOUS
<1>1. mode \in Modes /\ ops = <<>> /\ phase = "open" /\ app = UpdateParsers(mode, New(mode), {})
  BY DEF Init
<1>2. "pairs" \in DOMAIN New(mode)
  BY <1>1, NewHasPairs
<1>3. "pairs" \in DOMAIN app
  BY <1>1, <1>2, AppKeepsPairs
<1>4. ops \in Seq(Ops)
  BY <1>1
<1> QED  BY <1>1, <1>3, <1>4 DEF IInv

(* Every step keeps it: what is executed is not parsed yet, what is parsed *)
(* is parsed by the application in force, and the next height starts with  *)
(* nothing executed.                                                       *)
LEMMA IInvStep == IInv /\ [Next]_vars => IInv'
<1> SUFFICES ASSUME IInv, [Next]_vars PROVE IInv'
  OBVIOUS
<1>1. mode \in Modes /\ ops \in Seq(Ops) /\ "pairs" \in DOMAIN app
  BY DEF IInv
<1>2. ASSUME NEW op \in Ops, Execute(op) PROVE IInv'
  <2>1. mode' = mode /\ app' = app /\ phase' = "open" /\ ops' \in Seq(Ops)
    BY <1>1, <1>2 DEF Execute
  <2> QED  BY <1>1, <2>1 DEF IInv
<1>3. CASE Parse1
  <2>1. mode' = mode /\ app' = app /\ ops' = ops
    BY <1>3 DEF Parse1
  <2>2. PICK tx \in GetSourceTxs(ops) : res' = ParseTxs(app, tx)
    BY <1>3 DEF Parse1
  <2>3. GetSourceTxs(ops)' = GetSourceTxs(ops)
    BY <2>1 DEF GetSourceTxs, Messages
  <2> QED  BY <1>1, <2>1, <2>2, <2>3 DEF IInv, ParseTxs
<1>4. CASE NextHeight
  <2>1. mode' = mode /\ ops' = <<>> /\ phase' = "open"
    BY <1>4 DEF NextHeight
  <2>2. PICK exceptions : app' = UpdateParsers(mode, res.app, exceptions)
    BY <1>4 DEF NextHeight
  <2>3. "pairs" \in DOMAIN res.app
    <3>1. PICK tx \in GetSourceTxs(ops) : res = ParseTxs(app, tx)
      BY <1>4 DEF IInv, NextHeight
    <3> QED  BY <1>1, <3>1, AppKeepsPairs
  <2>4. "pairs" \in DOMAIN app'
    BY <1>1, <2>2, <2>3, AppKeepsPairs
  <2>5. ops' \in Seq(Ops)
    BY <2>1
  <2> QED  BY <1>1, <2>1, <2>4, <2>5 DEF IInv
<1>5. CASE UNCHANGED vars
  <2>1. mode' = mode /\ app' = app /\ ops' = ops /\ phase' = phase /\ res' = res
    BY <1>5 DEF vars
  <2> QED  BY <2>1 DEF IInv, GetSourceTxs, Messages, ParseTxs
<1> QED  BY <1>2, <1>3, <1>4, <1>5 DEF Next

(* And it decides what any other order of the logs would have given.       *)
LEMMA IInvOrder == IInv => LogOrderDoesNotMatter
<1> SUFFICES ASSUME IInv, phase = "parsed", NEW o \in Outcomes(ops)
             PROVE  (IsStored(o) <=> IsStored(res)) /\ (IsStored(res) => o = res) /\ o.app.pairs = res.app.pairs
  BY DEF LogOrderDoesNotMatter
<1>1. PICK tx \in GetSourceTxs(ops) : res = ParseTxs(app, tx)
  BY DEF IInv
<1>2. PICK other \in GetSourceTxs(ops) : o = ParseTxs(app, other)
  BY DEF Outcomes
<1>3. mode \in Modes /\ ops \in Seq(Ops) /\ "pairs" \in DOMAIN app
  BY DEF IInv
<1>4. SameOutcome(ParseTxs(app, other), ParseTxs(app, tx))
  BY <1>3, ParsedInAnyOrder
<1>5. SameOutcome(o, res)
  BY <1>1, <1>2, <1>4
<1> QED  BY <1>5 DEF SameOutcome

(* A block's logs come out of a Go map (buildRawTx): whatever their order, *)
(* the transaction is stored or not, with the same rows, and leaves the    *)
(* same pairs known, for every application, however long the transaction.  *)
THEOREM LogOrderIsFree == Spec => []LogOrderDoesNotMatter
<1>1. Init => IInv
  BY IInvInit
<1>2. IInv /\ [Next]_vars => IInv'
  BY IInvStep
<1>3. IInv => LogOrderDoesNotMatter
  BY IInvOrder
<1> QED  BY <1>1, <1>2, <1>3, PTL DEF Spec
=============================================================================
