---------------------------- MODULE MCParserRun ----------------------------
(***************************************************************************)
(* Instances of ParserRun.  Three blocks hold one transaction of each kind *)
(* the parser treats differently:                                          *)
(*   height 1: c1 creates pair P; a1 uses P in the same block and is       *)
(*             ambiguous to build 1;                                       *)
(*   height 2: w2 moves a token that is no asset of P, an error until the  *)
(*             token is registered; a2 is ambiguous to build 1 and then an *)
(*             error until its token is registered;                        *)
(*   height 3: c3 creates pair Q; u3 uses it in the same block and is      *)
(*             ambiguous in the wasm_transfer stage only.                  *)
(***************************************************************************)
EXTENDS ParserRun

MCTx   == {"c1", "a1", "w2", "a2", "c3", "u3"}
MCPair == {"P", "Q"}

MCHeight == [t \in MCTx |->
    CASE t \in {"c1", "a1"} -> 1 [] t \in {"w2", "a2"} -> 2 [] OTHER -> 3]
MCPosition == [t \in MCTx |-> IF t \in {"c1", "w2", "c3"} THEN 1 ELSE 2]
MCCreates == [t \in MCTx |-> CASE t = "c1" -> "P" [] t = "c3" -> "Q" [] OTHER -> "none"]
MCUses == [t \in MCTx |->
    CASE t \in {"a1", "w2", "a2"} -> "P" [] t = "u3" -> "Q" [] OTHER -> "none"]

Always(o)       == [b \in 1..2 |-> [x \in BOOLEAN |-> o]]
UntilRegistered == [b \in 1..2 |-> [x \in BOOLEAN |-> IF x THEN "parsed" ELSE "error"]]
FixedByBuild2   == [b \in 1..2 |-> [x \in BOOLEAN |-> IF b = 1 THEN "ambiguous" ELSE "parsed"]]
WorseInBuild2   == [b \in 1..2 |-> [x \in BOOLEAN |->
                        IF b = 1 THEN "ambiguous" ELSE IF x THEN "parsed" ELSE "error"]]
PartialAtFirst  == [b \in 1..2 |-> [x \in BOOLEAN |-> IF x THEN "parsed" ELSE "partial"]]

MCOutcome == [t \in MCTx |->
    CASE t = "a1" -> FixedByBuild2
      [] t = "w2" -> UntilRegistered
      [] t = "a2" -> WorseInBuild2
      [] t = "u3" -> PartialAtFirst
      [] OTHER    -> Always("parsed")]

MCRegistrable == {"w2", "a2", "u3"}

EveryRun    == [b \in 1..2 |-> "every_run"]
StartupNext == [b \in 1..2 |-> IF b = 1 THEN "every_run" ELSE "startup"]
============================================================================
