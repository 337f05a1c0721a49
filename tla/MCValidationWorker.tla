------------------------- MODULE MCValidationWorker -------------------------
(***************************************************************************)
(* Instances of ValidationWorker: a token that levies a tax and a          *)
(* transaction held in quarantine.                                         *)
(***************************************************************************)
EXTENDS ValidationWorker

MCPair == {"p", "q"}

(* Both pairs trade the token that levies the tax; q is created by the     *)
(* transaction that is held.                                               *)
MCToken   == {"t"}
MCTokenOf == [p \in MCPair |-> "t"]
Created5  == [p \in MCPair |-> IF p = "q" THEN 5 ELSE 1]
Created1  == [p \in MCPair |-> 1]

Taxed2  == [h \in 1..MaxHeight |-> IF h = 2 THEN {"p"} ELSE {}]
Taxed1  == [h \in 1..MaxHeight |-> IF h = 1 THEN {"p"} ELSE {}]
Held5   == [h \in 1..MaxHeight |-> IF h = 5 THEN {"q"} ELSE {}]
Nowhere == [h \in 1..MaxHeight |-> {}]
=============================================================================
