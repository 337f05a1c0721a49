---------------------------- MODULE ParsedLedger ----------------------------
(***************************************************************************)
(* What the parser promises about its database, without any of its         *)
(* machinery: the blocks of the chain are consumed one height at a time,   *)
(* a height is consumed as a whole, and every transaction of a consumed    *)
(* height is accounted for exactly once -- its rows are stored, or it is   *)
(* held in quarantine with no rows, or it is stored in part and flagged.   *)
(* Afterwards only one thing may happen to a transaction: a held one is    *)
(* released, which stores its rows.                                        *)
(*                                                                         *)
(* ParserRun (the Run loop of parser/dex/dex.go over the repository of     *)
(* parser/dex/repo) implements this module.                                *)
(***************************************************************************)
EXTENDS Integers

CONSTANTS Tx,         \* the raw transactions of the chain
          Height,     \* Height[t]: the block that contains t
          MaxHeight   \* bound: the last block of the chain

VARIABLES cursor,     \* synced_height.height
          status      \* status[t]: what the database says of t

Status == {"absent", "stored", "held", "flagged"}

LedgerInit ==
    /\ cursor = 0
    /\ status = [t \in Tx |-> "absent"]

(* The next block is consumed, all of it or none of it. *)
ConsumeBlock ==
    /\ cursor < MaxHeight
    /\ cursor' = cursor + 1
    /\ status' \in [Tx -> Status]
    /\ \A t \in Tx :
          IF Height[t] = cursor + 1
          THEN status'[t] \in {"stored", "held", "flagged"}
          ELSE status'[t] = status[t]

(* One held transaction is parsed after all. *)
Release(t) ==
    /\ status[t] = "held"
    /\ status' = [status EXCEPT ![t] = "stored"]
    /\ UNCHANGED cursor

LedgerNext == ConsumeBlock \/ \E t \in Tx : Release(t)

LedgerVars == <<cursor, status>>

LedgerSpec == LedgerInit /\ [][LedgerNext]_LedgerVars
=============================================================================
