------------------------------ MODULE DexChain ------------------------------
(***************************************************************************)
(* What a dex user can do in one message, the events the chain and the     *)
(* contracts emit for it, and what it does to the pools.  None of this is  *)
(* in the repository: it is read off the rules and mappers of the target   *)
(* applications and off the events in their tests.                         *)
(*                                                                         *)
(* There are two pairs: P1 of a token contract and a native coin, there    *)
(* from the start, and P2 of two native coins, which a message may create. *)
(* An operation is a string; every one has amounts of its own, so that a   *)
(* row shows where it comes from.  TokenGift, what a user sends a pair     *)
(* outside any action, is a parameter.                                     *)
(***************************************************************************)
EXTENDS DexRows

CONSTANTS
    Token, Coin1, Coin2, Foreign, ForeignToken,   \* what is traded, and what is not
    P1, P2, Lp1, Lp2,                             \* the pairs and their LP tokens
    User, Friend, Collector,                      \* accounts
    TokenGift                                     \* the amount of a token gift

pair1 == [contract |-> P1, lp |-> Lp1, assets |-> <<Token, Coin1>>]
pair2 == [contract |-> P2, lp |-> Lp2, assets |-> <<Coin1, Coin2>>]

(* A mode: the application, whether the height is past the upgrade of the  *)
(* pair contract (v2), and whether events carry a message index attribute  *)
(* instead of being listed per message (sdk50).                            *)
Terraswap == {"columbusv1", "columbusv2", "phoenix"}
Modes == {m \in [app : Terraswap \cup {"dezswap", "starfleit"}, v2 : BOOLEAN, sdk50 : BOOLEAN] :
             /\ m.v2 => m.app \in {"dezswap", "starfleit"}
             /\ m.app = "columbusv1" => ~m.sdk50}

-----------------------------------------------------------------------------
(* Events. *)

At(key, val) == [key |-> key, val |-> val]
Ev(type, attrs) == [type |-> type, attrs |-> attrs]
Contract(mode, addr, action, attrs) ==
    IF mode.app = "columbusv1"
    THEN Ev("from_contract", <<At("contract_address", addr), At("action", action)>> \o attrs)
    ELSE Ev("wasm", <<At("_contract_address", addr), At("action", action)>> \o attrs)

Bank(from, to, coins) ==
    Ev("transfer", <<At("recipient", to), At("sender", from), At("amount", coins)>>)
BankUnsigned(to, coins) == Ev("transfer", <<At("recipient", to), At("amount", coins)>>)

TokenTransfer(mode, from, to, amt) ==
    Contract(mode, Token, "transfer", <<At("from", from), At("to", to), At("amount", amt)>>)
TokenSend(mode, token, from, to, amt) ==
    Contract(mode, token, "send", <<At("from", from), At("to", to), At("amount", amt)>>)
TokenTransferFrom(mode, from, to, amt) ==
    Contract(mode, Token, "transfer_from",
             <<At("from", from), At("to", to), At("by", to), At("amount", amt)>>)
(* A transfer whose event tells of a fee. *)
TokenTransferWithFee(mode, from, to, amt, fee) ==
    Contract(mode, Token, "transfer", <<At("from", from), At("to", to), At("amount", amt),
                                        At("cw20_tax_amount", fee)>>)

(* Contracts emit a mint and a burn in the order the application's rules   *)
(* expect.                                                                 *)
Mint(mode, lp, to, amt) == Contract(mode, lp, "mint", <<At("amount", amt), At("to", to)>>)
Burn(mode, lp, from, amt) ==
    Contract(mode, lp, "burn",
             IF mode.app \in {"dezswap", "phoenix"} THEN <<At("amount", amt), At("from", from)>>
             ELSE <<At("from", from), At("amount", amt)>>)

Swap(mode, receiver, offer, ask, taxKey) ==
    Contract(mode, P1, "swap",
        (IF mode.app = "columbusv1" THEN <<>> ELSE <<At("sender", User), At("receiver", receiver)>>)
        \o <<At("offer_asset", offer.addr), At("ask_asset", ask.addr),
             At("offer_amount", offer.amt), At("return_amount", ask.amt)>>
        \o (IF mode.app = "columbusv1" \/ taxKey > 0 THEN <<At("tax_amount", taxKey)>> ELSE <<>>)
        \o <<At("spread_amount", 0), At("commission_amount", 0)>>)

(* From version 2 on a pair gives back what a provide offers too much of:  *)
(* the coin with a transfer, the token by taking less.                     *)
Refunds(mode) == mode.v2 \/ mode.app \in {"columbusv2", "phoenix"}
TokenRefund(mode) == IF Refunds(mode) /\ mode.app # "starfleit" THEN 2 ELSE 0
CoinRefund(mode)  == IF Refunds(mode) THEN 1 ELSE 0

Provide(mode, pair, assets, refund, share) ==
    Contract(mode, pair, "provide_liquidity",
        (IF mode.app = "columbusv1" THEN <<>> ELSE <<At("sender", User), At("receiver", User)>>)
        \o <<At("assets", assets), At("share", share)>>
        \o (IF Refunds(mode) THEN <<At("refund_assets", refund)>> ELSE <<>>))

Withdraw(mode, share, refund) ==
    Contract(mode, P1, "withdraw_liquidity",
        (IF mode.app = "columbusv1" THEN <<>> ELSE <<At("sender", User)>>)
        \o <<At("withdrawn_share", share), At("refund_assets", refund)>>)

-----------------------------------------------------------------------------
(* Operations. *)

TerraswapOps == {"swap_to_pair", "gift_with_fee"}
TaxOps       == {"swap_tax_key", "swap_tax_paid"}
SecondPairOps == {"provide_first", "provide_joint", "swap_to_pair"}
Ops == {"swap_coin_in", "swap_token_in", "swap_fee_out", "provide", "withdraw", "burn_lp",
        "gift_token", "gift_coin", "gift_unsigned", "irregular", "foreign_coin",
        "foreign_token", "empty_amount", "create_pair"}
       \cup TerraswapOps \cup TaxOps \cup SecondPairOps

Gifts == {"gift_token", "gift_coin", "gift_unsigned"}

(* Which application's chain has which operation. *)
Offered(mode, op) ==
    /\ op \in TerraswapOps => mode.app \in Terraswap
    /\ op = "swap_tax_key" => mode.app = "columbusv1" \/ (mode.app = "columbusv2" /\ ~mode.sdk50)
    /\ op = "swap_tax_paid" => mode.app = "columbusv2"
    /\ op = "burn_lp" => mode.app # "columbusv1"

Events(mode, op) ==
    CASE op = "swap_coin_in" ->
            <<Bank(User, P1, <<Coin(Coin1, 7)>>), Swap(mode, User, Coin(Coin1, 7), Coin(Token, 3), 0),
              TokenTransfer(mode, P1, User, 3)>>
      [] op = "swap_fee_out" ->
            <<Bank(User, P1, <<Coin(Coin1, 7)>>), Swap(mode, User, Coin(Coin1, 7), Coin(Token, 3), 0),
              TokenTransfer(mode, P1, User, 2)>>
      [] op = "swap_token_in" ->
            <<TokenSend(mode, Token, User, P1, 6), Swap(mode, User, Coin(Token, 6), Coin(Coin1, 4), 0),
              Bank(P1, User, <<Coin(Coin1, 4)>>)>>
      [] op = "swap_to_pair" ->
            <<TokenSend(mode, Token, User, P1, 6), Swap(mode, P2, Coin(Token, 6), Coin(Coin1, 4), 0),
              Bank(P1, P2, <<Coin(Coin1, 4)>>)>>
      [] op = "swap_tax_key" ->
            <<TokenSend(mode, Token, User, P1, 6), Swap(mode, User, Coin(Token, 6), Coin(Coin1, 9), 1),
              Bank(P1, User, <<Coin(Coin1, 8)>>)>>
      [] op = "swap_tax_paid" ->
            <<TokenSend(mode, Token, User, P1, 6), Swap(mode, User, Coin(Token, 6), Coin(Coin1, 9), 0),
              Bank(P1, User, <<Coin(Coin1, 8)>>), Bank(P1, Collector, <<Coin(Coin1, 1)>>),
              Ev("tax_payment", <<At("reverse_charge", TRUE), At("tax_amount", Coin(Coin1, 1))>>)>>
      [] op = "provide" ->
            <<Bank(User, P1, <<Coin(Coin1, 10)>>),
              Provide(mode, P1, <<Coin(Coin1, 10), Coin(Token, 20)>>,
                      <<Coin(Coin1, CoinRefund(mode)), Coin(Token, TokenRefund(mode))>>, 15),
              TokenTransferFrom(mode, User, P1, 20 - TokenRefund(mode))>>
            \o (IF Refunds(mode) THEN <<Bank(P1, User, <<Coin(Coin1, 1)>>)>> ELSE <<>>)
            \o <<Mint(mode, Lp1, User, 15)>>
      [] op = "provide_first" ->
            <<Bank(User, P2, <<Coin(Coin1, 12), Coin(Coin2, 13)>>),
              Provide(mode, P2, <<Coin(Coin1, 12), Coin(Coin2, 13)>>,
                      <<Coin(Coin1, 0), Coin(Coin2, 0)>>, 14)>>
            \o (IF mode.app = "columbusv1" THEN <<>> ELSE <<Mint(mode, Lp2, P2, 1)>>)
            \o <<Mint(mode, Lp2, User, 14)>>
      [] op = "provide_joint" ->
            <<Bank(User, P2, <<Coin(Coin1, 16), Coin(Coin2, 17)>>),
              Provide(mode, P2, <<Coin(Coin1, 16), Coin(Coin2, 17)>>,
                      <<Coin(Coin1, 0), Coin(Coin2, 0)>>, 18), Mint(mode, Lp2, User, 18)>>
      [] op = "withdraw" ->
            <<TokenSend(mode, Lp1, User, P1, 8), Withdraw(mode, 8, <<Coin(Token, 5), Coin(Coin1, 14)>>),
              TokenTransfer(mode, P1, User, 5), Bank(P1, User, <<Coin(Coin1, 14)>>),
              Burn(mode, Lp1, P1, 8)>>
      [] op = "burn_lp"       -> <<Burn(mode, Lp1, User, 19)>>
      [] op = "gift_token"    -> <<TokenTransfer(mode, User, P1, TokenGift)>>
      [] op = "gift_with_fee" -> <<TokenTransferWithFee(mode, User, P1, 24, 3)>>
      [] op = "gift_coin"     -> <<Bank(User, P1, <<Coin(Coin1, 22)>>)>>
      [] op = "gift_unsigned" -> <<BankUnsigned(P1, <<Coin(Coin1, 23)>>)>>
      [] op = "irregular"     ->
            <<Contract(mode, Token, "transfer", <<At("from", User), At("to", Friend),
                                                  At("amount", 25), At("amount", 26)>>)>>
      [] op = "foreign_coin"  -> <<Bank(User, P1, <<Coin(Foreign, 27)>>)>>
      [] op = "foreign_token" ->
            <<Contract(mode, ForeignToken, "transfer",
                       <<At("from", User), At("to", P1), At("amount", 28)>>)>>
      [] op = "empty_amount"  -> <<Bank(User, Friend, None)>>
      [] op = "create_pair"   ->
            <<Contract(mode, Factory, "create_pair", <<At("pair", pair2.assets)>>),
              IF mode.app = "columbusv1"
              THEN Ev("from_contract", <<At("contract_address", P2), At("liquidity_token_addr", Lp2)>>)
              ELSE Ev("wasm", <<At("_contract_address", P2), At("liquidity_token_addr", Lp2)>>)>>
      [] op = "nothing" -> <<>>

(* What the operation adds to a pool: the first asset, the second, the LP  *)
(* tokens in circulation.                                                  *)
Effect(mode, op, pair) ==
    CASE pair = P1 /\ op \in {"swap_coin_in", "swap_fee_out"}  -> <<0 - 3, 7, 0>>
      [] pair = P1 /\ op \in {"swap_token_in", "swap_to_pair"} -> <<6, 0 - 4, 0>>
      [] pair = P2 /\ op = "swap_to_pair"   -> <<4, 0, 0>>
      [] pair = P1 /\ op = "swap_tax_key"   -> <<6, 0 - 8, 0>>
      [] pair = P1 /\ op = "swap_tax_paid"  -> <<6, 0 - 9, 0>>
      [] pair = P1 /\ op = "provide"        -> <<20 - TokenRefund(mode), 10 - CoinRefund(mode), 15>>
      [] pair = P2 /\ op = "provide_first"  -> <<12, 13, IF mode.app = "columbusv1" THEN 14 ELSE 15>>
      [] pair = P2 /\ op = "provide_joint"  -> <<16, 17, 18>>
      [] pair = P1 /\ op = "withdraw"       -> <<0 - 5, 0 - 14, 0 - 8>>
      [] pair = P1 /\ op = "burn_lp"        -> <<0, 0, 0 - 19>>
      [] pair = P1 /\ op = "gift_token"     -> <<TokenGift, 0, 0>>
      [] pair = P1 /\ op = "gift_with_fee"  -> <<21, 0, 0>>
      [] pair = P1 /\ op = "gift_coin"      -> <<0, 22, 0>>
      [] pair = P1 /\ op = "gift_unsigned"  -> <<0, 23, 0>>
      [] OTHER                              -> <<0, 0, 0>>
=============================================================================
