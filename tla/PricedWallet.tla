---------------------------- MODULE PricedWallet ----------------------------
(***************************************************************************)
(* A wallet beside the catalog its contents are sold from.  The catalog is *)
(* computed once, at the start, and serves every purchase.                 *)
(***************************************************************************)
EXTENDS Wallet, Pricing

(* Prices and free products do not change while the server runs: they are  *)
(* looked at once, in the first state.  What a player meets is what the    *)
(* policy says, and its free products are free (content_purchase_spec,     *)
(* transform_master_value, apply_memorial_shop_policy).                    *)
PricesHold == Init => ShownIsCharged /\ CurvesAreFair /\ FreeShopIsWhole
=============================================================================
