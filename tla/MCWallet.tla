------------------------------ MODULE MCWallet ------------------------------
(* A costume sold for likes, a prop for candy, a follower the client       *)
(* raises, at the prices Pricing computes; products of each kind, likes    *)
(* for advertisements at two levels; a conversation whose index restarts.  *)
(* Official prices: three skills for chocolate and one for likes, units of *)
(* two areas, followers, a free row, props of different length; two free   *)
(* products and a shop row of the game's own.                              *)
EXTENDS PricedWallet, TLC

OfRow(table, id, area, goods, cost, inc, max) ==
  [table |-> table, id |-> id, area |-> area, goods |-> goods, cost |-> cost,
   inc |-> inc, max |-> max]

MCUpgradeRow ==
  {OfRow("Skill", 1, 1, "CP", 100, 10, 20), OfRow("Skill", 2, 1, "CP", 200, 15, 20),
   OfRow("Skill", 3, 1, "CP", 150, 40, 6), OfRow("Skill", 4, 1, "CP", 0, 0, 1),
   OfRow("Skill", 5, 2, "CP", 500, 0, 20), OfRow("Skill", 6, 2, "GP", 75, 0, 5),
   OfRow("Unit", 1, 1, "CP", 400, 20, 20), OfRow("Unit", 2, 2, "CP", 300, 25, 7),
   OfRow("Unit", 3, 2, "CP", 300, 5, 7), OfRow("Unit", 4, 2, "Candy", 90, 0, 3),
   OfRow("Follower", 1, 1, "GP", 10, 0, 1), OfRow("Follower", 2, 1, "CP", 60, 30, 3),
   OfRow("Follower", 3, 1, "CP", 90, 0, 3), OfRow("Follower", 4, 2, "CP", 70, 0, 1)}

MCPropCost ==
  1 :> <<20, 45>> @@ 2 :> <<10, 10, 30, 280>> @@ 3 :> [n \in 1 .. 20 |-> 32 * n] @@ 4 :> <<7>>

MCOfficial == {0, 1, 10, 11, 70, 999}

MCManifest == "cp" :> <<"chocolate">> @@ "mix" :> <<"chocolate", "candy">>

MCContent == {"costume", "prop", "follower"}
MCCurrencyOf == [c \in MCContent |-> IF c = "prop" THEN "candy" ELSE "like"]
MCPrice == [c \in MCContent |-> IF c = "prop" THEN <<1, 11>> ELSE <<1>>]
MCSold == {"costume", "prop"}
MCRaised == {"follower"}
MCSaved == {"costume", "follower"}
MCItem == {"likes", "candy", "dress"}
MCAdThreshold == <<0, 1>>
Holding(like, candy, content) == [like |-> like, candy |-> candy, content |-> content]
MCGift ==
  "likes" :> <<Holding(1, 0, {}), Holding(2, 0, {})>> @@ "candy" :> <<Holding(0, 12, {})>>
    @@ "dress" :> <<Holding(0, 0, {"costume"})>>
MCPackage == {"prop"}
MCPage == <<<<0, 0>>, <<0, 1>>, <<1, -1>>>>

(* The prices of the wallet are those of the catalog.                      *)
ASSUME PricesAreComputed ==
  /\ MCPrice["costume"] = <<CosmeticPriceText("GP", 10)>>
  /\ MCPrice["prop"] = <<ChargedProp(1, 0), ChargedProp(1, 1)>>
  /\ \E r \in UpgradeRow : r.table = "Follower" /\ r.goods = "GP" /\ MCPrice["follower"] = <<Shown(r, 1)>>

(* No product holds the follower that the client raises by itself.         *)
ASSUME ProductsAreOfTheServer == RaisedAreNotGiven
=============================================================================
