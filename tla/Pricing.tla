------------------------------- MODULE Pricing -------------------------------
(***************************************************************************)
(* What things cost.  The master data has official prices; the server      *)
(* publishes tables with memorial prices, from which the 8.0.0 client      *)
(* computes what it shows, and computes by itself what it charges.         *)
(*                                                                         *)
(* Both sides evaluate the same float32 expressions and truncate; here     *)
(* they are exact.  Increments are fractions.  Prices are per level: level *)
(* n is the one that is bought.                                            *)
(***************************************************************************)
EXTENDS ShopOverlay

CONSTANTS
  UpgradeRow,   \* rows of Skill, Unit and Follower:
                \* [table, id, area, goods, cost, inc, max]
  PropCost,     \* Proplevel: prop -> the official cost of each of its levels
  Official      \* official costs of cosmetics and songs

Goods == {"GP", "GP2", "CP", "Candy"}
CapMin == 10
CapMax == 20
CosmeticPrice == 10

ASSUME PricingAssumption ==
  /\ IsFiniteSet(UpgradeRow) /\ IsFiniteSet(DOMAIN PropCost)
  /\ \A r \in UpgradeRow :
       /\ r.table \in {"Skill", "Unit", "Follower"} /\ r.goods \in Goods
       /\ r.cost \in Nat /\ r.inc \in Nat /\ r.max \in Nat \ {0}
  /\ PropCost \in [DOMAIN PropCost -> Seq(Nat)] /\ \A p \in DOMAIN PropCost : PropCost[p] # <<>>
  /\ Official \subseteq Nat

-----------------------------------------------------------------------------
(* A tenth, rounded up; free stays free.                                   *)
ScaledRequirement(n) == (n + 9) \div 10

(* Chocolate and candy have curves of their own.                           *)
SingleDigit(goods) == goods \in {"CP", "Candy"}

(* The level that costs the base: a skill's first is not bought.           *)
FirstTarget(r) == IF r.table = "Skill" THEN 2 ELSE 1

(* inc * k, truncated, and how often an increment is due at level n.       *)
Along(inc, k) == (inc.num * k) \div inc.den
Flat == [num |-> 0, den |-> 1]
StepsTo(n, first) == Max({n - first, 0})

(* premium_upgrade_cap: where a final price lies among its peers', rounded *)
(* half up.                                                                *)
PremiumUpgradeCap(final, prices) ==
  LET low == Min(prices)
      width == Max(prices) - low
  IN IF final = 0 THEN 0
     ELSE IF width = 0 THEN CapMin
     ELSE CapMin + (2 * (CapMax - CapMin) * (final - low) + width) \div (2 * width)

PremiumUpgradeIncrement(max, base, first, cap) ==
  IF base > 0 /\ max > first THEN [num |-> cap - 1, den |-> max - first] ELSE Flat

-----------------------------------------------------------------------------
(* Skills and units.  Peers share table, area and currency.                *)
FinalPrice(r) == r.cost + StepsTo(r.max, FirstTarget(r)) * r.inc

Peers(r) ==
  {q \in UpgradeRow : q.table = r.table /\ q.area = r.area /\ q.goods = r.goods /\ q.cost > 0}

Cap(r) == PremiumUpgradeCap(FinalPrice(r), {FinalPrice(q) : q \in Peers(r)})

PremiumIncrement(r) ==
  IF SingleDigit(r.goods) /\ r.cost > 0
  THEN PremiumUpgradeIncrement(r.max, r.cost, FirstTarget(r), Cap(r))
  ELSE Flat

(* memorial_upgrade_cost: the rank of a price onto 1 .. 10.                *)
MemorialUpgradeCost(rank, count) == IF count = 1 THEN 1 ELSE 1 + (9 * rank) \div (count - 1)

RankedCost(r) ==
  LET costs == {q.cost : q \in {x \in UpgradeRow : x.table = r.table /\ x.goods = r.goods}} \ {0}
  IN MemorialUpgradeCost(Cardinality({c \in costs : c < r.cost}), Cardinality(costs))

MappedUpgradeCost(r) ==
  IF r.cost = 0 THEN 0
  ELSE IF ~ SingleDigit(r.goods) THEN ScaledRequirement(r.cost)
  ELSE IF r.table = "Follower" THEN RankedCost(r)
  ELSE 1

(* transform_master_value: cost and costincreasevalue of the tables that   *)
(* are published.  costincreasevalue is taken to be a column of reals, as  *)
(* in the game's tables: scalar_like rounds an integer or a text up.       *)
Published(r) ==
  [cost |-> MappedUpgradeCost(r),
   inc  |-> IF ~ SingleDigit(r.goods) THEN [num |-> r.inc, den |-> 10]
            ELSE IF r.table = "Follower" THEN Flat
            ELSE PremiumIncrement(r)]

(* The client: base + max(n - first, 0) * increment, as an integer.        *)
Shown(r, n) == Published(r).cost + Along(Published(r).inc, StepsTo(n, FirstTarget(r)))

(* content_purchase_spec and purchase_content: the level is read in the    *)
(* transaction; without an increment the price is the base.                *)
ContentPurchaseSpec(r) ==
  [price |-> MappedUpgradeCost(r), max |-> r.max,
   inc |-> IF r.table = "Follower" THEN Flat ELSE PremiumIncrement(r)]

FromFirstLevel(r, level) ==        \* mutant of Charged: the unit's offset for skills
  ContentPurchaseSpec(r).price + Along(ContentPurchaseSpec(r).inc, StepsTo(level + 1, 1))

Charged(r, level) ==
  ContentPurchaseSpec(r).price
    + Along(ContentPurchaseSpec(r).inc, StepsTo(level + 1, FirstTarget(r)))

-----------------------------------------------------------------------------
(* Furniture: prop_price_curve, from the explicit table of its levels.     *)
TopCost(p) == Max({PropCost[p][i] : i \in DOMAIN PropCost[p]})

PropPriceCurve(p) ==
  PremiumUpgradeIncrement(Len(PropCost[p]), TopCost(p), 1,
    PremiumUpgradeCap(TopCost(p), {TopCost(q) : q \in DOMAIN PropCost} \ {0}))

(* mapped_upgrade_cost of a row of Proplevel; getVarietyStore, which asks  *)
(* for the next level; and buyVarietyStore.                                *)
PublishedProp(p, n) ==
  IF PropCost[p][n] = 0 THEN 0 ELSE 1 + Along(PropPriceCurve(p), StepsTo(n, 1))

QueriedProp(p, level) == 1 + Along(PropPriceCurve(p), level)

ChargedProp(p, level) == 1 + Along(PropPriceCurve(p), StepsTo(level + 1, 1))

-----------------------------------------------------------------------------
(* Costumes and guitars, published as they are charged; songs.             *)
CosmeticPriceText(goods, official) ==
  IF official = 0 THEN 0
  ELSE IF goods \in {"GP", "GP2"} THEN ScaledRequirement(official)
  ELSE CosmeticPrice

PublishedCosmetic(goods, official) ==
  IF official # 0 THEN CosmeticPriceText(goods, official) ELSE official

PublishedUnlock(official) == ScaledRequirement(official)

ChargedMusic(official) == IF official = 0 THEN 0 ELSE ScaledRequirement(official)

-----------------------------------------------------------------------------
(* What the client shows is what it is charged, at every level of every    *)
(* row, though tables, queries and purchases compute it in three places    *)
(* (docs/REV86_CURVES_STARTUP_QA.md: "now use the same per-prop curve").   *)
(* Rows of a progression currency that has an increment are left out:      *)
(* those the client pays by itself, and buyContents would charge the base. *)
ShownIsCharged ==
  /\ \A r \in UpgradeRow : \A n \in FirstTarget(r) .. r.max :
       SingleDigit(r.goods) \/ r.inc = 0 => Charged(r, n - 1) = Shown(r, n)
  /\ \A p \in DOMAIN PropCost : \A n \in DOMAIN PropCost[p] :
       PropCost[p][n] > 0 => /\ ChargedProp(p, n - 1) = PublishedProp(p, n)
                             /\ QueriedProp(p, n - 1) = PublishedProp(p, n)
  /\ \A o \in Official : /\ ChargedMusic(o) = PublishedUnlock(o)
                         /\ \A g \in Goods : CosmeticPriceText(g, o) = PublishedCosmetic(g, o)

(* Premium curves start at 1, never fall, and end between 10 and 20, among *)
(* peers in the order of the official final prices: the lowest ends at 10  *)
(* and, if there is a higher one, the highest at 20; for the rows of Skill *)
(* and Unit and for furniture (docs/REV86_CURVES_STARTUP_QA.md).           *)
OnCurve(r) == r.cost > 0 /\ SingleDigit(r.goods) /\ r.table # "Follower" /\ r.max > FirstTarget(r)
RowCurve(r) == [n \in FirstTarget(r) .. r.max |-> Charged(r, n - 1)]

Furniture == {p \in DOMAIN PropCost : TopCost(p) > 0}
PropCurve(p) == [n \in DOMAIN PropCost[p] |-> ChargedProp(p, n - 1)]

Fair(curve, first, last, final, finals) ==
  /\ curve[first] = 1
  /\ \A n \in first .. last - 1 : curve[n] <= curve[n + 1]
  /\ curve[last] \in CapMin .. CapMax
  /\ final = Min(finals) => curve[last] = CapMin
  /\ final = Max(finals) /\ Cardinality(finals) > 1 => curve[last] = CapMax

CurvesAreFair ==
  /\ \A r \in {x \in UpgradeRow : OnCurve(x)} :
       LET peers == {q \in UpgradeRow : q.cost > 0 /\ <<q.table, q.area, q.goods>>
                                                     = <<r.table, r.area, r.goods>>}
       IN /\ Fair(RowCurve(r), FirstTarget(r), r.max, FinalPrice(r), {FinalPrice(q) : q \in peers})
          /\ \A q \in {x \in peers : OnCurve(x)} :
               FinalPrice(r) <= FinalPrice(q) => RowCurve(r)[r.max] <= RowCurve(q)[q.max]
  /\ \A p \in {x \in Furniture : Len(PropCost[x]) > 1} :
       /\ Fair(PropCurve(p), 1, Len(PropCost[p]), TopCost(p), {TopCost(q) : q \in Furniture})
       /\ \A q \in {x \in Furniture : Len(PropCost[x]) > 1} :
            TopCost(p) <= TopCost(q)
            => PropCurve(p)[Len(PropCost[p])] <= PropCurve(q)[Len(PropCost[q])]
=============================================================================
