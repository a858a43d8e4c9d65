SPECIFICATION Spec
CONSTANTS
  Content <- MCContent
  CurrencyOf <- MCCurrencyOf
  Price <- MCPrice
  Sold <- MCSold
  Raised <- MCRaised
  Saved <- MCSaved
  Item <- MCItem
  Gift <- MCGift
  AdItem = {"likes"}
  AdThreshold <- MCAdThreshold
  Package <- MCPackage
  UpgradeRow <- MCUpgradeRow
  PropCost <- MCPropCost
  Official <- MCOfficial
  Manifest <- MCManifest
  Other = {"official"}
  Grant = {"chocolate", "candy"}
  Number = {1, 2}
  Receipt = {rc}
  NoReceipt = none
  Page <- MCPage
  MaxPlay = 1
  MaxLogin = 2
  MaxSeq = 2
  MaxWire = 2
INVARIANTS OwnedHasLevel CandyIsKept LikesAreKept PurchasesGrantOnce PricesHold
PROPERTIES TalkGoesForward
CHECK_DEADLOCK FALSE
