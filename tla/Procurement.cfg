SPECIFICATION FairSpec
CONSTANTS
  kit = kit
  plate = plate
  Items = {kit, plate}
  DelayedItems = {plate}
  Price <- PriceList
  SellPrice <- SellList
  Bundles = {1, 2}
  Capacity = 2
  DelayWeeks = 1
  OperatingCost = 1
  HoldingCosts = {0, 1}
  Incomes <- SomeIncome
  Thefts = {0, 1}
  Expenses = {1}
  Payouts = {1}
  StartFunding = 3
  StartFavors = 1
  MaxWeek = 4
  MaxFunding = 2
  MaxOrders = 3
INVARIANTS DistinctRequests
PROPERTIES ContractKept OrdersEnd
