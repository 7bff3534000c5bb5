SPECIFICATION FairSpec
CONSTANTS
  NoCart = NoCart
  NoChip = NoChip
  Outdated = Outdated
  MaxTries = 2
  Price = 5
  Terms <- McTerms
  Stock = 2
  MaxItems = 2
  MaxOrders = 2
  MaxCalls = 1
INVARIANTS TypeOK TotalsAddUp OrderedOnce
PROPERTIES OutcomeShown ChargedAsShown
