\* One delivery beside one quote worker; one order with two heartbeats;
\* one trigger with three ticks; one trade of two lots with two heartbeats;
\* one order in nine markets, from seven analyses and operator orders.
SPECIFICATION MCSpec
CONSTANTS
  Parts = {"quote", "pending", "hierarchy", "accounting", "pricing"}
  Hardships = 2
  Loops = {l1}
  Deliveries = {d1}
  MaxAttempts = 2
  MaxQuoteFaults = 1
  Heartbeats = {b1, b2}
  LeaseTicks = 1
  Deadline = 2
  Horizon = 3
  SourceEnds = {1, 2}
  MaxPendingFaults = 1
  HierarchyTicks = {w1, w2, w3}
  MaxTriggerAttempts = 3
  MaxResends = 2
  MaxHierarchyFaults = 1
  Lots = 2
  Beats = {b1, b2}
  MaxAccountingFaults = 1
  Tick = 2
  MaxLots = 25
  GoldAllowance = 4
  Shares <- PricingShares
  Markets <- PricingMarkets
  Setups <- PricingSetups
  Candidates <- PricingCandidates
  MaxQuotes = 2
INVARIANTS TradingTypeOK TradingSafe
PROPERTIES PermissionOnlyShrinks ResolvedStays TradingSettles
CHECK_DEADLOCK FALSE
