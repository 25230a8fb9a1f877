\* Days three and four of two-day months, and five policies that differ in every input.
SPECIFICATION PlanningSpec
CONSTANTS
  price = price
  nav = nav
  none = none
  s1 = s1
  s2 = s2
  hist = hist
  spot = spot
  old = old
  fund = fund
  Cadence <- MCCadence
  Refused = {none}
  Rank <- MCRank
  SourceOf <- MCSourceOf
  BulkHistory = {hist}
  BulkSnapshot = {spot}
  Unresolvable = {}
  Identified <- MCIdentified
  Policies <- MCPolicies
  Found <- MCFound
  CapabilityCheck = FALSE
  ChainMax = 2
  SuppressMin = 2
  MonthLength = 2
  Caps = {1, 2, 5, 7}
  TrailingDays = 1
  FirstDate = 3
  LastDay = 4
  MaxPlans = 2
INVARIANTS PlanAccounted SplitPartitions HolesExplained
CHECK_DEADLOCK FALSE
