CONSTANTS
  c1 = c1
  c2 = c2
  ann = ann
  bob = bob
  s1 = s1
  build = build
  test = test
  Clients = {ann, bob}
  SubIds = {s1}
  Filters <- MCFilters
  NoFilter = NoFilter
  NoTag = NoTag
  MaxSubs = 1
  StoreCap = 1
  Conns = {c1, c2}
  MaxConns = 2
  Burst = 1
  Buses = {"stream"}
  BusCap = 1
  Events <- MCEvents
  NoClient = NoClient
  Configs <- MCConfigs
  MaxWorld = 3
SPECIFICATION Spec
INVARIANT StoreInStep
INVARIANT RevokedForgotten
INVARIANT NothingMissedSilently
INVARIANT ListFollowsFile
CHECK_DEADLOCK FALSE
