CONSTANTS
  Keys = {k1, k2, k3}
  Handles = {h1, h2, h3, h4, h5}
  NoKey = NoKey
  NoHandle = NoHandle
  Capacity = 2
  MaxPins = 2
SPECIFICATION PartsSpec
CHECK_DEADLOCK FALSE
INVARIANTS RefsExact AccountsExact GetFinds
PROPERTIES EvictsOldestAndOnlyWhenFull BlockCallsLand IteratesSnapshot
