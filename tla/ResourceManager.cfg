SPECIFICATION FairSpec
CONSTANTS
  Loads = {l1, l2}
  MaxProviders = 3
  Kind <- Kinds
  Order <- Orders
  Identifier <- Identifiers
INVARIANTS
  NoDanglingEntry
  CancelledIsIgnored
  NobodySkipped
  LoadsAreOwed
PROPERTIES
  CalledInOrder
  LoadsGoOn
  RemovedEntriesGo
  ImplementsWalk
CHECK_DEADLOCK FALSE
