SPECIFICATION FairSpec
CONSTANTS
  Loads = {l1, l2}
  MaxProviders = 3
  Kind <- Kinds
  Order <- Orders
  Identifier <- Identifiers
PROPERTIES
  EveryLoadGoesOn
CHECK_DEADLOCK FALSE
