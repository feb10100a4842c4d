SPECIFICATION FairSpec
CONSTANTS
  Spots = 3
  PerSpot = 2
  Capacity = 4
  Headers <- MCHeaders
  Birthdays <- MCBirthdays
  Slots <- MCSlots
  LowSlot <- MCLowSlot
  HighSlot <- MCHighSlot
  HostSlot <- MCHostSlot
INVARIANTS
  TypeOK
  FilterExact
  OnlyCollisions
  CollisionsTested
PROPERTIES
  SearchAsPromised
  SearchEnds
CHECK_DEADLOCK FALSE
