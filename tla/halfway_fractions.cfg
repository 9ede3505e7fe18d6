CONSTANTS
  Calls <- HalfwayCalls
  IntBits = 8
  NtoaSize = 8
  FtoaSize = 16
  MaxFloat = 2000000
  HighPowers = {2, 3, 5, 6, 8, 9}
  Memory = 40
SPECIFICATION PrintfSpec
INVARIANTS PrintsNearbyDecimal
CHECK_DEADLOCK FALSE
