CONSTANTS
  NEXP = 3
  NSIG = 3
  Idle = Idle
  NoInstr = NoInstr
  NWords = 2
  Byte <- MCByte
  Negative <- MCNegative
  Zeros = 0
  Ones = 255
  ByteOne = 1
  Contents <- MCContents
  PowerOn <- MCPowerOn
  MaxAccesses = 3
SPECIFICATION PathSpec
INVARIANTS
  RoundsCorrectly RoundsToANeighbour RootIsANeighbour ComparesValues UlpsCountFloats
  ExpandsAsEncoded
PROPERTIES
  ImplementsBytes
CHECK_DEADLOCK FALSE
