CONSTANTS
  NEXP = 8
  NSIG = 23
  Number_Of_Runs = 20
  Garbage = {0, 1, 7}
  NoCall = NoCall
  Calls <- MCCalls
  IntBits = 8
  NtoaSize = 8
  FtoaSize = 16
  MaxFloat = 2000000
  HighPowers = {2, 3, 5, 6, 8, 9}
  Memory = 40
  Base = 4
  NotRead = NotRead
SPECIFICATION ImageSpec
INVARIANTS
  DivisionsMatchTable EveryTestPasses
  AfterComments FinalValues
  PrintsAsInC BufferHoldsPrefix ArgumentsInStep
  ReadsOneMoment AtLeastOneClock
CHECK_DEADLOCK FALSE
