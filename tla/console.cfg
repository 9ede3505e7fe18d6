CONSTANTS
  Program <- MCProgram
  Ram <- MCRam
  Junk = 77
  Baud = 4
  InitialBaud = 6
  Bits = 8
  m_baud_counts = 4
  m_nbits = 8
  MaxResets = 1
SPECIFICATION Spec
INVARIANTS CallReturns DeliversInOrder MissesOnlyFirst
PROPERTIES EverythingArrives
