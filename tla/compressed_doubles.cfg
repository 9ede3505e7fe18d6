CONSTANTS
  NoInstr = NoInstr
SPECIFICATION DecodeSpec
INVARIANTS ExpandsDoubles
CHECK_DEADLOCK FALSE
