SPECIFICATION Spec
CONSTANTS
    fdiv = fdiv
    fsqrt = fsqrt
    x1 = x1
    x2 = x2
    nan = nan
    Other = Other
    Unit <- MCUnit
    Operand <- MCOperand
    Special <- MCSpecial
    Cycles <- MCCycles
    Spacing = 2
INVARIANTS
    LeavesWithOwnResult
PROPERTIES
    KeepsGoing
    ReportsInTime
