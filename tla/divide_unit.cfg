SPECIFICATION Spec
CONSTANTS
    Width <- MCWidth
    Pow <- MCPow
INVARIANTS
    DivisionCorrect
PROPERTIES
    DivisionFinishes
