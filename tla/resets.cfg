SPECIFICATION ResetSpec
CONSTANTS
    Word <- MCWord
    Reg <- MCReg
    Csr <- MCCsr
    Fn <- MCFn
    Cells <- MCCells
    CellOf <- MCCellOf
    Plus <- MCPlus
    Even <- MCEven
    UImm <- MCUImm
    Alu <- MCAlu
    Taken <- MCTaken
    Div <- MCDiv
    Fpu <- MCFpu
    FpuLong <- MCFpuLong
    FpuPart <- MCFpuPart
    FpuStale <- MCFpuStale
    LongCycles <- MCLongCycles
    MaxCycles <- MCMaxCycles
    AmoOut <- MCAmoOut
    CsrOut <- MCCsrOut
    CsrMask <- MCCsrMask
    ScResult <- MCScResult
    Delegated <- MCDelegated
    MPP <- MCMPP
    SPP <- MCSPP
    MTrapStatus <- MCMTrapStatus
    STrapStatus <- MCSTrapStatus
    PowerOn <- MCPowerOn
    RamInit <- MCRamInit
    DivBits <- MCDivBits
    Code <- ResetCode
    Size = 16
INVARIANTS
    ResetDrains
    SoundAfterReset
