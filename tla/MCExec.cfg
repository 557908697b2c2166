CONSTANTS
    ByteBits = 2
    ImmShift = 3
    ReadResult <- MCReadResult
    WriteResult <- MCWriteResult
    Ram <- MCRam
    TrapVector = 64
    Program <- MCProgram
    Starts <- MCStarts
    MaxInstr = 1
SPECIFICATION Spec
INVARIANTS
    TypeOK
    ImmediatesSurvive
    ZeroStaysZero
PROPERTIES
    ImplementsIsa
    TrapsArePrecise
CHECK_DEADLOCK FALSE
