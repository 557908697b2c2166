CONSTANTS
    AddrMod = 2
    Operands = {}
    MstatusOperands <- LoopMstatusOperands
    IntOperands <- LoopIntOperands
    MipOperands <- LoopMipOperands
    MedelegOperands = {}
    Lines = {3, 7}
    FetchCauses = {12}
    ExecCauses = {}
    HalfMod = 2
    Data = {0, 1}
    TimeCap = 1
    Quantum = 1
SPECIFICATION MSpec
INVARIANTS
    MTypeOK
    NoEnabledInterruptIgnored
PROPERTIES
    LowModesKeepMachineState
    InterruptGate
    HartSpec
    ClintSpec
    DeadlineNoticed
    TimerReachesFirmware
CHECK_DEADLOCK FALSE
