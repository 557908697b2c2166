CONSTANTS
    AddrMod = 4
    Operands = {1}
    MstatusOperands <- RetMstatusOperands
    IntOperands <- RetIntOperands
    MipOperands = {}
    MedelegOperands <- RetMedelegOperands
    Lines = {7}
    FetchCauses = {}
    ExecCauses = {13}
SPECIFICATION HSpec
INVARIANTS
    TypeOK
    MprvOnlyInMachineMode
    PcAligned
PROPERTIES
    PrivilegeRisesOnlyAtVector
    MachineTrapTransparent
    SupervisorTrapTransparent
