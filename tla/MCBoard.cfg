CONSTANTS
    MAX_ENTRY = 6
    PageSize = 4
    VirtualPages = {1, 2, 3, 4}
    Byte = {0, 1, 2, 3, 4, 5, 6, 7, 9}
    Maps <- MCMaps
    None = None
    NotMapped = None
    RefusedReads = {30}
    RefusedWrites = {29, 30}
    Garbage = {0, 9}
    MaxAccesses = 2
    PlicOffsets <- MCPlicOffsets
    PlicValues = {0, 1}
    RAM_BASE = 8
    RAM_SIZE = 8
    LOWMEM_BASE = 0
    LOWMEM_SIZE = 4
    UART_BASE = 16
    UART_SIZE = 6
    PLIC_BASE = 24
    PLIC_WINDOW = 4
    CLINT_BASE = 28
    CLINT_WINDOW = 4
    DTB_OFFSET = 1
    FW_OFFSET = 8
    INITRD_OFFSET = 12
    Files <- MCFiles
SPECIFICATION Spec
INVARIANTS
    TypeOK
    NeverRunsHalfLoaded
    TerminalGivenBack
    NothingToClaim
PROPERTIES
    FirstPageBytes
    HostMemorySafe
CHECK_DEADLOCK FALSE
