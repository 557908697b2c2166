CONSTANTS
    PnMod = 2
    RamPages = {0, 1}
    Ptes <- MCPtes
    Slots <- MCSlots
    Roots = {0, 1}
    Contexts <- MCContexts
SPECIFICATION Spec
INVARIANTS
    TypeOK
    MappingCoherent
    WriteHitsAreDirty
    ReadHitsAreAccessed
    HitsAgreeWithWalk
