CONSTANTS
    HalfMod = 4
    Data = {0, 1, 2, 3}
    TimeCap = 7
SPECIFICATION HSpec
INVARIANTS
    TypeOK
    PendingHasReason
    DeadlineAsWritten
