CONSTANTS
    BUFSIZE = 2
    Plain = {"a"}
    CtrlA = "^A"
    X = "x"
    H = "h"
    Nul = "nul"
    Filler = "0xff"
    MaxLen = 5
    MaxTyped = 5
SPECIFICATION HSpec
INVARIANTS
    TypeOK
    EscapeIsAFilter
    NothingInvented
PROPERTIES
    ReceiverSpec
CHECK_DEADLOCK FALSE
