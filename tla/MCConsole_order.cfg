CONSTANTS
    BUFSIZE = 2
    Plain = {"a", "b"}
    CtrlA = "^A"
    X = "x"
    H = "h"
    Nul = "nul"
    Filler = "0xff"
    MaxLen = 5
    MaxTyped = 2
SPECIFICATION HSpec
INVARIANTS
    InputInOrder
CHECK_DEADLOCK FALSE
