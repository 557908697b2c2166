CONSTANTS
    Tasks = {t1, t2, t3}
    Word = 4
    Scratch = 8
    OnSwitch = "sc"
    MaxDone = 4
SPECIFICATION Spec
INVARIANTS
    NoLostUpdate
