SPECIFICATION Spec
CONSTANTS
    Top = 1
    HwAddrs = {1}
    Words = {3}
    DIGITS = 2
    BASE = 2
    BUF_MAX = 5
    HW_UNITS = 2
    Requests = {"p", "P", "P npc", "g", "m", "M", "X", "Z0", "z0", "Z1", "z1", "c", "c addr", "s", "R", "vRun", "readspr", "writespr", "?", "other"}
    MaxMissed = 1
    MayFail = {"reg", "mem", "bp"}
INVARIANT TypeOK ReadsTrue TextKept
PROPERTY InstructionsInOrder
