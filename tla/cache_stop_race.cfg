SPECIFICATION ManagerSpec
CONSTANTS
    MgrCallers = {c1, c2}
    Stores = {s1}
    Runs = {r1, r2}
    SerialCalls = FALSE
    NoRun = NoRun
SYMMETRY Symmetric
INVARIANT StopEndsLoops
