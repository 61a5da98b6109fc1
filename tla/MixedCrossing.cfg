SPECIFICATION Spec
CONSTANTS
    c1 = c1
    c2 = c2
    x = x
    y = y
    Clients = {c1, c2}
    Objects = {x, y}
    NPhases = 2
    CanAbort <- StrongOnly
    RunRemotely <- StrongAndCausal
    Serializable <- StrongOnly
    Program <- CrossingProgram
    MaxRuns = 1
    MayLose = FALSE
    NoClient = NoClient
    NoSnapshot = NoSnapshot
INVARIANTS
    WriteAtomicity
CHECK_DEADLOCK FALSE
