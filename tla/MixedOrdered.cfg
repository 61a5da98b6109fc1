SPECIFICATION FairSpec
CONSTANTS
    c1 = c1
    c2 = c2
    x = x
    y = y
    Clients = {c1, c2}
    Objects = {x, y}
    NPhases = 2
    CanAbort <- StrongOnly
    RunRemotely <- StrongAndCausal
    Serializable <- StrongOnly
    Program <- OrderedProgram
    MaxRuns = 2
    MayLose = FALSE
    NoClient = NoClient
    NoSnapshot = NoSnapshot
INVARIANTS
    WriteAtomicity
PROPERTIES
    CallReturns
    CommittedWritesComplete
    ImplementsAtomicPhases
CHECK_DEADLOCK FALSE
