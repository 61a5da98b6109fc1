SPECIFICATION Spec
CONSTANTS
    c1 = c1
    c2 = c2
    x = x
    y = y
    Clients = {c1, c2}
    Objects = {x, y}
    NPhases = 3
    CanAbort <- SecondPhase
    RunRemotely <- LastTwo
    Serializable <- SecondPhase
    Program <- LocalFirstProgram
    MaxRuns = 2
    MayLose = TRUE
    NoClient = NoClient
    NoSnapshot = NoSnapshot
INVARIANTS
    TypeOK
    CommitsArePrefix
    EnvFromCommittedAttempt
    ReturnMeansCommitted
    NoLeftoverLocks
    NoLostUpdate
PROPERTIES
    OnlyCommitsChangeRows
CHECK_DEADLOCK FALSE
