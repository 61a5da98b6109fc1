SPECIFICATION Spec
CONSTANTS
    s1 = s1
    s2 = s2
    c1 = c1
    c2 = c2
    Programs <- PassingPrograms
    Objects = {s1, s2, c1, c2}
    ObjectLabel <- Labelling
    InitialValues = {1, 2}
    MaxAborts = 1
    MaxWrites = 1
    Written = 3
INVARIANT SplitMeansUnsplit
INVARIANT CommittedEffectsStand
INVARIANT ReadsAreDefined
INVARIANT TrackedWrites
INVARIANT LabelsAreLeast
PROPERTY BoundByOnePhase
CHECK_DEADLOCK FALSE
