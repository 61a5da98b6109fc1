SPECIFICATION Spec
CONSTANTS
    s1 = s1
    s2 = s2
    c1 = c1
    c2 = c2
    Programs <- UnshippedMap
    Objects = {s1, s2, c1, c2}
    ObjectLabel <- Labelling
    InitialValues = {1, 2}
    MaxAborts = 0
    MaxWrites = 0
    Written = 3
INVARIANT
    ReadsAreDefined
CHECK_DEADLOCK FALSE
