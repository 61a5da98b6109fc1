SPECIFICATION Spec
CONSTANTS
    Names <- MCNames
    Members <- MCMembers
    Ops <- OneCharacterOps
    Parenthesised = TRUE
    MaxExpSteps = 2
    MaxSteps = 3
INVARIANT ParsedAsWritten
CHECK_DEADLOCK FALSE
