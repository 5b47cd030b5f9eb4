CONSTANTS
    Crates <- MCCrates
    Assocs <- MCAssocs
    GenericArgs <- MCGenericArgs
    InputValues <- MCInputValues
    MaxSteps = 80
    MaxDepth = 3
    RefCalls = 4
SPECIFICATION Spec
INVARIANTS
    AnswersAreRight
    FoldsKeepMeaning
CHECK_DEADLOCK FALSE
