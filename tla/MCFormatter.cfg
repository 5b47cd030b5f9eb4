SPECIFICATION Spec
CONSTANTS
    Inputs <- AllInputs
    Widths = {8, 12, 16, 20, 24, 28, 32, 36, 40, 48, 60, 72}
    SingleLineIfMax = 20
INVARIANTS
    SourceKept
    CheckPasses
    FlatLinesFit
CHECK_DEADLOCK FALSE
