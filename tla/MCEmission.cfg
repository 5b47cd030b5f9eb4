CONSTANTS
    Crates <- MCCrates
    ScalarHeads <- MCScalarHeads
    MaxInlineDepth = 3
SPECIFICATION Spec
INVARIANTS
    InlineCheckExact
    NoRecursiveSplice
    EveryInstanceHasAModule
    InstancesReachTheirCallee
    WrittenWhole
PROPERTY Terminates
