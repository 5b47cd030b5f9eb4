SPECIFICATION Spec
CONSTANTS
    Bodies <- SomeBodies
    MaxDepth = 1
    Runtime = Runtime
    Elided = Elided
INVARIANTS
    NoElementTwice
    MultipleIsGenuine
    EachDriverCounted
    EveryElementDriven
