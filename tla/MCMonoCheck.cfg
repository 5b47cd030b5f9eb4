SPECIFICATION Spec
CONSTANTS
    Crates <- SomeCrates
    Fuel = 2
    Budget = 5
    MaxSteps = 6
    WideWidth = 4
    Open = Open
    Failed = Failed
INVARIANTS
    ReportsExact
CHECK_DEADLOCK FALSE
