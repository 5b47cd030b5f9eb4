SPECIFICATION Spec
CONSTANT Crates <- MCCrates
INVARIANTS
    ModulesAreRight
CHECK_DEADLOCK FALSE
