CONSTANTS
    Fns <- MCFns
    Sigs <- MCSigs
    Records <- MCRecords
    Impls <- MCImpls
    Inherent <- MCInherent
    TraitMethods <- MCTraitMethods
    MaxDepth = 2
SPECIFICATION Spec
INVARIANTS
    AcceptedBodiesFit
    ConstIsNoClock
PROPERTIES
    UndecidedIsKept
    Terminates
CHECK_DEADLOCK FALSE
