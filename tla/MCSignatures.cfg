SPECIFICATION Spec
CONSTANTS
    Decls <- DeclsMC
    Nominal <- NominalMC
    Traits <- TraitsMC
INVARIANTS
    IndicesAgree
    BoundsLand
    SlotsFilled
CHECK_DEADLOCK FALSE
