SPECIFICATION CrateSpec
CONSTANTS
    Names = {"a", "b", "d", "x", "y"}
    Crates <- AllCrates
    Sources <- AllSources
    Prelude <- MCPrelude
    MaxModules = 5
    MaxItems = 11
INVARIANTS
    BoundDefsWonTheirName
    VisibilityAgrees
    LostDeclarationsReported
    UsesAnswered
    RestrictionsKept
    MethodsAreReached
    ImplsAreJudged
    PathsIdentify
PROPERTIES
    NameTableSpec
    Terminates
