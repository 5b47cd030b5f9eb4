SPECIFICATION Spec
CONSTANTS
    Docs <- TwoDocs
    Texts <- AllTexts
    TextsOf <- TheTexts
    Broken <- BrokenTexts
    Declares <- Mods
    PreludeDocs = {"q"}
    Shard <- OneShard
    Requests = {"goto", "format"}
    Room = 1
    Concurrency = 2
    MaxEdits = 3
    MaxInbox = 2
INVARIANTS
    DocumentsInStep
    OutboxBounded
PROPERTIES
    ViewSpec
    CatchesUp
CHECK_DEADLOCK FALSE
