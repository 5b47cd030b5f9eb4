SPECIFICATION Spec
CONSTANTS
    Docs <- TwoDocs
    Texts <- AllTexts
    TextsOf <- TheTexts
    Broken <- BrokenTexts
    Declares <- Mods
    PreludeDocs = {}
    Shard <- OneShard
    Requests = {"format"}
    Room = 1
    Concurrency = 2
    MaxEdits = 2
    MaxInbox = 2
PROPERTIES
    FormattingAnswered
CHECK_DEADLOCK FALSE
