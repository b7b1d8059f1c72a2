CONSTANTS
    FbW = 4
    FbH = 2
    Tile = 2
    ZSizes = {3, 4}
    Scripts <- SomeScripts
    Cuts = {3, 99}
    MaxIncoming = 2
SPECIFICATION FairSpec
CHECK_DEADLOCK FALSE
INVARIANTS
    InStep
    AnswersAsAsked
    UpdateWhole
PROPERTIES
    RequestAnswered
