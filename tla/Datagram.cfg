CONSTANTS
    Me = 9
    Capacity = 1
    MaxFrames = 3
    MaxFlaws = 2
    MaxTrouble = 3
SPECIFICATION FairSpec
CHECK_DEADLOCK FALSE
INVARIANTS
    AnswersMatch
    OnlyGoodAnswered
PROPERTIES
    Answered
