SPECIFICATION PersistentSpec
CONSTANTS
    alice = alice
    bob = bob
    ans1 = ans1
    ans2 = ans2
    Questions = 2
    InsaneEvery = 2
    InsaneAnswers <- MCInsaneAnswers
    Players <- MCPlayers
    NoPlayer = NoPlayer
    Modes = {"start"}
    Interval = 0
    QuestionInterval = 1
    CarriedStreaks = {}
    MaxSettingEdits = 1
    MaxCrashes = 1
    MaxPending = 2
INVARIANTS RowFollowsGame PointsNotAheadOfRow OneDuplicatePerCrash
PROPERTIES  GameIsOver
CHECK_DEADLOCK FALSE
