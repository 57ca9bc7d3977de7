SPECIFICATION Spec
CONSTANTS
    alice = alice
    bob = bob
    ans1 = ans1
    ans2 = ans2
    Questions = 3
    InsaneEvery = 2
    InsaneAnswers <- MCInsaneAnswers
    Players <- MCPlayers
    NoPlayer = NoPlayer
    Modes = {"start"}
    Interval = 1
    QuestionInterval = 1
    CarriedStreaks <- MCCarriedStreaks
    MaxSettingEdits = 0
SYMMETRY MCSymmetry
INVARIANTS EveryQuestionAsked
CHECK_DEADLOCK FALSE
