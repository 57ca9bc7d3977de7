SPECIFICATION MCSpec
CONSTANTS
    alice = alice
    bob = bob
    ans1 = ans1
    ans2 = ans2
    Questions = 4
    InsaneEvery = 2
    InsaneAnswers <- MCInsaneAnswers
    Players <- MCPlayers
    NoPlayer = NoPlayer
    Modes = {"start", "quickfire", "hardcore"}
    Interval = 1
    QuestionInterval = 1
    CarriedStreaks <- MCCarriedStreaks
    MaxSettingEdits = 1
SYMMETRY MCSymmetry
INVARIANTS AnswerOnlyWhileOpen InsaneCountdown
    AnswersCanBeGiven MisspellingsAreForgiven HintsTellTheAnswer 
PROPERTIES KeepsQuizPromises
CHECK_DEADLOCK FALSE
