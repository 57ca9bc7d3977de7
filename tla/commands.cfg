SPECIFICATION Spec
CONSTANTS
    None = None
    Threads = {t1, t2}
    Users = {u1, u2}
    Channels = {c1}
    Values = {"default", "changed"}
    Default = "default"
    Categories = {history, music}
    QuestionsIn <- MCQuestionsIn
    MIN_QUESTIONS = 1
    Period = 1
    Expiry = 1
    MaxCommands = 2
    MaxEvents = 1
SYMMETRY MCSymmetry
INVARIANTS ConfirmedSettingIsKept EnoughQuestionsLeft
PROPERTIES SettingsAreRecent OneWarningPerPeriod 
