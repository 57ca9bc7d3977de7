SPECIFICATION Spec
CONSTANTS
    cmd1 = cmd1
    cmd2 = cmd2
    Channels = {1, 2, 3}
    Premiums = {TRUE, FALSE}
    Commands = {cmd1}
    Sources = {"user", "dashboard"}
    MaxGames = 3
    MaxCrashes = 0
    MaxQueue = 2
INVARIANTS WithinGameLimit
CHECK_DEADLOCK FALSE
