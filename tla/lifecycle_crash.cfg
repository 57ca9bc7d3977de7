SPECIFICATION Spec
CONSTANTS
    cmd1 = cmd1
    cmd2 = cmd2
    Channels = {1, 2}
    Premiums = {FALSE}
    Commands = {cmd1, cmd2}
    Sources = {"user"}
    MaxGames = 2
    MaxCrashes = 1
    MaxQueue = 2
INVARIANTS StartedGamesAreResumable
PROPERTIES KeepsGuildPromises FinishedGamesLeave
CHECK_DEADLOCK FALSE
