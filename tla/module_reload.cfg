SPECIFICATION Spec
CONSTANTS
    shard1 = shard1
    shard2 = shard2
    Threads = {shard1, shard2}
    Files <- MCFiles
    Diagnostics = "diagnostics"
    Startup <- MCStartup
    Attaches <- MCAttaches
    Joining = {"trivia"}
    MaxEvents = 2
PROPERTY EventsFinish
CHECK_DEADLOCK FALSE
