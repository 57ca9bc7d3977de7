SPECIFICATION MCSpec
CONSTANTS
    shard1 = shard1
    shard2 = shard2
    Threads = {shard1, shard2}
    Files <- MCFiles
    Diagnostics = "diagnostics"
    Startup <- MCStartup
    Attaches <- MCAttaches
    Joining = {}
    MaxEvents = 3
    Guilds = {g1}
    Shards = {0, 1}
    Gone = {1}
    MaxTime = 2
    MaxQueue = 1
    MaxChanges = 3
INVARIANTS  GuildsAreCounted TextsFollowFile
PROPERTIES EventsFinish ForgottenRequestsAreDone
CHECK_DEADLOCK FALSE
