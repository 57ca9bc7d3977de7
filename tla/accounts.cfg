SPECIFICATION MCSpec
CONSTANTS
    Threads = {t1, t2}
    Users = {u1}
    Teams = {red, blue}
    Guilds = {g1, g2}
    Subscriptions = {s1, s2}
    g1 = g1
    g2 = g2
    s1 = s1
    s2 = s2
    GuildOf <- MCGuildOf
    MaxHints = 2
    LockSeconds = 2
    MaxCommands = 3
    Players = {p1}
    TeamNames = {red, blue}
    Games = {game1, game2}
    game1 = game1
    game2 = game2
    Clusters = {1, 2}
    GuildOfGame <- MCGuildOfGame
    ClusterOfGame <- MCClusterOfGame
    MaxCarried = 3
    MaxAnswers = 2
    MaxMoves = 2
SYMMETRY MCSymmetry
INVARIANTS  ContributionsAreInTheScore
PROPERTIES TeamKeptUntilLeave  OneGuildPerMinute RecordsStand
