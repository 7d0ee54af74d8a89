\* One worker that may crash and is always started again.
CONSTANTS
    Events <- TwoEvents
    MatchOf <- OneMatch
    PlayersOf <- OneEach
    Workers = {w1}
    Disruptions <- CrashesOnly
    Grace = FALSE
    Once = {}
    Matches = {m1}
    Players = {p1, p2}
    NoEvent = NoEvent
    Refused = Refused
    m1 = m1
    m2 = m2
    p1 = p1
    p2 = p2
SPECIFICATION FairSpec
PROPERTY QueuedIsSettled
