\* Two workers, two matches with the same player.
CONSTANTS
    Events <- TwoEvents
    MatchOf <- TwoMatches
    PlayersOf <- OneEach
    Workers = {w1, w2}
    Disruptions = {}
    Grace = FALSE
    Once = {}
    Matches = {m1, m2}
    Players = {p1, p2}
    NoEvent = NoEvent
    Refused = Refused
    m1 = m1
    m2 = m2
    p1 = p1
    p2 = p2
SPECIFICATION WorkerSpec
PROPERTY HistoryIsKept
