\* One worker; the first line of the match has an entry with no player_id.
CONSTANTS
    Events <- TwoEvents
    MatchOf <- OneMatch
    PlayersOf <- NamelessSecond
    Workers = {w1}
    Disruptions = {}
    Grace = FALSE
    Once = {}
    Matches = {m1}
    Players = {p1, p2}
    NoEvent = NoEvent
    Refused = Refused
    m1 = m1
    m2 = m2
    p1 = p1
    p2 = p2
SPECIFICATION WorkerSpec
INVARIANT ScoringIsIdempotent
