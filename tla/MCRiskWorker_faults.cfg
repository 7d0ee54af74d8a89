\* Two workers on two events of one match, with every disruption.
CONSTANTS
    Events <- TwoEvents
    MatchOf <- OneMatch
    PlayersOf <- TwoThenOne
    Workers = {w1, w2}
    Disruptions <- AnyDisruption
    Grace = FALSE
    Once = {}
    Matches = {m1}
    Players = {p1, p2}
    NoEvent = NoEvent
    Refused = Refused
    m1 = m1
    m2 = m2
    p1 = p1
    p2 = p2
SPECIFICATION WorkerSpec
INVARIANTS
    DoneIsDurable
    MarkedIsInLedger
    CountedOncePerEvent
    CountedWasWritten
PROPERTY ImplementsOutbox
