\* One worker, three submissions for two matches; the worker may be stopped
\* and started again, nothing else goes wrong.
CONSTANTS
    Events <- ThreeEvents
    MatchOf <- MixedMatches
    PlayersOf <- Mixed
    Workers = {w1}
    Disruptions <- StopsOnly
    Grace = TRUE
    Once = {}
    Matches = {m1, m2}
    Players = {p1, p2}
    NoEvent = NoEvent
    Refused = Refused
    m1 = m1
    m2 = m2
    p1 = p1
    p2 = p2
SPECIFICATION FairSpec
INVARIANTS
    WorkerTypeOK
    ProcessingIsHeld
    MatchIsScoredOnce
PROPERTIES
    HistoryIsKept
    ImplementsMatchScoring
    QueuedIsSettled
