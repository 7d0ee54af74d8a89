\* Two submissions for one match and one for another, all within the window.
CONSTANTS
    Submissions = {1, 2, 3}
    MatchOf <- MixedMatches
    PlayerOf <- LastRefused
    Matches = {m1, m2}
    Players = {p1}
    Refused = Refused
    NoEvent = NoEvent
    Keep = 1
    DayLength = 2
    MaxTime = 4
    Prompt = TRUE
    Disruptions = {"crash", "io"}
    m1 = m1
    m2 = m2
    p1 = p1
SPECIFICATION Spec
INVARIANTS
    TypeOK
    ScoredOnce
    UnsettledHasTelemetry
PROPERTY OnlyOldIsRemoved
