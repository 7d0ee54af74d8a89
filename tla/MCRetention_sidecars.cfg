\* An event that fails, nothing else goes wrong.
CONSTANTS
    Submissions = {1, 2}
    MatchOf <- OneMatch
    PlayerOf <- FirstRefused
    Matches = {m1}
    Players = {p1}
    Refused = Refused
    NoEvent = NoEvent
    Keep = 1
    DayLength = 2
    MaxTime = 4
    Prompt = TRUE
    Disruptions = {}
    m1 = m1
    m2 = m2
    p1 = p1
SPECIFICATION Spec
PROPERTY OldSidecarsAreRemoved
