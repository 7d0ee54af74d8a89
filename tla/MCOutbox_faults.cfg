\* Two workers, one that polls and one that is started with --once again and
\* again, two events, clean stops, crashes and I/O errors.
CONSTANTS
    Events <- TwoEvents
    Workers = {w1, w2}
    NoEvent = NoEvent
    Once = {w1}
    Disruptions <- AnyDisruption
SPECIFICATION Spec
INVARIANTS
    TypeOK
    ClaimExclusive
    HeldIsProcessing
    AcceptedIsInOnePlace
    NoTornEvent
    FailureIsFinal
PROPERTY ImplementsEventQueue
