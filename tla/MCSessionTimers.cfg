\* Grace timers and the audio prime against Close, callbacks in any order.
CONSTANTS
    Tracks = {}
    NoTrack = NoTrack
    MaxEvents = 4
    PrimeEnabled = TRUE
    TargetFrames = 2
SPECIFICATION Spec
INVARIANTS
    TypeOK
    NoTimerLeak
    AtMostOneLateFrame
    GraceFollowsHandledState
PROPERTIES
    GraceRespected
