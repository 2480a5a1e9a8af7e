\* The design document: a peer that is connected again has no grace timer.
CONSTANTS
    Tracks = {}
    NoTrack = NoTrack
    MaxEvents = 3
    PrimeEnabled = FALSE
    TargetFrames = 0
SPECIFICATION Spec
INVARIANTS
    ReconnectCancelsGrace
