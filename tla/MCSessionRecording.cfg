\* Two tracks, the audio prime and a grace timer racing Close.
CONSTANTS
    Tracks = {t1, t2}
    NoTrack = NoTrack
    MaxEvents = 2
    PrimeEnabled = TRUE
    TargetFrames = 1
SPECIFICATION FairSpec
INVARIANTS
    CloseFinalizesRecording
    OneRecording
PROPERTIES
    TerminalPeerClosesSession
    DisconnectedSessionEnds
    GoroutinesEnd
    ImplementsLifecycle
