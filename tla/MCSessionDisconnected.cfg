\* The design document: a peer that remains disconnected ends the session.
CONSTANTS
    Tracks = {}
    NoTrack = NoTrack
    MaxEvents = 3
    PrimeEnabled = FALSE
    TargetFrames = 0
SPECIFICATION FairSpec
PROPERTIES
    DisconnectedPeerClosesSession
