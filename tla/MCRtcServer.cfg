\* Shutdown with two Create calls, one Close call, expiry timers.
CONSTANTS
    Ids = {i1}
    Calls = {c1, c2}
    Deletes = {d1}
    Marks = {}
    NoCall = NoCall
    TTLEnabled = TRUE
SPECIFICATION FairServerSpec
INVARIANTS
    DrainedExitClosesRegistered
PROPERTIES
    ShutdownCompletes
