\* SIGTERM racing an expiring session.
CONSTANTS
    Ids = {i1}
    Calls = {c1}
    Deletes = {}
    Marks = {}
    NoCall = NoCall
    TTLEnabled = TRUE
SPECIFICATION ServerSpec
INVARIANTS
    GracefulShutdownFinalizesAll
