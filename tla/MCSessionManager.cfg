\* Two ids, two Create calls, one Close and one MarkConnected call, CloseAll, expiry timers.
CONSTANTS
    Ids = {i1, i2}
    Calls = {c1, c2}
    Deletes = {d1}
    Marks = {m1}
    NoCall = NoCall
    TTLEnabled = TRUE
SPECIFICATION Spec
SYMMETRY Symmetry
INVARIANTS
    TypeOK
    ClosedFreesId
    FailedCreateCleansUp
    ExpiryCovered
    NoTimerLeak
    NoOrphan
PROPERTIES
    EntryRemovedOnlyToClose
    ImplementsLifecycle
