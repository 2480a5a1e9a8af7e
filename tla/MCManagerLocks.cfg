\* Two Create calls for one id, or one with all other calls; expiry timers.  The
\* process rests when every call has returned and every goroutine has ended.
CONSTANTS
    Ids = {i1}
    Calls = {c1, c2}
    Deletes = {d1}
    Marks = {m1}
    NoCall = NoCall
    TTLEnabled = TRUE
    CloseAll = closeAll
    Instances = {{c1, c2, d1}, {c1, d1, m1, closeAll}}
SPECIFICATION MCSpec
CHECK_DEADLOCK FALSE
PROPERTIES
    RequestsReturn
    SessionsEnd
