\* One session id: two offers and a disconnect, or one offer, a disconnect and a
\* connected; no TTL that would end what the disconnect misses.
CONSTANTS
    Ids = {i1}
    Calls = {c1, c2}
    Deletes = {d1}
    Marks = {m1}
    NoCall = NoCall
    TTLEnabled = FALSE
    Instances = {{c1, c2, d1}, {c1, d1, m1}}
SPECIFICATION MCSpec
INVARIANTS
    AnswerHasSession
    DisconnectRetiresSession
PROPERTIES
    DisconnectEndsSession
