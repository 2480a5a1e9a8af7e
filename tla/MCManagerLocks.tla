--------------------------- MODULE MCManagerLocks ---------------------------
(* Small instances of ManagerLocks for TLC: several in one run. *)
EXTENDS ManagerLocks

CONSTANTS
    CloseAll,    \* the call of Manager.CloseAll
    Instances    \* sets of calls that come in together

\* The calls of one instance are to come.  The others have returned without
\* effect: a refused offer, an unknown id, a shutdown of an empty registry.
MCInit ==
    /\ \E active \in Instances :
         /\ create = [c \in Calls |-> IF c \in active THEN "idle" ELSE "error"]
         /\ del = [d \in Deletes |->
                     IF d \in active THEN "idle" ELSE "notfound"]
         /\ mark = [k \in Marks |->
                      IF k \in active THEN "idle" ELSE "notfound"]
         /\ closeAll = IF CloseAll \in active THEN "idle" ELSE "done"
    /\ reqId \in [Calls -> Ids]
    /\ sessions = [i \in Ids |-> NoCall]
    /\ life = [c \in Calls |-> "none"]
    /\ timer = [c \in Calls |-> "none"]
    /\ delTarget = [d \in Deletes |-> NoCall]
    /\ markTarget = [k \in Marks |-> NoCall]
    /\ selfClose = {} /\ closeErr = {} /\ expiryTimer = {}
    /\ toClose = {} /\ current = NoCall /\ closeAllErr = FALSE
    /\ connected = {}
    /\ mu = Free /\ readers = {} /\ stateMu = [c \in Calls |-> Free]

MCSpec == MCInit /\ [][LockNext]_lockVars /\ LockFairness
=============================================================================
