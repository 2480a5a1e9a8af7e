---------------------------- MODULE ManagerLocks ----------------------------
(***************************************************************************)
(* The session registry with its locks: Manager.mu                         *)
(* (internal/rtc/session_manager.go) and each session's stateMu            *)
(* (internal/rtc/session.go).                                              *)
(*                                                                         *)
(* SessionManager takes a critical section for one step.  Here a goroutine *)
(* first takes the lock, and then runs the section and releases it: others *)
(* may run, and wait, in between.  Session.Close needs both locks, one     *)
(* after the other, and onTerminal takes m.mu inside closeOnce, in which   *)
(* every other goroutine that closes the session waits: a goroutine that   *)
(* called Close with a lock held would wait for itself.                    *)
(*                                                                         *)
(* Left out: sections that only read (Len, Connected, stopAudioPrime), and *)
(* callbacks that come when the session is already closing.                *)
(***************************************************************************)
EXTENDS SessionManager

VARIABLES
    mu,       \* the goroutine that holds m.mu for writing
    readers,  \* the MarkConnected calls that hold m.mu for reading
    stateMu   \* the goroutine that holds each session's s.stateMu

locks == <<mu, readers, stateMu>>
lockVars == <<vars, locks>>

\* A goroutine is named by what it runs and for which call.
Create(c) == <<"create", c>>     \* Manager.Create
Closer(c) == <<"close", c>>      \* the one that runs c's closeOnce
Expiry(c) == <<"expire", c>>     \* Manager.expire
Callback(c) == <<"callback", c>> \* a peer or track callback of the session
Delete(d) == <<"delete", d>>     \* Manager.Close
Mark(k) == <<"mark", k>>         \* Manager.MarkConnected
Sweep == <<"closeAll", NoCall>>  \* Manager.CloseAll
Free == <<"free", NoCall>>

LockInit ==
    /\ Init
    /\ mu = Free
    /\ readers = {}
    /\ stateMu = [c \in Calls |-> Free]

-----------------------------------------------------------------------------
(* Taking a lock, and running and leaving a section *)

\* m.mu.Lock by a goroutine that is about to.
Lock(g) ==
    /\ mu = Free /\ readers = {}
    /\ mu' = g
    /\ UNCHANGED <<vars, readers, stateMu>>

\* A section of m.mu, up to m.mu.Unlock.
Locked(g, section) ==
    /\ mu = g
    /\ section
    /\ mu' = Free
    /\ UNCHANGED <<readers, stateMu>>

\* s.stateMu.Lock.
LockState(c, g) ==
    /\ stateMu[c] = Free
    /\ stateMu' = [stateMu EXCEPT ![c] = g]
    /\ UNCHANGED <<vars, mu, readers>>

\* A section of c's s.stateMu, up to s.stateMu.Unlock.
StateLocked(c, g, section) ==
    /\ stateMu[c] = g
    /\ section
    /\ stateMu' = [stateMu EXCEPT ![c] = Free]
    /\ UNCHANGED <<mu, readers>>

-----------------------------------------------------------------------------
(* Manager.Create *)

\* A request that comes in takes the lock first.
CreateArrives(c) == create[c] = "idle" /\ Lock(Create(c))

\* Its two sections, and removeEntry after a failure.
CreateLock(c) == create[c] \in {"remove", "answered"} /\ Lock(Create(c))

CreateLocked(c) ==
    Locked(Create(c), BeginCreate(c) \/ RemoveFailed(c) \/ Publish(c))

\* NewSession, Session.Close of a discarded session and time.AfterFunc run
\* without the lock.
CreateUnlocked(c) ==
    /\ \/ NewSessionRejected(c) \/ NewSessionOpened(c) \/ NegotiationFails(c)
       \/ NewSessionFails(c) \/ Discarded(c) \/ Arm(c)
    /\ UNCHANGED locks

CreateAnswers(c) == Answer(c) /\ UNCHANGED locks

SetExpiryLock(c) == create[c] = "setTimer" /\ LockState(c, Create(c))

SetExpiryLocked(c) == StateLocked(c, Create(c), SetExpiryTimer(c))

-----------------------------------------------------------------------------
(* Session.Close and the session's callbacks *)

CloseUnlocked(c) ==
    /\ CloseBegin(c) \/ CloseRelease(c)
    /\ UNCHANGED locks

TeardownLock(c) == life[c] = "cancelled" /\ LockState(c, Closer(c))

TeardownLocked(c) == StateLocked(c, Closer(c), CloseTeardown(c))

\* onTerminal is removeEntry.
TerminalLock(c) == life[c] = "released" /\ Lock(Closer(c))

TerminalLocked(c) == Locked(Closer(c), CloseTerminal(c))

\* startRecorder and the handlers of the peer state.
CallbackArrives(c) ==
    life[c] = "open" /\ c \notin selfClose /\ LockState(c, Callback(c))

\* Mutant: the session is closed by the callback itself, under its lock.
CallbackClosesLocked(c) ==
    /\ stateMu[c] = Callback(c)
    /\ \/ SessionTerminates(c) /\ UNCHANGED locks
       \/ /\ life[c] = "closed"
          /\ stateMu' = [stateMu EXCEPT ![c] = Free]
          /\ UNCHANGED <<vars, mu, readers>>

\* Closing is left to another goroutine, or the session is closing already.
CallbackLocked(c) ==
    StateLocked(c, Callback(c),
                SessionTerminates(c) \/ (CtxDone(c) /\ UNCHANGED vars))

-----------------------------------------------------------------------------
(* Manager.expire *)

ExpireLock(c) == timer[c] = "fired" /\ Lock(Expiry(c))

ExpireLocked(c) == Locked(Expiry(c), Expire(c))

ExpireUnlocked(c) == (TimerFires(c) \/ ExpireReturns(c)) /\ UNCHANGED locks

-----------------------------------------------------------------------------
(* Manager.Close *)

DeleteArrives(d) == del[d] = "idle" /\ Lock(Delete(d))

\* Mutant: Manager.Close unlocks by defer, after session.Close.
DeleteLockedAcrossClose(d) ==
    /\ mu = Delete(d)
    /\ (\E i \in Ids : DeleteBegin(d, i)) \/ DeleteReturns(d)
    /\ mu' = IF del'[d] = "closing" THEN mu ELSE Free
    /\ UNCHANGED <<readers, stateMu>>

DeleteLocked(d) == Locked(Delete(d), \E i \in Ids : DeleteBegin(d, i))

DeleteUnlocked(d) == DeleteReturns(d) /\ UNCHANGED locks

-----------------------------------------------------------------------------
(* Manager.CloseAll *)

CloseAllArrives == closeAll = "idle" /\ Lock(Sweep)

CloseAllLocked == Locked(Sweep, CloseAllBegin)

CloseAllUnlocked == CloseAllStep /\ UNCHANGED locks

-----------------------------------------------------------------------------
(* Manager.MarkConnected *)

\* m.mu.RLock.
MarkArrives(k) ==
    /\ mark[k] = "idle"
    /\ mu = Free
    /\ readers' = readers \union {k}
    /\ UNCHANGED <<vars, mu, stateMu>>

\* The lookup, up to m.mu.RUnlock.
MarkRLocked(k) ==
    /\ k \in readers
    /\ \E i \in Ids : MarkLookup(k, i)
    /\ readers' = readers \ {k}
    /\ UNCHANGED <<mu, stateMu>>

MarkLock(k) == mark[k] = "found" /\ LockState(markTarget[k], Mark(k))

MarkLocked(k) ==
    mark[k] = "found" /\ StateLocked(markTarget[k], Mark(k), MarkApply(k))

-----------------------------------------------------------------------------
\* What each goroutine does once it has begun.
CreateRuns(c) ==
    \/ CreateLock(c) \/ CreateLocked(c) \/ CreateUnlocked(c)
    \/ SetExpiryLock(c) \/ SetExpiryLocked(c)

CloserRuns(c) ==
    \/ CloseUnlocked(c) \/ TeardownLock(c) \/ TeardownLocked(c)
    \/ TerminalLock(c) \/ TerminalLocked(c)

ExpiryRuns(c) == ExpireLock(c) \/ ExpireLocked(c) \/ ExpireUnlocked(c)

DeleteRuns(d) == DeleteLocked(d) \/ DeleteUnlocked(d)

SweepRuns == CloseAllLocked \/ CloseAllUnlocked

MarkRuns(k) == MarkRLocked(k) \/ MarkLock(k) \/ MarkLocked(k)

LockNext ==
    \/ \E c \in Calls :
         \/ CreateArrives(c) \/ CreateAnswers(c) \/ CreateRuns(c)
         \/ CloserRuns(c) \/ ExpiryRuns(c)
         \/ CallbackArrives(c) \/ CallbackLocked(c)
    \/ \E d \in Deletes : DeleteArrives(d) \/ DeleteRuns(d)
    \/ \E k \in Marks : MarkArrives(k) \/ MarkRuns(k)
    \/ CloseAllArrives \/ SweepRuns

\* The Go scheduler runs every goroutine that can run, the answer deadline
\* ends every negotiation and timers fire.  Requests, ICE completion and
\* callbacks are not assumed to come.  A goroutine takes a lock that stays
\* free; nothing is assumed of the order in which those that wait get it.
LockFairness ==
    /\ \A c \in Calls :
         /\ WF_lockVars(CreateRuns(c))
         /\ WF_lockVars(CloserRuns(c))
         /\ WF_lockVars(ExpiryRuns(c))
         /\ WF_lockVars(CallbackLocked(c))
    /\ \A d \in Deletes : WF_lockVars(DeleteRuns(d))
    /\ \A k \in Marks : WF_lockVars(MarkRuns(k))
    /\ WF_lockVars(SweepRuns)

LockSpec == LockInit /\ [][LockNext]_lockVars /\ LockFairness

-----------------------------------------------------------------------------
(* Properties *)

\* Every call of Create, Close, MarkConnected and CloseAll that has taken
\* m.mu returns, whatever closes the session meanwhile: the answer deadline
\* bounds negotiation, and no two goroutines wait for each other's locks or
\* for each other in closeOnce.
RequestsReturn ==
    /\ \A c \in Calls :
         mu = Create(c) ~> create[c] \in {"ok", "exists", "gone", "error"}
    /\ \A d \in Deletes :
         mu = Delete(d) ~> del[d] \in {"closed", "notfound", "error"}
    /\ \A k \in Marks : k \in readers ~> mark[k] \in {"ok", "notfound"}
    /\ mu = Sweep ~> closeAll = "done"

\* With a TTL, every session is closed in the end even if its client never
\* asks for it and its peer never fails.
SessionsEnd ==
    TTLEnabled => \A c \in Calls : life[c] = "open" ~> life[c] = "closed"
=============================================================================
