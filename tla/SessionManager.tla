--------------------------- MODULE SessionManager ---------------------------
(***************************************************************************)
(* The session registry of the RTC gateway: rtc.Manager                    *)
(* (internal/rtc/session_manager.go), together with the parts of           *)
(* Server.NewSession and Session.Close that it calls.                      *)
(*                                                                         *)
(* Every Create call owns one *sessionEntry and at most one *Session, so   *)
(* all three are named by the call: a member of Calls.  A map slot holding *)
(* the call c stands for the pointer to c's entry, and the pointer         *)
(* comparisons of the code become comparisons of calls.  Two calls with    *)
(* the same id (a client retry, a re-used id) are different members of     *)
(* Calls.                                                                  *)
(*                                                                         *)
(* Each critical section of m.mu or s.stateMu is one action; everything    *)
(* the code does outside the locks is a separate action, so that the       *)
(* interleavings of request goroutines, timer goroutines and session       *)
(* callbacks are all explored.  ManagerLocks adds the locks themselves.    *)
(***************************************************************************)
EXTENDS FiniteSets

CONSTANTS
    Ids,          \* session ids clients use
    Calls,        \* calls of Manager.Create (= their entries and sessions)
    Deletes,      \* calls of Manager.Close
    Marks,        \* calls of Manager.MarkConnected
    NoCall,       \* nil: an absent map entry, an absent *Session
    TTLEnabled    \* m.ttl > 0

ASSUME NoCallAssumption == NoCall \notin Calls
ASSUME TTLAssumption == TTLEnabled \in BOOLEAN

VARIABLES
    sessions,     \* m.sessions: id -> entry, NoCall when absent
    reqId,        \* the id argument of each Create call
    create,       \* program counter of each Create call
    life,         \* each *Session: none, open, then the stages of Close
    selfClose,    \* sessions with a "go s.Close()" not yet scheduled
    timer,        \* the time.AfterFunc(m.ttl, expire) of each session
    expiryTimer,  \* sessions whose s.expiryTimer field is set
    del,          \* program counter of each Manager.Close call
    delTarget,    \* the *Session a Manager.Close call found
    closeErr,     \* sessions whose s.closeErr is set
    closeAll,     \* program counter of Manager.CloseAll
    toClose,      \* CloseAll's snapshot, without the session being closed
    current,      \* the session CloseAll is closing
    closeAllErr,  \* errors.Join of CloseAll is not nil
    mark,         \* program counter of each Manager.MarkConnected call
    markTarget,   \* the *Session a Manager.MarkConnected call found
    connected     \* s.connected

creating == <<reqId, create>>
body == <<life, selfClose, closeErr>>
timers == <<timer, expiryTimer>>
deleting == <<del, delTarget>>
sweeping == <<closeAll, toClose, current, closeAllErr>>
marks == <<mark, markTarget, connected>>
requests == <<deleting, sweeping, marks>>
vars == <<sessions, creating, body, timers, requests>>

CreatePC == {"idle", "new", "negotiating", "failing", "remove", "answered",
             "discard", "arm", "setTimer", "ok", "exists", "gone", "error"}
Life == {"none", "open", "cancelled", "stopped", "released", "closed"}
TimerState == {"none", "armed", "fired", "closing", "done", "stopped"}
DelPC == {"idle", "closing", "closed", "notfound", "error"}
MarkPC == {"idle", "found", "ok", "notfound"}

-----------------------------------------------------------------------------
(* State predicates *)

\* entry.session is set: Create assigns it once and nothing clears it.
Published(c) == create[c] \in {"arm", "setTimer", "ok"}

\* m.sessions[id] is c's entry.
Mapped(c) == sessions[reqId[c]] = c

\* Mutant: an entry is taken to have a session.
LookupAnyEntry(i) == sessions[i]

\* The *Session that m.sessions[id] leads to: nil while Create still
\* negotiates, as when there is no entry.
Lookup(i) == IF sessions[i] # NoCall /\ Published(sessions[i])
               THEN sessions[i] ELSE NoCall

\* The session's context is cancelled: s.ctx.Err() != nil.
CtxDone(c) == life[c] \notin {"none", "open"}

\* Some goroutine is about to call, or is blocked in, c's Session.Close.
CloseRequested(c) ==
    \/ c \in selfClose
    \/ create[c] \in {"failing", "discard"}
    \/ timer[c] = "closing"
    \/ \E d \in Deletes : del[d] = "closing" /\ delTarget[d] = c
    \/ current = c

\* m.sessions after delete(m.sessions, id) if it still holds c's entry.
Removed(c) == IF Mapped(c) THEN [sessions EXCEPT ![reqId[c]] = NoCall]
                           ELSE sessions

Init ==
    /\ sessions = [i \in Ids |-> NoCall]
    /\ reqId \in [Calls -> Ids]
    /\ create = [c \in Calls |-> "idle"]
    /\ life = [c \in Calls |-> "none"]
    /\ selfClose = {}
    /\ timer = [c \in Calls |-> "none"]
    /\ expiryTimer = {}
    /\ del = [d \in Deletes |-> "idle"]
    /\ delTarget = [d \in Deletes |-> NoCall]
    /\ closeErr = {}
    /\ closeAll = "idle"
    /\ toClose = {}
    /\ current = NoCall
    /\ closeAllErr = FALSE
    /\ mark = [k \in Marks |-> "idle"]
    /\ markTarget = [k \in Marks |-> NoCall]
    /\ connected = {}

-----------------------------------------------------------------------------
(* Manager.Create *)

\* Mutant: the id is not checked before it is reserved.
BeginCreateUnchecked(c) ==
    /\ create[c] = "idle"
    /\ create' = [create EXCEPT ![c] = "new"]
    /\ sessions' = [sessions EXCEPT ![reqId[c]] = c]
    /\ UNCHANGED <<reqId, body, timers, requests>>

\* A duplicate id is refused; otherwise an empty entry reserves the id
\* before the lock is released.
BeginCreate(c) ==
    /\ create[c] = "idle"
    /\ \/ /\ sessions[reqId[c]] # NoCall
          /\ create' = [create EXCEPT ![c] = "exists"]
          /\ UNCHANGED sessions
       \/ /\ sessions[reqId[c]] = NoCall
          /\ create' = [create EXCEPT ![c] = "new"]
          /\ sessions' = [sessions EXCEPT ![reqId[c]] = c]
    /\ UNCHANGED <<reqId, body, timers, requests>>

\* A step of Create that changes nothing but where the call has got to.
Goto(c, from, to) ==
    /\ create[c] = from
    /\ create' = [create EXCEPT ![c] = to]
    /\ UNCHANGED <<sessions, reqId, body, timers, requests>>

\* NewSession fails before it has a *Session: expired request context, an
\* offer validateOffer refuses, or no peer connection or local track.
NewSessionRejected(c) == Goto(c, "new", "remove")

\* NewSession builds the *Session and registers the peer callbacks, which
\* may close it from now on.
NewSessionOpened(c) ==
    /\ create[c] = "new"
    /\ create' = [create EXCEPT ![c] = "negotiating"]
    /\ life' = [life EXCEPT ![c] = "open"]
    /\ UNCHANGED <<sessions, reqId, selfClose, closeErr, timers, requests>>

\* Mutant: an error path returns without session.Close.
NegotiationFailsUnclosed(c) == Goto(c, "negotiating", "remove")

\* A negotiation step fails or the answer deadline passes: NewSession calls
\* session.Close and returns the error once Close has returned.
NegotiationFails(c) == Goto(c, "negotiating", "failing")

NewSessionFails(c) == life[c] = "closed" /\ Goto(c, "failing", "remove")

\* ICE gathering completes and NewSession returns the session.
Answer(c) == Goto(c, "negotiating", "answered")

\* err != nil: removeEntry(id, entry) and return the error.
RemoveFailed(c) ==
    /\ create[c] = "remove"
    /\ sessions' = Removed(c)
    /\ create' = [create EXCEPT ![c] = "error"]
    /\ UNCHANGED <<reqId, body, timers, requests>>

\* Mutant: the second critical section does not look the entry up again.
PublishUnchecked(c) ==
    Goto(c, "answered", IF TTLEnabled THEN "arm" ELSE "ok")

\* The second critical section: the session is published only if the entry
\* that reserved the id is still the one in the map.
Publish(c) == Goto(c, "answered", IF ~Mapped(c) THEN "discard"
                                  ELSE IF TTLEnabled THEN "arm" ELSE "ok")

\* The discarded session's Close has returned: ErrSessionNotFound.
Discarded(c) == life[c] = "closed" /\ Goto(c, "discard", "gone")

\* time.AfterFunc starts the expiry timer before the session knows of it.
Arm(c) ==
    /\ create[c] = "arm"
    /\ create' = [create EXCEPT ![c] = "setTimer"]
    /\ timer' = [timer EXCEPT ![c] = "armed"]
    /\ UNCHANGED <<sessions, reqId, body, expiryTimer, requests>>

\* timer.Stop() of a timer that has already fired does nothing.
Stopped(c) == IF timer[c] = "armed" THEN [timer EXCEPT ![c] = "stopped"]
                                    ELSE timer

\* Mutant: setExpiryTimer stores the timer of a session already closing.
SetExpiryTimerUnchecked(c) ==
    /\ create[c] = "setTimer"
    /\ create' = [create EXCEPT ![c] = "ok"]
    /\ expiryTimer' = expiryTimer \union {c}
    /\ UNCHANGED <<sessions, reqId, body, timer, requests>>

\* Mutant: the context check of setExpiryTimer is inverted.
SetExpiryTimerInverted(c) ==
    /\ create[c] = "setTimer"
    /\ create' = [create EXCEPT ![c] = "ok"]
    /\ IF ~CtxDone(c)
         THEN timer' = Stopped(c) /\ UNCHANGED expiryTimer
         ELSE expiryTimer' = expiryTimer \union {c} /\ UNCHANGED timer
    /\ UNCHANGED <<sessions, reqId, body, requests>>

\* Session.setExpiryTimer, then Create returns the answer.
SetExpiryTimer(c) ==
    /\ create[c] = "setTimer"
    /\ create' = [create EXCEPT ![c] = "ok"]
    /\ IF CtxDone(c)
         THEN timer' = Stopped(c) /\ UNCHANGED expiryTimer
         ELSE expiryTimer' = expiryTimer \union {c} /\ UNCHANGED timer
    /\ UNCHANGED <<sessions, reqId, body, requests>>

-----------------------------------------------------------------------------
(* Session.Close, run by the first goroutine to reach closeOnce *)

\* The session starts a goroutine that closes it: peer connection failed or
\* closed, disconnect grace elapsed, recorder creation or write failed.
SessionTerminates(c) ==
    /\ life[c] = "open"
    /\ selfClose' = selfClose \union {c}
    /\ UNCHANGED <<sessions, creating, life, closeErr, timers, requests>>

\* s.cancel().  The goroutines of selfClose have nothing left to do: they
\* block in closeOnce until this Close is over and ignore its result.
CloseBegin(c) ==
    /\ life[c] = "open"
    /\ CloseRequested(c)
    /\ life' = [life EXCEPT ![c] = "cancelled"]
    /\ selfClose' = selfClose \ {c}
    /\ UNCHANGED <<sessions, creating, closeErr, timers, requests>>

\* The critical section that stops the timers and takes the recorder.
CloseTeardown(c) ==
    /\ life[c] = "cancelled"
    /\ life' = [life EXCEPT ![c] = "stopped"]
    /\ timer' = IF c \in expiryTimer THEN Stopped(c) ELSE timer
    /\ expiryTimer' = expiryTimer \ {c}
    /\ UNCHANGED <<sessions, creating, selfClose, closeErr, requests>>

\* recorder.Close and peer.Close, either of which may fail.
CloseRelease(c) ==
    /\ life[c] = "stopped"
    /\ life' = [life EXCEPT ![c] = "released"]
    /\ closeErr' \in {closeErr, closeErr \union {c}}
    /\ UNCHANGED <<sessions, creating, selfClose, timers, requests>>

\* Mutant: Close does not call onTerminal.
CloseTerminalSilent(c) ==
    /\ life[c] = "released"
    /\ life' = [life EXCEPT ![c] = "closed"]
    /\ UNCHANGED <<sessions, creating, selfClose, closeErr, timers, requests>>

\* onTerminal, which is removeEntry(id, entry), and the end of closeOnce.
CloseTerminal(c) ==
    /\ life[c] = "released"
    /\ life' = [life EXCEPT ![c] = "closed"]
    /\ sessions' = Removed(c)
    /\ UNCHANGED <<creating, selfClose, closeErr, timers, requests>>

-----------------------------------------------------------------------------
(* Manager.expire, run by the expiry timer *)

TimerFires(c) ==
    /\ timer[c] = "armed"
    /\ timer' = [timer EXCEPT ![c] = "fired"]
    /\ UNCHANGED <<sessions, creating, body, expiryTimer, requests>>

\* Mutant: expire deletes the id's entry without comparing sessions.
ExpireAnyEntry(c) ==
    /\ timer[c] = "fired"
    /\ sessions' = [sessions EXCEPT ![reqId[c]] = NoCall]
    /\ timer' = [timer EXCEPT ![c] = "closing"]
    /\ UNCHANGED <<creating, body, expiryTimer, requests>>

\* Delete the entry if it still holds this very session, then close it.
Expire(c) ==
    /\ timer[c] = "fired"
    /\ \/ /\ Mapped(c) /\ Published(c)
          /\ sessions' = [sessions EXCEPT ![reqId[c]] = NoCall]
          /\ timer' = [timer EXCEPT ![c] = "closing"]
       \/ /\ ~(Mapped(c) /\ Published(c))
          /\ timer' = [timer EXCEPT ![c] = "done"]
          /\ UNCHANGED sessions
    /\ UNCHANGED <<creating, body, expiryTimer, requests>>

ExpireReturns(c) ==
    /\ timer[c] = "closing"
    /\ life[c] = "closed"
    /\ timer' = [timer EXCEPT ![c] = "done"]
    /\ UNCHANGED <<sessions, creating, body, expiryTimer, requests>>

-----------------------------------------------------------------------------
(* Manager.Close *)

\* Mutant: an entry without a session is left to the Create that owns it.
DeleteBeginPublished(d, i) ==
    /\ del[d] = "idle"
    /\ del' = [del EXCEPT ![d] = IF Lookup(i) # NoCall THEN "closing"
                                                      ELSE "notfound"]
    /\ delTarget' = [delTarget EXCEPT ![d] = Lookup(i)]
    /\ sessions' = IF Lookup(i) # NoCall THEN [sessions EXCEPT ![i] = NoCall]
                                         ELSE sessions
    /\ UNCHANGED <<creating, body, timers, sweeping, marks>>

\* The entry goes even when its session is not published yet: the Create
\* that owns it will find it missing.
DeleteBegin(d, i) ==
    /\ del[d] = "idle"
    /\ del' = [del EXCEPT ![d] = IF Lookup(i) # NoCall THEN "closing"
                                                      ELSE "notfound"]
    /\ delTarget' = [delTarget EXCEPT ![d] = Lookup(i)]
    /\ sessions' = [sessions EXCEPT ![i] = NoCall]
    /\ UNCHANGED <<creating, body, timers, sweeping, marks>>

\* Mutant: Manager.Close starts the close and returns.
DeleteReturnsEarly(d) ==
    /\ del[d] = "closing"
    /\ del' = [del EXCEPT ![d] = "closed"]
    /\ UNCHANGED <<sessions, creating, body, timers, delTarget, sweeping,
                   marks>>

\* session.Close has returned, here or in the goroutine that got to
\* closeOnce first; its result is s.closeErr either way.
DeleteReturns(d) ==
    /\ del[d] = "closing"
    /\ life[delTarget[d]] = "closed"
    /\ del' = [del EXCEPT ![d] =
                 IF delTarget[d] \in closeErr THEN "error" ELSE "closed"]
    /\ UNCHANGED <<sessions, creating, body, timers, delTarget, sweeping,
                   marks>>

-----------------------------------------------------------------------------
(* Manager.CloseAll *)

\* Snapshot the published sessions and clear the map.
CloseAllBegin ==
    /\ closeAll = "idle"
    /\ closeAll' = "closing"
    /\ toClose' = {c \in Calls : Mapped(c) /\ Published(c)}
    /\ sessions' = [i \in Ids |-> NoCall]
    /\ UNCHANGED <<creating, body, timers, deleting, current, closeAllErr,
                   marks>>

\* The loop closes one session after the other, in the map's random order.
CloseAllNext(c) ==
    /\ closeAll = "closing"
    /\ current = NoCall
    /\ c \in toClose
    /\ current' = c
    /\ toClose' = toClose \ {c}
    /\ UNCHANGED <<sessions, creating, body, timers, deleting, closeAll,
                   closeAllErr, marks>>

CloseAllJoin ==
    /\ current # NoCall
    /\ life[current] = "closed"
    /\ closeAllErr' = (closeAllErr \/ current \in closeErr)
    /\ current' = NoCall
    /\ UNCHANGED <<sessions, creating, body, timers, deleting, closeAll,
                   toClose, marks>>

CloseAllReturns ==
    /\ closeAll = "closing"
    /\ current = NoCall
    /\ toClose = {}
    /\ closeAll' = "done"
    /\ UNCHANGED <<sessions, creating, body, timers, deleting, toClose,
                   current, closeAllErr, marks>>

-----------------------------------------------------------------------------
(* Manager.MarkConnected *)

\* The session is looked up under the read lock ...
MarkLookup(k, i) ==
    /\ mark[k] = "idle"
    /\ mark' = [mark EXCEPT ![k] = IF Lookup(i) # NoCall THEN "found"
                                                        ELSE "notfound"]
    /\ markTarget' = [markTarget EXCEPT ![k] = Lookup(i)]
    /\ UNCHANGED <<sessions, creating, body, timers, deleting, sweeping,
                   connected>>

\* ... and marked after it was released, closed in between or not.
MarkApply(k) ==
    /\ mark[k] = "found"
    /\ mark' = [mark EXCEPT ![k] = "ok"]
    /\ connected' = connected \union {markTarget[k]}
    /\ UNCHANGED <<sessions, creating, body, timers, deleting, sweeping,
                   markTarget>>

-----------------------------------------------------------------------------
\* Every request has been answered and every goroutine has ended.  The step
\* leaves a finished instance running, so that TLC's deadlock check reports
\* exactly the states in which some goroutine is stuck.
Rest ==
    /\ \A c \in Calls :
         /\ create[c] \in {"ok", "exists", "gone", "error"}
         /\ life[c] \in {"none", "closed"}
         /\ timer[c] \in {"none", "done", "stopped"}
    /\ \A d \in Deletes : del[d] \in {"closed", "notfound", "error"}
    /\ \A k \in Marks : mark[k] \in {"ok", "notfound"}
    /\ closeAll = "done"
    /\ UNCHANGED vars

\* The steps of a Create goroutine that depend on nobody else but the answer
\* deadline and, while Session.Close runs, on the goroutine running it.
CreateProgress(c) ==
    \/ NewSessionRejected(c) \/ NewSessionOpened(c) \/ NegotiationFails(c)
    \/ NewSessionFails(c) \/ RemoveFailed(c) \/ Publish(c) \/ Discarded(c)
    \/ Arm(c) \/ SetExpiryTimer(c)

CreateStep(c) == CreateProgress(c) \/ Answer(c)

CloseStep(c) ==
    CloseBegin(c) \/ CloseTeardown(c) \/ CloseRelease(c) \/ CloseTerminal(c)

TimerStep(c) == TimerFires(c) \/ Expire(c) \/ ExpireReturns(c)

CloseAllStep ==
    CloseAllJoin \/ CloseAllReturns \/ \E c \in Calls : CloseAllNext(c)

\* What the process does by itself once requests have come in.
InternalStep ==
    \/ \E c \in Calls : CreateStep(c) \/ CloseStep(c) \/ TimerStep(c)
    \/ \E k \in Marks : MarkApply(k)
    \/ \E d \in Deletes : DeleteReturns(d)
    \/ CloseAllStep

\* What clients, the peer and the operating system may do to it.
ExternalStep ==
    \/ \E c \in Calls : BeginCreate(c) \/ SessionTerminates(c)
    \/ \E k \in Marks, i \in Ids : MarkLookup(k, i)
    \/ \E d \in Deletes, i \in Ids : DeleteBegin(d, i)
    \/ CloseAllBegin

Next == InternalStep \/ ExternalStep \/ Rest

Spec == Init /\ [][Next]_vars

-----------------------------------------------------------------------------
(* Properties *)

\* Every variable keeps its type; in particular a Manager.Close that goes on
\* to close, and a MarkConnected that goes on to mark, holds a published
\* session and never the nil of an entry still being negotiated.
TypeOK ==
    /\ sessions \in [Ids -> Calls \union {NoCall}]
    /\ reqId \in [Calls -> Ids]
    /\ create \in [Calls -> CreatePC]
    /\ life \in [Calls -> Life]
    /\ timer \in [Calls -> TimerState]
    /\ del \in [Deletes -> DelPC]
    /\ delTarget \in [Deletes -> Calls \union {NoCall}]
    /\ \A d \in Deletes :
         del[d] = "closing" => delTarget[d] \in {c \in Calls : Published(c)}
    /\ selfClose \subseteq Calls
    /\ expiryTimer \subseteq Calls
    /\ closeErr \subseteq Calls
    /\ closeAll \in {"idle", "closing", "done"}
    /\ toClose \subseteq Calls
    /\ current \in Calls \union {NoCall}
    /\ closeAllErr \in BOOLEAN
    /\ mark \in [Marks -> MarkPC]
    /\ markTarget \in [Marks -> Calls \union {NoCall}]
    /\ \A k \in Marks :
         mark[k] = "found" => markTarget[k] \in {c \in Calls : Published(c)}
    /\ connected \subseteq Calls

\* No session is ever beyond everybody's reach.  An open session (a live
\* peer connection, possibly a recording) belongs to the Create call still
\* negotiating it, or can be found by its id, or some goroutine is committed
\* to closing it.  This is what the identity checks of Create, expire and
\* removeEntry are for.
NoOrphan ==
    \A c \in Calls :
        life[c] = "open" =>
            \/ create[c] \in {"negotiating", "answered"}
            \/ Mapped(c)
            \/ CloseRequested(c)
            \/ c \in toClose

\* A closed session never occupies its id: whichever of Close, expire,
\* CloseAll, a failed Create and the peer's callbacks got there first, the
\* id can be created again.
ClosedFreesId == \A c \in Calls : life[c] = "closed" => ~Mapped(c)

\* A Create that returned an error leaves nothing behind: no open peer
\* connection, no map entry.
FailedCreateCleansUp ==
    \A c \in Calls :
        create[c] \in {"error", "gone", "exists"} =>
            life[c] \in {"none", "closed"} /\ ~Mapped(c)

\* With a TTL, every open session that a client was given and that is still
\* registered has its expiry ahead: the timer is running or its function is
\* about to take the lock.
ExpiryCovered ==
    TTLEnabled =>
        \A c \in Calls :
            create[c] = "ok" /\ life[c] = "open" /\ Mapped(c)
                => timer[c] \in {"armed", "fired"}

\* Once Close has passed its critical section and Create has handed over the
\* timer, no expiry timer is left running: setExpiryTimer and Close agree on
\* who stops it in either order.
NoTimerLeak ==
    \A c \in Calls :
        life[c] \in {"stopped", "released", "closed"} /\ timer[c] = "armed"
            => create[c] = "setTimer"

\* An entry is never overwritten, only removed; a published, open session
\* loses its entry only to a goroutine that goes on to close it.
EntryStep ==
    \A c \in Calls :
        Mapped(c) /\ ~Mapped(c)' =>
            /\ sessions[reqId[c]]' = NoCall
            /\ Published(c) /\ life[c] = "open"
                 => CloseRequested(c)' \/ c \in toClose'
EntryRemovedOnlyToClose == [][EntryStep]_vars

-----------------------------------------------------------------------------
(* The registry implements SessionLife *)

\* The stage of a session's life that a stage of Session.Close belongs to.
StageOf(l) == IF l = "cancelled" THEN "closing"
              ELSE IF l \in {"stopped", "released"} THEN "quiet" ELSE l

\* Some goroutine has undertaken to close c: it is about to, or it has c on
\* its list, or Close is running or over.
Doomed(c) ==
    \/ CtxDone(c)
    \/ life[c] = "open" /\ (CloseRequested(c) \/ c \in toClose)

Stages == [c \in Calls |-> StageOf(life[c])]

DoomedCalls == {c \in Calls : Doomed(c)}

\* The result of a Close counts when it is over.
FailedCalls == {c \in closeErr : life[c] = "closed"}

Lifecycle == INSTANCE SessionLife WITH
    Sessions <- Calls,
    stage    <- Stages,
    doomed   <- DoomedCalls,
    failed   <- FailedCalls

\* Whatever combination of Create, Manager.Close, CloseAll, expiry and the
\* session itself closes a session, together they are one Close: begun only
\* on request, run once, with one result, and never given up by the goroutine
\* that took it on.
ImplementsLifecycle == Lifecycle!SafeSpec
=============================================================================
