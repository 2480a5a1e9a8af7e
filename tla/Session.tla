------------------------------- MODULE Session -------------------------------
(***************************************************************************)
(* One RTC session: rtc.Session (internal/rtc/session.go) with its audio   *)
(* prime (audio_prime.go) and its recording (internal/recording).          *)
(*                                                                         *)
(* Four kinds of goroutine share the session: the callbacks Pion starts    *)
(* for peer state changes and tracks, the disconnect grace timers, the     *)
(* audio prime, and whoever runs Close.  A critical section of s.stateMu   *)
(* is one action.  The expiry timer and onTerminal belong to the registry  *)
(* and are modelled in SessionManager.                                     *)
(***************************************************************************)
EXTENDS Naturals

CONSTANTS
    Tracks,        \* remote tracks the peer may deliver
    NoTrack,       \* nil recorder
    MaxEvents,     \* bound on the peer's own state changes
    PrimeEnabled,  \* s.audioPrimeEnabled
    TargetFrames   \* audioPrimeDuration / audioPrimeFrameDuration

ASSUME NoTrackAssumption == NoTrack \notin Tracks
ASSUME BoundsAssumption == MaxEvents \in Nat /\ TargetFrames \in Nat
ASSUME FlagAssumption == PrimeEnabled \in BOOLEAN

VARIABLES
    \* the peer connection, as Pion has it
    peerNow,       \* its connection state
    events,        \* how many state changes it has reported
    cbState,       \* the state each callback was started with
    cbPC,          \* program counter of each state callback
    \* the session, guarded by s.stateMu
    peerState,     \* s.peerState: the state handled last
    disconnectGeneration,
    disconnectTimer,   \* the generation of s.disconnectTimer, 0 for nil
    audioClaimed,
    recorder,      \* s.recorder: the track being recorded
    audioPrimeCancel,  \* s.audioPrimeCancel is set
    \* its goroutines
    graceTimer,    \* the AfterFunc of each generation
    graceElapsed,  \* the grace period has passed since the last handled change
    track,         \* program counter of each track's goroutine
    file,          \* the OGG file of each track
    primeOnce,     \* s.audioPrimeOnce has run
    primeCancelled,    \* audioPrimeCancel was called
    prime,         \* program counter of the audio prime
    frames,        \* samples written
    lateFrames,    \* of these, after the prime's context was cancelled
    \* Close
    closeRequested,    \* some goroutine has called, or is about to call, Close
    close,         \* program counter of the one run inside closeOnce
    taken,         \* the recorder Close took out of the session
    closeErr       \* s.closeErr: nil, or what failed first

peer == <<peerNow, events, cbState>>
grace == <<peerState, disconnectGeneration, disconnectTimer, graceTimer,
           graceElapsed>>
recorded == <<audioClaimed, recorder, file>>
recording == <<recorded, track>>
primeCtl == <<audioPrimeCancel, primeOnce, primeCancelled>>
primeOut == <<prime, frames, lateFrames>>
priming == <<primeCtl, primeOut>>
closing == <<close, taken, closeErr>>
vars == <<peer, cbPC, grace, recording, priming, closeRequested, closing>>

\* Pion reports one more change when Close closes the connection.
Changes == 1 .. MaxEvents + 1
PeerStates == {"new", "connecting", "connected", "disconnected", "failed",
               "closed"}

\* s.ctx.Err() != nil: cancel() is Close's first step.
CtxDone == close # "idle"

\* Mutant: the prime's context is not derived from s.ctx.
PrimeCtxDetached == primeCancelled

\* The prime's context, derived from s.ctx, is done.
PrimeCtxDone == CtxDone \/ primeCancelled

Init ==
    /\ peerNow = "new"
    /\ events = 0
    /\ cbState = [n \in Changes |-> "new"]
    /\ cbPC = [n \in Changes |-> "none"]
    /\ peerState = "new"
    /\ disconnectGeneration = 0
    /\ disconnectTimer = 0
    /\ audioClaimed = FALSE
    /\ recorder = NoTrack
    /\ audioPrimeCancel = FALSE
    /\ graceTimer = [g \in Changes |-> "none"]
    /\ graceElapsed = FALSE
    /\ track = [t \in Tracks |-> "none"]
    /\ file = [t \in Tracks |-> "none"]
    /\ primeOnce = FALSE
    /\ primeCancelled = FALSE
    /\ prime = "none"
    /\ frames = 0
    /\ lateFrames = 0
    /\ closeRequested = FALSE
    /\ close = "idle"
    /\ taken = NoTrack
    /\ closeErr = "nil"

-----------------------------------------------------------------------------
(* The peer connection (external: Pion) *)

\* The state changes Pion may report by itself: failed and closed are final
\* for a connection that is not renegotiated.
PeerMoves ==
    {move \in {"new", "connecting", "connected", "disconnected"}
                \X (PeerStates \ {"new"}) : move[1] # move[2]}

\* A state change starts a goroutine that runs the session's handler.
Report(state) ==
    /\ peerNow' = state
    /\ events' = events + 1
    /\ cbState' = [cbState EXCEPT ![events + 1] = state]
    /\ cbPC' = [cbPC EXCEPT ![events + 1] = "enter"]

PeerChanges ==
    /\ events < MaxEvents
    /\ \E state \in PeerStates :
         <<peerNow, state>> \in PeerMoves /\ Report(state)
    /\ UNCHANGED <<grace, recording, priming, closeRequested, closing>>

\* A remote track arrives; one that is not Opus audio is drained.
TrackArrives(t) ==
    /\ peerNow = "connected"
    /\ track[t] = "none"
    /\ \E pc \in {"arrived", "drain"} : track' = [track EXCEPT ![t] = pc]
    /\ UNCHANGED <<peer, cbPC, grace, recorded, priming, closeRequested,
                   closing>>

-----------------------------------------------------------------------------
(* handlePeerConnectionState and the disconnect grace timer *)

\* Mutant: the stored timer is forgotten instead of stopped.
ForgetDisconnectTimer == graceTimer

\* Timer.Stop of the stored timer: nothing happens if it has fired.
StopDisconnectTimer ==
    [g \in Changes |->
        IF g = disconnectTimer /\ graceTimer[g] = "running" THEN "stopped"
                                                            ELSE graceTimer[g]]

\* The handler's critical section; what follows depends on the state only.
\* Each callback has a goroutine of its own: nothing makes them take the lock
\* in the order of the changes.
HandleState(n) ==
    /\ cbPC[n] = "enter"
    /\ LET state == cbState[n]
           generation == disconnectGeneration + 1
           arm == state = "disconnected" /\ ~CtxDone
       IN  /\ disconnectGeneration' = generation
           /\ peerState' = state
           /\ disconnectTimer' = IF arm THEN generation ELSE 0
           /\ graceTimer' = IF arm
                            THEN [StopDisconnectTimer EXCEPT
                                    ![generation] = "running"]
                            ELSE StopDisconnectTimer
           /\ cbPC' = [cbPC EXCEPT ![n] =
                         IF state = "connected" THEN "start"
                         ELSE IF state \in {"failed", "closed"} THEN "stop"
                         ELSE "done"]
    /\ graceElapsed' = FALSE
    /\ UNCHANGED <<peer, recording, priming, closeRequested, closing>>

\* Mutant: only the audio prime is stopped.
HandleTerminalUnclosed(n) ==
    /\ cbPC[n] = "stop"
    /\ cbPC' = [cbPC EXCEPT ![n] = "done"]
    /\ primeCancelled' = (primeCancelled \/ audioPrimeCancel)
    /\ UNCHANGED <<peer, grace, recording, audioPrimeCancel, primeOnce,
                   primeOut, closeRequested, closing>>

\* Failed or closed: stopAudioPrime, then a goroutine that calls Close.
HandleTerminal(n) ==
    /\ cbPC[n] = "stop"
    /\ cbPC' = [cbPC EXCEPT ![n] = "done"]
    /\ primeCancelled' = (primeCancelled \/ audioPrimeCancel)
    /\ closeRequested' = TRUE
    /\ UNCHANGED <<peer, grace, recording, audioPrimeCancel, primeOnce,
                   primeOut, closing>>

\* The grace period of a running timer passes and its goroutine starts.
GraceElapses(g) ==
    /\ graceTimer[g] = "running"
    /\ graceTimer' = [graceTimer EXCEPT ![g] = "fired"]
    /\ graceElapsed' = (graceElapsed \/ g = disconnectGeneration)
    /\ UNCHANGED <<peer, cbPC, peerState, disconnectGeneration,
                   disconnectTimer, recording, priming, closeRequested,
                   closing>>

\* closeIfStillDisconnected(generation) up to its call of Close, for the
\* generations that are allowed to close.
FiredTimerDecides(g, current) ==
    /\ graceTimer[g] = "fired"
    /\ LET shouldClose == ~CtxDone /\ peerState = "disconnected" /\ current
       IN  /\ graceTimer' = [graceTimer EXCEPT ![g] =
                               IF shouldClose THEN "closing" ELSE "done"]
           /\ disconnectTimer' = IF shouldClose THEN 0 ELSE disconnectTimer
           /\ closeRequested' = (closeRequested \/ shouldClose)
    /\ UNCHANGED <<peer, cbPC, peerState, disconnectGeneration, graceElapsed,
                   recording, priming, closing>>

\* Mutant: a timer that was too late to be stopped is not recognised.
CloseIfDisconnected(g) == FiredTimerDecides(g, TRUE)

\* Mutant: the timer was given the generation before the increment.
CloseIfPreviousGeneration(g) ==
    FiredTimerDecides(g, disconnectGeneration = g - 1)

CloseIfStillDisconnected(g) == FiredTimerDecides(g, disconnectGeneration = g)

-----------------------------------------------------------------------------
(* The audio prime *)

\* startAudioPrime up to audioPrimeOnce.  A callback that finds the Once
\* taken has nothing to do when it gets through.
StartAudioPrime(n) ==
    /\ cbPC[n] = "start"
    /\ IF ~PrimeEnabled \/ CtxDone \/ primeOnce
         THEN cbPC' = [cbPC EXCEPT ![n] = "done"] /\ UNCHANGED primeOnce
         ELSE cbPC' = [cbPC EXCEPT ![n] = "prime"] /\ primeOnce' = TRUE
    /\ UNCHANGED <<peer, grace, recording, audioPrimeCancel, primeCancelled,
                   primeOut, closeRequested, closing>>

\* The critical section inside the Once, and the start of the goroutine.
LaunchAudioPrime(n) ==
    /\ cbPC[n] = "prime"
    /\ cbPC' = [cbPC EXCEPT ![n] = "done"]
    /\ IF CtxDone
         THEN UNCHANGED <<audioPrimeCancel, prime>>
         ELSE audioPrimeCancel' = TRUE /\ prime' = "loop"
    /\ UNCHANGED <<peer, grace, recording, primeOnce, primeCancelled, frames,
                   lateFrames, closeRequested, closing>>

\* Mutant: one frame too many.
PrimeLoopInclusive ==
    /\ prime = "loop"
    /\ prime' = IF frames > TargetFrames THEN "duration"
                ELSE IF PrimeCtxDone THEN "cancelled" ELSE "wait"
    /\ UNCHANGED <<peer, cbPC, grace, recording, primeCtl, frames, lateFrames,
                   closeRequested, closing>>

\* runAudioPrime: the loop condition and the first look at the context.
PrimeLoop ==
    /\ prime = "loop"
    /\ prime' = IF frames >= TargetFrames THEN "duration"
                ELSE IF PrimeCtxDone THEN "cancelled" ELSE "wait"
    /\ UNCHANGED <<peer, cbPC, grace, recording, primeCtl, frames, lateFrames,
                   closeRequested, closing>>

\* The select: cancellation, or a tick and another look at the context.
PrimeWait ==
    /\ prime = "wait"
    /\ prime' = IF PrimeCtxDone THEN "cancelled" ELSE "write"
    /\ UNCHANGED <<peer, cbPC, grace, recording, primeCtl, frames, lateFrames,
                   closeRequested, closing>>

\* WriteSample: it may fail, and the context may be cancelled by now.
PrimeWrite ==
    /\ prime = "write"
    /\ \/ /\ prime' = "failed"
          /\ UNCHANGED <<frames, lateFrames>>
       \/ /\ prime' = "loop"
          /\ frames' = frames + 1
          /\ lateFrames' = IF CtxDone \/ primeCancelled THEN lateFrames + 1
                                                        ELSE lateFrames
    /\ UNCHANGED <<peer, cbPC, grace, recording, primeCtl, closeRequested,
                   closing>>

-----------------------------------------------------------------------------
(* Recording *)

\* Mutant: startRecorder does not look at the session's context.
StartRecorderLate(t) ==
    /\ track[t] = "arrived"
    /\ \/ /\ audioClaimed
          /\ track' = [track EXCEPT ![t] = "drain"]
          /\ UNCHANGED <<recorded>>
       \/ /\ ~audioClaimed
          /\ audioClaimed' = TRUE
          /\ track' = [track EXCEPT ![t] = "read"]
          /\ recorder' = t
          /\ file' = [file EXCEPT ![t] = "open"]
    /\ UNCHANGED <<peer, cbPC, grace, priming, closeRequested, closing>>

\* Mutant: a second Opus track is recorded too.
StartRecorderUnclaimed(t) ==
    /\ track[t] = "arrived"
    /\ \/ /\ CtxDone
          /\ track' = [track EXCEPT ![t] = "drain"]
          /\ UNCHANGED <<recorded>>
       \/ /\ ~CtxDone
          /\ audioClaimed' = TRUE
          /\ track' = [track EXCEPT ![t] = "read"]
          /\ recorder' = t
          /\ file' = [file EXCEPT ![t] = "open"]
    /\ UNCHANGED <<peer, cbPC, grace, priming, closeRequested, closing>>

\* startRecorder under s.stateMu: refused, failed (a goroutine closes the
\* session, the track is drained), or recording.
StartRecorder(t) ==
    /\ track[t] = "arrived"
    /\ \/ /\ audioClaimed \/ CtxDone
          /\ track' = [track EXCEPT ![t] = "drain"]
          /\ UNCHANGED <<recorded, closeRequested>>
       \/ /\ ~audioClaimed /\ ~CtxDone
          /\ audioClaimed' = TRUE
          /\ track' = [track EXCEPT ![t] = "drain"]
          /\ closeRequested' = TRUE
          /\ UNCHANGED <<recorder, file>>
       \/ /\ ~audioClaimed /\ ~CtxDone
          /\ audioClaimed' = TRUE
          /\ track' = [track EXCEPT ![t] = "read"]
          /\ recorder' = t
          /\ file' = [file EXCEPT ![t] = "open"]
          /\ UNCHANGED closeRequested
    /\ UNCHANGED <<peer, cbPC, grace, priming, closing>>

\* ReadRTP returns a packet ...
ReadPacket(t) ==
    /\ track[t] = "read"
    /\ peerNow # "closed"
    /\ track' = [track EXCEPT ![t] = "write"]
    /\ UNCHANGED <<peer, cbPC, grace, recorded, priming, closeRequested,
                   closing>>

\* Mutant: drainRemoteTrack goes on after an error.
ReadFailsRecording(t) ==
    /\ track[t] = "read"
    /\ track' = [track EXCEPT ![t] = "done"]
    /\ UNCHANGED <<peer, cbPC, grace, recorded, priming, closeRequested,
                   closing>>

\* ... or an error: recordTrack and drainRemoteTrack return.
ReadFails(t) ==
    /\ track[t] \in {"read", "drain"}
    /\ track' = [track EXCEPT ![t] = "done"]
    /\ UNCHANGED <<peer, cbPC, grace, recorded, priming, closeRequested,
                   closing>>

\* recorder.WriteRTP: written, ErrClosed, or another error, which closes the
\* session.
WritePacket(t) ==
    /\ track[t] = "write"
    /\ \/ /\ file[t] = "open"
          /\ track' = [track EXCEPT ![t] = "read"]
          /\ UNCHANGED closeRequested
       \/ /\ file[t] = "open"
          /\ track' = [track EXCEPT ![t] = "done"]
          /\ closeRequested' = TRUE
       \/ /\ file[t] # "open"
          /\ track' = [track EXCEPT ![t] = "done"]
          /\ UNCHANGED closeRequested
    /\ UNCHANGED <<peer, cbPC, grace, recorded, priming, closing>>

-----------------------------------------------------------------------------
(* Close *)

\* The registry closes the session: DELETE, expiry, CloseAll, failed Create.
ManagerCloses ==
    /\ closeRequested' = TRUE
    /\ UNCHANGED <<peer, cbPC, grace, recording, priming, closing>>

\* Mutant: Close without closeOnce runs again for a second caller.
CloseBeginAgain ==
    /\ closeRequested
    /\ close \in {"idle", "done"}
    /\ close' = "stopPrime"
    /\ UNCHANGED <<peer, cbPC, grace, recording, priming, closeRequested,
                   taken, closeErr>>

\* closeOnce is entered: cancel().
CloseBegin ==
    /\ closeRequested
    /\ close = "idle"
    /\ close' = "stopPrime"
    /\ UNCHANGED <<peer, cbPC, grace, recording, priming, closeRequested,
                   taken, closeErr>>

CloseStopPrime ==
    /\ close = "stopPrime"
    /\ close' = "teardown"
    /\ primeCancelled' = (primeCancelled \/ audioPrimeCancel)
    /\ UNCHANGED <<peer, cbPC, grace, recording, audioPrimeCancel, primeOnce,
                   primeOut, closeRequested, taken, closeErr>>

\* Close's critical section: stop the timer, take the recorder.
CloseTeardown ==
    /\ close = "teardown"
    /\ close' = "finalize"
    /\ graceTimer' = StopDisconnectTimer
    /\ disconnectTimer' = 0
    /\ taken' = recorder
    /\ recorder' = NoTrack
    /\ UNCHANGED <<peer, cbPC, peerState, disconnectGeneration, graceElapsed,
                   audioClaimed, track, file, priming, closeRequested,
                   closeErr>>

\* recorder.Close, if there is one: it finalizes the OGG file or fails.
CloseRecorder ==
    /\ close = "finalize"
    /\ close' = "peer"
    /\ \/ /\ taken = NoTrack
          /\ UNCHANGED <<file, closeErr>>
       \/ /\ taken # NoTrack
          /\ file' = [file EXCEPT ![taken] = "finalized"]
          /\ UNCHANGED closeErr
       \/ /\ taken # NoTrack
          /\ file' = [file EXCEPT ![taken] = "failed"]
          /\ closeErr' = "recorder"
    /\ UNCHANGED <<peer, cbPC, grace, audioClaimed, recorder, track, priming,
                   closeRequested, taken>>

\* peer.Close: Pion reports the closed state unless it had done so already.
\* onTerminal follows, and closeOnce is over.
ClosePeer ==
    /\ close = "peer"
    /\ close' = "done"
    /\ IF peerNow = "closed" THEN UNCHANGED <<peer, cbPC>> ELSE Report("closed")
    /\ closeErr' \in {closeErr, IF closeErr = "nil" THEN "peer" ELSE closeErr}
    /\ UNCHANGED <<grace, recording, priming, closeRequested, taken>>

-----------------------------------------------------------------------------
CallbackStep(n) ==
    \/ HandleState(n) \/ HandleTerminal(n)
    \/ StartAudioPrime(n) \/ LaunchAudioPrime(n)

GraceStep(g) == GraceElapses(g) \/ CloseIfStillDisconnected(g)

PrimeStep == PrimeLoop \/ PrimeWait \/ PrimeWrite

CloseStep ==
    CloseBegin \/ CloseStopPrime \/ CloseTeardown \/ CloseRecorder \/ ClosePeer

Next ==
    \/ PeerChanges
    \/ ManagerCloses
    \/ \E n \in Changes : CallbackStep(n)
    \/ \E g \in Changes : GraceStep(g)
    \/ PrimeStep
    \/ CloseStep
    \/ \E t \in Tracks : TrackArrives(t) \/ StartRecorder(t) \/ ReadPacket(t)
                           \/ ReadFails(t) \/ WritePacket(t)

Spec == Init /\ [][Next]_vars

\* Goroutines are scheduled, timers fire, and ReadRTP fails once the peer
\* connection is closed.  Nothing makes the peer change state, tracks arrive
\* or the registry close the session.
Fairness ==
    /\ \A n \in Changes : WF_vars(CallbackStep(n))
    /\ \A g \in Changes : WF_vars(GraceStep(g))
    /\ WF_vars(PrimeStep)
    /\ WF_vars(CloseStep)
    /\ \A t \in Tracks : WF_vars(StartRecorder(t) \/ WritePacket(t)
                                   \/ (peerNow = "closed" /\ ReadFails(t)))

FairSpec == Spec /\ Fairness

-----------------------------------------------------------------------------
(* Properties *)

\* Every variable keeps its type; the handler counts no change twice and the
\* prime writes no more than the frames it was asked for.
TypeOK ==
    /\ peerNow \in PeerStates
    /\ events \in 0 .. MaxEvents + 1
    /\ cbState \in [Changes -> PeerStates]
    /\ cbPC \in [Changes -> {"none", "enter", "start", "prime", "stop", "done"}]
    /\ peerState \in PeerStates
    /\ disconnectGeneration \in 0 .. events
    /\ disconnectTimer \in 0 .. disconnectGeneration
    /\ audioClaimed \in BOOLEAN
    /\ recorder \in Tracks \union {NoTrack}
    /\ audioPrimeCancel \in BOOLEAN
    /\ graceTimer \in [Changes -> {"none", "running", "stopped", "fired",
                                   "closing", "done"}]
    /\ graceElapsed \in BOOLEAN
    /\ track \in [Tracks -> {"none", "arrived", "read", "write", "drain",
                              "done"}]
    /\ file \in [Tracks -> {"none", "open", "finalized", "failed"}]
    /\ primeOnce \in BOOLEAN
    /\ primeCancelled \in BOOLEAN
    /\ prime \in {"none", "loop", "wait", "write", "cancelled", "duration",
                  "failed"}
    /\ frames \in 0 .. TargetFrames
    /\ lateFrames \in 0 .. TargetFrames
    /\ closeRequested \in BOOLEAN
    /\ close \in {"idle", "stopPrime", "teardown", "finalize", "peer", "done"}
    /\ taken \in Tracks \union {NoTrack}
    /\ closeErr \in {"nil", "recorder", "peer"}

\* When Close is over no recording is left open, and if it returned nil every
\* recording is finalized: whatever track callback raced it either had its
\* recorder taken by Close or was refused one.
CloseFinalizesRecording ==
    close = "done" =>
        \A t \in Tracks : /\ file[t] # "open"
                          /\ closeErr # "recorder" => file[t] # "failed"

\* Only the first Opus track of a session is ever recorded.
OneRecording ==
    \A t, u \in Tracks : file[t] # "none" /\ file[u] # "none" => t = u

\* At most the stored grace timer is running, and none is once Close has
\* passed its critical section, though callbacks still come in.
NoTimerLeak ==
    \A g \in Changes :
        graceTimer[g] = "running" =>
            disconnectTimer = g /\ close \in {"idle", "stopPrime", "teardown"}

\* A grace timer closes the session only after a whole grace period without
\* any state change handled, also if an older timer fired too late to be
\* stopped.
GraceStepHolds ==
    \A g \in Changes :
        graceTimer[g] = "fired" /\ graceTimer[g]' = "closing" => graceElapsed
GraceRespected == [][GraceStepHolds]_vars

\* In whatever order callbacks take the lock, the one that took it last
\* decides: a grace timer runs only for a disconnected handled last, and until
\* Close begins such a session has its timer, running or fired, or is being
\* closed by it.  handlePeerConnectionState stops the old timer, and
\* closeIfStillDisconnected gives up only if there was another change.
GraceFollowsHandledState ==
    /\ \A g \in Changes :
         graceTimer[g] = "running" =>
             g = disconnectGeneration /\ peerState = "disconnected"
    /\ peerState = "disconnected" /\ close = "idle" =>
         graceTimer[disconnectGeneration] \in {"running", "fired", "closing"}

\* What the design document says of the peer, not of the callbacks: when it
\* is connected again, and its callbacks have run, the grace timer is
\* cancelled.
ReconnectCancelsGrace ==
    peerNow = "connected" /\ (\A n \in Changes : cbPC[n] # "enter") =>
        \A g \in Changes : graceTimer[g] # "running"

\* After the prime's context is cancelled, by Close or by a terminal peer
\* state, at most the sample being written still goes out.
AtMostOneLateFrame == lateFrames <= 1

\* A peer connection that failed or closed ends the session.
TerminalPeerClosesSession == peerNow \in {"failed", "closed"} ~> close = "done"

\* A session that has handled a disconnected is closed by its grace timer, to
\* the end of Close, unless it handles another change before.
DisconnectedSessionEnds ==
    peerState = "disconnected" ~> peerState # "disconnected" \/ close = "done"

\* What the design document says of the peer: one that remains disconnected
\* ends the session.
DisconnectedPeerClosesSession ==
    <>[](peerNow = "disconnected") => <>(close = "done")

\* When Close is over, every goroutine of the session ends.
GoroutinesEnd ==
    close = "done" ~>
        /\ \A n \in Changes : cbPC[n] \in {"none", "done"}
        /\ \A g \in Changes : graceTimer[g] \notin {"running", "fired"}
        /\ \A t \in Tracks : track[t] \in {"none", "done"}
        /\ prime \notin {"loop", "wait", "write"}

-----------------------------------------------------------------------------
(* The session implements SessionLife *)

Self == {"self"}

Stage == IF close = "idle" THEN "open"
         ELSE IF close \in {"stopPrime", "teardown"} THEN "closing"
         ELSE IF close \in {"finalize", "peer"} THEN "quiet"
         ELSE "closed"

SelfStage == [s \in Self |-> Stage]
DoomedSelf == {s \in Self : closeRequested}
FailedSelf == {s \in Self : close = "done" /\ closeErr # "nil"}

Lifecycle == INSTANCE SessionLife WITH
    Sessions <- Self,
    stage    <- SelfStage,
    doomed   <- DoomedSelf,
    failed   <- FailedSelf

\* A session keeps what the registry takes for granted of it: one Close,
\* begun on request, quiet before it releases anything, with one result.
ImplementsLifecycle == Lifecycle!Spec
=============================================================================
