---------------------------- MODULE SessionProofs ----------------------------
(***************************************************************************)
(* The safety of a session for every number of peer state changes, tracks  *)
(* and prime frames, in whatever order callbacks take the lock.            *)
(*                                                                         *)
(* The inductive invariant is split by the state it is about: the peer     *)
(* and its callbacks, the count of the callbacks handled, the grace        *)
(* timers, the audio prime, the recording and Close.                       *)
(***************************************************************************)
EXTENDS Session, FiniteSetTheorems, TLAPS

\* A callback has been through the handler's critical section.
Handled(n) == cbPC[n] \notin {"none", "enter"}

HandledCallbacks == {n \in Changes : Handled(n)}

ClosePC == {"idle", "stopPrime", "teardown", "finalize", "peer", "done"}

\* There is one callback for each change so far, the last one for the state
\* the peer is in, and room for the change that Close itself causes.
PeerInv ==
    /\ peerNow \in PeerStates
    /\ events \in 0 .. MaxEvents + 1
    /\ cbState \in [Changes -> PeerStates]
    /\ cbPC \in [Changes -> {"none", "enter", "start", "prime", "stop",
                             "done"}]
    /\ close \in ClosePC
    /\ close # "done" => events <= MaxEvents
    /\ close = "done" => peerNow = "closed"
    /\ \A n \in Changes : cbPC[n] = "none" <=> n > events
    /\ events = 0 => peerNow = "new"
    /\ events > 0 => cbState[events] = peerNow

\* The generation counts the callbacks handled.
CountInv ==
    /\ disconnectGeneration \in Nat
    /\ disconnectGeneration = Cardinality(HandledCallbacks)

\* The session knows the timer of the current generation or none, and knows
\* the one that is running; only a disconnected session that Close has not
\* torn down has one.
GraceInv ==
    /\ peerState \in PeerStates
    /\ disconnectTimer \in {0, disconnectGeneration}
    /\ disconnectTimer # 0 =>
         /\ peerState = "disconnected"
         /\ close \in {"idle", "stopPrime", "teardown"}
    /\ graceTimer \in [Changes -> {"none", "running", "stopped", "fired",
                                   "closing", "done"}]
    /\ graceElapsed \in BOOLEAN
    /\ \A g \in Changes :
         /\ g > disconnectGeneration => graceTimer[g] = "none"
         /\ graceTimer[g] = "running" => g = disconnectTimer
         /\ graceTimer[g] = "fired" /\ g = disconnectGeneration => graceElapsed

\* Until Close begins, a session whose last handled state is disconnected has
\* the timer of that very change, or is being closed by it.
CoverInv ==
    peerState = "disconnected" /\ close = "idle" =>
        /\ disconnectGeneration \in Changes
        /\ graceTimer[disconnectGeneration] \in {"running", "fired", "closing"}

\* The prime waits and writes only below its target, and not again after a
\* frame that was late.
PrimeInv ==
    /\ prime \in {"none", "loop", "wait", "write", "cancelled", "duration",
                  "failed"}
    /\ frames \in 0 .. TargetFrames
    /\ lateFrames \in 0 .. 1
    /\ lateFrames <= frames
    /\ prime \in {"wait", "write"} => frames < TargetFrames /\ lateFrames = 0
    /\ lateFrames > 0 => PrimeCtxDone
    /\ audioPrimeCancel \in BOOLEAN
    /\ primeCancelled \in BOOLEAN

\* One callback at most gets past audioPrimeOnce, and until it starts the
\* prime there is none.
OnceInv ==
    /\ primeOnce \in BOOLEAN
    /\ prime # "none" => primeOnce
    /\ \A n \in Changes : cbPC[n] = "prime" => primeOnce /\ prime = "none"
    /\ \A m, n \in Changes : cbPC[m] = "prime" /\ cbPC[n] = "prime" => m = n

\* The one recording is open in the hands of the session, then of Close.
RecordInv ==
    /\ audioClaimed \in BOOLEAN
    /\ recorder \in Tracks \union {NoTrack}
    /\ taken \in Tracks \union {NoTrack}
    /\ track \in [Tracks -> {"none", "arrived", "read", "write", "drain",
                             "done"}]
    /\ file \in [Tracks -> {"none", "open", "finalized", "failed"}]
    /\ closeErr \in {"nil", "recorder", "peer"}
    /\ recorder # NoTrack => file[recorder] # "none"
    /\ taken # NoTrack => file[taken] # "none"
    /\ \A t \in Tracks :
         /\ file[t] # "none" => audioClaimed
         /\ file[t] = "failed" => closeErr = "recorder"
         /\ file[t] = "open" =>
              \/ recorder = t /\ close \in {"idle", "stopPrime", "teardown"}
              \/ taken = t /\ close = "finalize"
    /\ OneRecording

\* Close runs only on request.
RequestInv ==
    /\ closeRequested \in BOOLEAN
    /\ close # "idle" => closeRequested

IInv ==
    /\ PeerInv /\ CountInv /\ GraceInv /\ CoverInv
    /\ PrimeInv /\ OnceInv /\ RecordInv /\ RequestInv

-----------------------------------------------------------------------------
(* Each part of the invariant is kept by every step *)

\* Only Pion's reports start callbacks, and they leave room for Close's own.
LEMMA PeerStep == PeerInv /\ [Next]_vars => PeerInv'
<1> SUFFICES ASSUME PeerInv, [Next]_vars PROVE PeerInv' OBVIOUS
<1> USE BoundsAssumption DEF PeerInv, PeerStates, Changes, ClosePC
<1>1. CASE PeerChanges
  BY <1>1 DEF PeerChanges, PeerMoves, Report, closing
<1>2. CASE ClosePeer
  BY <1>2 DEF ClosePeer, Report, peer
<1>3. ASSUME NEW n \in Changes, CallbackStep(n) PROVE PeerInv'
  BY <1>3 DEF CallbackStep, HandleState, HandleTerminal, StartAudioPrime,
              LaunchAudioPrime, peer, closing
<1>4. CASE CloseBegin \/ CloseStopPrime \/ CloseTeardown \/ CloseRecorder
  BY <1>4 DEF CloseBegin, CloseStopPrime, CloseTeardown, CloseRecorder, peer
<1>5. CASE UNCHANGED <<peer, cbPC, close>>
  BY <1>5 DEF peer
<1> QED
  BY <1>1, <1>2, <1>3, <1>4, <1>5
  DEF Next, ManagerCloses, GraceStep, GraceElapses, CloseIfStillDisconnected,
      FiredTimerDecides, PrimeStep, PrimeLoop, PrimeWait, PrimeWrite,
      CloseStep, TrackArrives, StartRecorder, ReadPacket, ReadFails,
      WritePacket, vars, closing

\* HandleState adds one callback to those handled, and no other step does.
LEMMA CountStep == PeerInv /\ CountInv /\ [Next]_vars => CountInv'
<1> SUFFICES ASSUME PeerInv, CountInv, [Next]_vars PROVE CountInv' OBVIOUS
<1> USE BoundsAssumption DEF CountInv
<1>f. IsFiniteSet(HandledCallbacks)
  <2>1. IsFiniteSet(Changes) BY FS_Interval DEF Changes
  <2> QED BY <2>1, FS_Subset DEF HandledCallbacks
<1>1. ASSUME NEW n \in Changes, HandleState(n) PROVE CountInv'
  <2>1. HandledCallbacks' = HandledCallbacks \union {n}
    BY <1>1 DEF HandleState, HandledCallbacks, Handled, PeerInv
  <2>2. n \notin HandledCallbacks
    BY <1>1 DEF HandleState, HandledCallbacks, Handled
  <2>3. Cardinality(HandledCallbacks') = Cardinality(HandledCallbacks) + 1
    BY <1>f, <2>1, <2>2, FS_AddElement
  <2>4. disconnectGeneration' = disconnectGeneration + 1
    BY <1>1 DEF HandleState
  <2> QED BY <2>3, <2>4
<1>2. ASSUME HandledCallbacks' = HandledCallbacks,
             UNCHANGED disconnectGeneration
      PROVE  CountInv'
  BY <1>2
<1>3. ASSUME NEW state, Report(state), events + 1 \in Changes
      PROVE  HandledCallbacks' = HandledCallbacks
  BY <1>3 DEF Report, HandledCallbacks, Handled, PeerInv
<1>4. CASE PeerChanges
  <2>1. events + 1 \in Changes /\ UNCHANGED disconnectGeneration
    BY <1>4 DEF PeerChanges, PeerInv, Changes, grace
  <2> QED BY <1>2, <1>3, <1>4, <2>1 DEF PeerChanges
<1>5. CASE ClosePeer
  <2>1. events + 1 \in Changes /\ UNCHANGED disconnectGeneration
    BY <1>5 DEF ClosePeer, PeerInv, Changes, grace
  <2>2. CASE UNCHANGED cbPC
    BY <1>2, <2>1, <2>2 DEF HandledCallbacks, Handled
  <2> QED BY <1>2, <1>3, <1>5, <2>1, <2>2 DEF ClosePeer
<1>6. ASSUME NEW n \in Changes,
             HandleTerminal(n) \/ StartAudioPrime(n) \/ LaunchAudioPrime(n)
      PROVE  CountInv'
  <2>1. HandledCallbacks' = HandledCallbacks
    BY <1>6 DEF HandleTerminal, StartAudioPrime, LaunchAudioPrime,
                HandledCallbacks, Handled, PeerInv
  <2>2. UNCHANGED disconnectGeneration
    BY <1>6 DEF HandleTerminal, StartAudioPrime, LaunchAudioPrime, grace
  <2> QED BY <1>2, <2>1, <2>2
<1>7. CASE UNCHANGED <<cbPC, disconnectGeneration>>
  BY <1>2, <1>7 DEF HandledCallbacks, Handled
<1> QED
  BY <1>1, <1>4, <1>5, <1>6, <1>7
  DEF Next, ManagerCloses, CallbackStep, GraceStep, GraceElapses,
      CloseIfStillDisconnected, FiredTimerDecides, PrimeStep, PrimeLoop,
      PrimeWait, PrimeWrite, CloseStep, CloseBegin, CloseStopPrime,
      CloseTeardown, CloseRecorder, TrackArrives, StartRecorder, ReadPacket,
      ReadFails, WritePacket, vars, grace

\* No more callbacks are handled than there are changes, and a callback that
\* is still to be handled leaves the count below them.
LEMMA GenerationBound ==
    PeerInv /\ CountInv =>
        /\ disconnectGeneration <= events
        /\ \A n \in Changes :
             cbPC[n] = "enter" => disconnectGeneration + 1 <= events
<1> SUFFICES ASSUME PeerInv, CountInv
             PROVE  /\ disconnectGeneration <= events
                    /\ \A n \in Changes :
                         cbPC[n] = "enter" =>
                             disconnectGeneration + 1 <= events
  OBVIOUS
<1>1. events \in Nat /\ HandledCallbacks \subseteq 1 .. events
  BY BoundsAssumption DEF PeerInv, HandledCallbacks, Handled, Changes
<1>2. IsFiniteSet(1 .. events) /\ Cardinality(1 .. events) = events
  BY <1>1, FS_Interval
<1>3. disconnectGeneration <= events
  BY <1>1, <1>2, FS_Subset DEF CountInv
<1>4. ASSUME NEW n \in Changes, cbPC[n] = "enter"
      PROVE  disconnectGeneration + 1 <= events
  <2>1. n \in 1 .. events /\ n \notin HandledCallbacks
    BY <1>4, BoundsAssumption
    DEF PeerInv, HandledCallbacks, Handled, Changes
  <2>2. HandledCallbacks # 1 .. events
    BY <2>1
  <2>3. disconnectGeneration # events
    BY <1>1, <1>2, <2>2, FS_Subset DEF CountInv
  <2> QED BY <1>1, <1>3, <2>3 DEF CountInv
<1> QED BY <1>3, <1>4

\* The handler stops the timer the session knows before it starts another,
\* and starts none once Close has begun.
LEMMA GraceStepInv ==
    PeerInv /\ CountInv /\ GraceInv /\ [Next]_vars => GraceInv'
<1> SUFFICES ASSUME PeerInv, CountInv, GraceInv, [Next]_vars PROVE GraceInv'
  OBVIOUS
<1>g. disconnectGeneration \in Nat BY DEF CountInv
<1>b. \A n \in Changes :
        cbPC[n] = "enter" => disconnectGeneration + 1 \in Changes
  BY GenerationBound, BoundsAssumption, <1>g DEF PeerInv, Changes
<1>1. ASSUME NEW n \in Changes, HandleState(n) PROVE GraceInv'
  <2> USE <1>1, <1>g, <1>b DEF HandleState, closing
  <2>1. peerState' \in PeerStates /\ graceElapsed' \in BOOLEAN
    BY DEF PeerInv
  <2>2. /\ disconnectTimer' \in {0, disconnectGeneration'}
        /\ disconnectTimer' # 0 =>
             /\ peerState' = "disconnected"
             /\ close' \in {"idle", "stopPrime", "teardown"}
    BY DEF CtxDone
  <2>3. graceTimer' \in [Changes -> {"none", "running", "stopped", "fired",
                                     "closing", "done"}]
    BY DEF GraceInv, StopDisconnectTimer
  <2>4. \A g \in Changes : graceTimer'[g] =
          IF g = disconnectGeneration + 1 /\ disconnectTimer' # 0
            THEN "running"
            ELSE IF graceTimer[g] = "running" THEN "stopped" ELSE graceTimer[g]
    BY DEF GraceInv, StopDisconnectTimer
  <2>5. ASSUME NEW g \in Changes
        PROVE  /\ g > disconnectGeneration' => graceTimer'[g] = "none"
               /\ graceTimer'[g] = "running" => g = disconnectTimer'
               /\ graceTimer'[g] = "fired" /\ g = disconnectGeneration'
                    => graceElapsed'
    <3>1. g \in Nat BY DEF Changes
    <3> QED BY <2>4, <3>1 DEF GraceInv
  <2> QED BY <2>1, <2>2, <2>3, <2>5 DEF GraceInv
<1>2. ASSUME NEW g \in Changes, GraceElapses(g) PROVE GraceInv'
  BY <1>2 DEF GraceInv, GraceElapses, closing
<1>3. ASSUME NEW g \in Changes, CloseIfStillDisconnected(g) PROVE GraceInv'
  BY <1>3, <1>g DEF GraceInv, CloseIfStillDisconnected, FiredTimerDecides,
                    closing, Changes
<1>4. CASE CloseTeardown
  BY <1>4 DEF GraceInv, CloseTeardown, StopDisconnectTimer
<1>5. CASE UNCHANGED grace /\ close' \in {close, "stopPrime", "teardown"}
  BY <1>5 DEF GraceInv, grace
<1>6. CASE CloseRecorder \/ ClosePeer
  BY <1>6 DEF GraceInv, CloseRecorder, ClosePeer, grace
<1> QED
  BY <1>1, <1>2, <1>3, <1>4, <1>5, <1>6
  DEF Next, PeerChanges, ManagerCloses, CallbackStep, HandleTerminal,
      StartAudioPrime, LaunchAudioPrime, GraceStep, PrimeStep, PrimeLoop,
      PrimeWait, PrimeWrite, CloseStep, CloseBegin, CloseStopPrime,
      TrackArrives, StartRecorder, ReadPacket, ReadFails, WritePacket, vars,
      closing

\* A timer of the current generation is stopped only by the handling of
\* another change, or by Close; it gives up only when it is not current.
LEMMA CoverStep ==
    PeerInv /\ CountInv /\ GraceInv /\ CoverInv /\ [Next]_vars => CoverInv'
<1> SUFFICES ASSUME PeerInv, CountInv, GraceInv, CoverInv, [Next]_vars,
                    peerState' = "disconnected", close' = "idle"
             PROVE  CoverInv'
  BY DEF CoverInv
<1>g. disconnectGeneration \in Nat BY DEF CountInv
<1>1. ASSUME NEW n \in Changes, HandleState(n) PROVE CoverInv'
  <2>1. disconnectGeneration + 1 \in Changes
    BY <1>1, <1>g, GenerationBound, BoundsAssumption
    DEF HandleState, PeerInv, Changes
  <2>2. disconnectGeneration' = disconnectGeneration + 1
    BY <1>1 DEF HandleState
  <2>3. graceTimer'[disconnectGeneration + 1] = "running"
    BY <1>1, <2>1 DEF HandleState, CtxDone, closing, StopDisconnectTimer
  <2> QED BY <2>1, <2>2, <2>3 DEF CoverInv
<1>2. ASSUME NEW g \in Changes, GraceElapses(g) PROVE CoverInv'
  BY <1>2 DEF GraceInv, CoverInv, GraceElapses, closing
<1>3. ASSUME NEW g \in Changes, CloseIfStillDisconnected(g) PROVE CoverInv'
  BY <1>3 DEF GraceInv, CoverInv, CloseIfStillDisconnected,
              FiredTimerDecides, CtxDone, closing
<1>4. CASE UNCHANGED grace /\ close = "idle"
  BY <1>4 DEF CoverInv, grace
<1> QED
  BY <1>1, <1>2, <1>3, <1>4
  DEF Next, PeerChanges, ManagerCloses, CallbackStep, HandleTerminal,
      StartAudioPrime, LaunchAudioPrime, GraceStep, PrimeStep, PrimeLoop,
      PrimeWait, PrimeWrite, CloseStep, CloseBegin, CloseStopPrime,
      CloseTeardown, CloseRecorder, ClosePeer, TrackArrives, StartRecorder,
      ReadPacket, ReadFails, WritePacket, vars, closing

\* A frame is late only if the context was cancelled after the look that
\* precedes the write, and the next look ends the prime.
LEMMA PrimeStepInv == PrimeInv /\ [Next]_vars => PrimeInv'
<1> SUFFICES ASSUME PrimeInv, [Next]_vars PROVE PrimeInv' OBVIOUS
<1> USE BoundsAssumption DEF PrimeInv, PrimeCtxDone, CtxDone, primeCtl,
        primeOut, closing
<1>1. CASE PrimeLoop
  BY <1>1 DEF PrimeLoop
<1>2. CASE PrimeWait
  BY <1>2 DEF PrimeWait
<1>3. CASE PrimeWrite
  BY <1>3 DEF PrimeWrite
<1>4. ASSUME NEW n \in Changes, LaunchAudioPrime(n) PROVE PrimeInv'
  BY <1>4 DEF LaunchAudioPrime
<1>5. CASE /\ UNCHANGED <<prime, frames, lateFrames, audioPrimeCancel>>
           /\ primeCancelled' \in {primeCancelled,
                                  primeCancelled \/ audioPrimeCancel}
           /\ close # "idle" => close' # "idle"
  BY <1>5
<1> QED
  BY <1>1, <1>2, <1>3, <1>4, <1>5
  DEF Next, PeerChanges, ManagerCloses, CallbackStep, HandleState,
      HandleTerminal, StartAudioPrime, GraceStep, GraceElapses,
      CloseIfStillDisconnected, FiredTimerDecides, PrimeStep, CloseStep,
      CloseBegin, CloseStopPrime, CloseTeardown, CloseRecorder, ClosePeer,
      TrackArrives, StartRecorder, ReadPacket, ReadFails, WritePacket, vars,
      priming

\* Only the callback that takes audioPrimeOnce gets to start the prime.
LEMMA OnceStep == PeerInv /\ OnceInv /\ [Next]_vars => OnceInv'
<1> SUFFICES ASSUME PeerInv, OnceInv, [Next]_vars PROVE OnceInv' OBVIOUS
<1> USE DEF OnceInv, primeCtl, primeOut, priming
<1>p. cbPC \in [Changes -> {"none", "enter", "start", "prime", "stop", "done"}]
  BY DEF PeerInv
<1>1. ASSUME NEW n \in Changes, HandleState(n) PROVE OnceInv'
  BY <1>1, <1>p DEF HandleState
<1>2. ASSUME NEW n \in Changes, HandleTerminal(n) PROVE OnceInv'
  BY <1>2, <1>p DEF HandleTerminal
<1>3. ASSUME NEW n \in Changes, StartAudioPrime(n) PROVE OnceInv'
  BY <1>3, <1>p DEF StartAudioPrime
<1>4. ASSUME NEW n \in Changes, LaunchAudioPrime(n) PROVE OnceInv'
  BY <1>4, <1>p DEF LaunchAudioPrime
<1>5. ASSUME NEW state, Report(state), UNCHANGED priming PROVE OnceInv'
  BY <1>5, <1>p DEF Report
<1>6. CASE PrimeStep
  BY <1>6 DEF PrimeStep, PrimeLoop, PrimeWait, PrimeWrite
<1>7. CASE UNCHANGED <<cbPC, primeOnce, prime>>
  BY <1>7
<1> QED
  BY <1>1, <1>2, <1>3, <1>4, <1>5, <1>6, <1>7
  DEF Next, PeerChanges, ManagerCloses, CallbackStep, GraceStep, GraceElapses,
      CloseIfStillDisconnected, FiredTimerDecides, CloseStep, CloseBegin,
      CloseStopPrime, CloseTeardown, CloseRecorder, ClosePeer, TrackArrives,
      StartRecorder, ReadPacket, ReadFails, WritePacket, vars

\* A recording is opened only before Close begins, so Close's critical
\* section finds the one there is.
LEMMA RecordStep == PeerInv /\ RecordInv /\ [Next]_vars => RecordInv'
<1> SUFFICES ASSUME PeerInv, RecordInv, [Next]_vars PROVE RecordInv' OBVIOUS
<1> USE NoTrackAssumption DEF RecordInv, OneRecording, recorded, closing
<1>1. ASSUME NEW t \in Tracks, StartRecorder(t) PROVE RecordInv'
  BY <1>1 DEF StartRecorder, CtxDone
<1>2. ASSUME NEW t \in Tracks, TrackArrives(t) PROVE RecordInv'
  BY <1>2 DEF TrackArrives
<1>3. ASSUME NEW t \in Tracks, ReadPacket(t) \/ ReadFails(t) PROVE RecordInv'
  BY <1>3 DEF ReadPacket, ReadFails
<1>4. ASSUME NEW t \in Tracks, WritePacket(t) PROVE RecordInv'
  BY <1>4 DEF WritePacket
<1>5. CASE CloseBegin \/ CloseStopPrime
  BY <1>5 DEF CloseBegin, CloseStopPrime, recording
<1>6. CASE CloseTeardown
  BY <1>6 DEF CloseTeardown
<1>7. CASE CloseRecorder
  BY <1>7 DEF CloseRecorder
<1>8. CASE ClosePeer
  BY <1>8 DEF ClosePeer, recording
<1>9. CASE UNCHANGED <<recording, closing>>
  BY <1>9 DEF recording
<1> QED
  BY <1>1, <1>2, <1>3, <1>4, <1>5, <1>6, <1>7, <1>8, <1>9
  DEF Next, PeerChanges, ManagerCloses, CallbackStep, HandleState,
      HandleTerminal, StartAudioPrime, LaunchAudioPrime, GraceStep,
      GraceElapses, CloseIfStillDisconnected, FiredTimerDecides, PrimeStep,
      PrimeLoop, PrimeWait, PrimeWrite, CloseStep, vars

\* A request to close is never withdrawn, and Close begins only after one.
LEMMA RequestStep ==
    PeerInv /\ RequestInv /\ [Next]_vars =>
        RequestInv' /\ (closeRequested => closeRequested')
<1> SUFFICES ASSUME PeerInv, RequestInv, [Next]_vars
             PROVE  RequestInv' /\ (closeRequested => closeRequested')
  OBVIOUS
<1> USE DEF RequestInv
<1>1. CASE closeRequested' = TRUE
  BY <1>1
<1>2. CASE UNCHANGED <<closeRequested, close>>
  BY <1>2
<1>3. CASE CloseStep
  BY <1>3 DEF CloseStep, CloseBegin, CloseStopPrime, CloseTeardown,
              CloseRecorder, ClosePeer
<1>4. ASSUME NEW g \in Changes, CloseIfStillDisconnected(g)
      PROVE  RequestInv' /\ (closeRequested => closeRequested')
  <2>1. closeRequested' \in {closeRequested, TRUE} /\ UNCHANGED close
    BY <1>4, Zenon DEF CloseIfStillDisconnected, FiredTimerDecides, closing
  <2> QED BY <1>1, <1>2, <2>1
<1> QED
  BY <1>1, <1>2, <1>3, <1>4
  DEF Next, PeerChanges, ManagerCloses, CallbackStep, HandleState,
      HandleTerminal, StartAudioPrime, LaunchAudioPrime, GraceStep,
      GraceElapses, PrimeStep, PrimeLoop, PrimeWait, PrimeWrite, TrackArrives,
      StartRecorder, ReadPacket, ReadFails, WritePacket, vars, closing

-----------------------------------------------------------------------------
(* The invariant and what follows from it *)

\* The parts together are an inductive invariant of the session.
THEOREM SessionInductive == Spec => []IInv
<1>1. Init => IInv
  <2> SUFFICES ASSUME Init PROVE IInv OBVIOUS
  <2> USE BoundsAssumption DEF Init, Changes
  <2>1. PeerInv BY DEF PeerInv, PeerStates, ClosePC
  <2>2. CountInv
    <3>1. HandledCallbacks = {} BY DEF HandledCallbacks, Handled
    <3> QED BY <3>1, FS_EmptySet DEF CountInv
  <2>3. GraceInv BY DEF GraceInv, PeerStates
  <2>4. CoverInv BY DEF CoverInv
  <2>5. PrimeInv
    <3>1. frames \in 0 .. TargetFrames /\ lateFrames \in 0 .. 1
      OBVIOUS
    <3>2. lateFrames <= frames /\ ~(lateFrames > 0)
      OBVIOUS
    <3>3. prime = "none" /\ ~audioPrimeCancel /\ ~primeCancelled
      OBVIOUS
    <3> QED BY <3>1, <3>2, <3>3 DEF PrimeInv
  <2>6. OnceInv BY DEF OnceInv
  <2>7. RecordInv BY DEF RecordInv, OneRecording
  <2>8. RequestInv BY DEF RequestInv
  <2> QED BY <2>1, <2>2, <2>3, <2>4, <2>5, <2>6, <2>7, <2>8 DEF IInv
<1>2. IInv /\ [Next]_vars => IInv'
  BY PeerStep, CountStep, GraceStepInv, CoverStep, PrimeStepInv, OnceStep,
     RecordStep, RequestStep
  DEF IInv
<1> QED BY <1>1, <1>2, PTL DEF Spec

\* Type correctness, with the bounds that matter: a generation is never
\* larger than the number of changes, and the prime never writes more than
\* its target.
THEOREM SessionTypeCorrect == Spec => []TypeOK
<1>1. IInv => TypeOK
  <2> SUFFICES ASSUME IInv PROVE TypeOK OBVIOUS
  <2>1. /\ events \in Nat /\ disconnectGeneration \in Nat
        /\ disconnectGeneration <= events
    BY GenerationBound, BoundsAssumption DEF IInv, PeerInv, CountInv
  <2>2. disconnectGeneration \in 0 .. events
    BY <2>1
  <2>3. disconnectTimer \in 0 .. disconnectGeneration
    BY <2>1 DEF IInv, GraceInv
  <2>4. lateFrames \in 0 .. TargetFrames
    BY BoundsAssumption DEF IInv, PrimeInv
  <2> QED
    BY <2>2, <2>3, <2>4
    DEF IInv, PeerInv, GraceInv, PrimeInv, OnceInv, RecordInv, RequestInv,
        TypeOK, ClosePC
<1> QED BY <1>1, SessionInductive, PTL

\* handlePeerConnectionState and Close leave no grace timer running that the
\* session has lost sight of, and none at all after Close's critical section.
THEOREM SessionNoTimerLeak == Spec => []NoTimerLeak
<1>1. IInv => NoTimerLeak
  BY BoundsAssumption DEF IInv, GraceInv, NoTimerLeak, Changes
<1> QED BY <1>1, SessionInductive, PTL

\* When Close is over no recording is open, and one that could not be
\* finalized has made Close fail.
THEOREM SessionFinalizesRecording == Spec => []CloseFinalizesRecording
<1>1. IInv => CloseFinalizesRecording
  BY DEF IInv, RecordInv, CloseFinalizesRecording
<1> QED BY <1>1, SessionInductive, PTL

\* A session records one track at most, however many the peer delivers.
THEOREM SessionOneRecording == Spec => []OneRecording
<1>1. IInv => OneRecording
  BY DEF IInv, RecordInv
<1> QED BY <1>1, SessionInductive, PTL

\* Once its context is cancelled the prime writes the sample it was about to
\* write, and no other.
THEOREM SessionAtMostOneLateFrame == Spec => []AtMostOneLateFrame
<1>1. IInv => AtMostOneLateFrame
  BY DEF IInv, PrimeInv, AtMostOneLateFrame
<1> QED BY <1>1, SessionInductive, PTL

\* handlePeerConnectionState and closeIfStillDisconnected make the grace timer
\* follow the state handled last, in whatever order callbacks take the lock:
\* none runs for another state, and a disconnected session has one.
THEOREM SessionGraceFollowsHandledState == Spec => []GraceFollowsHandledState
<1>1. IInv => GraceFollowsHandledState
  <2> SUFFICES ASSUME IInv PROVE GraceFollowsHandledState OBVIOUS
  <2>1. ASSUME NEW g \in Changes, graceTimer[g] = "running"
        PROVE  g = disconnectGeneration /\ peerState = "disconnected"
    BY <2>1, BoundsAssumption DEF IInv, GraceInv, Changes
  <2> QED BY <2>1 DEF IInv, CoverInv, GraceFollowsHandledState
<1> QED BY <1>1, SessionInductive, PTL

\* closeIfStillDisconnected closes the session only after a whole grace
\* period in which no state change was handled.
THEOREM SessionGraceRespected == Spec => GraceRespected
<1>1. IInv /\ [Next]_vars => GraceStepHolds
  <2> SUFFICES ASSUME IInv, [Next]_vars,
                      NEW g \in Changes, graceTimer[g] = "fired",
                      graceTimer'[g] = "closing"
               PROVE  graceElapsed
    BY DEF GraceStepHolds
  <2> USE DEF IInv, GraceInv
  <2>1. ASSUME NEW h \in Changes, CloseIfStillDisconnected(h)
        PROVE  graceElapsed
    BY <2>1 DEF CloseIfStillDisconnected, FiredTimerDecides
  <2>2. ASSUME NEW n \in Changes, HandleState(n) PROVE FALSE
    <3>1. disconnectGeneration + 1 \in Changes
      BY <2>2, GenerationBound, BoundsAssumption
      DEF HandleState, PeerInv, CountInv, Changes
    <3> QED BY <2>2, <3>1 DEF HandleState, StopDisconnectTimer
  <2>3. ASSUME NEW h \in Changes, GraceElapses(h) PROVE FALSE
    BY <2>3 DEF GraceElapses
  <2>4. CASE CloseTeardown
    BY <2>4 DEF CloseTeardown, StopDisconnectTimer
  <2>5. CASE UNCHANGED graceTimer
    BY <2>5
  <2> QED
    BY <2>1, <2>2, <2>3, <2>4, <2>5
    DEF Next, PeerChanges, ManagerCloses, CallbackStep, HandleTerminal,
        StartAudioPrime, LaunchAudioPrime, GraceStep, PrimeStep, PrimeLoop,
        PrimeWait, PrimeWrite, CloseStep, CloseBegin, CloseStopPrime,
        CloseRecorder, ClosePeer, TrackArrives, StartRecorder, ReadPacket,
        ReadFails, WritePacket, vars, grace
<1> QED BY <1>1, SessionInductive, PTL DEF Spec, GraceRespected

\* startAudioPrime starts the prime goroutine at most once in the life of a
\* session: no callback starts it when there is, or has been, a prime.
PrimeStartsOnce ==
    [][\A n \in Changes : LaunchAudioPrime(n) => prime = "none"]_vars

\* audioPrimeOnce keeps two callbacks that both found the session connected
\* from starting two primes on one track.
THEOREM SessionPrimeStartsOnce == Spec => PrimeStartsOnce
<1>1. IInv => \A n \in Changes : LaunchAudioPrime(n) => prime = "none"
  BY DEF IInv, OnceInv, LaunchAudioPrime
<1> QED BY <1>1, SessionInductive, PTL DEF PrimeStartsOnce

-----------------------------------------------------------------------------
(* The session implements SessionLife *)

\* The five steps of Close are Begin, a stuttering step, Quiet, a stuttering
\* step and Finish; any other step may only ask for a Close of the session.
LEMMA SessionLifeStep ==
    IInv /\ [Next]_vars => [Lifecycle!Next]_(Lifecycle!vars)
<1> SUFFICES ASSUME IInv, [Next]_vars
             PROVE  [Lifecycle!Next]_(Lifecycle!vars)
  OBVIOUS
<1> USE DEF SelfStage, Stage, DoomedSelf, FailedSelf, Self
<1>r. closeRequested \in BOOLEAN /\ (close # "idle" => closeRequested)
  BY DEF IInv, RequestInv
<1>1. CASE CloseBegin
  <2>1. Lifecycle!Begin("self")
    BY <1>1, <1>r DEF CloseBegin, Lifecycle!Begin
  <2> QED BY <2>1 DEF Lifecycle!Next
<1>2. CASE CloseStopPrime
  BY <1>2 DEF CloseStopPrime, Lifecycle!vars
<1>3. CASE CloseTeardown
  <2>1. Lifecycle!Quiet("self")
    BY <1>3 DEF CloseTeardown, Lifecycle!Quiet
  <2> QED BY <2>1 DEF Lifecycle!Next
<1>4. CASE CloseRecorder
  BY <1>4 DEF CloseRecorder, Lifecycle!vars
<1>5. CASE ClosePeer
  <2>1. Lifecycle!Finish("self")
    BY <1>5 DEF ClosePeer, Lifecycle!Finish
  <2> QED BY <2>1 DEF Lifecycle!Next
<1>6. CASE UNCHANGED <<close, closeErr>>
  <2>1. UNCHANGED <<SelfStage, FailedSelf>>
    BY <1>6
  <2>2. DoomedSelf \subseteq DoomedSelf'
    BY RequestStep DEF IInv
  <2>3. DoomedSelf' \ DoomedSelf \subseteq {s \in Self : SelfStage[s] = "open"}
    BY <1>r
  <2>4. DoomedSelf' = DoomedSelf \union (DoomedSelf' \ DoomedSelf)
    BY <2>2
  <2> QED BY <2>1, <2>3, <2>4 DEF Lifecycle!Next, Lifecycle!Doom
<1> QED
  BY <1>1, <1>2, <1>3, <1>4, <1>5, <1>6
  DEF Next, PeerChanges, ManagerCloses, CallbackStep, HandleState,
      HandleTerminal, StartAudioPrime, LaunchAudioPrime, GraceStep,
      GraceElapses, CloseIfStillDisconnected, FiredTimerDecides, PrimeStep,
      PrimeLoop, PrimeWait, PrimeWrite, CloseStep, TrackArrives,
      StartRecorder, ReadPacket, ReadFails, WritePacket, vars, closing

\* What the registry takes for granted of a session, it keeps: one Close,
\* begun on request, quiet before anything is released, with one result.
THEOREM SessionImplementsLifecycle == Spec => Lifecycle!SafeSpec
<1>1. Init => Lifecycle!Init
  BY DEF Init, Lifecycle!Init, SelfStage, Stage, DoomedSelf, FailedSelf, Self
<1> QED
  BY <1>1, SessionLifeStep, SessionInductive, PTL
  DEF Spec, Lifecycle!SafeSpec
=============================================================================
