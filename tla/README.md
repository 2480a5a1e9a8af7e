# Home Brain RTC gateway: TLA+ models and proofs

Alexa's `RTCSessionController` opens an audio session by sending an SDP offer.
An AWS Lambda function forwards it over HTTP to a gateway at home, which builds
a WebRTC peer (Pion), answers, records the incoming Opus track into an OGG file
and may play a short "audio prime" to the device. The program is small, but
almost everything in it runs concurrently: request handlers, Pion's callbacks,
three kinds of timer, the audio prime, track readers and the shutdown sequence
all share the same sessions. These modules model that concurrency, and beside
it the rewriting of the SDP answer, the start-up of the gateway and the probe
client. TLC checks them on small instances. TLAPS proves the safety of
the registry, of a session, of the process, of the signaling path, of the probe,
of the start-up and of recording names for every value of their constants: any
number of ids, calls, directives, state changes, tracks and frames, and ids of
any length. Of the answer normalisation it proves, for any number of sections and
lines, that the three passes keep the frame of the text and that the loop over
the growing slice is right.

## 1. Inventory of the system

| Component | State it keeps | Operations |
|---|---|---|
| Session registry, `internal/rtc/session_manager.go` | `sessions`: id to `*sessionEntry`, under `mu` | `Create`, `Close`, `CloseAll`, `MarkConnected`, `expire`, `removeEntry`, `Len` |
| Session construction, `internal/rtc/server.go` | none of its own | `NewSession` (validate, build peer, negotiate, gather), answer normalisation |
| Session, `internal/rtc/session.go` | peer state, grace timer and its generation, expiry timer, recorder, prime cancel function, context, all under `stateMu`; two `sync.Once` | peer and track callbacks, `closeIfStillDisconnected`, `startAudioPrime`, `stopAudioPrime`, `setExpiryTimer`, `MarkConnected`, `Close` |
| Audio prime, `internal/rtc/audio_prime.go` | frame counter | `runAudioPrime` |
| Recorder, `internal/recording/recorder.go` | writer and `closed` flag under a mutex | `New`, `WriteRTP`, `Close`, path building |
| HTTP API, `internal/httpapi/handler.go` | none | authorisation, body decoding, the three session endpoints, error mapping |
| Server process, `cmd/rtc-server/main.go` | phase of `run` | serve, graceful shutdown with deadline, `CloseAll` |
| Lambda function, `lambda/index.mjs` | none between invocations | directive checks, `rtcRequest` with abort timer, replies |
| Configuration, `internal/config/config.go` | read once | `Load`, validation |
| Probe, `cmd/rtc-probe/main.go` | one run, a channel of one slot its peer's callbacks write to | offer, create, wait for the connection, delete |

How they interact:

- A **Lambda** invocation makes one HTTP request and aborts it after a timeout;
  the gateway does not notice, and a handler goes on.
- An **HTTP handler** calls the registry and translates its result to a status.
- The **registry** calls `NewSession` and `Session.Close` *outside* its lock;
  the session calls back into the registry (`onTerminal`, which is
  `removeEntry`) at the end of `Close`, also outside its own lock.
- The **expiry timer** is created by the registry, stored in the session,
  stopped by the session's `Close`, and runs `Manager.expire`.
- **Pion** starts a goroutine for every state change and for every track.
- The **server process** stops the listener, waits for handlers up to a
  deadline, then calls `CloseAll` and exits; goroutines that are left die.

What is hard, and what makes each part correct (every item is a hazard of
`PROJECT.json`, with its line):

- Registry. `Create` holds the id by an empty entry during a negotiation of
  seconds, in which anything may take the entry away; `expire`, `removeEntry`
  and `Create` then act on an id that may belong to somebody else. Correct
  means: no session is out of everybody's reach, no id stays occupied by a dead
  session, no failed `Create` leaves anything, no timer outlives its session,
  an acknowledged `Close` really is one, and nobody waits for ever.
- Session. A grace timer may fire while a state change takes the lock; a track
  may start a recorder while `Close` collects it; the prime's cancel function
  is published after the lock was released; state changes may be handled in
  another order than they happened. Correct means: the grace timer follows the
  state handled last, one that runs out ends the session, a recording is
  finalized exactly once, cancellation stops the prime, every goroutine ends.
- Process. Shutdown races handlers and timers. Correct means: it ends, and it
  leaves nothing open.
- Signaling. Requests are aborted, served late, lost and repeated. Correct
  means: an answer belongs to a registered session, a confirmed disconnect is
  final, and a session whose answer was lost is not kept for ever.
- SDP normalisation. Three passes insert, replace and remove lines, each in the
  text the previous one left, one of them in the slice it iterates over. Correct
  means: accepted media comes through untouched, a rejected section echoes the
  offer as Alexa wants it, no line lands behind the end of the text.
- Start-up and recorder paths. `Load` and `NewServer` check the same values
  twice, and file names are made from ids. Correct means: only a valid
  configuration starts, the two agree, the write probe leaves no file, a name is
  safe for every id and keeps an accepted one.
- Probe. Signals, timeouts and callbacks race its waits. Correct means: it
  ends, deletes what it was told it had created, and reports the true reason.

## 2. The modules

| Module | Models |
|---|---|
| `SessionManager` | the registry, `NewSession`'s exits, the parts of `Session.Close` the registry depends on |
| `ManagerLocks` | extends `SessionManager` by `m.mu` and every `s.stateMu`, taken and released in steps of their own |
| `SessionManagerProofs` | the registry's inductive invariant, its theorems, its refinement of `SessionLife` |
| `RtcServer` | extends `SessionManager` by the phases of `run` |
| `Signaling` | extends `SessionManager` by the HTTP handlers and the Lambda |
| `RtcServerProofs`, `SignalingProofs` | both take only the registry's steps, and what they promise themselves |
| `Session` | one session in detail: callbacks, grace timers, prime, recording, `Close` |
| `SessionProofs` | the session's inductive invariant, its theorems, its refinement of `SessionLife` |
| `SessionLife` | abstract: what closing a session promises; implemented by `SessionManager` and by `Session` |
| `AnswerNormalization` | `validateOffer`, Pion's answer (external), the three `normalizeAlexa*` passes |
| `AnswerNormalizationProofs` | the frame of the text, the loop over the video sections, what the three passes make of each section |
| `RecordingName` | the handler's check of an id and `sanitizeSessionID` |
| `Startup` | extends `RecordingName` by `config.Load`, `NewServer`'s checks, the listener and `OGGFactory.New` |
| `StartupProofs` | the address table against the public intervals, the theorems about a start and about recording names |
| `Probe` | one run of the probe client, its peer's callbacks, the gateway (external) |
| `ProbeProofs` | the probe's inductive invariant and its theorems |
| `SequenceFacts` | induction from the least-number principle, insertion and concatenation, what `FlattenSeq` and `Min` compute |
| `MC*` | instances for TLC; they only extend a module and define symmetry sets, values and initial states |

The inside of a session and the world around the registry are separate modules
because they share very little: the registry sees a session only as "open",
"some goroutine will close it" and the stages of `Close`. In `SessionManager`
the action `SessionTerminates` stands for every reason that `Session` models
one by one (peer failure, elapsed grace, recorder failure), and in `Session`
the action `ManagerCloses` stands for everything the registry may do. That the
two halves fit is not left to this paragraph: `SessionLife` specifies what each
assumes of the other, and both are checked to implement it.

### The life of a session

`SessionLife` has a stage per session (`none`, `open`, `closing`, `quiet`,
`closed`), the set of sessions somebody has undertaken to close (`doomed`) and
the set of those whose `Close` returned an error. A session begins to close
only when doomed; nobody is ever taken out of `doomed`, which is what makes
"some goroutine will close it" a promise; the stages only go forward; the
result is fixed when the last is reached; and a doomed session is eventually
closed.

`SessionManager` implements it with `life` as the stage and, as `doomed`, the
sessions that a failing or discarded `Create`, `Manager.Close`, `expire`,
`CloseAll`'s list or the session itself has taken on. `Session` implements it
with `close` and `closeRequested`. The mapping is `Lifecycle` in each of the
two modules. For `Session` all of `SessionLife!Spec` is checked, and its safety
part, `SafeSpec`, is proved. For the registry `ImplementsLifecycle` is `SafeSpec`,
checked and proved; that a doomed session is closed follows there from
`SessionsEnd`, which says it of every open one.

### Pure parts

In `AnswerNormalization` a description is a sequence of lines and a line a
record of kind, name and fields, with the empty string that splitting leaves
after the last line. The loop of `normalizeAlexaRejectedVideoPayloads` is one
action per `m=video` line, because it changes the slice it runs over and its
index by hand; the other two passes, which build a new slice, are one action
each. TLC enumerates the offers and, for each, every combination of answer
sections of the same media types.

In `RecordingName` a character is one of the four classes the code tells apart
(letter or digit; dot or hyphen; underscore; anything else). The loop of
`sanitizeSessionID` is the recursive function `Replaced`, whose step is
`WithChar`. A class has one member, so a name is
compared with its id by position, and letters are counted. `Startup` reads one
variable per action in `Load`'s order, since an early return leaves the later
effects out: the write probe comes after the ports and before the TTL.
`StartsAsConfigured` compares the prefixes with the public intervals written out,
not with themselves.

### The probe

`Probe` has one `pc` for `run`, `runProbe` and the calls they make. A request
may be served after the probe has given up on it. Pion's ICE, DTLS and
connection state are separate, a callback is pending from the state change until
it runs, and the callback of a failed connection reads the ICE state when it
runs. The session may end by itself at any time.

### Names and granularity

A `Create` call owns one entry and at most one session, so all three have one
name, a member of `Calls`. The pointer comparisons of the code (is this still
my entry?) are comparisons of calls; two calls with one id are two members.

A critical section of `m.mu` or `s.stateMu` is one action. Everything between
two critical sections that another goroutine could observe is another action.
`ManagerLocks` takes a section apart: a goroutine takes the lock in one step and
runs the section, with the action of `SessionManager`, and releases the lock in
another. Its steps are steps of the registry or leave the registry alone, so the
registry's invariants hold there too; what it adds is waiting. `Session.Close`
takes `s.stateMu` and then, inside `closeOnce` and through `onTerminal`, `m.mu`;
a goroutine that called `Close` with either lock held would never come back.
`mu` has one writer or any number of `readers`; that Go makes new readers wait
behind a waiting writer is left out, since no reader takes the lock twice.

Three mergers need an argument:

- `s.cancel()` is not under a lock. Readers look at `ctx.Err()` inside
  `stateMu`, so the cancellation is ordered before or after each critical
  section and an atomic `CloseBegin` of its own gives all those orders.
- `closeOnce` runs one body; every other caller blocks until it is over and
  then reads `closeErr`. The stages of the body are `life` in
  `SessionManager` and `close` in `Session`; a caller returns only when they
  have reached the end. Which of the callers runs the body does not matter, so
  the model does not say. `RequestsReturn` would show a body that waits for its
  own caller.
- `recorder.Close` and `peer.Close` are one action in `SessionManager`
  (`CloseRelease`) and two in `Session`.

### State and code

| Model | Code |
|---|---|
| `sessions`, `reqId` | `m.sessions`, the `id` argument |
| `create[c]` | where `Create` is: `new` before `NewSession` has a session, `negotiating` until ICE gathering is done, `failing` and `discard` inside `session.Close`, `answered` before the second critical section, `arm` and `setTimer` around `time.AfterFunc`, then the result |
| `life[c]` | `open`, `cancelled` after `s.cancel()`, `stopped` after the critical section, `released` after the recorder and peer were closed, `closed` after `onTerminal` |
| `timer[c]`, `expiryTimer` | the timer itself, and `s.expiryTimer` |
| `selfClose` | the forgotten `go s.Close()` goroutines |
| `mu`, `readers`, `stateMu` | the goroutines that hold `m.mu` and each `s.stateMu` |
| `toClose`, `current` | the slice and loop variable of `CloseAll` |
| `phase`, `mode` | how far `run` is, and which of its exits it takes |
| `lambda`, `status` | what the Lambda replied and what the handler wrote |
| `cbPC`, `cbState` | Pion's callback goroutines and the state each got |
| `disconnectGeneration`, `disconnectTimer`, `graceTimer` | the fields of that name, and the timers behind them |
| `track`, `file`, `recorder`, `audioClaimed` | track goroutines, OGG files, the fields |
| `prime`, `frames` | `runAudioPrime`'s loop and its counter |

Three variables of the models are not in the code: `graceElapsed` (has a whole
grace period passed since the last handled change), `lateFrames` and `before`
record history for a property.

External code is modelled from how it is used. Pion reports state changes from
any live state to any other, `failed` and `closed` being final, and reports
`closed` once when the peer is closed. `http.Server.Shutdown` waits for
handlers. `fetch` delivers a request at most once, possibly after the Lambda
gave up.

Data is abstracted: outside `AnswerNormalization` and `RecordingName`, SDP text,
RTP packets, tokens and file names appear only through the branches they choose
(an offer that validates or not, a body that decodes or not), which are
nondeterministic. Logging and the gateway's exit code are left out.

## 3. The runs

All runs finish in about three minutes or less with two workers. A finished
instance is kept going by an explicit step: `Rest` (every call has returned and
every goroutine has ended), `Exited` (the process is gone) or `SigRest` (every
directive has been replied to). TLC's deadlock check therefore reports stuck
goroutines in `manager_safety`, and a stuck shutdown or an unanswered
directive in the other two. `manager_liveness` has no such step and no deadlock
check: the gateway may rest when all its calls have returned, and whether they
do is what `RequestsReturn` says. In `Session` the registry may ask
for a close at any time, so no state is without a successor and the deadlock
check says nothing there; stuck goroutines are the business of
`GoroutinesEnd`.

| Run | Shows | Bounds |
|---|---|---|
| `manager_safety` | the registry's invariants; the registry implements `SessionLife` | 2 ids, 2 `Create`, 1 `Close`, 1 `MarkConnected`, `CloseAll`, timers |
| `manager_liveness` | with the locks: calls return, sessions end | 1 id, timers, and 2 `Create` and 1 `Close`, or 1 `Create`, 1 `Close`, 1 `MarkConnected` and `CloseAll` |
| `server_shutdown` | shutdown ends, and what it leaves | 1 id, 2 `Create`, 1 `Close` |
| `server_finalize` | the first finding of section 5 | 1 session |
| `session_timers` | grace timers and the prime, callbacks in any order | 4 state changes, 2 frames |
| `session_recording` | recording and goroutines against `Close`; what ends a session; the session implements `SessionLife` | 2 tracks, 2 state changes, 1 frame |
| `session_reconnect`, `session_disconnected` | the second and third finding of section 5 | 3 state changes |
| `signaling` | answers and disconnects | 1 id, no TTL, and 2 offers and 1 disconnect, or 1 offer, 1 disconnect and 1 connected |
| `answer_normalization` | the answer Alexa gets | up to 3 media sections, 5 offered and 8 answered kinds |
| `probe_run` | the probe's end, cleanup and report | one run; nothing is bounded |
| `startup` | configurations, the write probe, file names | 25 addresses, values around every limit, ids of up to 4 characters with `MaxName` 3 |

Two runs hold two instances each (`Instances` in their cfg): in the initial states
of an instance the calls of the other have already returned without effect, as
they may in the full specification. All calls at once would be too many states for
liveness.

Why the bounds are enough. The registry's races are between the goroutines of
an old session and those of a new one with the same id; two `Create` calls and
one id already have them, a second id is there so that they can also be
independent, and the theorems remove the bound. Grace timer races need a timer
that fired too late, a reconnect and a second disconnect: four changes. The
liveness of a session is about one disconnect or one terminal state, and the
change that overtakes it: two changes, and the one that `Close` causes. A
deadlock of two locks needs a goroutine that holds one and calls `Close`, and one
that runs it; a second `Create` of the id and `CloseAll` come on top. A
recording race needs two tracks and a `Close`. The frame count matters only as
zero, some and the target. Three sections hold a rejected video section before,
between and after others and two of them side by side, which is all the index
arithmetic can tell apart; the kinds of section have each line the passes look
for present and absent. Ids one character longer than `MaxName` (128 in the
code) reach the truncation.

What the properties say, beyond types:

- `NoOrphan`: an open session is being negotiated, is found by its id, or some
  goroutine is committed to closing it. `EntryRemovedOnlyToClose` is the same
  seen step by step: entries are never overwritten, and an open published
  session loses its entry only to someone who closes it.
- `ClosedFreesId`, `FailedCreateCleansUp`: ids and peers are not leaked, in
  whatever order `Close`, `expire`, `CloseAll`, a failing `Create` and the
  session itself arrive.
- `ExpiryCovered`, `NoTimerLeak`: `setExpiryTimer` and `Close` agree, in both
  orders, on who stops the timer.
- `RequestsReturn`, `SessionsEnd`: no call hangs, on a lock, in `closeOnce` or in
  a negotiation; with a TTL all sessions end. Their mutants are a `Manager.Close`
  that keeps `m.mu` over `session.Close`, and a callback that closes the session
  itself while it holds `s.stateMu`.
- `DrainedExitClosesRegistered`, `ShutdownCompletes`: section 5.
- `GraceRespected`: a grace timer closes only after a whole quiet grace
  period, although an older timer may fire too late to be stopped. This is
  what `disconnectGeneration` is for: without it the property fails.
- `GraceFollowsHandledState`: in whatever order callbacks take the lock, the last
  one decides. A grace timer runs only if that was a `disconnected`, and then
  there is one until `Close` begins, or the one that fired is closing.
- `TerminalPeerClosesSession`, `DisconnectedSessionEnds`: a failed or closed peer,
  and a handled `disconnected` that no other change follows, end in a finished
  `Close`.
- `ReconnectCancelsGrace`, `DisconnectedPeerClosesSession`: what the design
  document says of the peer instead of the state handled last; both fail
  (section 5).
- `CloseFinalizesRecording`, `OneRecording`: a track callback that races
  `Close` has its recorder taken or is refused one.
- `AtMostOneLateFrame`: after cancellation only the frame in hand goes out.
- `GoroutinesEnd`: nothing of a session outlives it.
- `ImplementsLifecycle` (twice): section 2.
- `AcceptedMediaUntouched`: however many lines the passes put into rejected
  sections, accepted sections and the session level stay as Pion made them, but
  for the RTCP candidates of multiplexed audio.
- `RejectedVideoEchoesOffer`, `RejectedMediaHasMid`: what Alexa needs of a
  rejected section. The second depends on the order of the passes: an `m=video`
  line without formats is not a valid `m=` line to the mid pass before the video
  pass has completed it. Other media without formats gets no mid, and the property
  does not claim it.
- `VideoLoopAdvances`: the loop over a growing slice meets every video section
  once and ends. `TypeOK` of this module says that the text keeps its one empty
  string, at the end.
- `LeavesNothing`, `ReportTrue`, `ProbeExits`: the probe
  deletes what it knows of, also after a signal; its exit code separates failure,
  failed cleanup and success; an ICE failure has one name whichever callback
  wins; it always ends. A session whose POST was given up on but served is
  *not* deleted by the probe; the gateway's TTL ends it (`SessionsEnd`). The probe
  is modelled against the gateway itself, where every response to the DELETE means
  that the session is gone or being closed; a proxy between the two that answers in
  the gateway's place is not modelled.
- `StartsAsConfigured`, `ProbeFileRemoved`: start-up, as above. `NameSafe` also
  says where the truncation shows: a name may end in punctuation only if it was
  cut off, and this never happens to an id the handler accepts, because both
  limits are 128.
- `AnswerHasSession`, `DisconnectRetiresSession`, `DisconnectEndsSession`: what a
  directive's sender can rely on when requests are aborted, late or lost. The last
  needs no TTL: a confirmed disconnect is the end of every session its id was
  given before, also of one that was still being negotiated when the DELETE was
  answered with 404, and of one whose answer the Lambda did not wait for.

Each property has a mutant in `PROJECT.json`: an operator beside the real one,
marked `Mutant`, with a plausible bug that makes the property fail.

### The order of Pion's callbacks

Pion runs every `OnConnectionStateChange` callback in a goroutine of its own,
so two changes close together may take `stateMu` in the other order. The model
gives them no order, and every property that a run of `Session` checks, and every
theorem, holds in any. What needs the order is in section 5.

## 4. Fairness

- Every runnable goroutine is scheduled: weak fairness of its steps.
- Timers fire, and the answer deadline ends a negotiation (`NegotiationFails`
  stays enabled, so weak fairness of `CreateProgress` is the deadline).
- `recorder.Close` and `peer.Close` return.
- `ReadRTP` fails once the peer connection is closed.
- The probe runs on: gathering ends, and the HTTP, connection and cleanup
  timeouts end its waits (`WF_vars(Program)` in `Probe`; every wait has its
  timeout as an enabled alternative).

- A goroutine that waits for a lock gets it if it stays free. Nothing is assumed
  of the order in which several get it: each of the calls takes a lock a bounded
  number of times, so nobody is overtaken for ever (`LockFairness`).

Nothing makes a request arrive, the Lambda reply, ICE complete, a peer change state, a track
deliver, a network deliver, the gateway answer the probe, a callback of the
probe run or a handler of a shutting down process finish.
`ShutdownCompletes` in particular gives handlers no fairness at all.

## 5. Findings

### An expiring session at shutdown

`GracefulShutdownFinalizesAll` states what `README.md:225` and
`docs/superpowers/specs/2026-08-02-home-brain-rtc-gateway-design.md:182` say:
SIGTERM closes all sessions and recorders. `server_finalize` shows a drained
shutdown that does not: `expire` deletes the entry and releases the lock before
it calls `Session.Close`; `CloseAll` then finds an empty map, has nothing to
wait for, and `run` returns while the expiry goroutine is before or inside
`Close`. The recording is left unfinalized. `DrainedExitClosesRegistered`
states exactly what does hold: nothing else can be left behind.

### State changes handled out of order

`docs/superpowers/specs/2026-08-02-home-brain-rtc-gateway-design.md:128` says:
"`disconnected` starts a five-second cancellation-safe grace timer; returning to a
connected state cancels it, while remaining disconnected closes the session when
the timer expires." `handlePeerConnectionState` acts on the state its callback was
started with, and callbacks may take the lock in another order than the peer
changed (`session.go:51`). Neither half of the sentence holds then:

- `session_reconnect` violates `ReconnectCancelsGrace`: the peer is disconnected and
  connected again, `connected` is handled first, and the `disconnected` handled
  after it starts a grace timer for a connected peer. Unless the peer changes again
  the session is closed when it runs out.
- `session_disconnected` violates `DisconnectedPeerClosesSession`: the peer is
  disconnected, connected and disconnected again, the `connected` is handled last
  and cancels the timer. The peer remains disconnected and no timer closes the
  session; its TTL or a DELETE has to.

What holds in any order is `GraceFollowsHandledState` and `DisconnectedSessionEnds`:
the promise of the document, made of the state handled last.

## 6. Proofs

Every theorem holds for all values of the constants that satisfy the named
assumptions below; none bounds them.

| Module | Assumptions on the constants |
|---|---|
| `SessionManager` | `NoCallAssumption`, `TTLAssumption`: `NoCall \notin Calls`, `TTLEnabled \in BOOLEAN` |
| `Signaling` | `KindsAssumption`: a request is a POST, a DELETE or a connected mark, not two of them |
| `Session` | `NoTrackAssumption`, `BoundsAssumption`, `FlagAssumption`: `NoTrack` is no track, the bounds are natural numbers, the switch a Boolean |
| `Startup` | `RawAssumption`: what parsing yields is four octets, and at most one number; `MaxNameAssumption` |
| `AnswerNormalization` | `PreambleAssumption`, `SectionsAssumption`, `MaxSectionsAssumption`: a section begins with its only `m=` line, the session level has none, neither has an empty line; `MaxSections` is a natural number |

### The registry

`SessionManagerProofs`:

| Theorem | States |
|---|---|
| `TypeCorrect` | `Spec => []TypeOK` |
| `NeverOrphaned` | `Spec => []NoOrphan` |
| `IdsAreFreed` | `Spec => []ClosedFreesId` |
| `FailedCreatesCleanUp` | `Spec => []FailedCreateCleansUp` |
| `ExpiryIsCovered` | `Spec => []ExpiryCovered` |
| `NoTimerIsLeaked` | `Spec => []NoTimerLeak` |
| `EntriesLeaveOnlyToClose` | `Spec => EntryRemovedOnlyToClose` |
| `RegistryImplementsLifecycle` | `Spec => ImplementsLifecycle` |

All rest on `Inductive`, `Spec => []IInv`. None of the properties is inductive
alone. `NoOrphan`, for example, needs to know that `expire` of an old session
cannot hit the entry of a new one, which needs that a slot holds an entry of
its own id (`SlotInv`), that only a published call has a timer (`TimerInv`) and
that a call that failed has a closed session (`LifeInv`). `IInv` is the
conjunction:

- `SlotInv`: a slot holds an entry of its own id, whose `Create` has it
  registered.
- `LifeInv`: how far `Create` got determines whether there is a session.
- `TimerInv`: the expiry timer exists exactly from `Arm` on, is stopped only
  for a closing session, runs its course only for one without an entry, and is
  known to any session whose `Close` still has to stop it.
- `SweepInv`: `CloseAll` has nothing to close before it has begun.
- `TypeOK`, `ClosedFreesId`, `NoOrphan` themselves.

There is one lemma per part, with one step per action that touches the part's
variables and one for all the others.

The refinement needs one invariant more, `HeldInv`: only an open session has a
goroutine of its own about to close it, and `CloseAll` holds only published
sessions. Without it `NewSessionOpened` might open a session that is doomed
already. `DoomStays` then shows, action by action, that nobody gives up a session
it has undertaken to close, and `LifecycleStep` maps the steps: those that leave
`life` and `closeErr` alone may only doom open sessions, and the five others are
`Open`, `Begin`, `Quiet`, stuttering (`CloseRelease`) and `Finish`.

### The process and the signaling path

`RtcServer` and `Signaling` extend the registry, and the first thing proved of
each is that it implements it (`ServerImplementsRegistry`: `ServerSpec => Spec`,
`SignalingImplementsRegistry`: `SigSpec => Spec`). With these every theorem above
holds of the running gateway.

| Theorem | States |
|---|---|
| `PublishedSessionsOwned` | `Spec => []OwnedInv` |
| `DrainedExitIsClean` | `ServerSpec => []DrainedExitClosesRegistered` |
| `AnswersHaveSessions` | `SigSpec => []AnswerHasSession` |
| `DisconnectsRetireSessions` | `SigSpec => []DisconnectRetiresSession` |

`NoOrphan` is not enough for a shutdown: a session that closes itself is not an
orphan, but nobody waits for it. `OwnedInv` is stronger: until a published session
is closed it is in the map, or its expiry timer, a `Manager.Close` call or
`CloseAll` has it. A session that ends by itself stays in the map until
`removeEntry`, its last step, so `CloseAll` still finds it and waits.
`DrainedInv` then follows the shutdown: no handler is left after the drain, and
once `CloseAll` has emptied the map the only owners are itself and expiry timers.
This is also why the first finding of section 5 is the only way a drained shutdown can
leave a session open.

For `Signaling`, `ReplyInv` ties a reply to the status, the status to the
registry's result, and says that the registry does not take a result back; that
holds however late the response is. `RetiredInv` says that a finished
`Manager.Close` has emptied its slot and that no call that had begun before can
fill it again: between its two critical sections `Create` finds its entry gone.
It needs `ServingInv` (no `CloseAll` while the gateway serves) and that a
request is about one id from beginning to end (`PathInv`).

### One session

`SessionProofs`, for any number of state changes, tracks and frames, with
callbacks in any order:

| Theorem | States |
|---|---|
| `SessionTypeCorrect` | `Spec => []TypeOK` |
| `SessionNoTimerLeak` | `Spec => []NoTimerLeak` |
| `SessionGraceRespected` | `Spec => GraceRespected` |
| `SessionGraceFollowsHandledState` | `Spec => []GraceFollowsHandledState` |
| `SessionFinalizesRecording` | `Spec => []CloseFinalizesRecording` |
| `SessionOneRecording` | `Spec => []OneRecording` |
| `SessionAtMostOneLateFrame` | `Spec => []AtMostOneLateFrame` |
| `SessionPrimeStartsOnce` | `Spec => PrimeStartsOnce`: the prime's goroutine is started at most once |
| `SessionImplementsLifecycle` | `Spec => Lifecycle!SafeSpec` |

They rest on `SessionInductive`. The parts of its `IInv` are what the code relies
on without saying so:

- `PeerInv`: a callback per state change, the last one for the state the peer
  is in, and room for the one `Close` causes.
- `CountInv`: the generation is the number of callbacks that have been through
  the critical section. It is what bounds the generation, and with it `TypeOK`,
  and the only part that counts a set (`Cardinality` of `HandledCallbacks`).
- `GraceInv`: the session knows the timer of the current generation or none; a
  running timer is the known one; a timer of the current generation that has
  fired fired after a whole quiet period. `NoTimerLeak` and `GraceRespected`
  follow.
- `CoverInv`: until `Close` begins, a session whose last handled state is
  `disconnected` has the timer of that very generation, running or fired, or is
  being closed by it. Only the handling of another change stops that timer, and it
  gives up only if it is not of the current generation. With `GraceInv` this is
  `GraceFollowsHandledState`.
- `PrimeInv`: the prime waits and writes only below its target, and not after a
  late frame.
- `OnceInv`: one callback at most is between `audioPrimeOnce` and the start of
  the prime's goroutine.
- `RecordInv`: an open file is the session's until the critical section of
  `Close`, then in the hands of `Close` until it is finalized.
- `RequestInv`: `Close` begins only on request.

### The probe and the start-up

| Theorem | States |
|---|---|
| `ProbeTypeCorrect` | `Spec => []TypeOK` |
| `ProbeLeavesNothing` | `Spec => []LeavesNothing` |
| `ProbeReportsTruth` | `Spec => []ReportTrue` |
| `PrefixesLeavePublic` | of all 2^32 addresses exactly those of the public intervals are in no prefix |
| `GatewayStartsAsConfigured` | `Spec => []StartsAsConfigured` |
| `WriteProbeLeavesNoFile` | `Spec => []ProbeFileRemoved` |

`Probe` has no constants, so TLC covers its state space already; the proof adds
the reasons. `SessionInv` follows the session from the POST to the DELETE,
`PeerInv` the peer connection, and `ReportInv` says that an outcome is true from
the moment its callback is started, because a transport that has connected or
failed never becomes new again; so it does not matter when the callback runs or
which of two comes first.

In `Startup` a run tries 25 addresses and a handful of numbers; the theorems
take every environment. `PrefixesLeavePublic` compares the table of prefixes with
the intervals, octet by octet, in both directions. `ConfigInv` says of each value
that it is valid from the step of `Load` that reads it on, and `ValidatorsAgree`
that `NewServer` accepts such values and leaves them alone. `ProbeFileRemoved` is
inductive as it stands.

### Names and the answer

| Theorem | States |
|---|---|
| `SanitizedIsSafe` | `SafeName(id, SanitizeSessionID(id))` for every id, of any length |
| `RecordingNamesSafe` | `Spec => []NameSafe` (of `Startup`) |
| `AnswerTypeCorrect` | `Spec => []TypeOK` (of `AnswerNormalization`) |
| `VideoLoopMeetsEachOnce` | `Spec => VideoLoopAdvances` (of `AnswerNormalization`) |
| `SectionsStaySeparate` | `Spec => []SectionsInv`: what has become of a section depends on it and its counterpart alone |
| `AcceptedMediaComesThrough` | `Spec => []AcceptedMediaUntouched` |
| `RejectedVideoEchoes` | `Spec => []RejectedVideoEchoesOffer` |
| `RejectedMediaIdentified` | `Spec => []RejectedMediaHasMid` |

These are about loops over sequences, so they need induction over their length,
and the library's induction theorems take an operator the provers cannot
instantiate. `SequenceFacts` states induction over a *set* instead (a set of
numbers that has 0 and with each number the next one has them all), from the
least-number principle; a proof defines the set of the lengths for which its
claim holds. The same gives the existence of the recursive functions: without
it a recursive definition means nothing to the provers.

For names, the claim is the loop invariant of `sanitizeSessionID`: what is built
so far has no separator, no doubled underscore, and as many letters as what was
read (`BuiltWell`). Trimming then keeps all letters, since it cuts at the least
and the greatest of their places, and an id the handler accepts is at most as
long as a name may be, so it is not cut off.

For the answer, `AnswerInv` says that from Pion's answer on the text is a sequence
that ends with its one empty string (`Framed`), that it has an `m=` line until the
mid pass has cut it into sections, and that the video sections the loop has met
and those left are not more than the sections offered.

- The loop. Every insertion goes behind the `m=` line the loop is at, and before
  the empty string (`InsertInSection`), is itself no `m=` line, and so shifts the
  later `m=video` lines without adding or losing one: the shift is a bijection
  (`InsertKeepsVideos`). The loop skips a line only after inserting `a=inactive`,
  and the line it skips is then never an `m=` line, whether it is the inserted one
  or another of the section.
- The mid pass. All sections but the last are of lines that are not empty, and
  the last is such a section with the empty string behind it (`FramedSections`, by
  induction over the lines). A mid is put before that string (`WithMidLines`), and
  flattening keeps the last section last (`FlattenSeqEnd`).
- The candidate pass removes only `a=` lines (`MuxFramed`).

What is returned needs more than the frame. None of the three invariants about it
is inductive: they speak of the last stage only. `SectionsInv` is: at every stage
from Pion's answer on, the text is `Text(secs)`, the preamble and one section for
each that was offered, with the empty string behind it (`Assembled`), and the stage
says what each section is by then: Pion's, or `Normalised` by the video pass,
`MidGiven` by the mid pass, `Finished` by the candidate pass. Each of these four
relates the section to Pion's and to the one offered in its place, and to no other.

- The loop (`LoopBehind`). The first `m` sections are normalised and the others as
  Pion made them, no `m=video` line is left between `lineIndex` and the end of the
  first `m`, and `videoIndex` is the number of video sections among the first `m`
  offered. The last part is why the loop's count picks the counterpart: Pion
  answers each offered section with one of the same media type, in its place
  (`Negotiated`). Sections without video are passed over (`PassOver`); at a video
  section the turn replaces this section in the text and nothing else
  (`SectionReplaced`, `LoopSection`): the end of a section as the code finds it, the
  next `m=` line or the end of the text, is the end of this section, also while it
  grows.
- `Sections` is the inverse of `Text` (`SectionsOfText`, by induction over the lines
  of one section and over the sections), so the mid pass acts on each section by
  itself (`MidPass`), with the offered section of the same number.
- The candidate pass marks lines of the whole text, with section ends it finds
  itself, and builds the text from the rest; what it removes is in each section what
  it would remove from this section alone (`RemovedInText`, `MuxPass`).
- From `SectionsInv` to the three invariants: what is returned is taken apart into
  the sections the invariant speaks of (`ReturnedSections`, `ResultFinished`), and an
  inserted line is either of the kind a property counts or leaves the lines of
  that kind as they were (`GrownOnly`). The invariants count lines with `Kept`, a
  flattened sequence, since the provers do not know `SelectSeq`.

Hypotheses are those of the table at the top of this section only: any preamble, any
sets of offer and answer sections of any length with one `m=` line each.

### Only model-checked

- Liveness, which is beyond the prover with fairness and `ENABLED`:
  `RequestsReturn`, `SessionsEnd`, `ShutdownCompletes`,
  `TerminalPeerClosesSession`, `DisconnectedSessionEnds`, `GoroutinesEnd`,
  `DisconnectEndsSession`, `ProbeExits`, and of `Session`'s
  refinement the part that a doomed session is closed.

- The locks: `ManagerLocks` is there for the two liveness properties it states.

All invariants and all action properties that hold on the runs are also proved.

The inductive invariants themselves were checked with TLC on the runs' instances
before they were proved, except `SectionsInv`, which quantifies over all sequences
of sections.

## 7. What is not modelled, and the plan

Not modelled, and why:

- Pion itself, and the configuration of its media engine: external.
- `audio_prime_tone.go`, the bytes of the audio frames: data.
- Logging, with `extractICESDPLogMetadata`, which only feeds it.
- `consumeRTCP`: it discards what it reads until the sender is closed.
- SDP text that mixes line endings, and white space inside a line: the passes
  split at the separator they find first, and Pion writes only one.
- The discovery, grant and state report directives of the Lambda, `/healthz`
  and unknown paths: constant replies without state.
- The text of tokens, of the log level and of flags: valid or not.
- Container and build files.

`TTLEnabled` is a constant although `config.go:72-78` makes the TTL positive in
production: the registry's own code handles zero, and its tests use it.

Plan:

1. *(done)* registry, process, session, signaling; the registry's theorems.
2. *(done)* SDP answer normalisation and offer validation.
3. *(done)* recorder paths, configuration, start-up.
4. *(done)* `SessionLife`, implemented by `SessionManager` and `Session`.
5. *(done)* the probe.
6. *(done)* the safety part of the registry's refinement, proved.
7. *(done)* proofs about `Session`, `RtcServer`, `Signaling`, `Probe` and `Startup`,
   and the safety part of `Session`'s refinement.
8. *(done)* proofs about sequences: recording names, the frame of the answer and the
   loop over its video sections.
9. *(done)* the results of the whole normalisation, from an invariant that keeps the
   text as a sequence of sections, each related to the one Pion made.
10. *(done)* the locks of the registry and of its sessions; state changes handled
   out of order, as findings.
