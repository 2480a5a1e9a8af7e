-------------------------------- MODULE Probe --------------------------------
(***************************************************************************)
(* The probe client (cmd/rtc-probe/main.go): one run of the program, the   *)
(* callbacks of its peer connection, and the gateway it talks to.          *)
(*                                                                         *)
(* The program opens a session, waits for the connection and deletes the   *)
(* session again.  A signal may cancel it at any time; a request may be    *)
(* answered, answered after the program gave up on it, or lost; the        *)
(* session may end by itself.  The gateway and Pion are external.          *)
(***************************************************************************)
EXTENDS Naturals, Sequences

VARIABLES
    pc,          \* where run, runProbe and the calls they make are
    ctxDone,     \* SIGINT or SIGTERM has come: the context is cancelled
    category,    \* why the run fails, "connected", or "" before either
    code,        \* the exit code, NoCode before it is known
    peer,        \* the peer connection: none, new, connected, failed, closed
    ice,         \* its ICE state: new, connected, failed
    dtls,        \* its DTLS transport: new, failed
    pending,     \* state changes whose callbacks have not run
    connection,  \* the channel of one slot
    created,     \* the POST was answered with a 2xx status
    post,        \* the POST: none, sent, opened, refused
    session,     \* the session of the gateway: none, open, gone
    delete       \* the DELETE: none, sent, ok, refused, failed

vars == <<pc, ctxDone, category, code, peer, ice, dtls, pending, connection,
          created, post, session, delete>>

program == <<pc, category, code, created>>
remote == <<post, session, delete>>
pionState == <<peer, ice, dtls, pending>>

NoCode == 3
exitSuccess == 0
exitProbeFailure == 1
exitCleanupFailure == 2

Init ==
    /\ pc = "start" /\ ctxDone = FALSE
    /\ category = "" /\ code = NoCode
    /\ peer = "none" /\ ice = "new" /\ dtls = "new"
    /\ pending = {} /\ connection = <<>>
    /\ created = FALSE
    /\ post = "none" /\ session = "none" /\ delete = "none"

-----------------------------------------------------------------------------
(* The program *)

\* The run has failed: it reports the category and goes to place.
Fail(cat, place) ==
    /\ category' = cat
    /\ pc' = place
    /\ UNCHANGED <<ctxDone, code, created, connection, remote, pionState>>

Goto(place) ==
    /\ pc' = place
    /\ UNCHANGED <<ctxDone, category, code, created, connection, remote,
                   pionState>>

\* No server URL or token, a bad flag, an unsafe URL: there is no peer yet.
BadConfiguration == pc = "start" /\ Fail("configuration", "close")

\* newPionProbe, with the callbacks; a failing one closes what it has made.
NewPeer ==
    /\ pc = "start"
    /\ \/ Fail("peer", "close")
       \/ /\ pc' = "id" /\ peer' = "new"
          /\ UNCHANGED <<ctxDone, category, code, created, connection, remote,
                         ice, dtls, pending>>

NewSessionID ==
    pc = "id" /\ (Fail("session", "close") \/ Goto("offer"))

\* Offer: CreateOffer and SetLocalDescription, which starts the gathering ...
CreateOffer ==
    /\ pc = "offer"
    /\ \/ \E cat \in {"offer_create", "local_description"} : Fail(cat, "close")
       \/ Goto("gather")

\* ... and the wait for its end; a signal, or no local description, fails.
Gathered ==
    pc = "gather" /\ (Goto("create") \/ Fail("ice_gathering", "close"))

\* Create: the POST goes out.
CreateBegin ==
    /\ pc = "create"
    /\ pc' = "posted" /\ post' = "sent"
    /\ UNCHANGED <<ctxDone, category, code, created, connection, pionState,
                   session, delete>>

\* A signal, the HTTP timeout or the network: no response.
CreateFails ==
    pc \in {"create", "posted"} /\ Fail("request", "close")

\* A response; one with a 2xx status tells of a session even when it holds no
\* answer.
CreateReturns ==
    /\ pc = "posted"
    /\ \/ post = "refused" /\ Fail("request", "close")
       \/ /\ post = "opened"
          /\ created' = TRUE
          /\ \/ category' = "answer_invalid" /\ pc' = "cleanup"
             \/ category' = category /\ pc' = "apply"
          /\ UNCHANGED <<ctxDone, code, connection, remote, pionState>>

\* ApplyAnswerAndWait: SetRemoteDescription ...
ApplyAnswer ==
    /\ pc = "apply"
    /\ Goto("wait") \/ Fail("remote_description", "cleanup")

\* ... and the first outcome that was signalled ...
WaitSignalled ==
    /\ pc = "wait" /\ connection # <<>>
    /\ category' = Head(connection) /\ connection' = <<>>
    /\ pc' = "cleanup"
    /\ UNCHANGED <<ctxDone, code, created, remote, pionState>>

\* Mutant: the wait has no timeout of its own.
WaitForSignal == pc = "wait" /\ ctxDone /\ Fail("timeout", "cleanup")

\* ... or the timeout of 20 s, or a signal.
WaitTimesOut == pc = "wait" /\ Fail("timeout", "cleanup")

\* Mutant: the DELETE has the context of the run: after a signal it is not
\* even sent.
CleanupBeginCtx ==
    /\ pc = "cleanup"
    /\ pc' = IF ctxDone THEN "close" ELSE "deleting"
    /\ delete' = IF ctxDone THEN "none" ELSE "sent"
    /\ UNCHANGED <<ctxDone, category, code, created, connection, pionState,
                   post, session>>

\* cleanupSession: the DELETE has a context of its own.
CleanupBegin ==
    /\ pc = "cleanup"
    /\ pc' = "deleting"
    /\ delete' = "sent"
    /\ UNCHANGED <<ctxDone, category, code, created, connection, pionState,
                   post, session>>

\* Its timeout of 5 s, or the network.  It may still be served: SessionEnds.
DeleteFails ==
    /\ pc = "deleting" /\ delete = "sent"
    /\ delete' = "failed"
    /\ UNCHANGED <<ctxDone, program, connection, pionState, post, session>>

\* A run that has failed keeps its code whatever the cleanup does.
ExitCode(cat, del) ==
    IF cat # "connected" THEN exitProbeFailure
    ELSE IF del = "ok" THEN exitSuccess ELSE exitCleanupFailure

CleanupReturns ==
    /\ pc = "deleting" /\ delete \in {"ok", "refused", "failed"}
    /\ pc' = "close"
    /\ UNCHANGED <<ctxDone, category, code, created, connection, remote,
                   pionState>>

\* The deferred Close: callbacks off, peer connection closed.  The program
\* exits.
Close ==
    /\ pc = "close"
    /\ pc' = "exited"
    /\ code' = ExitCode(category, delete)
    /\ peer' = IF peer = "none" THEN "none" ELSE "closed"
    /\ pending' = {}
    /\ UNCHANGED <<ctxDone, category, created, connection, remote, ice, dtls>>

-----------------------------------------------------------------------------
(* Signals, and Pion: the state of the transports and of the connection, *)
(* and callbacks in goroutines of their own *)

Interrupt ==
    /\ ~ctxDone /\ pc # "exited"
    /\ ctxDone' = TRUE
    /\ UNCHANGED <<program, connection, remote, pionState>>

Applied == pc \in {"wait", "cleanup", "deleting", "close"}
Alive == Applied /\ peer \in {"new", "connected"}

IceConnects ==
    /\ Alive /\ ice = "new"
    /\ ice' = "connected"
    /\ UNCHANGED <<ctxDone, program, connection, remote, peer, dtls, pending>>

IceFails ==
    /\ Alive /\ ice # "failed"
    /\ ice' = "failed" /\ pending' = pending \union {"ice_failed"}
    /\ UNCHANGED <<ctxDone, program, connection, remote, peer, dtls>>

\* DTLS fails, or the gateway closes it.
DtlsFails ==
    /\ Alive /\ ice # "new" /\ dtls = "new"
    /\ dtls' = "failed"
    /\ UNCHANGED <<ctxDone, program, connection, remote, peer, ice, pending>>

PeerConnects ==
    /\ Alive /\ peer = "new" /\ ice = "connected" /\ dtls = "new"
    /\ peer' = "connected" /\ pending' = pending \union {"connected"}
    /\ UNCHANGED <<ctxDone, program, connection, remote, ice, dtls>>

PeerFails ==
    /\ Alive /\ "failed" \in {ice, dtls}
    /\ peer' = "failed" /\ pending' = pending \union {"failed"}
    /\ UNCHANGED <<ctxDone, program, connection, remote, ice, dtls>>

\* Mutant: the callback does not ask for the ICE state.
OutcomeUnasked(event) ==
    IF event = "failed" THEN "peer_connection_failed" ELSE event

\* What a callback signals: that of a failed connection reads the ICE state
\* when it runs.
Outcome(event) ==
    IF event # "failed" THEN event
    ELSE IF ice = "failed" THEN "ice_failed" ELSE "peer_connection_failed"

\* Mutant: every outcome is put into the channel.
CallbackQueues(event) ==
    /\ event \in pending
    /\ pending' = pending \ {event}
    /\ connection' = Append(connection, Outcome(event))
    /\ UNCHANGED <<ctxDone, program, remote, peer, ice, dtls>>

\* A callback runs; signalConnection never blocks: the first outcome stays.
Callback(event) ==
    /\ event \in pending
    /\ pending' = pending \ {event}
    /\ connection' = IF connection = <<>> THEN <<Outcome(event)>>
                                          ELSE connection
    /\ UNCHANGED <<ctxDone, program, remote, peer, ice, dtls>>

-----------------------------------------------------------------------------
(* The gateway *)

\* The POST is served, whether or not the program still waits.
ServePost ==
    /\ post = "sent"
    /\ \/ post' = "opened" /\ session' = "open"
       \/ post' = "refused" /\ session' = session
    /\ UNCHANGED <<ctxDone, program, connection, pionState, delete>>

\* The session ends by itself: its TTL, or its side of the connection.
SessionEnds ==
    /\ session = "open"
    /\ session' = "gone"
    /\ UNCHANGED <<ctxDone, program, connection, pionState, post, delete>>

\* The DELETE is served: 404 when the session is gone, 500 when closing it
\* reports an error.
ServeDelete ==
    /\ delete = "sent"
    /\ delete' \in IF session = "open" THEN {"ok", "refused"} ELSE {"refused"}
    /\ session' = "gone"
    /\ UNCHANGED <<ctxDone, program, connection, pionState, post>>

-----------------------------------------------------------------------------
Program ==
    \/ BadConfiguration \/ NewPeer \/ NewSessionID
    \/ CreateOffer \/ Gathered
    \/ CreateBegin \/ CreateFails \/ CreateReturns
    \/ ApplyAnswer \/ WaitSignalled \/ WaitTimesOut
    \/ CleanupBegin \/ DeleteFails \/ CleanupReturns \/ Close

Exited == pc = "exited" /\ UNCHANGED vars

Next ==
    \/ Program \/ Interrupt
    \/ IceConnects \/ IceFails \/ DtlsFails \/ PeerConnects \/ PeerFails
    \/ \E event \in {"ice_failed", "connected", "failed"} : Callback(event)
    \/ ServePost \/ SessionEnds \/ ServeDelete
    \/ Exited

\* The program runs on: gathering ends, and its timeouts end the waits for
\* the gateway and for the connection.
Spec == Init /\ [][Next]_vars /\ WF_vars(Program)

-----------------------------------------------------------------------------
(* Properties *)

\* The types; the channel holds one outcome at most, whatever callbacks run.
TypeOK ==
    /\ pc \in {"start", "id", "offer", "gather", "create", "posted", "apply",
               "wait", "cleanup", "deleting", "close", "exited"}
    /\ code \in {exitSuccess, exitProbeFailure, exitCleanupFailure, NoCode}
    /\ Len(connection) <= 1
    /\ peer \in {"none", "new", "connected", "failed", "closed"}
    /\ session \in {"none", "open", "gone"}
    /\ delete \in {"none", "sent", "ok", "refused", "failed"}

\* The program leaves no session and no peer connection behind: a session it
\* was told of is gone when it exits, a signal and every failure after the
\* POST included, unless the DELETE itself got no response.  (A session whose
\* POST it gave up on is left to the gateway's TTL.)
LeavesNothing ==
    pc = "exited" =>
        /\ peer \in {"none", "closed"}
        /\ created /\ delete # "failed" => session = "gone"

\* What the program reports is true.  The exit code tells the three outcomes
\* apart: 0 for a connection after which the gateway confirmed the DELETE, 2
\* for a connection after which it did not, 1 for a run that never saw a
\* connection, cleaned up or not.  And a connection that failed because ICE
\* failed is reported as ice_failed, whichever callback comes first.
ReportTrue ==
    /\ code = exitSuccess =>
         category = "connected" /\ ice # "new" /\ session = "gone"
    /\ code = exitCleanupFailure =>
         /\ category = "connected" /\ ice # "new"
         /\ delete \in {"refused", "failed"}
    /\ code = exitProbeFailure => category # "connected"
    /\ category = "peer_connection_failed" => dtls = "failed"

\* The program ends, whatever the gateway and the network do.
ProbeExits == <>(pc = "exited")
=============================================================================
