------------------------------ MODULE RtcServer ------------------------------
(***************************************************************************)
(* The gateway process, cmd/rtc-server/main.go: the HTTP server in front   *)
(* of the session registry, and the two ways run() ends it.                *)
(*                                                                         *)
(* A request is a Create, Close or MarkConnected call of SessionManager;   *)
(* its handler is in flight from the first to the last step of that call.  *)
(* When run() returns the process ends and every goroutine with it: no     *)
(* step of the registry follows.                                           *)
(***************************************************************************)
EXTENDS SessionManager

VARIABLES
    phase,   \* where run() is: serving, draining, closing or exited
    mode     \* how serving ended: none, drained, forced or failed

server == <<phase, mode>>
allVars == <<vars, server>>

ServerInit ==
    /\ Init
    /\ phase = "serving"
    /\ mode = "none"

\* No HTTP handler is inside the registry.
NoHandler ==
    /\ \A c \in Calls : create[c] \in {"idle", "ok", "exists", "gone", "error"}
    /\ \A d \in Deletes : del[d] # "closing"
    /\ \A k \in Marks : mark[k] # "found"

-----------------------------------------------------------------------------
\* SIGINT or SIGTERM: shutdownHTTPServer calls server.Shutdown, which closes
\* the listener and waits for the connections it has.
Signal ==
    /\ phase = "serving"
    /\ phase' = "draining"
    /\ UNCHANGED <<vars, mode>>

\* Mutant: the handlers are not waited for.
DrainedUnchecked ==
    /\ phase = "draining"
    /\ phase' = "closing"
    /\ mode' = "drained"
    /\ UNCHANGED vars

\* Shutdown returns because no handler is left.
Drained ==
    /\ phase = "draining"
    /\ NoHandler
    /\ phase' = "closing"
    /\ mode' = "drained"
    /\ UNCHANGED vars

\* Mutant: Shutdown is given a context without a deadline.
DrainForever == FALSE /\ UNCHANGED allVars

\* The shutdown deadline passes first, if only just: server.Close drops the
\* connections, the handlers that are still running go on without them.
DrainDeadline ==
    /\ phase = "draining"
    /\ phase' = "closing"
    /\ mode' = "forced"
    /\ UNCHANGED vars

\* server.Serve returns by itself: no shutdown, straight to CloseAll.
ServeFails ==
    /\ phase = "serving"
    /\ phase' = "closing"
    /\ mode' = "failed"
    /\ UNCHANGED vars

\* run() calls manager.CloseAll once serving has ended ...
CloseSessions ==
    /\ phase = "closing"
    /\ CloseAllBegin
    /\ UNCHANGED server

\* ... and returns after it: the process exits.
Exit ==
    /\ phase = "closing"
    /\ closeAll = "done"
    /\ phase' = "exited"
    /\ UNCHANGED <<vars, mode>>

\* A handler reaches the registry.  Connections are served until they are
\* drained; without draining, a handler that already has its request may
\* reach the registry even after CloseAll.
Request ==
    /\ \/ phase \in {"serving", "draining"}
       \/ phase = "closing" /\ mode # "drained"
    /\ \/ \E c \in Calls : BeginCreate(c)
       \/ \E d \in Deletes, i \in Ids : DeleteBegin(d, i)
       \/ \E k \in Marks, i \in Ids : MarkLookup(k, i)
    /\ UNCHANGED server

\* Handlers, sessions, timers and CloseAll run until the process exits.
Run ==
    /\ phase # "exited"
    /\ InternalStep \/ \E c \in Calls : SessionTerminates(c)
    /\ UNCHANGED server

\* The process is gone.
Exited == phase = "exited" /\ UNCHANGED allVars

ServerNext ==
    \/ Signal \/ Drained \/ DrainDeadline \/ ServeFails \/ CloseSessions
    \/ Exit \/ Request \/ Run \/ Exited

ServerSpec == ServerInit /\ [][ServerNext]_allVars

\* run() is scheduled, its deadline passes, and Session.Close returns.
\* Handlers get no fairness: one may hang for as long as it likes.
ServerFairness ==
    /\ WF_allVars(Drained \/ DrainDeadline)
    /\ WF_allVars(CloseSessions \/ Exit)
    /\ WF_allVars(phase # "exited" /\ CloseAllStep /\ UNCHANGED server)
    /\ \A c \in Calls :
         WF_allVars(phase # "exited" /\ CloseStep(c) /\ UNCHANGED server)

FairServerSpec == ServerSpec /\ ServerFairness

-----------------------------------------------------------------------------
(* Properties *)

\* After a drained shutdown the process leaves no session open behind and no
\* request half done, except for a session whose expiry timer took it out of
\* the map and has not finished closing it.
DrainedExitClosesRegistered ==
    phase = "exited" /\ mode = "drained" =>
        /\ NoHandler
        /\ \A i \in Ids : sessions[i] = NoCall
        /\ \A c \in Calls :
             life[c] \in {"none", "closed"} \/ timer[c] = "closing"

\* What README.md and the design document promise of SIGTERM: every session
\* and every recording writer is closed when the process is gone.
GracefulShutdownFinalizesAll ==
    phase = "exited" /\ mode = "drained" =>
        \A c \in Calls : life[c] \in {"none", "closed"}

\* A signal ends the process even if handlers hang: the drain deadline, and
\* CloseAll's sequential closes, are all that run() waits for.
ShutdownCompletes == phase = "draining" ~> phase = "exited"
=============================================================================
