------------------------------ MODULE Signaling ------------------------------
(***************************************************************************)
(* The path of an Alexa directive: the Lambda function (lambda/index.mjs), *)
(* the HTTP API of the gateway (internal/httpapi/handler.go) and the       *)
(* session registry behind it (SessionManager).                            *)
(*                                                                         *)
(* A directive is named by the registry call it leads to:                  *)
(* InitiateSessionWithOffer is a member of Calls, SessionDisconnected of   *)
(* Deletes, SessionConnected of Marks.  The Lambda gives up on a request   *)
(* that takes too long; the request may then still be on its way, be       *)
(* served, or be lost.  Alexa may send directives for one session id       *)
(* again, or in any order.                                                 *)
(***************************************************************************)
EXTENDS SessionManager, Naturals

\* A directive is of one kind: its header name selects the handler.
ASSUME KindsAssumption ==
    /\ Calls \intersect Deletes = {}
    /\ (Calls \union Deletes) \intersect Marks = {}

VARIABLES
    lambda,    \* each directive: idle, refused, waiting, or its reply
    status,    \* the HTTP status the handler wrote, NoStatus before
    pathId,    \* the session id of each SessionDisconnected, SessionConnected
    before     \* for each SessionDisconnected, the Create calls begun before

Directives == Calls \union Deletes \union Marks
path == <<lambda, status, pathId, before>>
sigVars == <<vars, path>>

NoStatus == 0

SigInit ==
    /\ Init
    /\ lambda = [r \in Directives |-> "idle"]
    /\ status = [r \in Directives |-> NoStatus]
    /\ pathId \in [Deletes \union Marks -> Ids]
    /\ before = [d \in Deletes |-> {}]

-----------------------------------------------------------------------------
(* The Lambda function *)

\* The directive passes the Lambda's own checks and the request goes out.
Send(r) ==
    /\ lambda[r] = "idle"
    /\ lambda' = [lambda EXCEPT ![r] = "waiting"]
    /\ UNCHANGED <<vars, status, pathId, before>>

\* No session id, no SDP offer, or no server URL and token: no request.
Refuse(r) ==
    /\ lambda[r] = "idle"
    /\ lambda' = [lambda EXCEPT ![r] = "refused"]
    /\ UNCHANGED <<vars, status, pathId, before>>

\* Mutant: a conflict is taken for an answer to an earlier attempt.
AcceptedConflict(r) == IF r \in Deletes THEN {200, 404, 410} ELSE {200, 409}

\* response.ok, or one of acceptedStatuses: a session that is already gone
\* counts as disconnected.
Accepted(r) == IF r \in Deletes THEN {200, 404, 410} ELSE {200}

\* The response arrives in time.
Receive(r) ==
    /\ lambda[r] = "waiting"
    /\ status[r] # NoStatus
    /\ lambda' = [lambda EXCEPT ![r] = IF status[r] \in Accepted(r)
                                         THEN "success" ELSE "error"]
    /\ UNCHANGED <<vars, status, pathId, before>>

\* The abort timer fires, or the network fails: ENDPOINT_UNREACHABLE.
Abort(r) ==
    /\ lambda[r] = "waiting"
    /\ lambda' = [lambda EXCEPT ![r] = "error"]
    /\ UNCHANGED <<vars, status, pathId, before>>

-----------------------------------------------------------------------------
(* The HTTP handlers *)

\* A request of the directive may reach a handler, given up on or not.
Delivered(r) == lambda[r] \in {"waiting", "error"} /\ status[r] = NoStatus

\* ServeHTTP: a /v1/ request without the right bearer token.
AuthRefusals == {401}

\* decodeJSON: too large, not JSON, unknown fields, trailing values.
BodyRefusals == {400, 413}

\* createSession's checks: the method, the content type, the body, and the
\* id and offer in it (400).
CreateRefusals == {405, 415} \union BodyRefusals

\* The checks of session and connected: the method and the id.
PathRefusals == {405, 400}

\* createSession refuses before it calls the registry ...
RefuseCreate(c) ==
    /\ Delivered(c) /\ create[c] = "idle"
    /\ \E s \in AuthRefusals \union CreateRefusals :
         status' = [status EXCEPT ![c] = s]
    /\ UNCHANGED <<vars, lambda, pathId, before>>

\* ... or calls Create.
ServeCreate(c) ==
    /\ Delivered(c)
    /\ BeginCreate(c)
    /\ UNCHANGED path

\* session (DELETE) and connected refuse, too.
RefuseOther(r) ==
    /\ Delivered(r)
    /\ \/ r \in Deletes /\ del[r] = "idle"
       \/ r \in Marks /\ mark[r] = "idle"
    /\ \E s \in AuthRefusals \union PathRefusals :
         status' = [status EXCEPT ![r] = s]
    /\ UNCHANGED <<vars, lambda, pathId, before>>

ServeDelete(d) ==
    /\ Delivered(d)
    /\ DeleteBegin(d, pathId[d])
    /\ before' = [before EXCEPT ![d] = {c \in Calls : create[c] # "idle"}]
    /\ UNCHANGED <<lambda, status, pathId>>

ServeConnected(k) ==
    /\ Delivered(k)
    /\ MarkLookup(k, pathId[k])
    /\ UNCHANGED path

\* The status of what Create returned: writeRTCError for the errors.
\* Create's own are an invalid offer (400), the answer deadline (504) or
\* anything else (500).
CreateStatus(pc) ==
    IF pc = "ok" THEN {200}
    ELSE IF pc = "exists" THEN {409}
    ELSE IF pc = "gone" THEN {404}
    ELSE IF pc = "error" THEN {400, 500, 504}
    ELSE {}

\* The status of what Manager.Close returned.
CloseStatus(pc) ==
    IF pc = "closed" THEN {200}
    ELSE IF pc = "notfound" THEN {404}
    ELSE IF pc = "error" THEN {500}
    ELSE {}

\* The status of what Manager.MarkConnected returned.
MarkStatus(pc) ==
    IF pc = "ok" THEN {200} ELSE IF pc = "notfound" THEN {404} ELSE {}

ResultStatus(r) ==
    IF r \in Calls THEN CreateStatus(create[r])
    ELSE IF r \in Deletes THEN CloseStatus(del[r])
    ELSE MarkStatus(mark[r])

Respond(r) ==
    /\ status[r] = NoStatus
    /\ \E s \in ResultStatus(r) : status' = [status EXCEPT ![r] = s]
    /\ UNCHANGED <<vars, lambda, pathId, before>>

-----------------------------------------------------------------------------
\* The registry's own steps; the process is not shut down here.
Registry ==
    /\ InternalStep \/ \E c \in Calls : SessionTerminates(c)
    /\ UNCHANGED path

\* Every directive has been replied to.
SigRest ==
    /\ \A r \in Directives : lambda[r] \in {"refused", "success", "error"}
    /\ UNCHANGED sigVars

SigNext ==
    \/ \E r \in Directives : Send(r) \/ Refuse(r) \/ Receive(r) \/ Abort(r)
                               \/ RefuseOther(r) \/ Respond(r)
    \/ \E c \in Calls : RefuseCreate(c) \/ ServeCreate(c)
    \/ \E d \in Deletes : ServeDelete(d)
    \/ \E k \in Marks : ServeConnected(k)
    \/ Registry
    \/ SigRest

SigSpec == SigInit /\ [][SigNext]_sigVars

\* The gateway's goroutines, deadlines and timers run.  Directives, delivery
\* and responses are not assumed.
SigFairness ==
    \A c \in Calls :
        /\ WF_sigVars(CreateProgress(c) /\ UNCHANGED path)
        /\ WF_sigVars(CloseStep(c) /\ UNCHANGED path)
        /\ WF_sigVars(TimerStep(c) /\ UNCHANGED path)

FairSigSpec == SigSpec /\ SigFairness

-----------------------------------------------------------------------------
(* Properties *)

\* Alexa is given an answer only for a session that was registered under its
\* id for this very directive, never for the leftovers of another attempt.
AnswerHasSession == \A c \in Calls : lambda[c] = "success" => Published(c)

\* Once a SessionDisconnected has been confirmed, no session started before
\* its request reached the registry can be found by that id again, also if
\* the request came while the session was being negotiated: such a session
\* is on its way to being closed.
DisconnectRetiresSession ==
    \A d \in Deletes : lambda[d] = "success" =>
        \A c \in before[d] : reqId[c] = pathId[d] =>
            /\ ~Mapped(c)
            /\ life[c] = "open" =>
                 create[c] \in {"negotiating", "answered"} \/ CloseRequested(c)

\* A confirmed SessionDisconnected ends every session that its id was given
\* before, for good and without the help of a TTL: also one that Alexa never
\* had an answer for, because the Lambda gave up on the offer, and one that
\* was still being negotiated and for which the DELETE was answered with 404.
DisconnectEndsSession ==
    \A d \in Deletes, c \in Calls :
        lambda[d] = "success" /\ c \in before[d] /\ reqId[c] = pathId[d]
            ~> [](life[c] \in {"none", "closed"})
=============================================================================
