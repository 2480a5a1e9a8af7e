--------------------------- MODULE SignalingProofs ---------------------------
(***************************************************************************)
(* What the replies to Alexa's directives say about the sessions, for every *)
(* set of session ids and of directives, however requests are delayed,     *)
(* lost, given up on or served out of order.                               *)
(***************************************************************************)
EXTENDS Signaling, SessionManagerProofs

\* The statuses that make a SessionDisconnected succeed.
GoneStatuses == {200, 404, 410}

\* A reply is a success only on a status the Lambda accepts; a status that
\* says so is what the registry returned, and the registry does not take it
\* back.
ReplyInv ==
    /\ status \in [Directives -> Nat]
    /\ lambda \in [Directives -> {"idle", "refused", "waiting", "success",
                                  "error"}]
    /\ \A c \in Calls :
         /\ lambda[c] = "success" => status[c] = 200
         /\ status[c] = 200 => Published(c)
    /\ \A d \in Deletes :
         /\ lambda[d] = "success" => status[d] \in GoneStatuses
         /\ status[d] \in GoneStatuses => del[d] \in {"closed", "notfound"}

\* A request is about one session id from beginning to end.
PathInv == pathId \in [Deletes \union Marks -> Ids]

\* A Manager.Close call has emptied the slot of its id, and the calls that
\* had begun by then cannot fill it again.
RetiredInv ==
    /\ before \in [Deletes -> SUBSET Calls]
    /\ \A d \in Deletes : del[d] # "idle" =>
         \A c \in before[d] :
             create[c] # "idle" /\ (reqId[c] = pathId[d] => ~Mapped(c))

\* CloseAll is not run while the gateway serves.
ServingInv == closeAll = "idle"

-----------------------------------------------------------------------------
\* Requests keep their session id.
LEMMA PathStep == PathInv /\ [SigNext]_sigVars => PathInv'
BY DEF PathInv, SigNext, sigVars, path, Send, Refuse, Receive, Abort,
       RefuseOther, Respond, RefuseCreate, ServeCreate, ServeDelete,
       ServeConnected, Registry, SigRest

\* A step of the signaling path is a step of the registry or leaves it alone.
LEMMA SigRegistryStep == PathInv /\ [SigNext]_sigVars => [Next]_vars
<1> SUFFICES ASSUME PathInv, [SigNext]_sigVars PROVE [Next]_vars OBVIOUS
<1>1. ASSUME NEW c \in Calls, ServeCreate(c) PROVE Next
  BY <1>1 DEF ServeCreate, Next, ExternalStep
<1>2. ASSUME NEW d \in Deletes, ServeDelete(d) PROVE Next
  <2>1. pathId[d] \in Ids BY DEF PathInv
  <2> QED BY <1>2, <2>1 DEF ServeDelete, Next, ExternalStep
<1>3. ASSUME NEW k \in Marks, ServeConnected(k) PROVE Next
  <2>1. pathId[k] \in Ids BY DEF PathInv
  <2> QED BY <1>3, <2>1 DEF ServeConnected, Next, ExternalStep
<1>4. CASE Registry
  BY <1>4 DEF Registry, Next, ExternalStep
<1>5. CASE UNCHANGED vars
  BY <1>5
<1> QED
  BY <1>1, <1>2, <1>3, <1>4, <1>5
  DEF SigNext, sigVars, Send, Refuse, Receive, Abort, RefuseOther, Respond,
      RefuseCreate, SigRest

\* The signaling path implements the registry: whatever is proved of
\* SessionManager holds behind the HTTP API, too.
THEOREM SignalingImplementsRegistry == SigSpec => Spec
<1>1. SigInit => Init /\ PathInv BY DEF SigInit, PathInv
<1> QED BY <1>1, PathStep, SigRegistryStep, PTL DEF SigSpec, Spec

-----------------------------------------------------------------------------
\* A published call stays published, and no call becomes idle again.
LEMMA CreateStays ==
    IInv /\ [Next]_vars =>
        \A c \in Calls :
            /\ Published(c) => Published(c)'
            /\ create[c] # "idle" => create'[c] # "idle"
<1> SUFFICES ASSUME IInv, [Next]_vars, NEW c \in Calls
             PROVE  /\ Published(c) => Published(c)'
                    /\ create[c] # "idle" => create'[c] # "idle"
  OBVIOUS
<1> USE DEF IInv, TypeOK, Published
<1>1. ASSUME NEW x \in Calls, BeginCreate(x) \/ CreateStep(x)
      PROVE  /\ Published(c) => Published(c)'
             /\ create[c] # "idle" => create'[c] # "idle"
  BY <1>1 DEF BeginCreate, CreateStep, CreateProgress, NewSessionRejected,
      NewSessionOpened, NegotiationFails, NewSessionFails, Answer,
      RemoveFailed, Publish, Discarded, Arm, SetExpiryTimer, Goto
<1>2. CASE UNCHANGED create
  BY <1>2
<1> QED
  BY <1>1, <1>2
  DEF Next, InternalStep, ExternalStep, CloseStep, TimerStep, CloseAllStep,
      Rest, SessionTerminates, CloseBegin, CloseTeardown, CloseRelease,
      CloseTerminal, TimerFires, Expire, ExpireReturns, DeleteBegin,
      DeleteReturns, CloseAllBegin, CloseAllNext, CloseAllJoin,
      CloseAllReturns, MarkLookup, MarkApply, vars, creating

\* A Manager.Close call that has returned stays so, and only DeleteBegin
\* starts one.
LEMMA DeleteStays ==
    IInv /\ [Next]_vars =>
        \A d \in Deletes :
            /\ del[d] \in {"closed", "notfound"} => del'[d] = del[d]
            /\ del[d] = "idle" /\ del'[d] # "idle" =>
                 \E i \in Ids : DeleteBegin(d, i)
<1> SUFFICES ASSUME IInv, [Next]_vars, NEW d \in Deletes
             PROVE  /\ del[d] \in {"closed", "notfound"} => del'[d] = del[d]
                    /\ del[d] = "idle" /\ del'[d] # "idle" =>
                         \E i \in Ids : DeleteBegin(d, i)
  OBVIOUS
<1>t. del \in [Deletes -> DelPC] BY DEF IInv, TypeOK
<1>1. ASSUME NEW e \in Deletes, NEW i \in Ids, DeleteBegin(e, i)
      PROVE  /\ del[d] \in {"closed", "notfound"} => del'[d] = del[d]
             /\ del'[d] # del[d] => DeleteBegin(d, i)
  <2>1. del[e] = "idle" /\ \E pc : del' = [del EXCEPT ![e] = pc]
    BY <1>1 DEF DeleteBegin
  <2>2. CASE d = e BY <1>1, <2>1, <2>2
  <2>3. CASE d # e BY <1>t, <2>1, <2>3
  <2> QED BY <2>2, <2>3
<1>2. ASSUME NEW e \in Deletes, DeleteReturns(e)
      PROVE  /\ del[d] \in {"closed", "notfound"} => del'[d] = del[d]
             /\ del[d] = "idle" => del'[d] = del[d]
  BY <1>t, <1>2 DEF DeleteReturns
<1>3. CASE UNCHANGED del
  BY <1>3
<1> QED
  BY <1>1, <1>2, <1>3
  DEF Next, InternalStep, ExternalStep, CreateStep, CreateProgress, CloseStep,
      TimerStep, CloseAllStep, Rest, BeginCreate, NewSessionRejected,
      NewSessionOpened, NegotiationFails, NewSessionFails, Answer,
      RemoveFailed, Publish, Discarded, Arm, SetExpiryTimer, Goto,
      SessionTerminates, CloseBegin, CloseTeardown, CloseRelease,
      CloseTerminal, TimerFires, Expire, ExpireReturns, CloseAllBegin,
      CloseAllNext, CloseAllJoin, CloseAllReturns, MarkLookup, MarkApply,
      vars, requests, deleting

\* Only BeginCreate of an idle call makes a call's entry appear in the map.
LEMMA UnmappedStays ==
    IInv /\ [Next]_vars =>
        \A c \in Calls : create[c] # "idle" /\ ~Mapped(c) => ~Mapped(c)'
<1> SUFFICES ASSUME IInv, [Next]_vars,
                    NEW c \in Calls, create[c] # "idle", ~Mapped(c)
             PROVE  ~Mapped(c)'
  OBVIOUS
<1> USE NoCallAssumption DEF IInv, TypeOK, Mapped, vars, creating
<1>1. ASSUME NEW x \in Calls, BeginCreate(x) PROVE ~Mapped(c)'
  BY <1>1 DEF BeginCreate
<1>2. ASSUME NEW x \in Calls, RemoveFailed(x) \/ CloseTerminal(x)
      PROVE  ~Mapped(c)'
  BY <1>2 DEF RemoveFailed, CloseTerminal, Removed
<1>3. ASSUME NEW x \in Calls, Expire(x) PROVE ~Mapped(c)'
  BY <1>3 DEF Expire
<1>4. ASSUME NEW d \in Deletes, NEW i \in Ids, DeleteBegin(d, i)
      PROVE  ~Mapped(c)'
  BY <1>4 DEF DeleteBegin
<1>5. CASE CloseAllBegin
  BY <1>5 DEF CloseAllBegin
<1>6. CASE UNCHANGED <<sessions, reqId>>
  BY <1>6
<1> QED
  BY <1>1, <1>2, <1>3, <1>4, <1>5, <1>6
  DEF Next, InternalStep, ExternalStep, CreateStep, CreateProgress, CloseStep,
      TimerStep, CloseAllStep, Rest, NewSessionRejected, NewSessionOpened,
      NegotiationFails, NewSessionFails, Answer, Publish, Discarded, Arm,
      SetExpiryTimer, Goto, SessionTerminates, CloseBegin, CloseTeardown,
      CloseRelease, TimerFires, ExpireReturns, DeleteReturns, CloseAllNext,
      CloseAllJoin, CloseAllReturns, MarkLookup, MarkApply

\* A directive is served once, and its reply is decided by its status.
LEMMA ReplyStep ==
    IInv /\ PathInv /\ ReplyInv /\ [SigNext]_sigVars => ReplyInv'
<1> SUFFICES ASSUME IInv, PathInv, ReplyInv, [SigNext]_sigVars PROVE ReplyInv'
  OBVIOUS
<1>n. [Next]_vars BY SigRegistryStep
<1>p. \A c \in Calls : Published(c) => Published(c)'
  BY <1>n, CreateStays DEF Published
<1>d. \A d \in Deletes : del[d] \in {"closed", "notfound"} => del'[d] = del[d]
  BY <1>n, DeleteStays
<1> USE KindsAssumption DEF ReplyInv, Directives, GoneStatuses, NoStatus
<1>1. CASE UNCHANGED <<lambda, status>>
  BY <1>1, <1>p, <1>d
<1>2. ASSUME NEW r \in Directives, Send(r) \/ Refuse(r) \/ Abort(r)
      PROVE  ReplyInv'
  BY <1>2, <1>p, <1>d DEF Send, Refuse, Abort
<1>3. ASSUME NEW r \in Directives, Receive(r) PROVE ReplyInv'
  BY <1>3, <1>p, <1>d DEF Receive, Accepted
<1>4. ASSUME NEW c \in Calls, RefuseCreate(c) PROVE ReplyInv'
  <2>1. PICK s \in AuthRefusals \union CreateRefusals :
               status' = [status EXCEPT ![c] = s]
    BY <1>4 DEF RefuseCreate
  <2>2. status[c] = NoStatus /\ UNCHANGED lambda
    BY <1>4 DEF RefuseCreate, Delivered
  <2>3. s \in Nat /\ s \notin {200, 404, 410}
    BY <2>1 DEF AuthRefusals, CreateRefusals, BodyRefusals
  <2> QED BY <1>p, <1>d, <2>1, <2>2, <2>3
<1>5. ASSUME NEW r \in Directives, RefuseOther(r) PROVE ReplyInv'
  <2>1. PICK s \in AuthRefusals \union PathRefusals :
               status' = [status EXCEPT ![r] = s]
    BY <1>5 DEF RefuseOther
  <2>2. status[r] = NoStatus /\ UNCHANGED lambda
    BY <1>5 DEF RefuseOther, Delivered
  <2>3. s \in Nat /\ s \notin {200, 404, 410}
    BY <2>1 DEF AuthRefusals, PathRefusals
  <2> QED BY <1>p, <1>d, <2>1, <2>2, <2>3
<1>6. ASSUME NEW r \in Directives, Respond(r) PROVE ReplyInv'
  <2>1. PICK s \in ResultStatus(r) : status' = [status EXCEPT ![r] = s]
    BY <1>6 DEF Respond
  <2>2. status[r] = NoStatus /\ UNCHANGED <<lambda, create, del>>
    BY <1>6 DEF Respond, vars, creating, requests, deleting
  <2>3. s \in Nat
    BY <2>1 DEF ResultStatus, CreateStatus, CloseStatus, MarkStatus
  <2>4. r \in Calls /\ s = 200 => create[r] = "ok"
    BY <2>1 DEF ResultStatus, CreateStatus
  <2>5. r \in Deletes /\ s \in GoneStatuses
          => del[r] \in {"closed", "notfound"}
    BY <2>1 DEF ResultStatus, CloseStatus
  <2> QED BY <1>p, <1>d, <2>1, <2>2, <2>3, <2>4, <2>5 DEF Published
<1> QED
  BY <1>1, <1>2, <1>3, <1>4, <1>5, <1>6
  DEF SigNext, sigVars, path, ServeCreate, ServeDelete, ServeConnected,
      Registry, SigRest

\* A SessionDisconnected retires the calls it found, and for good.
LEMMA RetiredStep ==
    IInv /\ PathInv /\ RetiredInv /\ [SigNext]_sigVars => RetiredInv'
<1> SUFFICES ASSUME IInv, PathInv, RetiredInv, [SigNext]_sigVars
             PROVE  RetiredInv'
  OBVIOUS
<1>n. [Next]_vars BY SigRegistryStep
<1>c. \A c \in Calls : create[c] # "idle" => create'[c] # "idle"
  BY <1>n, CreateStays
<1>m. \A c \in Calls : create[c] # "idle" /\ ~Mapped(c) => ~Mapped(c)'
  BY <1>n, UnmappedStays DEF Mapped
<1>r. UNCHANGED <<reqId, pathId>>
  BY DEF SigNext, sigVars, path, Send, Refuse, Receive, Abort, RefuseOther,
      Respond, RefuseCreate, ServeCreate, ServeDelete, ServeConnected,
      Registry, SigRest, InternalStep, CreateStep, CreateProgress, CloseStep,
      TimerStep, CloseAllStep, BeginCreate, NewSessionRejected,
      NewSessionOpened, NegotiationFails, NewSessionFails, Answer,
      RemoveFailed, Publish, Discarded, Arm, SetExpiryTimer, Goto,
      SessionTerminates, CloseBegin, CloseTeardown, CloseRelease,
      CloseTerminal, TimerFires, Expire, ExpireReturns, DeleteBegin,
      DeleteReturns, CloseAllNext, CloseAllJoin, CloseAllReturns, MarkLookup,
      MarkApply, vars, creating
<1>1. ASSUME NEW d \in Deletes, ServeDelete(d) PROVE RetiredInv'
  <2> USE <1>1 DEF ServeDelete, DeleteBegin
  <2>1. before' \in [Deletes -> SUBSET Calls]
    BY DEF RetiredInv
  <2>2. \A c \in before'[d] :
          /\ create'[c] # "idle"
          /\ reqId'[c] = pathId'[d] => ~Mapped(c)'
    BY <1>c, <1>r, NoCallAssumption
    DEF RetiredInv, PathInv, IInv, TypeOK, Mapped
  <2>3. \A e \in Deletes \ {d} : before'[e] = before[e] /\ del'[e] = del[e]
    BY DEF RetiredInv, IInv, TypeOK
  <2> QED BY <1>c, <1>m, <1>r, <2>1, <2>2, <2>3 DEF RetiredInv
<1>2. CASE /\ UNCHANGED before
           /\ \A d \in Deletes : del[d] = "idle" => del'[d] = "idle"
  BY <1>2, <1>c, <1>m, <1>r DEF RetiredInv
<1>3. CASE Registry
  BY <1>2, <1>3
  DEF Registry, path, InternalStep, CreateStep, CreateProgress, CloseStep,
      TimerStep, CloseAllStep, NewSessionRejected, NewSessionOpened,
      NegotiationFails, NewSessionFails, Answer, RemoveFailed, Publish,
      Discarded, Arm, SetExpiryTimer, Goto, SessionTerminates, CloseBegin,
      CloseTeardown, CloseRelease, CloseTerminal, TimerFires, Expire,
      ExpireReturns, DeleteReturns, CloseAllNext, CloseAllJoin,
      CloseAllReturns, MarkApply, requests, deleting, IInv, TypeOK
<1> QED
  BY <1>1, <1>2, <1>3
  DEF SigNext, sigVars, path, Send, Refuse, Receive, Abort, RefuseOther,
      Respond, RefuseCreate, ServeCreate, ServeConnected, SigRest,
      BeginCreate, MarkLookup, vars, requests, deleting

\* The Lambda and the handlers have no way to start it.
LEMMA ServingStep == ServingInv /\ [SigNext]_sigVars => ServingInv'
BY DEF ServingInv, SigNext, sigVars, path, Send, Refuse, Receive, Abort,
       RefuseOther, Respond, RefuseCreate, ServeCreate, ServeDelete,
       ServeConnected, Registry, SigRest, InternalStep, CreateStep,
       CreateProgress, CloseStep, TimerStep, CloseAllStep, BeginCreate,
       NewSessionRejected, NewSessionOpened, NegotiationFails,
       NewSessionFails, Answer, RemoveFailed, Publish, Discarded, Arm,
       SetExpiryTimer, Goto, SessionTerminates, CloseBegin, CloseTeardown,
       CloseRelease, CloseTerminal, TimerFires, Expire, ExpireReturns,
       DeleteBegin, DeleteReturns, CloseAllNext, CloseAllJoin,
       CloseAllReturns, MarkLookup, MarkApply, vars, requests, sweeping

-----------------------------------------------------------------------------
\* Everything the theorems below need holds in every reachable state.
THEOREM SignalingInductive ==
    SigSpec => [](IInv /\ PathInv /\ ReplyInv /\ RetiredInv /\ ServingInv)
<1>1. SigInit => PathInv /\ RetiredInv /\ ServingInv
  BY DEF ServingInv, SigInit, Init, PathInv, RetiredInv
<1>2. SigInit => ReplyInv
  BY DEF SigInit, ReplyInv, Directives, NoStatus, GoneStatuses
<1> QED
  BY <1>1, <1>2, PathStep, ReplyStep, RetiredStep, ServingStep,
     SignalingImplementsRegistry, Inductive, PTL
  DEF SigSpec

\* For any number of directives: Alexa gets an answer only for a session that
\* Create registered for this very directive.
THEOREM AnswersHaveSessions == SigSpec => []AnswerHasSession
<1>1. ReplyInv => AnswerHasSession
  BY DEF ReplyInv, AnswerHasSession
<1> QED BY <1>1, SignalingInductive, PTL

\* For any number of directives, delivered in any order: a confirmed
\* SessionDisconnected has taken every earlier session of its id out of the
\* map for good, and each of those still open is on its way to be closed.
THEOREM DisconnectsRetireSessions == SigSpec => []DisconnectRetiresSession
<1>1. IInv /\ ReplyInv /\ RetiredInv /\ ServingInv
        => DisconnectRetiresSession
  <2> SUFFICES ASSUME IInv, ReplyInv, RetiredInv, ServingInv,
                      NEW d \in Deletes, lambda[d] = "success",
                      NEW c \in before[d], reqId[c] = pathId[d]
               PROVE  /\ ~Mapped(c)
                      /\ life[c] = "open" =>
                           \/ create[c] \in {"negotiating", "answered"}
                           \/ CloseRequested(c)
    BY DEF DisconnectRetiresSession
  <2>1. c \in Calls BY DEF RetiredInv
  <2>2. ~Mapped(c) BY DEF ReplyInv, RetiredInv
  <2>3. toClose = {} BY DEF IInv, SweepInv, ServingInv
  <2> QED BY <2>1, <2>2, <2>3 DEF IInv, NoOrphan
<1> QED BY <1>1, SignalingInductive, PTL
=============================================================================
