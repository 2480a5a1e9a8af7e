--------------------------- MODULE RtcServerProofs ---------------------------
(***************************************************************************)
(* What a drained shutdown of the gateway leaves behind, for every set of  *)
(* ids and of requests.                                                    *)
(*                                                                         *)
(* The process takes only steps of the registry, so the registry's         *)
(* invariants hold in it.  Two more are needed: a published session that   *)
(* is not closed has an owner other than its own goroutines, and, once the *)
(* handlers are drained, CloseAll is the last to get hold of sessions.     *)
(***************************************************************************)
EXTENDS RtcServer, SessionManagerProofs

\* A published session that is not closed yet is in the map, or its expiry
\* timer, a Manager.Close call or CloseAll has it.
Owned(c) ==
    \/ Mapped(c)
    \/ timer[c] = "closing"
    \/ \E d \in Deletes : del[d] = "closing" /\ delTarget[d] = c
    \/ current = c
    \/ c \in toClose

OwnedInv ==
    \A c \in Calls : Published(c) /\ life[c] # "closed" => Owned(c)

\* CloseAll begins when serving has ended, the process exits when it is over,
\* and it is over when it has closed what it had collected.
PhaseInv ==
    /\ phase \in {"serving", "draining"} => closeAll = "idle"
    /\ phase \in {"serving", "draining"} => mode = "none"
    /\ phase \in {"serving", "draining", "closing", "exited"}
    /\ phase = "exited" => closeAll = "done"
    /\ closeAll = "done" => toClose = {} /\ current = NoCall

\* When the handlers are drained none comes back; when CloseAll has then
\* begun, nothing is registered and every session that is not closed is in
\* its hands or in those of its expiry timer.
DrainedInv ==
    mode = "drained" =>
        /\ NoHandler
        /\ closeAll # "idle" =>
             /\ \A i \in Ids : sessions[i] = NoCall
             /\ \A c \in Calls :
                  \/ life[c] \in {"none", "closed"}
                  \/ timer[c] = "closing"
                  \/ c \in toClose
                  \/ c = current

-----------------------------------------------------------------------------
\* A step of the process is a step of the registry or leaves it alone.
LEMMA RegistryStep == [ServerNext]_allVars => [Next]_vars
BY DEF ServerNext, allVars, Signal, Drained, DrainDeadline, ServeFails,
       CloseSessions, Exit, Request, Run, Exited, Next, ExternalStep

\* The process implements the registry: whatever is proved of SessionManager
\* holds while the gateway serves, drains and closes.
THEOREM ServerImplementsRegistry == ServerSpec => Spec
<1>1. ServerInit => Init BY DEF ServerInit
<1> QED BY <1>1, RegistryStep, PTL DEF ServerSpec, Spec

\* The session loses its map entry only to somebody who takes it over, and
\* whoever has it keeps it until it is closed.
LEMMA OwnedStep == IInv /\ OwnedInv /\ [Next]_vars => OwnedInv'
<1> SUFFICES ASSUME IInv, OwnedInv, [Next]_vars,
                    NEW x \in Calls, Published(x)', life'[x] # "closed"
             PROVE  Owned(x)'
  BY DEF OwnedInv
<1> USE NoCallAssumption
    DEF OwnedInv, Owned, IInv, SlotInv, LifeInv, TypeOK, Published, Mapped,
        CreatePC, Life, TimerState, DelPC, creating, body, timers, requests,
        deleting, sweeping
<1>1. ASSUME NEW c \in Calls, BeginCreate(c) PROVE Owned(x)'
  BY <1>1 DEF BeginCreate
<1>2. ASSUME NEW c \in Calls, NEW from, NEW to, Goto(c, from, to),
             to \in {"arm", "setTimer", "ok"} => Mapped(c)
      PROVE  Owned(x)'
  BY <1>2 DEF Goto
<1>3. ASSUME NEW c \in Calls, NewSessionOpened(c) PROVE Owned(x)'
  BY <1>3 DEF NewSessionOpened
<1>4. ASSUME NEW c \in Calls, RemoveFailed(c) PROVE Owned(x)'
  BY <1>4 DEF RemoveFailed, Removed
<1>5. ASSUME NEW c \in Calls, Arm(c) PROVE Owned(x)'
  BY <1>5 DEF Arm, TimerInv
<1>6. ASSUME NEW c \in Calls, SetExpiryTimer(c) PROVE Owned(x)'
  BY <1>6 DEF SetExpiryTimer, Stopped
<1>7. ASSUME NEW c \in Calls, SessionTerminates(c) PROVE Owned(x)'
  BY <1>7 DEF SessionTerminates
<1>8. ASSUME NEW c \in Calls, CloseBegin(c) \/ CloseRelease(c)
      PROVE  Owned(x)'
  BY <1>8 DEF CloseBegin, CloseRelease
<1>9. ASSUME NEW c \in Calls, CloseTeardown(c) PROVE Owned(x)'
  BY <1>9 DEF CloseTeardown, Stopped
<1>10. ASSUME NEW c \in Calls, CloseTerminal(c) PROVE Owned(x)'
  BY <1>10 DEF CloseTerminal, Removed
<1>11. ASSUME NEW c \in Calls, TimerStep(c) PROVE Owned(x)'
  BY <1>11 DEF TimerStep, TimerFires, Expire, ExpireReturns
<1>12. ASSUME NEW d \in Deletes, NEW i \in Ids, DeleteBegin(d, i)
       PROVE  Owned(x)'
  BY <1>12 DEF DeleteBegin, Lookup
<1>13. ASSUME NEW d \in Deletes, DeleteReturns(d) PROVE Owned(x)'
  BY <1>13 DEF DeleteReturns
<1>14. CASE CloseAllBegin
  BY <1>14 DEF CloseAllBegin, SweepInv
<1>15. ASSUME NEW c \in Calls, CloseAllNext(c) PROVE Owned(x)'
  BY <1>15 DEF CloseAllNext
<1>16. CASE CloseAllJoin
  BY <1>16 DEF CloseAllJoin
<1>17. CASE UNCHANGED <<sessions, reqId, create, life, timer, deleting,
                        toClose, current>>
  BY <1>17
<1>18. ASSUME NEW c \in Calls, Publish(c) PROVE Owned(x)'
  BY <1>18 DEF Publish, Goto
<1> QED
  BY <1>1, <1>2, <1>3, <1>4, <1>5, <1>6, <1>7, <1>8, <1>9, <1>10, <1>11,
     <1>12, <1>13, <1>14, <1>15, <1>16, <1>17, <1>18
  DEF Next, InternalStep, ExternalStep, CreateStep, CreateProgress, CloseStep,
      CloseAllStep, Rest, NewSessionRejected, NegotiationFails,
      NewSessionFails, Answer, Discarded, CloseAllReturns, MarkLookup,
      MarkApply, vars

\* No published session of the gateway, closing by itself or not, is ever
\* without an owner: the map, an expiry timer, a Manager.Close call or
\* CloseAll can still wait for the end of its Close.
THEOREM PublishedSessionsOwned == Spec => []OwnedInv
<1>1. Init => OwnedInv BY DEF Init, OwnedInv, Published
<1> QED BY <1>1, OwnedStep, Inductive, PTL DEF Spec

-----------------------------------------------------------------------------
\* CloseAll is begun by run() alone, after serving, and goes on to its end.
LEMMA PhaseStep == PhaseInv /\ [ServerNext]_allVars => PhaseInv'
<1> SUFFICES ASSUME PhaseInv, [ServerNext]_allVars PROVE PhaseInv' OBVIOUS
<1> USE DEF PhaseInv, server, vars, requests, sweeping
<1>1. CASE Signal \/ Drained \/ DrainDeadline \/ ServeFails \/ Exit
  BY <1>1 DEF Signal, Drained, DrainDeadline, ServeFails, Exit
<1>2. CASE CloseSessions
  BY <1>2 DEF CloseSessions, CloseAllBegin
<1>3. CASE CloseAllStep /\ UNCHANGED server /\ phase # "exited"
  BY <1>3 DEF CloseAllStep, CloseAllJoin, CloseAllReturns, CloseAllNext
<1>4. CASE UNCHANGED <<server, sweeping>>
  BY <1>4
<1> QED
  BY <1>1, <1>2, <1>3, <1>4
  DEF ServerNext, Request, Run, Exited, allVars, InternalStep, CreateStep,
      CreateProgress, CloseStep, TimerStep, BeginCreate, NewSessionRejected,
      NewSessionOpened, NegotiationFails, NewSessionFails, Answer,
      RemoveFailed, Publish, Discarded, Arm, SetExpiryTimer, Goto,
      SessionTerminates, CloseBegin, CloseTeardown, CloseRelease,
      CloseTerminal, TimerFires, Expire, ExpireReturns, DeleteBegin,
      DeleteReturns, MarkLookup, MarkApply

\* The drain leaves no handler in the registry, and CloseAll then takes every
\* session that no expiry timer has taken: with no Manager.Close call left,
\* nobody else can own one.
LEMMA DrainedStep ==
    /\ IInv /\ OwnedInv /\ PhaseInv /\ DrainedInv
    /\ [ServerNext]_allVars
    => DrainedInv'
<1> SUFFICES ASSUME IInv, OwnedInv, PhaseInv, DrainedInv,
                    [ServerNext]_allVars, mode' = "drained"
             PROVE  DrainedInv'
  BY DEF DrainedInv
<1> USE NoCallAssumption
    DEF NoHandler, IInv, TypeOK, Published, Mapped, CreatePC, Life,
        TimerState, DelPC, MarkPC, vars, server, creating, body, timers,
        requests, deleting, sweeping, marks
<1>1. CASE Drained
  BY <1>1 DEF Drained, PhaseInv, DrainedInv
<1>2. CASE Signal \/ DrainDeadline \/ ServeFails \/ Exit
  BY <1>2 DEF Signal, DrainDeadline, ServeFails, Exit, DrainedInv
<1>3. CASE CloseSessions
  <2> USE <1>3 DEF CloseSessions, CloseAllBegin
  <2>1. NoHandler'
    BY DEF DrainedInv
  <2>2. \A i \in Ids : sessions'[i] = NoCall
    OBVIOUS
  <2>3. ASSUME NEW c \in Calls, life[c] \notin {"none", "closed"},
               timer[c] # "closing", c # current
        PROVE  c \in toClose'
    <3>1. create[c] = "ok"
      BY <2>3 DEF DrainedInv, LifeInv
    <3>2. Owned(c)
      BY <2>3, <3>1 DEF OwnedInv
    <3>3. toClose = {} BY DEF SweepInv
    <3>4. \A d \in Deletes : del[d] # "closing" BY DEF DrainedInv
    <3> QED BY <2>3, <3>1, <3>2, <3>3, <3>4 DEF Owned
  <2> QED BY <2>1, <2>2, <2>3 DEF DrainedInv
<1>4. CASE Request
  BY <1>4 DEF Request, PhaseInv
<1>5. CASE Run
  <2>1. mode = "drained" /\ UNCHANGED server
    BY <1>5 DEF Run
  <2> USE <2>1 DEF DrainedInv
  <2>2. ASSUME NEW c \in Calls, CreateStep(c) PROVE FALSE
    BY <2>2 DEF CreateStep, CreateProgress, NewSessionRejected,
        NewSessionOpened, NegotiationFails, NewSessionFails, Answer,
        RemoveFailed, Publish, Discarded, Arm, SetExpiryTimer, Goto
  <2>3. ASSUME NEW c \in Calls,
               CloseBegin(c) \/ CloseRelease(c) \/ SessionTerminates(c)
        PROVE  DrainedInv'
    BY <2>3 DEF CloseBegin, CloseRelease, SessionTerminates
  <2>4. ASSUME NEW c \in Calls, CloseTeardown(c) PROVE DrainedInv'
    BY <2>4 DEF CloseTeardown, Stopped
  <2>5. ASSUME NEW c \in Calls, CloseTerminal(c) PROVE DrainedInv'
    BY <2>5 DEF CloseTerminal, Removed
  <2>6. ASSUME NEW c \in Calls, TimerStep(c) PROVE DrainedInv'
    BY <2>6 DEF TimerStep, TimerFires, Expire, ExpireReturns
  <2>7. ASSUME NEW k \in Marks, MarkApply(k) PROVE FALSE
    BY <2>7 DEF MarkApply
  <2>8. ASSUME NEW d \in Deletes, DeleteReturns(d) PROVE FALSE
    BY <2>8 DEF DeleteReturns
  <2>9. CASE CloseAllStep
    BY <2>9 DEF CloseAllStep, CloseAllJoin, CloseAllReturns, CloseAllNext
  <2> QED
    BY <1>5, <2>2, <2>3, <2>4, <2>5, <2>6, <2>7, <2>8, <2>9
    DEF Run, InternalStep, CloseStep
<1>6. CASE UNCHANGED allVars
  BY <1>6 DEF allVars, DrainedInv
<1> QED
  BY <1>1, <1>2, <1>3, <1>4, <1>5, <1>6 DEF ServerNext, Exited

\* For any number of sessions and requests: a process that exits after a
\* drained shutdown leaves no request half done, no id registered and no
\* session open, but for one that its expiry timer is still closing.
THEOREM DrainedExitIsClean == ServerSpec => []DrainedExitClosesRegistered
<1>1. ServerInit => PhaseInv /\ DrainedInv
  BY DEF ServerInit, Init, PhaseInv, DrainedInv
<1>2. IInv /\ PhaseInv /\ DrainedInv => DrainedExitClosesRegistered
  <2> SUFFICES ASSUME IInv, PhaseInv, DrainedInv,
                      phase = "exited", mode = "drained"
               PROVE  /\ NoHandler
                      /\ \A i \in Ids : sessions[i] = NoCall
                      /\ \A c \in Calls : \/ life[c] \in {"none", "closed"}
                                          \/ timer[c] = "closing"
    BY DEF DrainedExitClosesRegistered
  <2>1. closeAll = "done" /\ toClose = {} /\ current = NoCall
    BY DEF PhaseInv
  <2> QED BY <2>1, NoCallAssumption DEF DrainedInv
<1> QED
  BY <1>1, <1>2, PhaseStep, DrainedStep, ServerImplementsRegistry, Inductive,
     PublishedSessionsOwned, PTL
  DEF ServerSpec
=============================================================================
