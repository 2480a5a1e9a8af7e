------------------------ MODULE SessionManagerProofs ------------------------
(***************************************************************************)
(* Machine-checked proofs about SessionManager, for every set of ids and   *)
(* of calls: its invariants, and that it implements SessionLife.           *)
(***************************************************************************)
EXTENDS SessionManager, TLAPS

(***************************************************************************)
(* The inductive invariant.                                                *)
(***************************************************************************)

\* A slot holds an entry of its own id, and only while the Create call that
\* owns it has it registered.
SlotInv ==
    /\ \A i \in Ids : sessions[i] # NoCall => reqId[sessions[i]] = i
    /\ \A c \in Calls :
         Mapped(c) => create[c] \in {"new", "negotiating", "failing", "remove",
                                     "answered", "arm", "setTimer", "ok"}

\* How far a Create call has got determines whether it has a session, and
\* the failing calls have a closed one.
LifeInv ==
    \A c \in Calls :
        /\ create[c] \in {"idle", "new", "exists"} => life[c] = "none"
        /\ create[c] \in {"negotiating", "failing", "answered", "discard",
                          "arm", "setTimer", "ok"} => life[c] # "none"
        /\ create[c] \in {"remove", "error"} => life[c] \in {"none", "closed"}
        /\ create[c] = "gone" => life[c] = "closed"

\* The expiry timer exists exactly from Arm on; it is stopped only for a
\* session that is closing, runs its course only for one that has lost its
\* entry, and is known to the session whose Close still has to stop it.
TimerInv ==
    \A c \in Calls :
        /\ create[c] \notin {"setTimer", "ok"} => timer[c] = "none"
        /\ TTLEnabled /\ create[c] \in {"setTimer", "ok"} => timer[c] # "none"
        /\ timer[c] = "stopped" => CtxDone(c)
        /\ timer[c] \in {"closing", "done"} => ~Mapped(c)
        /\ timer[c] = "armed" /\ create[c] = "ok"
             => c \in expiryTimer /\ life[c] \in {"open", "cancelled"}

\* CloseAll has nothing to close before it has begun.
SweepInv == closeAll = "idle" => toClose = {}

IInv ==
    /\ TypeOK
    /\ SlotInv
    /\ LifeInv
    /\ TimerInv
    /\ SweepInv
    /\ ClosedFreesId
    /\ NoOrphan

-----------------------------------------------------------------------------
\* The initial state has the types.
LEMMA TypeInit == Init => TypeOK
<1> SUFFICES ASSUME Init PROVE TypeOK OBVIOUS
<1>1. closeAllErr \in BOOLEAN BY Zenon DEF Init
<1>2. /\ sessions \in [Ids -> Calls \union {NoCall}]
      /\ reqId \in [Calls -> Ids]
      /\ create \in [Calls -> CreatePC]
      /\ life \in [Calls -> Life]
      /\ timer \in [Calls -> TimerState]
  BY DEF Init, CreatePC, Life, TimerState
<1>3. /\ del \in [Deletes -> DelPC]
      /\ delTarget \in [Deletes -> Calls \union {NoCall}]
      /\ \A d \in Deletes : del[d] # "closing"
  BY DEF Init, DelPC
<1>4. /\ mark \in [Marks -> MarkPC]
      /\ markTarget \in [Marks -> Calls \union {NoCall}]
      /\ \A k \in Marks : mark[k] # "found"
  BY DEF Init, MarkPC
<1> QED BY <1>1, <1>2, <1>3, <1>4 DEF Init, TypeOK

-----------------------------------------------------------------------------
(* Each part of the invariant is kept: one step per action that can disturb *)
(* the part, and one for all the actions that leave its variables alone.    *)

\* Every step keeps the types; the calls that hold a session hold a
\* published one, because a published call never goes back.
LEMMA TypeStep == TypeOK /\ [Next]_vars => TypeOK'
<1> SUFFICES ASSUME TypeOK, [Next]_vars PROVE TypeOK' OBVIOUS
<1> USE NoCallAssumption, TTLAssumption
    DEF TypeOK, Published, Mapped, CreatePC, Life, TimerState, DelPC, MarkPC,
        vars, creating, body, timers, requests, deleting, sweeping, marks
<1>1. ASSUME NEW c \in Calls, BeginCreate(c) PROVE TypeOK'
  BY <1>1 DEF BeginCreate
<1>2. ASSUME NEW c \in Calls, NewSessionRejected(c) PROVE TypeOK'
  BY <1>2 DEF NewSessionRejected, Goto
<1>3. ASSUME NEW c \in Calls, NewSessionOpened(c) PROVE TypeOK'
  BY <1>3 DEF NewSessionOpened
<1>4. ASSUME NEW c \in Calls, NegotiationFails(c) PROVE TypeOK'
  BY <1>4 DEF NegotiationFails, Goto
<1>5. ASSUME NEW c \in Calls, NewSessionFails(c) PROVE TypeOK'
  BY <1>5 DEF NewSessionFails, Goto
<1>6. ASSUME NEW c \in Calls, Answer(c) PROVE TypeOK'
  BY <1>6 DEF Answer, Goto
<1>7. ASSUME NEW c \in Calls, RemoveFailed(c) PROVE TypeOK'
  BY <1>7 DEF RemoveFailed, Removed
<1>8. ASSUME NEW c \in Calls, Publish(c) PROVE TypeOK'
  BY <1>8 DEF Publish, Goto
<1>9. ASSUME NEW c \in Calls, Discarded(c) PROVE TypeOK'
  BY <1>9 DEF Discarded, Goto
<1>10. ASSUME NEW c \in Calls, Arm(c) PROVE TypeOK'
  BY <1>10 DEF Arm
<1>11. ASSUME NEW c \in Calls, SetExpiryTimer(c) PROVE TypeOK'
  BY <1>11 DEF SetExpiryTimer, Stopped, CtxDone
<1>12. ASSUME NEW c \in Calls, SessionTerminates(c) PROVE TypeOK'
  BY <1>12 DEF SessionTerminates
<1>13. ASSUME NEW c \in Calls, CloseBegin(c) PROVE TypeOK'
  BY <1>13 DEF CloseBegin
<1>14. ASSUME NEW c \in Calls, CloseTeardown(c) PROVE TypeOK'
  BY <1>14 DEF CloseTeardown, Stopped
<1>15. ASSUME NEW c \in Calls, CloseRelease(c) PROVE TypeOK'
  BY <1>15 DEF CloseRelease
<1>16. ASSUME NEW c \in Calls, CloseTerminal(c) PROVE TypeOK'
  BY <1>16 DEF CloseTerminal, Removed
<1>17. ASSUME NEW c \in Calls, TimerFires(c) PROVE TypeOK'
  BY <1>17 DEF TimerFires
<1>18. ASSUME NEW c \in Calls, Expire(c) PROVE TypeOK'
  BY <1>18 DEF Expire
<1>19. ASSUME NEW c \in Calls, ExpireReturns(c) PROVE TypeOK'
  BY <1>19 DEF ExpireReturns
<1>20. ASSUME NEW d \in Deletes, NEW i \in Ids, DeleteBegin(d, i) PROVE TypeOK'
  BY <1>20 DEF DeleteBegin, Lookup
<1>21. ASSUME NEW d \in Deletes, DeleteReturns(d) PROVE TypeOK'
  BY <1>21 DEF DeleteReturns
<1>22. CASE CloseAllBegin
  BY <1>22 DEF CloseAllBegin
<1>23. ASSUME NEW c \in Calls, CloseAllNext(c) PROVE TypeOK'
  BY <1>23 DEF CloseAllNext
<1>24. CASE CloseAllJoin
  BY <1>24 DEF CloseAllJoin
<1>25. CASE CloseAllReturns
  BY <1>25 DEF CloseAllReturns
<1>26. ASSUME NEW k \in Marks, NEW i \in Ids, MarkLookup(k, i) PROVE TypeOK'
  BY <1>26 DEF MarkLookup, Lookup
<1>27. ASSUME NEW k \in Marks, MarkApply(k) PROVE TypeOK'
  BY <1>27 DEF MarkApply
<1>28. CASE Rest \/ UNCHANGED vars
  BY <1>28 DEF Rest
<1> QED
  BY <1>1, <1>2, <1>3, <1>4, <1>5, <1>6, <1>7, <1>8, <1>9, <1>10, <1>11,
     <1>12, <1>13, <1>14, <1>15, <1>16, <1>17, <1>18, <1>19, <1>20, <1>21,
     <1>22, <1>23, <1>24, <1>25, <1>26, <1>27, <1>28
  DEF Next, InternalStep, ExternalStep, CreateStep, CreateProgress, CloseStep,
      TimerStep, CloseAllStep

\* Only BeginCreate fills a slot, with an entry of that id; a call leaves
\* the registered stages only through its own removal or when it finds its
\* entry gone.
LEMMA SlotStep == IInv /\ [Next]_vars => SlotInv'
<1> SUFFICES ASSUME IInv, [Next]_vars PROVE SlotInv' OBVIOUS
<1> USE NoCallAssumption DEF IInv, SlotInv, LifeInv, ClosedFreesId, Mapped,
    TypeOK, Published, CreatePC, Life, TimerState, DelPC, MarkPC, vars,
    creating, body, timers, requests, deleting, sweeping, marks
<1>1. ASSUME NEW c \in Calls, BeginCreate(c) PROVE SlotInv'
  BY <1>1 DEF BeginCreate
<1>2. ASSUME NEW c \in Calls, NewSessionRejected(c) PROVE SlotInv'
  BY <1>2 DEF NewSessionRejected, Goto
<1>3. ASSUME NEW c \in Calls, NewSessionOpened(c) PROVE SlotInv'
  BY <1>3 DEF NewSessionOpened
<1>4. ASSUME NEW c \in Calls, NegotiationFails(c) PROVE SlotInv'
  BY <1>4 DEF NegotiationFails, Goto
<1>5. ASSUME NEW c \in Calls, NewSessionFails(c) PROVE SlotInv'
  BY <1>5 DEF NewSessionFails, Goto
<1>6. ASSUME NEW c \in Calls, Answer(c) PROVE SlotInv'
  BY <1>6 DEF Answer, Goto
<1>7. ASSUME NEW c \in Calls, RemoveFailed(c) PROVE SlotInv'
  BY <1>7 DEF RemoveFailed, Removed
<1>8. ASSUME NEW c \in Calls, Publish(c) PROVE SlotInv'
  BY <1>8 DEF Publish, Goto
<1>9. ASSUME NEW c \in Calls, Discarded(c) PROVE SlotInv'
  BY <1>9 DEF Discarded, Goto
<1>10. ASSUME NEW c \in Calls, Arm(c) PROVE SlotInv'
  BY <1>10 DEF Arm
<1>11. ASSUME NEW c \in Calls, SetExpiryTimer(c) PROVE SlotInv'
  BY <1>11 DEF SetExpiryTimer, Stopped, CtxDone
<1>12. ASSUME NEW c \in Calls, CloseTerminal(c) PROVE SlotInv'
  BY <1>12 DEF CloseTerminal, Removed
<1>13. ASSUME NEW c \in Calls, Expire(c) PROVE SlotInv'
  BY <1>13 DEF Expire
<1>14. ASSUME NEW d \in Deletes, NEW i \in Ids, DeleteBegin(d, i)
       PROVE SlotInv'
  BY <1>14 DEF DeleteBegin, Lookup
<1>15. CASE CloseAllBegin
  BY <1>15 DEF CloseAllBegin
<1>16. CASE UNCHANGED <<sessions, reqId, create>>
  BY <1>16
<1> QED
  BY <1>1, <1>2, <1>3, <1>4, <1>5, <1>6, <1>7, <1>8, <1>9, <1>10, <1>11,
     <1>12, <1>13, <1>14, <1>15, <1>16
  DEF Next, InternalStep, ExternalStep, CreateStep, CreateProgress, CloseStep,
      TimerStep, CloseAllStep, Rest, SessionTerminates, CloseBegin,
      CloseTeardown, CloseRelease, TimerFires, ExpireReturns, DeleteReturns,
      CloseAllNext, CloseAllJoin, CloseAllReturns, MarkLookup, MarkApply

\* A session exists from NewSessionOpened on, and the error returns wait
\* for it to be closed.
LEMMA LifeStep == IInv /\ [Next]_vars => LifeInv'
<1> SUFFICES ASSUME IInv, [Next]_vars PROVE LifeInv' OBVIOUS
<1> USE NoCallAssumption DEF IInv, LifeInv, TypeOK, Published, CreatePC, Life,
    TimerState, DelPC, MarkPC, vars, creating, body, timers, requests,
    deleting, sweeping, marks
<1>1. ASSUME NEW c \in Calls, BeginCreate(c) PROVE LifeInv'
  BY <1>1 DEF BeginCreate
<1>2. ASSUME NEW c \in Calls, NewSessionRejected(c) PROVE LifeInv'
  BY <1>2 DEF NewSessionRejected, Goto
<1>3. ASSUME NEW c \in Calls, NewSessionOpened(c) PROVE LifeInv'
  BY <1>3 DEF NewSessionOpened
<1>4. ASSUME NEW c \in Calls, NegotiationFails(c) PROVE LifeInv'
  BY <1>4 DEF NegotiationFails, Goto
<1>5. ASSUME NEW c \in Calls, NewSessionFails(c) PROVE LifeInv'
  BY <1>5 DEF NewSessionFails, Goto
<1>6. ASSUME NEW c \in Calls, Answer(c) PROVE LifeInv'
  BY <1>6 DEF Answer, Goto
<1>7. ASSUME NEW c \in Calls, RemoveFailed(c) PROVE LifeInv'
  BY <1>7 DEF RemoveFailed, Removed
<1>8. ASSUME NEW c \in Calls, Publish(c) PROVE LifeInv'
  BY <1>8 DEF Publish, Goto
<1>9. ASSUME NEW c \in Calls, Discarded(c) PROVE LifeInv'
  BY <1>9 DEF Discarded, Goto
<1>10. ASSUME NEW c \in Calls, Arm(c) PROVE LifeInv'
  BY <1>10 DEF Arm
<1>11. ASSUME NEW c \in Calls, SetExpiryTimer(c) PROVE LifeInv'
  BY <1>11 DEF SetExpiryTimer, Stopped, CtxDone
<1>12. ASSUME NEW c \in Calls, CloseBegin(c) PROVE LifeInv'
  BY <1>12 DEF CloseBegin
<1>13. ASSUME NEW c \in Calls, CloseTeardown(c) PROVE LifeInv'
  BY <1>13 DEF CloseTeardown, Stopped
<1>14. ASSUME NEW c \in Calls, CloseRelease(c) PROVE LifeInv'
  BY <1>14 DEF CloseRelease
<1>15. ASSUME NEW c \in Calls, CloseTerminal(c) PROVE LifeInv'
  BY <1>15 DEF CloseTerminal, Removed
<1>16. CASE UNCHANGED <<create, life>>
  BY <1>16
<1> QED
  BY <1>1, <1>2, <1>3, <1>4, <1>5, <1>6, <1>7, <1>8, <1>9, <1>10, <1>11,
     <1>12, <1>13, <1>14, <1>15, <1>16
  DEF Next, InternalStep, ExternalStep, CreateStep, CreateProgress, CloseStep,
      TimerStep, CloseAllStep, Rest, SessionTerminates, TimerFires, Expire,
      ExpireReturns, DeleteBegin, DeleteReturns, CloseAllBegin, CloseAllNext,
      CloseAllJoin, CloseAllReturns, MarkLookup, MarkApply

\* The two orders of setExpiryTimer and Close: whichever comes second stops
\* the timer.
LEMMA TimerInvStep == IInv /\ [Next]_vars => TimerInv'
<1> SUFFICES ASSUME IInv, [Next]_vars PROVE TimerInv' OBVIOUS
<1> USE NoCallAssumption DEF IInv, SlotInv, LifeInv, TimerInv, CtxDone,
    Mapped, TypeOK, Published, CreatePC, Life, TimerState, DelPC, MarkPC,
    vars, creating, body, timers, requests, deleting, sweeping, marks
<1>1. ASSUME NEW c \in Calls, BeginCreate(c) PROVE TimerInv'
  BY <1>1 DEF BeginCreate
<1>2. ASSUME NEW c \in Calls, NewSessionRejected(c) PROVE TimerInv'
  BY <1>2 DEF NewSessionRejected, Goto
<1>3. ASSUME NEW c \in Calls, NewSessionOpened(c) PROVE TimerInv'
  BY <1>3 DEF NewSessionOpened
<1>4. ASSUME NEW c \in Calls, NegotiationFails(c) PROVE TimerInv'
  BY <1>4 DEF NegotiationFails, Goto
<1>5. ASSUME NEW c \in Calls, NewSessionFails(c) PROVE TimerInv'
  BY <1>5 DEF NewSessionFails, Goto
<1>6. ASSUME NEW c \in Calls, Answer(c) PROVE TimerInv'
  BY <1>6 DEF Answer, Goto
<1>7. ASSUME NEW c \in Calls, RemoveFailed(c) PROVE TimerInv'
  BY <1>7 DEF RemoveFailed, Removed
<1>8. ASSUME NEW c \in Calls, Publish(c) PROVE TimerInv'
  BY <1>8 DEF Publish, Goto
<1>9. ASSUME NEW c \in Calls, Discarded(c) PROVE TimerInv'
  BY <1>9 DEF Discarded, Goto
<1>10. ASSUME NEW c \in Calls, Arm(c) PROVE TimerInv'
  BY <1>10 DEF Arm
<1>11. ASSUME NEW c \in Calls, SetExpiryTimer(c) PROVE TimerInv'
  BY <1>11 DEF SetExpiryTimer, Stopped
<1>12. ASSUME NEW c \in Calls, CloseBegin(c) PROVE TimerInv'
  BY <1>12 DEF CloseBegin
<1>13. ASSUME NEW c \in Calls, CloseTeardown(c) PROVE TimerInv'
  BY <1>13 DEF CloseTeardown, Stopped
<1>14. ASSUME NEW c \in Calls, CloseRelease(c) PROVE TimerInv'
  BY <1>14 DEF CloseRelease
<1>15. ASSUME NEW c \in Calls, CloseTerminal(c) PROVE TimerInv'
  BY <1>15 DEF CloseTerminal, Removed
<1>16. ASSUME NEW c \in Calls, TimerFires(c) PROVE TimerInv'
  BY <1>16 DEF TimerFires
<1>17. ASSUME NEW c \in Calls, Expire(c) PROVE TimerInv'
  BY <1>17 DEF Expire
<1>18. ASSUME NEW c \in Calls, ExpireReturns(c) PROVE TimerInv'
  BY <1>18 DEF ExpireReturns
<1>19. ASSUME NEW d \in Deletes, NEW i \in Ids, DeleteBegin(d, i)
       PROVE TimerInv'
  BY <1>19 DEF DeleteBegin, Lookup
<1>20. CASE CloseAllBegin
  BY <1>20 DEF CloseAllBegin
<1>21. CASE UNCHANGED <<sessions, reqId, create, life, timers>>
  BY <1>21
<1> QED
  BY <1>1, <1>2, <1>3, <1>4, <1>5, <1>6, <1>7, <1>8, <1>9, <1>10, <1>11,
     <1>12, <1>13, <1>14, <1>15, <1>16, <1>17, <1>18, <1>19, <1>20, <1>21
  DEF Next, InternalStep, ExternalStep, CreateStep, CreateProgress, CloseStep,
      TimerStep, CloseAllStep, Rest, SessionTerminates, DeleteReturns,
      CloseAllNext, CloseAllJoin, CloseAllReturns, MarkLookup, MarkApply

\* CloseAll takes its list in the step that begins it.
LEMMA SweepStep == SweepInv /\ [Next]_vars => SweepInv'
<1> SUFFICES ASSUME SweepInv, [Next]_vars PROVE SweepInv' OBVIOUS
<1> USE DEF SweepInv
<1>1. CASE CloseAllBegin \/ CloseAllReturns
  BY <1>1 DEF CloseAllBegin, CloseAllReturns
<1>2. ASSUME NEW c \in Calls, CloseAllNext(c) PROVE SweepInv'
  BY <1>2 DEF CloseAllNext
<1>3. CASE UNCHANGED <<closeAll, toClose>>
  BY <1>3
<1> QED
  BY <1>1, <1>2, <1>3
  DEF Next, InternalStep, ExternalStep, CreateStep, CreateProgress, CloseStep,
      CloseBegin, CloseTeardown, CloseRelease, CloseTerminal, TimerStep,
      CloseAllStep, Rest, BeginCreate, NewSessionRejected, NewSessionOpened,
      NegotiationFails, NewSessionFails, Answer, RemoveFailed, Publish,
      Discarded, Arm, SetExpiryTimer, SessionTerminates, TimerFires, Expire,
      ExpireReturns, DeleteBegin, DeleteReturns, CloseAllJoin, MarkLookup,
      MarkApply, Goto, vars, requests, sweeping

\* CloseTerminal removes the entry in the step that ends Close, and only a
\* call without a session enters the map.
LEMMA ClosedStep == IInv /\ [Next]_vars => ClosedFreesId'
<1> SUFFICES ASSUME IInv, [Next]_vars PROVE ClosedFreesId' OBVIOUS
<1> USE NoCallAssumption DEF IInv, SlotInv, LifeInv, ClosedFreesId, Mapped,
    TypeOK, Published, CreatePC, Life, TimerState, DelPC, MarkPC, vars,
    creating, body, timers, requests, deleting, sweeping, marks
<1>1. ASSUME NEW c \in Calls, BeginCreate(c) PROVE ClosedFreesId'
  BY <1>1 DEF BeginCreate
<1>2. ASSUME NEW c \in Calls, NewSessionOpened(c) PROVE ClosedFreesId'
  BY <1>2 DEF NewSessionOpened
<1>3. ASSUME NEW c \in Calls, RemoveFailed(c) PROVE ClosedFreesId'
  BY <1>3 DEF RemoveFailed, Removed
<1>4. ASSUME NEW c \in Calls, CloseBegin(c) PROVE ClosedFreesId'
  BY <1>4 DEF CloseBegin
<1>5. ASSUME NEW c \in Calls, CloseTeardown(c) PROVE ClosedFreesId'
  BY <1>5 DEF CloseTeardown, Stopped
<1>6. ASSUME NEW c \in Calls, CloseRelease(c) PROVE ClosedFreesId'
  BY <1>6 DEF CloseRelease
<1>7. ASSUME NEW c \in Calls, CloseTerminal(c) PROVE ClosedFreesId'
  BY <1>7 DEF CloseTerminal, Removed
<1>8. ASSUME NEW c \in Calls, Expire(c) PROVE ClosedFreesId'
  BY <1>8 DEF Expire
<1>9. ASSUME NEW d \in Deletes, NEW i \in Ids, DeleteBegin(d, i)
       PROVE ClosedFreesId'
  BY <1>9 DEF DeleteBegin, Lookup
<1>10. CASE CloseAllBegin
  BY <1>10 DEF CloseAllBegin
<1>11. CASE UNCHANGED <<sessions, reqId, life>>
  BY <1>11
<1> QED
  BY <1>1, <1>2, <1>3, <1>4, <1>5, <1>6, <1>7, <1>8, <1>9, <1>10, <1>11
  DEF Next, InternalStep, ExternalStep, CreateStep, CreateProgress, CloseStep,
      TimerStep, CloseAllStep, Rest, NewSessionRejected, NegotiationFails,
      NewSessionFails, Answer, Publish, Discarded, Arm, SetExpiryTimer,
      SessionTerminates, TimerFires, ExpireReturns, DeleteReturns,
      CloseAllNext, CloseAllJoin, CloseAllReturns, MarkLookup, MarkApply, Goto

\* Whoever takes an open session out of the map, or stops waiting for it,
\* has committed itself to closing it or leaves it to its Create call.
LEMMA OrphanStep == IInv /\ [Next]_vars => NoOrphan'
<1> SUFFICES ASSUME IInv, [Next]_vars PROVE NoOrphan' OBVIOUS
<1> USE NoCallAssumption DEF IInv, SlotInv, LifeInv, TimerInv, SweepInv,
    NoOrphan, CloseRequested, Mapped, TypeOK, Published, CreatePC, Life,
    TimerState, DelPC, MarkPC, vars, creating, body, timers, requests,
    deleting, sweeping, marks
<1>1. ASSUME NEW c \in Calls, BeginCreate(c) PROVE NoOrphan'
  BY <1>1 DEF BeginCreate
<1>2. ASSUME NEW c \in Calls, NewSessionRejected(c) PROVE NoOrphan'
  BY <1>2 DEF NewSessionRejected, Goto
<1>3. ASSUME NEW c \in Calls, NewSessionOpened(c) PROVE NoOrphan'
  BY <1>3 DEF NewSessionOpened
<1>4. ASSUME NEW c \in Calls, NegotiationFails(c) PROVE NoOrphan'
  BY <1>4 DEF NegotiationFails, Goto
<1>5. ASSUME NEW c \in Calls, NewSessionFails(c) PROVE NoOrphan'
  BY <1>5 DEF NewSessionFails, Goto
<1>6. ASSUME NEW c \in Calls, Answer(c) PROVE NoOrphan'
  BY <1>6 DEF Answer, Goto
<1>7. ASSUME NEW c \in Calls, RemoveFailed(c) PROVE NoOrphan'
  BY <1>7 DEF RemoveFailed, Removed
<1>8. ASSUME NEW c \in Calls, Publish(c) PROVE NoOrphan'
  BY <1>8 DEF Publish, Goto
<1>9. ASSUME NEW c \in Calls, Discarded(c) PROVE NoOrphan'
  BY <1>9 DEF Discarded, Goto
<1>10. ASSUME NEW c \in Calls, Arm(c) PROVE NoOrphan'
  BY <1>10 DEF Arm
<1>11. ASSUME NEW c \in Calls, SetExpiryTimer(c) PROVE NoOrphan'
  BY <1>11 DEF SetExpiryTimer, Stopped, CtxDone
<1>12. ASSUME NEW c \in Calls, SessionTerminates(c) PROVE NoOrphan'
  BY <1>12 DEF SessionTerminates
<1>13. ASSUME NEW c \in Calls, CloseBegin(c) PROVE NoOrphan'
  BY <1>13 DEF CloseBegin
<1>14. ASSUME NEW c \in Calls, CloseTeardown(c) PROVE NoOrphan'
  BY <1>14 DEF CloseTeardown, Stopped
<1>15. ASSUME NEW c \in Calls, CloseRelease(c) PROVE NoOrphan'
  BY <1>15 DEF CloseRelease
<1>16. ASSUME NEW c \in Calls, CloseTerminal(c) PROVE NoOrphan'
  BY <1>16 DEF CloseTerminal, Removed
<1>17. ASSUME NEW c \in Calls, TimerFires(c) PROVE NoOrphan'
  BY <1>17 DEF TimerFires
<1>18. ASSUME NEW c \in Calls, Expire(c) PROVE NoOrphan'
  BY <1>18 DEF Expire
<1>19. ASSUME NEW c \in Calls, ExpireReturns(c) PROVE NoOrphan'
  BY <1>19 DEF ExpireReturns
<1>20. ASSUME NEW d \in Deletes, NEW i \in Ids, DeleteBegin(d, i)
       PROVE NoOrphan'
  BY <1>20 DEF DeleteBegin, Lookup
<1>21. ASSUME NEW d \in Deletes, DeleteReturns(d) PROVE NoOrphan'
  BY <1>21 DEF DeleteReturns
<1>22. CASE CloseAllBegin
  BY <1>22 DEF CloseAllBegin
<1>23. ASSUME NEW c \in Calls, CloseAllNext(c) PROVE NoOrphan'
  BY <1>23 DEF CloseAllNext
<1>24. CASE CloseAllJoin
  BY <1>24 DEF CloseAllJoin
<1>25. CASE UNCHANGED <<sessions, reqId, create, life, selfClose, timer,
                        deleting, toClose, current>>
  BY <1>25
<1> QED
  BY <1>1, <1>2, <1>3, <1>4, <1>5, <1>6, <1>7, <1>8, <1>9, <1>10, <1>11,
     <1>12, <1>13, <1>14, <1>15, <1>16, <1>17, <1>18, <1>19, <1>20, <1>21,
     <1>22, <1>23, <1>24, <1>25
  DEF Next, InternalStep, ExternalStep, CreateStep, CreateProgress, CloseStep,
      TimerStep, CloseAllStep, Rest, CloseAllReturns, MarkLookup, MarkApply

\* The six actions that write the map: one fills an empty slot, two remove
\* entries of calls that are over, three remove entries in order to close.
LEMMA EntryStepHolds == IInv /\ [Next]_vars => EntryStep
<1> SUFFICES ASSUME IInv, [Next]_vars PROVE EntryStep OBVIOUS
<1> USE NoCallAssumption DEF IInv, SlotInv, LifeInv, EntryStep,
    CloseRequested, Mapped, TypeOK, Published, CreatePC, Life, TimerState,
    DelPC, MarkPC, vars, creating, body, timers, requests, deleting, sweeping,
    marks
<1>1. ASSUME NEW c \in Calls, BeginCreate(c) PROVE EntryStep
  BY <1>1 DEF BeginCreate
<1>2. ASSUME NEW c \in Calls, RemoveFailed(c) PROVE EntryStep
  BY <1>2 DEF RemoveFailed, Removed
<1>3. ASSUME NEW c \in Calls, CloseTerminal(c) PROVE EntryStep
  BY <1>3 DEF CloseTerminal, Removed
<1>4. ASSUME NEW c \in Calls, Expire(c) PROVE EntryStep
  BY <1>4 DEF Expire
<1>5. ASSUME NEW d \in Deletes, NEW i \in Ids, DeleteBegin(d, i)
       PROVE EntryStep
  BY <1>5 DEF DeleteBegin, Lookup
<1>6. CASE CloseAllBegin
  BY <1>6 DEF CloseAllBegin
<1>7. CASE UNCHANGED <<sessions, reqId>>
  BY <1>7
<1> QED
  BY <1>1, <1>2, <1>3, <1>4, <1>5, <1>6, <1>7
  DEF Next, InternalStep, ExternalStep, CreateStep, CreateProgress, CloseStep,
      TimerStep, CloseAllStep, Rest, NewSessionRejected, NewSessionOpened,
      NegotiationFails, NewSessionFails, Answer, Publish, Discarded, Arm,
      SetExpiryTimer, SessionTerminates, CloseBegin, CloseTeardown,
      CloseRelease, TimerFires, ExpireReturns, DeleteReturns, CloseAllNext,
      CloseAllJoin, CloseAllReturns, MarkLookup, MarkApply, Goto

-----------------------------------------------------------------------------
(* The theorems *)

\* The registry's state keeps its types, and no Manager.Close or
\* MarkConnected call ever uses a session that is not there.
THEOREM TypeCorrect == Spec => []TypeOK
<1> QED BY TypeInit, TypeStep, PTL DEF Spec

\* IInv is an invariant of the registry.
THEOREM Inductive == Spec => []IInv
<1>1. Init => IInv
  BY TypeInit, NoCallAssumption
  DEF Init, IInv, SlotInv, LifeInv, TimerInv, SweepInv,
      ClosedFreesId, NoOrphan, Mapped
<1>2. IInv /\ [Next]_vars => IInv'
  <2> SUFFICES ASSUME IInv, [Next]_vars PROVE IInv' OBVIOUS
  <2>1. TypeOK' BY TypeStep DEF IInv
  <2> QED BY <2>1, SlotStep, LifeStep, TimerInvStep, SweepStep, ClosedStep,
             OrphanStep DEF IInv
<1> QED BY <1>1, <1>2, PTL DEF Spec

\* Every open session of the registry is reachable: by its Create call, by
\* its id, or by a goroutine that is going to close it.
THEOREM NeverOrphaned == Spec => []NoOrphan
<1>1. IInv => NoOrphan BY DEF IInv
<1> QED BY <1>1, Inductive, PTL

\* Whoever closes a session, its id is free again when Close is over.
THEOREM IdsAreFreed == Spec => []ClosedFreesId
<1>1. IInv => ClosedFreesId BY DEF IInv
<1> QED BY <1>1, Inductive, PTL

\* A Create that failed has closed what it opened and removed its entry.
THEOREM FailedCreatesCleanUp == Spec => []FailedCreateCleansUp
<1>1. IInv => FailedCreateCleansUp
  BY DEF IInv, SlotInv, LifeInv, FailedCreateCleansUp
<1> QED BY <1>1, Inductive, PTL

\* With a TTL, no registered open session is without a pending expiry.
THEOREM ExpiryIsCovered == Spec => []ExpiryCovered
<1>1. IInv => ExpiryCovered
  BY DEF IInv, TypeOK, TimerInv, ExpiryCovered, CtxDone, TimerState
<1> QED BY <1>1, Inductive, PTL

\* No expiry timer is left running behind a closed session.
THEOREM NoTimerIsLeaked == Spec => []NoTimerLeak
<1>1. IInv => NoTimerLeak
  BY DEF IInv, TypeOK, TimerInv, NoTimerLeak
<1> QED BY <1>1, Inductive, PTL

\* No step overwrites an entry, and one that takes away the entry of an open
\* published session is the first step of closing it.
THEOREM EntriesLeaveOnlyToClose == Spec => EntryRemovedOnlyToClose
<1>1. IInv /\ [Next]_vars => [EntryStep]_vars BY EntryStepHolds
<1> QED BY <1>1, Inductive, PTL DEF Spec, EntryRemovedOnlyToClose

(***************************************************************************)
(* The registry implements SessionLife: its initial states are initial     *)
(* states of the abstract specification, and each of its steps is an       *)
(* abstract step or changes nothing there.                                 *)
(***************************************************************************)

\* Only an open session has a goroutine of its own that is about to close
\* it, and CloseAll has only published sessions on its list and in its hands.
HeldInv ==
    /\ \A c \in selfClose : life[c] = "open"
    /\ \A c \in toClose : Published(c)
    /\ current # NoCall => Published(current)

\* A published call stays published; SessionTerminates is for open sessions
\* and CloseBegin makes its goroutines superfluous.
LEMMA HeldStep == IInv /\ HeldInv /\ [Next]_vars => HeldInv'
<1> SUFFICES ASSUME IInv, HeldInv, [Next]_vars PROVE HeldInv' OBVIOUS
<1> USE NoCallAssumption
    DEF HeldInv, IInv, LifeInv, TypeOK, Published, CreatePC, Life, vars,
        creating, body, timers, requests, deleting, sweeping, marks
<1>1. ASSUME NEW c \in Calls, BeginCreate(c) PROVE HeldInv'
  BY <1>1 DEF BeginCreate
<1>2. ASSUME NEW c \in Calls, NEW from, NEW to, Goto(c, from, to),
             from \notin {"arm", "setTimer", "ok"}
      PROVE  HeldInv'
  BY <1>2 DEF Goto
<1>3. ASSUME NEW c \in Calls, NewSessionOpened(c) PROVE HeldInv'
  BY <1>3 DEF NewSessionOpened
<1>4. ASSUME NEW c \in Calls, RemoveFailed(c) PROVE HeldInv'
  BY <1>4 DEF RemoveFailed
<1>5. ASSUME NEW c \in Calls, Arm(c) PROVE HeldInv'
  BY <1>5 DEF Arm
<1>6. ASSUME NEW c \in Calls, SetExpiryTimer(c) PROVE HeldInv'
  BY <1>6 DEF SetExpiryTimer
<1>7. ASSUME NEW c \in Calls, SessionTerminates(c) PROVE HeldInv'
  BY <1>7 DEF SessionTerminates
<1>8. ASSUME NEW c \in Calls, CloseBegin(c) PROVE HeldInv'
  BY <1>8 DEF CloseBegin
<1>9. ASSUME NEW c \in Calls, CloseTeardown(c) PROVE HeldInv'
  BY <1>9 DEF CloseTeardown
<1>10. ASSUME NEW c \in Calls, CloseRelease(c) PROVE HeldInv'
  BY <1>10 DEF CloseRelease
<1>11. ASSUME NEW c \in Calls, CloseTerminal(c) PROVE HeldInv'
  BY <1>11 DEF CloseTerminal
<1>12. CASE CloseAllBegin
  BY <1>12 DEF CloseAllBegin
<1>13. ASSUME NEW c \in Calls, CloseAllNext(c) PROVE HeldInv'
  BY <1>13 DEF CloseAllNext
<1>14. CASE CloseAllJoin
  BY <1>14 DEF CloseAllJoin
<1>15. CASE UNCHANGED <<create, life, selfClose, toClose, current>>
  BY <1>15
<1> QED
  BY <1>1, <1>2, <1>3, <1>4, <1>5, <1>6, <1>7, <1>8, <1>9, <1>10, <1>11,
     <1>12, <1>13, <1>14, <1>15
  DEF Next, InternalStep, ExternalStep, CreateStep, CreateProgress, CloseStep,
      TimerStep, CloseAllStep, Rest, NewSessionRejected, NegotiationFails,
      NewSessionFails, Answer, Publish, Discarded, TimerFires, Expire,
      ExpireReturns, DeleteBegin, DeleteReturns, CloseAllReturns, MarkLookup,
      MarkApply

\* Whoever has undertaken to close a session does not give it up: the calls
\* that return find it closed, and CloseAll hands it from its list to its
\* loop.
LEMMA DoomStays ==
    IInv /\ HeldInv /\ [Next]_vars =>
        \A x \in Calls : Doomed(x) => Doomed(x)'
<1> SUFFICES ASSUME IInv, HeldInv, [Next]_vars,
                    NEW x \in Calls, Doomed(x)
             PROVE  Doomed(x)'
  OBVIOUS
<1> USE NoCallAssumption
    DEF HeldInv, IInv, LifeInv, SweepInv, TypeOK, Published, CreatePC, Life,
        TimerState, DelPC, vars, creating, body, timers, requests, deleting,
        sweeping, marks, Doomed, CtxDone, CloseRequested
<1>1. ASSUME NEW c \in Calls, BeginCreate(c) PROVE Doomed(x)'
  BY <1>1 DEF BeginCreate
<1>2. ASSUME NEW c \in Calls, NEW from, NEW to, Goto(c, from, to),
             life[c] = "closed" \/ from \notin {"failing", "discard"}
      PROVE  Doomed(x)'
  BY <1>2 DEF Goto
<1>3. ASSUME NEW c \in Calls, NewSessionOpened(c) PROVE Doomed(x)'
  BY <1>3 DEF NewSessionOpened
<1>4. ASSUME NEW c \in Calls, RemoveFailed(c) PROVE Doomed(x)'
  BY <1>4 DEF RemoveFailed
<1>5. ASSUME NEW c \in Calls, Arm(c) PROVE Doomed(x)'
  BY <1>5 DEF Arm, TimerInv
<1>6. ASSUME NEW c \in Calls, SetExpiryTimer(c) PROVE Doomed(x)'
  BY <1>6 DEF SetExpiryTimer, Stopped
<1>7. ASSUME NEW c \in Calls, SessionTerminates(c) PROVE Doomed(x)'
  BY <1>7 DEF SessionTerminates
<1>8. ASSUME NEW c \in Calls, CloseBegin(c) PROVE Doomed(x)'
  BY <1>8 DEF CloseBegin
<1>9. ASSUME NEW c \in Calls, CloseTeardown(c) PROVE Doomed(x)'
  BY <1>9 DEF CloseTeardown, Stopped
<1>10. ASSUME NEW c \in Calls, CloseRelease(c) PROVE Doomed(x)'
  BY <1>10 DEF CloseRelease
<1>11. ASSUME NEW c \in Calls, CloseTerminal(c) PROVE Doomed(x)'
  BY <1>11 DEF CloseTerminal
<1>12. ASSUME NEW c \in Calls, TimerStep(c) PROVE Doomed(x)'
  BY <1>12 DEF TimerStep, TimerFires, Expire, ExpireReturns
<1>13. ASSUME NEW d \in Deletes, NEW i \in Ids, DeleteBegin(d, i)
       PROVE  Doomed(x)'
  BY <1>13 DEF DeleteBegin
<1>14. ASSUME NEW d \in Deletes, DeleteReturns(d) PROVE Doomed(x)'
  BY <1>14 DEF DeleteReturns
<1>15. CASE CloseAllBegin
  BY <1>15 DEF CloseAllBegin
<1>16. ASSUME NEW c \in Calls, CloseAllNext(c) PROVE Doomed(x)'
  BY <1>16 DEF CloseAllNext
<1>17. CASE CloseAllJoin
  BY <1>17 DEF CloseAllJoin
<1>18. CASE UNCHANGED <<create, life, selfClose, timer, deleting, toClose,
                        current>>
  BY <1>18
<1> QED
  BY <1>1, <1>2, <1>3, <1>4, <1>5, <1>6, <1>7, <1>8, <1>9, <1>10, <1>11,
     <1>12, <1>13, <1>14, <1>15, <1>16, <1>17, <1>18
  DEF Next, InternalStep, ExternalStep, CreateStep, CreateProgress, CloseStep,
      CloseAllStep, Rest, NewSessionRejected, NegotiationFails,
      NewSessionFails, Answer, Publish, Discarded, CloseAllReturns,
      MarkLookup, MarkApply

\* Every step of the registry is a step of SessionLife: one that leaves the
\* lives alone may only undertake to close open sessions, and the five that
\* do not are Open, Begin, Quiet, a stuttering step and Finish.
LEMMA LifecycleStep ==
    IInv /\ HeldInv /\ [Next]_vars => [Lifecycle!Next]_(Lifecycle!vars)
<1> SUFFICES ASSUME IInv, HeldInv, [Next]_vars
             PROVE  [Lifecycle!Next]_(Lifecycle!vars)
  OBVIOUS
<1>d. \A x \in Calls : Doomed(x) => Doomed(x)'
  BY DoomStays
<1>t. /\ life \in [Calls -> Life] /\ closeErr \subseteq Calls
      /\ current \in Calls \union {NoCall}
      /\ timer \in [Calls -> TimerState] /\ create \in [Calls -> CreatePC]
  BY DEF IInv, TypeOK
<1>1. CASE UNCHANGED <<life, closeErr>>
  <2>1. UNCHANGED <<Stages, FailedCalls>>
    BY <1>1 DEF Stages, FailedCalls
  <2>2. DEFINE S == DoomedCalls' \ DoomedCalls
  <2>3. DoomedCalls' = DoomedCalls \union S
    BY <1>d DEF DoomedCalls
  <2>4. S \in SUBSET {s \in Calls : Stages[s] = "open"}
    BY <1>1 DEF DoomedCalls, Doomed, CtxDone, Stages, StageOf
  <2> QED BY <2>1, <2>3, <2>4 DEF Lifecycle!Next, Lifecycle!Doom
<1>2. ASSUME NEW c \in Calls, NewSessionOpened(c) PROVE Lifecycle!Open(c)
  <2>1. Stages[c] = "none" /\ Stages' = [Stages EXCEPT ![c] = "open"]
    BY <1>2, <1>t
    DEF NewSessionOpened, Stages, StageOf, IInv, LifeInv, Life
  <2>2. DoomedCalls' = DoomedCalls
    BY <1>2, <1>t, NoCallAssumption
    DEF NewSessionOpened, DoomedCalls, Doomed, CtxDone, CloseRequested, IInv,
        LifeInv, TimerInv, HeldInv, TypeOK, Published, timers, requests,
        deleting, sweeping, Life
  <2>3. FailedCalls' = FailedCalls
    BY <1>2, <1>t DEF NewSessionOpened, FailedCalls, IInv, LifeInv
  <2> QED BY <2>1, <2>2, <2>3 DEF Lifecycle!Open
<1>3. ASSUME NEW c \in Calls, CloseBegin(c) PROVE Lifecycle!Begin(c)
  <2>1. Stages[c] = "open" /\ Stages' = [Stages EXCEPT ![c] = "closing"]
    BY <1>3, <1>t DEF CloseBegin, Stages, StageOf, Life
  <2>2. c \in DoomedCalls /\ DoomedCalls' = DoomedCalls
    BY <1>3, <1>t
    DEF CloseBegin, DoomedCalls, Doomed, CtxDone, CloseRequested, creating,
        timers, requests, deleting, sweeping, Life
  <2>3. FailedCalls' = FailedCalls
    BY <1>3, <1>t DEF CloseBegin, FailedCalls
  <2> QED BY <2>1, <2>2, <2>3 DEF Lifecycle!Begin
<1>4. ASSUME NEW c \in Calls, CloseTeardown(c) PROVE Lifecycle!Quiet(c)
  <2>1. Stages[c] = "closing" /\ Stages' = [Stages EXCEPT ![c] = "quiet"]
    BY <1>4, <1>t DEF CloseTeardown, Stages, StageOf, Life
  <2>2. DoomedCalls' = DoomedCalls
    BY <1>4, <1>t
    DEF CloseTeardown, Stopped, DoomedCalls, Doomed, CtxDone, CloseRequested,
        creating, requests, deleting, sweeping, Life, TimerState
  <2>3. FailedCalls' = FailedCalls
    BY <1>4, <1>t DEF CloseTeardown, FailedCalls
  <2> QED BY <2>1, <2>2, <2>3 DEF Lifecycle!Quiet
<1>5. ASSUME NEW c \in Calls, CloseRelease(c)
      PROVE  UNCHANGED Lifecycle!vars
  <2>1. Stages' = Stages
    BY <1>5, <1>t DEF CloseRelease, Stages, StageOf, Life
  <2>2. DoomedCalls' = DoomedCalls
    BY <1>5, <1>t
    DEF CloseRelease, DoomedCalls, Doomed, CtxDone, CloseRequested, creating,
        timers, requests, deleting, sweeping, Life
  <2>3. FailedCalls' = FailedCalls
    BY <1>5, <1>t DEF CloseRelease, FailedCalls
  <2> QED BY <2>1, <2>2, <2>3 DEF Lifecycle!vars
<1>6. ASSUME NEW c \in Calls, CloseTerminal(c) PROVE Lifecycle!Finish(c)
  <2>1. Stages[c] = "quiet" /\ Stages' = [Stages EXCEPT ![c] = "closed"]
    BY <1>6, <1>t DEF CloseTerminal, Stages, StageOf, Life
  <2>2. DoomedCalls' = DoomedCalls
    BY <1>6, <1>t
    DEF CloseTerminal, DoomedCalls, Doomed, CtxDone, CloseRequested, creating,
        timers, requests, deleting, sweeping, Life
  <2>3. FailedCalls' \in {FailedCalls, FailedCalls \union {c}}
    BY <1>6, <1>t DEF CloseTerminal, FailedCalls
  <2> QED BY <2>1, <2>2, <2>3 DEF Lifecycle!Finish
<1> QED
  BY <1>1, <1>2, <1>3, <1>4, <1>5, <1>6
  DEF Next, InternalStep, ExternalStep, CreateStep, CreateProgress, CloseStep,
      TimerStep, CloseAllStep, Rest, BeginCreate, NewSessionRejected,
      NegotiationFails, NewSessionFails, Answer, RemoveFailed, Publish,
      Discarded, Arm, SetExpiryTimer, Goto, SessionTerminates, TimerFires,
      Expire, ExpireReturns, DeleteBegin, DeleteReturns, CloseAllBegin,
      CloseAllNext, CloseAllJoin, CloseAllReturns, MarkLookup, MarkApply,
      vars, body, Lifecycle!Next

\* For any number of ids, Create, Close and MarkConnected calls, the registry
\* closes a session only on request, once, in the stages of SessionLife, with
\* one result, and nobody who has undertaken to close a session gives it up.
THEOREM RegistryImplementsLifecycle == Spec => ImplementsLifecycle
<1>1. Init => Lifecycle!Init
  BY DEF Init, Lifecycle!Init, Stages, StageOf, DoomedCalls, Doomed, CtxDone,
         CloseRequested, FailedCalls
<1>2. Init => HeldInv
  BY DEF Init, HeldInv
<1> QED
  BY <1>1, <1>2, HeldStep, LifecycleStep, Inductive, PTL
  DEF Spec, ImplementsLifecycle, Lifecycle!SafeSpec
=============================================================================
