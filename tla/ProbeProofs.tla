----------------------------- MODULE ProbeProofs -----------------------------
(***************************************************************************)
(* What a run of the probe leaves behind and reports, along every          *)
(* interleaving of the program, Pion's callbacks, signals and the gateway. *)
(***************************************************************************)
EXTENDS Probe, TLAPS

Outcomes == {"connected", "ice_failed", "peer_connection_failed"}

\* The program deletes a session exactly if it was told of one, and knows
\* what became of the DELETE before it goes on; a DELETE that was answered
\* has ended the session for good, as no other POST is under way.
SessionInv ==
    /\ created \in BOOLEAN
    /\ session \in {"none", "open", "gone"}
    /\ delete \in {"none", "sent", "ok", "refused", "failed"}
    /\ pc \in {"apply", "wait", "cleanup", "deleting"} => created
    /\ created => /\ post = "opened"
                  /\ pc \in {"apply", "wait", "cleanup", "deleting", "close",
                             "exited"}
    /\ pc \in {"close", "exited"} /\ created
         => delete \in {"ok", "refused", "failed"}
    /\ delete # "none" => pc \in {"deleting", "close", "exited"} /\ created
    /\ delete \in {"ok", "refused"} => session = "gone"

\* The peer connection lives as long as the program.
PeerInv ==
    /\ pc \in {"start", "id", "offer", "gather", "create", "posted", "apply",
               "wait", "cleanup", "deleting", "close", "exited"}
    /\ peer \in {"none", "new", "connected", "failed", "closed"}
    /\ pc = "exited" => peer \in {"none", "closed"}

\* An outcome is true from the moment its callback is started: a transport
\* that has connected or failed does not become new again.
OutcomeTrue(outcome) ==
    /\ outcome = "connected" => ice # "new"
    /\ outcome = "peer_connection_failed" => dtls = "failed"

ReportInv ==
    /\ pending \subseteq {"ice_failed", "connected", "failed"}
    /\ "connected" \in pending => ice # "new"
    /\ "failed" \in pending => "failed" \in {ice, dtls}
    /\ \/ connection = <<>>
       \/ \E outcome \in Outcomes :
            connection = <<outcome>> /\ OutcomeTrue(outcome)
    /\ OutcomeTrue(category)
    /\ category = "connected" => created
    /\ code = IF pc = "exited" THEN ExitCode(category, delete) ELSE NoCode

-----------------------------------------------------------------------------
\* The program's own steps, and the gateway's, keep track of the session.
LEMMA SessionStep == SessionInv /\ [Next]_vars => SessionInv'
<1> SUFFICES ASSUME SessionInv, [Next]_vars PROVE SessionInv' OBVIOUS
<1> USE DEF SessionInv, program, remote
<1>1. CASE BadConfiguration \/ NewPeer \/ NewSessionID \/ CreateOffer
           \/ Gathered
  BY <1>1 DEF BadConfiguration, NewPeer, NewSessionID, CreateOffer, Gathered,
              Fail, Goto
<1>2. CASE CreateBegin \/ CreateFails \/ CreateReturns
  <2>1. CASE CreateBegin \/ CreateFails
    BY <2>1 DEF CreateBegin, CreateFails, Fail
  <2>2. CASE CreateReturns
    <3>1. ~created /\ delete = "none"
      BY <2>2 DEF CreateReturns
    <3>2. CASE Fail("request", "close")
      BY <3>1, <3>2 DEF Fail
    <3>3. CASE /\ post = "opened" /\ created' /\ pc' \in {"cleanup", "apply"}
               /\ UNCHANGED remote
      BY <3>1, <3>3
    <3> QED BY <2>2, <3>2, <3>3 DEF CreateReturns
  <2> QED BY <1>2, <2>1, <2>2
<1>3. CASE ApplyAnswer \/ WaitSignalled \/ WaitTimesOut
  BY <1>3 DEF ApplyAnswer, WaitSignalled, WaitTimesOut, Fail, Goto
<1>4. CASE CleanupBegin \/ DeleteFails \/ CleanupReturns \/ Close
  BY <1>4 DEF CleanupBegin, DeleteFails, CleanupReturns, Close
<1>5. CASE ServePost \/ SessionEnds \/ ServeDelete
  BY <1>5 DEF ServePost, SessionEnds, ServeDelete
<1>6. CASE UNCHANGED <<pc, created, remote>>
  BY <1>6
<1> QED
  BY <1>1, <1>2, <1>3, <1>4, <1>5, <1>6
  DEF Next, Program, Interrupt, IceConnects, IceFails, DtlsFails,
      PeerConnects, PeerFails, Callback, Exited, vars

\* Close is the last step that touches the peer connection.
LEMMA PeerStep == PeerInv /\ [Next]_vars => PeerInv'
<1> SUFFICES ASSUME PeerInv, [Next]_vars PROVE PeerInv' OBVIOUS
<1> USE DEF PeerInv, program, pionState
<1>1. CASE Program
  BY <1>1 DEF Program, BadConfiguration, NewPeer, NewSessionID, CreateOffer,
              Gathered, CreateBegin, CreateFails, CreateReturns, ApplyAnswer,
              WaitSignalled, WaitTimesOut, CleanupBegin, DeleteFails,
              CleanupReturns, Close, Fail, Goto
<1>2. CASE PeerConnects \/ PeerFails
  BY <1>2 DEF PeerConnects, PeerFails, Alive, Applied
<1>3. CASE UNCHANGED <<pc, peer>>
  BY <1>3
<1> QED
  BY <1>1, <1>2, <1>3
  DEF Next, Interrupt, IceConnects, IceFails, DtlsFails, Callback, ServePost,
      SessionEnds, ServeDelete, Exited, vars

\* The channel keeps the first outcome, the program takes it as its category
\* and the exit code is made of it when nothing changes any more.
LEMMA ReportStep == SessionInv /\ ReportInv /\ [Next]_vars => ReportInv'
<1> SUFFICES ASSUME SessionInv, ReportInv, [Next]_vars PROVE ReportInv'
  OBVIOUS
<1> USE DEF ReportInv, OutcomeTrue, Outcomes, program, remote, pionState
<1>1. CASE BadConfiguration \/ NewPeer \/ NewSessionID \/ CreateOffer
           \/ Gathered
  BY <1>1 DEF BadConfiguration, NewPeer, NewSessionID, CreateOffer, Gathered,
              Fail, Goto
<1>2. CASE CreateBegin \/ CreateFails \/ CreateReturns
  BY <1>2 DEF CreateBegin, CreateFails, CreateReturns, Fail
<1>3. CASE ApplyAnswer \/ WaitTimesOut
  BY <1>3 DEF ApplyAnswer, WaitTimesOut, Fail, Goto
<1>4. CASE WaitSignalled
  BY <1>4 DEF WaitSignalled, SessionInv
<1>5. CASE CleanupBegin \/ DeleteFails \/ CleanupReturns
  BY <1>5 DEF CleanupBegin, DeleteFails, CleanupReturns
<1>6. CASE Close
  BY <1>6 DEF Close
<1>7. CASE IceConnects \/ IceFails \/ DtlsFails
  <2>1. CASE IceConnects BY <2>1 DEF IceConnects
  <2>2. CASE IceFails BY <2>2 DEF IceFails
  <2>3. CASE DtlsFails BY <2>3 DEF DtlsFails
  <2> QED BY <1>7, <2>1, <2>2, <2>3
<1>8. CASE PeerConnects \/ PeerFails
  BY <1>8 DEF PeerConnects, PeerFails
<1>9. ASSUME NEW event \in {"ice_failed", "connected", "failed"},
             Callback(event)
      PROVE  ReportInv'
  <2>1. Outcome(event) \in Outcomes /\ OutcomeTrue(Outcome(event))
    BY <1>9 DEF Callback, Outcome
  <2> QED BY <1>9, <2>1 DEF Callback
<1>10. CASE ServeDelete
  BY <1>10 DEF ServeDelete, SessionInv, ExitCode
<1>11. CASE UNCHANGED <<program, connection, delete, pionState>>
  BY <1>11
<1> QED
  BY <1>1, <1>2, <1>3, <1>4, <1>5, <1>6, <1>7, <1>8, <1>9, <1>10, <1>11
  DEF Next, Program, Interrupt, ServePost, SessionEnds, Exited, vars

-----------------------------------------------------------------------------
\* The three parts hold throughout every run of the probe.
THEOREM ProbeInductive == Spec => [](SessionInv /\ PeerInv /\ ReportInv)
<1>1. Init => SessionInv /\ PeerInv /\ ReportInv
  BY DEF Init, SessionInv, PeerInv, ReportInv, OutcomeTrue
<1> QED BY <1>1, SessionStep, PeerStep, ReportStep, PTL DEF Spec

\* The channel of one slot never holds a second outcome, whatever callbacks
\* run and whether or not the program still reads it.
THEOREM ProbeTypeCorrect == Spec => []TypeOK
<1>1. SessionInv /\ PeerInv /\ ReportInv => TypeOK
  <2> SUFFICES ASSUME SessionInv, PeerInv, ReportInv PROVE TypeOK OBVIOUS
  <2>1. Len(connection) <= 1
    <3>1. CASE connection = <<>> BY <3>1
    <3>2. ASSUME NEW outcome, connection = <<outcome>>
          PROVE  Len(connection) <= 1
      BY <3>2
    <3> QED BY <3>1, <3>2 DEF ReportInv
  <2>2. code \in {exitSuccess, exitProbeFailure, exitCleanupFailure, NoCode}
    BY DEF ReportInv, ExitCode
  <2> QED BY <2>1, <2>2 DEF SessionInv, PeerInv, TypeOK
<1> QED BY <1>1, ProbeInductive, PTL

\* However it ends, a run closes its peer connection and deletes the session
\* it was told of, unless the DELETE got no response.
THEOREM ProbeLeavesNothing == Spec => []LeavesNothing
<1>1. SessionInv /\ PeerInv => LeavesNothing
  BY DEF SessionInv, PeerInv, LeavesNothing
<1> QED BY <1>1, ProbeInductive, PTL

\* The exit code and the category say what happened, although callbacks run
\* late and in any order.
THEOREM ProbeReportsTruth == Spec => []ReportTrue
<1>1. SessionInv /\ PeerInv /\ ReportInv => ReportTrue
  BY DEF SessionInv, PeerInv, ReportInv, OutcomeTrue, ReportTrue, ExitCode,
         NoCode, exitSuccess, exitProbeFailure, exitCleanupFailure
<1> QED BY <1>1, ProbeInductive, PTL
=============================================================================
