----------------------------- MODULE SessionLife -----------------------------
(***************************************************************************)
(* What a session's life promises to everybody who closes one, without the *)
(* goroutines, locks, timers and recorders it takes to keep the promise:   *)
(*                                                                         *)
(*   - a session is closed only after somebody asked for it, and a request *)
(*     to close is never withdrawn or lost;                                *)
(*   - Close runs once: it first makes the session quiet (timers stopped,  *)
(*     the recorder taken), then finishes, and nothing opens it again;     *)
(*   - its result is known when it finishes, and does not change.          *)
(*                                                                         *)
(* SessionManager and Session both implement this specification.           *)
(***************************************************************************)
CONSTANT
    Sessions

VARIABLES
    stage,    \* none, open, closing, quiet or closed
    doomed,   \* the sessions somebody has asked to close
    failed    \* the sessions whose Close returned an error

vars == <<stage, doomed, failed>>

Init ==
    /\ stage \in [Sessions -> {"none", "open"}]
    /\ doomed = {}
    /\ failed = {}

Open(s) ==
    /\ stage[s] = "none"
    /\ stage' = [stage EXCEPT ![s] = "open"]
    /\ UNCHANGED <<doomed, failed>>

\* One request may be for several sessions.
Doom ==
    /\ \E S \in SUBSET {s \in Sessions : stage[s] = "open"} :
         doomed' = doomed \union S
    /\ UNCHANGED <<stage, failed>>

Begin(s) ==
    /\ stage[s] = "open" /\ s \in doomed
    /\ stage' = [stage EXCEPT ![s] = "closing"]
    /\ UNCHANGED <<doomed, failed>>

Quiet(s) ==
    /\ stage[s] = "closing"
    /\ stage' = [stage EXCEPT ![s] = "quiet"]
    /\ UNCHANGED <<doomed, failed>>

Finish(s) ==
    /\ stage[s] = "quiet"
    /\ stage' = [stage EXCEPT ![s] = "closed"]
    /\ failed' \in {failed, failed \union {s}}
    /\ UNCHANGED doomed

Next ==
    \/ Doom
    \/ \E s \in Sessions : Open(s) \/ Begin(s) \/ Quiet(s) \/ Finish(s)

SafeSpec == Init /\ [][Next]_vars

\* Whoever asks for a session to be closed will see it closed.
DoomedClose == \A s \in Sessions : s \in doomed ~> stage[s] = "closed"

Spec == SafeSpec /\ DoomedClose
=============================================================================
