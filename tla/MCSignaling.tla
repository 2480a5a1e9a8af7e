----------------------------- MODULE MCSignaling -----------------------------
(* Small instances of Signaling for TLC: two in one run. *)
EXTENDS Signaling

CONSTANT Instances   \* sets of directives that come in together

\* The Lambda has refused every directive but those of one instance.
MCInit ==
    /\ Init
    /\ \E active \in Instances :
         lambda = [r \in Directives |->
                     IF r \in active THEN "idle" ELSE "refused"]
    /\ status = [r \in Directives |-> NoStatus]
    /\ pathId \in [Deletes \union Marks -> Ids]
    /\ before = [d \in Deletes |-> {}]

MCSpec == MCInit /\ [][SigNext]_sigVars /\ SigFairness
=============================================================================
