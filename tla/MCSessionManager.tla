-------------------------- MODULE MCSessionManager --------------------------
(* Small instances of SessionManager for TLC. *)
EXTENDS SessionManager, TLC

\* Ids, Create calls and Close calls are interchangeable.
Symmetry ==
    Permutations(Ids) \union Permutations(Calls) \union Permutations(Deletes)
        \union Permutations(Marks)
=============================================================================
