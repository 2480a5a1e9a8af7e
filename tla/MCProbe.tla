------------------------------- MODULE MCProbe -------------------------------
(* One run of the probe client; the state space is finite without bounds. *)
EXTENDS Probe
=============================================================================
