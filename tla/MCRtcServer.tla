----------------------------- MODULE MCRtcServer -----------------------------
(* Small instances of RtcServer for TLC. *)
EXTENDS RtcServer
=============================================================================
