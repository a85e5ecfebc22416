---------------------------- MODULE MCExecPath ------------------------------
(* ExecPath for TLC.  Two keys, so that a resync can fail between them. *)
EXTENDS ExecPath
=============================================================================
