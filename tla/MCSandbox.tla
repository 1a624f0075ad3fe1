----------------------------- MODULE MCSandbox -----------------------------
(* Two threads in the crash sandbox, for TLC. *)
EXTENDS Sandbox, TLC

CONSTANTS main, audio
=============================================================================
