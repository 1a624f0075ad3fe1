---------------------------- MODULE MCAudioGraph ----------------------------
(* A small instance of AudioGraph for TLC. *)
EXTENDS AudioGraph
=============================================================================
