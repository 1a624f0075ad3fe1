--------------------------- MODULE MCPluginInstance ---------------------------
(* A small instance of PluginInstance for TLC. *)
EXTENDS PluginInstance, TLC

CONSTANTS p, q
=============================================================================
