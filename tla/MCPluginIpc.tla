----------------------------- MODULE MCPluginIpc -----------------------------
(* A small instance of PluginIpc for TLC. *)
EXTENDS PluginIpc
=============================================================================
