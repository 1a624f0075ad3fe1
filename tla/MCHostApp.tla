------------------------------ MODULE MCHostApp ------------------------------
(* A small instance of HostApp for TLC. *)
EXTENDS HostApp, TLC

CONSTANTS p, q

PluginSymmetry == Permutations({p, q})
=============================================================================
