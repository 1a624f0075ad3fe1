----------------------------- MODULE MCHostFiles -----------------------------
(* A small instance of HostFiles for TLC. *)
EXTENDS HostFiles, TLC

CONSTANTS p, q, std, d, e, link

ProcSymmetry == Permutations(Procs)
\* link is another path to d.
Canonical == [spelling \in Dirs \cup Aliases |-> IF spelling = link THEN d ELSE spelling]
=============================================================================
