---------------------------- MODULE MCAudioEngine ----------------------------
(* A small instance of AudioEngine for TLC. *)
EXTENDS AudioEngine

CONSTANTS p1, p2, k1, k2

Symmetry == Permutations({p1, p2}) \cup Permutations({k1, k2})

\* The two kinds of input meet in the block only, so that each is checked with
\* the other absent.
NotesOrParams == {[midi |-> TRUE, controller |-> FALSE], [midi |-> FALSE, controller |-> TRUE]}
=============================================================================
