------------------------------ MODULE MCPresets ------------------------------
(* A small instance of Presets for TLC. *)
EXTENDS Presets, TLC

CONSTANTS s, t

SlotSymmetry == Permutations(Slots)
OneFileEach == [name \in Names |-> name]
=============================================================================
