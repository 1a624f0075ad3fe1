--------------------------- MODULE MCAudioWorker ---------------------------
(* Small instances of AudioWorker for TLC. *)
EXTENDS AudioWorker, TLC

CONSTANTS p, q, s1, s2, s3, s4

\* Slots are told apart only by their ghost identity, and so are plugins that
\* no session file names.
RackSymmetry == Permutations({s1, s2, s3, s4}) \cup Permutations({p, q})

SlotSymmetry == Permutations({s1, s2, s3})

AllFound == {{p, q}}
OneFound == {{p}}

Blob(value) == [of |-> p, val |-> [x \in Params |-> value]]
OnePreset == {Blob(1)}
EmptySession == {<<>>}
SavedSession == {<<[plugin |-> p, component_state |-> Blob(1)]>>}
=============================================================================
