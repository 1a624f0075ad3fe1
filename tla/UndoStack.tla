------------------------------ MODULE UndoStack ------------------------------
(***************************************************************************)
(* The undo history of the in-process host (gui/undo.rs): two stacks of    *)
(* entries, a bound on their depth, and the merging of changes of one      *)
(* parameter that follow each other within the coalescing window.  What an *)
(* entry does to the host is in module HostApp.                            *)
(*                                                                         *)
(* There is one parameter per slot.  Instead of a timestamp an entry has   *)
(* fresh, which ends when the window does.                                 *)
(***************************************************************************)
EXTENDS Integers, Sequences, SequencesExt

CONSTANT MaxDepth  \* UndoStack.max_depth

ASSUME UndoStackAssumption == MaxDepth \in Nat \ {0}

VARIABLES
  undo_stack,  \* oldest entry first
  redo_stack   \* the entry undone last is last

stacks == <<undo_stack, redo_stack>>

\* A SetParameter for the slot and parameter of the last entry, soon enough.
Coalesces(action) ==
  /\ action.kind = "param"
  /\ undo_stack # <<>>
  /\ Last(undo_stack).kind = "param"
  /\ Last(undo_stack).slot = action.slot
  /\ Last(undo_stack).fresh

\* The new entry takes over the value before the first of the merged changes.
Coalesced(action) ==
  Append(Front(undo_stack), [action EXCEPT !.old = Last(undo_stack).old])

Evicts(action) == ~Coalesces(action) /\ Len(undo_stack) = MaxDepth

\* Mutant: beyond the depth the newest entry is dropped.
PushEvictsNewest(action) ==
  /\ undo_stack' = IF Coalesces(action) THEN Coalesced(action)
                   ELSE IF Evicts(action) THEN undo_stack
                   ELSE Append(undo_stack, action)
  /\ redo_stack' = <<>>

\* A new action: the redo history ends, and the oldest entry beyond the depth.
Push(action) ==
  /\ undo_stack' = IF Coalesces(action) THEN Coalesced(action)
                   ELSE IF Evicts(action) THEN Append(Tail(undo_stack), action)
                   ELSE Append(undo_stack, action)
  /\ redo_stack' = <<>>

\* Mutant: the undone entries are kept in the order they were made.
UndoQueues ==
  /\ undo_stack # <<>>
  /\ undo_stack' = Front(undo_stack)
  /\ redo_stack' = <<Last(undo_stack)>> \o redo_stack

\* undo: the entry goes to the redo stack.
Undo ==
  /\ undo_stack # <<>>
  /\ undo_stack' = Front(undo_stack)
  /\ redo_stack' = Append(redo_stack, Last(undo_stack))

\* redo: and back, with its timestamp.
Redo ==
  /\ redo_stack # <<>>
  /\ redo_stack' = Front(redo_stack)
  /\ undo_stack' = Append(undo_stack, Last(redo_stack))

\* The coalescing window of every entry made so far ends.
Aged(stack) == [i \in DOMAIN stack |-> [stack[i] EXCEPT !.fresh = FALSE]]
WindowEnds ==
  /\ undo_stack' = Aged(undo_stack)
  /\ redo_stack' = Aged(redo_stack)

\* The two stacks together are never deeper than the bound, though only push
\* looks at it: redo does not (UndoStack::push, undo, redo).
DepthBound == Len(undo_stack) + Len(redo_stack) <= MaxDepth
=============================================================================
