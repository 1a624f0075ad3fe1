----------------------------- MODULE RackService -----------------------------
(***************************************************************************)
(* What the supervised host promises its user of the rack, whatever dies   *)
(* below it (gui/supervisor.rs): an edit that the window has shown is in   *)
(* the rack for good, an open window never goes back to an older rack, the *)
(* only edits in it are the user's, and a window the user closed is not    *)
(* opened again.  What a death of the worker may take is the edits that    *)
(* were not saved, which the window has not shown.  Module Supervisor is   *)
(* shown to implement this.                                                *)
(***************************************************************************)
CONSTANT Edits  \* the edits a user may make

VARIABLES
  asked,   \* the edits made
  rack,    \* those that are done: a relaunched worker may lose some
  saved,   \* those that a relaunched worker has again
  shown,   \* those in the window
  window,  \* "none", "open" or "closed"
  worker   \* "up" or "down"

vars == <<asked, rack, saved, shown, window, worker>>

Init ==
  /\ asked = {} /\ rack = {} /\ saved = {} /\ shown = {}
  /\ window = "none"
  /\ worker = "up"

\* The user makes an edit; it may never be done.
Ask(e) ==
  /\ window = "open"
  /\ asked' = asked \cup {e}
  /\ UNCHANGED <<rack, saved, shown, window, worker>>

Do(e) ==
  /\ worker = "up"
  /\ e \in asked
  /\ rack' = rack \cup {e}
  /\ UNCHANGED <<asked, saved, shown, window, worker>>

\* More of the rack is saved, also after the worker's death.
Save ==
  /\ saved \subseteq saved' /\ saved' \subseteq rack
  /\ UNCHANGED <<asked, rack, shown, window, worker>>

\* What is saved is shown, sooner or later.
Show ==
  /\ window = "open"
  /\ shown \subseteq shown' /\ shown' \subseteq saved
  /\ UNCHANGED <<asked, rack, saved, window, worker>>

\* A window starts empty.
Open ==
  /\ window = "none"
  /\ window' = "open"
  /\ shown' = {}
  /\ UNCHANGED <<asked, rack, saved, worker>>

\* The window is closed, or crashes.
Leave ==
  /\ window = "open"
  /\ window' \in {"closed", "none"}
  /\ UNCHANGED <<asked, rack, saved, shown, worker>>

End ==
  /\ worker = "up"
  /\ worker' = "down"
  /\ UNCHANGED <<asked, rack, saved, shown, window>>

\* A new worker has what was saved.
Restart ==
  /\ worker = "down"
  /\ worker' = "up"
  /\ rack' = saved
  /\ UNCHANGED <<asked, saved, shown, window>>

Next ==
  \/ \E e \in Edits : Ask(e) \/ Do(e)
  \/ Save \/ Show \/ Open \/ Leave \/ End \/ Restart

Spec == Init /\ [][Next]_vars

\* What is shown is saved, what is saved is done, what is done was asked for.
InOrder == shown \subseteq saved /\ saved \subseteq rack /\ rack \subseteq asked
=============================================================================
