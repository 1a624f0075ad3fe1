---------------------------- MODULE Vst3Lifecycle ----------------------------
(***************************************************************************)
(* How a VST3 host uses a component, as the plugin sees it: the component  *)
(* is set up before it is activated and activated before it processes; no  *)
(* other call overlaps a block; it is terminated inactive and released     *)
(* terminated.  Only a component whose code has crashed may be abandoned.  *)
(* Module PluginInstance is shown to implement this.                       *)
(***************************************************************************)

VARIABLES
  phase,  \* where the component is in its life
  block,  \* is the audio thread inside process
  call,   \* is another thread inside a call that must not overlap a block
  broke   \* has the plugin's code crashed

vars == <<phase, block, call, broke>>

Phases == {"absent", "initialized", "configured", "active", "processing", "terminated"}

Init == phase = "absent" /\ block = FALSE /\ call = FALSE /\ broke = FALSE

Moves == { <<"absent", "initialized">>, <<"initialized", "configured">>,
           <<"configured", "active">>, <<"active", "processing">>,
           <<"processing", "active">>, <<"active", "configured">>,
           <<"initialized", "terminated">>, <<"configured", "terminated">>,
           <<"terminated", "absent">> }

\* One lifecycle call that succeeds.
Move ==
  /\ ~block /\ ~call
  /\ <<phase, phase'>> \in Moves
  /\ UNCHANGED <<block, call, broke>>

BeginBlock ==
  /\ phase = "processing"
  /\ ~block /\ ~call
  /\ block' = TRUE
  /\ UNCHANGED <<phase, call, broke>>

EndBlock == block /\ block' = FALSE /\ broke' \in {broke, TRUE} /\ UNCHANGED <<phase, call>>

BeginCall ==
  /\ phase # "absent"
  /\ ~block /\ ~call
  /\ call' = TRUE
  /\ UNCHANGED <<phase, block, broke>>

EndCall == call /\ call' = FALSE /\ broke' \in {broke, TRUE} /\ UNCHANGED <<phase, block>>

Crash == ~broke /\ broke' = TRUE /\ UNCHANGED <<phase, block, call>>

\* The host gives up the component where it is.
Abandon ==
  /\ broke \/ phase = "absent"
  /\ ~block /\ ~call
  /\ phase' = "absent"
  /\ broke' = FALSE
  /\ UNCHANGED <<block, call>>

Next == Move \/ BeginBlock \/ EndBlock \/ BeginCall \/ EndCall \/ Crash \/ Abandon

Spec == Init /\ [][Next]_vars
=============================================================================
