------------------------------- MODULE HostApp -------------------------------
(***************************************************************************)
(* The in-process host (gui/app.rs): the rack, the active plugin, the      *)
(* transport and their undo history (module UndoStack).  One thread runs   *)
(* frame after frame; asynchronous are the crash of the plugin and what    *)
(* the user does in the plugin's own editor.  A frame first refreshes the  *)
(* shown parameters, polls for a crash and syncs the transport             *)
(* (NextFrame), then handles the user's input, each kind of which is an    *)
(* action of its own.                                                      *)
(*                                                                         *)
(* A plugin has one parameter.  The tempo stands for the time signature    *)
(* too, which goes the same way.  Indices start at 1; 0 is no slot.        *)
(***************************************************************************)
EXTENDS UndoStack, FiniteSets

CONSTANTS
  Plugins,   \* the plugins that can be added to the rack
  Values,    \* normalized values of the parameter
  Default,   \* its value in a new instance
  Tempos,    \* tempos
  Edits,     \* values the user gives it in the plugin's editor
  None,      \* no plugin, no value
  MaxRack,   \* bound on the rack's length
  MaxInputs  \* bound on the user's inputs, undo and redo not counted

ASSUME HostAppAssumption ==
  Default \in Values /\ Edits \subseteq Values /\ None \notin (Plugins \cup Values \cup Tempos)
  /\ MaxRack \in Nat \ {0} /\ MaxInputs \in Nat

VARIABLES
  rack,        \* HostApp.rack
  active,      \* HostBackend.active: slot_index, plugin, value, has it crashed
  tainted,     \* HostBackend.tainted_paths
  selected,    \* HostApp.selected_slot
  shown,       \* HostApp.param_snapshots
  edit,        \* HostComponentHandler.pending_changes, the last one
  session,     \* the session file
  tempo,       \* HostApp.transport.tempo
  prev_tempo,  \* HostApp.prev_tempo
  history,     \* what the user has done, see Properties
  inputs       \* how many inputs the user has made

hostVars == <<rack, active, tainted, selected, shown, edit>>
tempoVars == <<tempo, prev_tempo>>
vars == <<stacks, hostVars, session, tempoVars, history, inputs>>

Cached == Values \cup {None}
Slots == [plugin : Plugins, state : BOOLEAN, cache : Cached, staged : Cached]
SlotSnapshots == [plugin : Plugins, state : BOOLEAN]
NoActive == [slot |-> 0, plugin |-> None, value |-> None, crashed |-> FALSE]
Entries == [kind : {"param", "add", "remove", "move", "tempo"}, slot : Nat,
            plugin : Plugins \cup {None}, state : BOOLEAN, cache : Cached,
            old : Values \cup Tempos \cup Nat \cup {None},
            new : Values \cup Tempos \cup Nat \cup {None}, fresh : BOOLEAN]

TypeOK ==
  /\ undo_stack \in Seq(Entries) /\ redo_stack \in Seq(Entries) /\ DepthBound
  /\ rack \in Seq(Slots)
  /\ active \in {NoActive} \cup [slot : 1..MaxRack, plugin : Plugins, value : Values,
                                 crashed : BOOLEAN]
  /\ tainted \subseteq Plugins
  /\ selected \in 0..Len(rack)
  /\ shown \in Cached /\ edit \in Cached
  /\ session \in [rack : Seq(SlotSnapshots), tempo : Tempos]
  /\ tempo \in Tempos /\ prev_tempo \in Tempos

\* Session::capture and restore: which plugins, and with what saved states.
Snapshot(slot) == [plugin |-> slot.plugin, state |-> slot.state]
Capture(slots) == [i \in DOMAIN slots |-> Snapshot(slots[i])]
Restored(snapshot) ==
  [plugin |-> snapshot.plugin, state |-> snapshot.state, cache |-> None, staged |-> None]
NewSlot(plugin) == Restored([plugin |-> plugin, state |-> FALSE])

NoEntry == [kind |-> "", slot |-> 0, plugin |-> None, state |-> FALSE, cache |-> None,
            old |-> None, new |-> None, fresh |-> TRUE]
SetParameter(slot, old, new) ==
  [NoEntry EXCEPT !.kind = "param", !.slot = slot, !.old = old, !.new = new]
AddPlugin(slot, plugin) == [NoEntry EXCEPT !.kind = "add", !.slot = slot, !.plugin = plugin]
RemovePlugin(slot) ==
  [NoEntry EXCEPT !.kind = "remove", !.slot = slot, !.plugin = rack[slot].plugin,
                  !.state = rack[slot].state, !.cache = rack[slot].cache]
ReorderPlugin(from, to) == [NoEntry EXCEPT !.kind = "move", !.old = from, !.new = to]
SetTempo(old, new) == [NoEntry EXCEPT !.kind = "tempo", !.old = old, !.new = new]

Init ==
  /\ undo_stack = <<>> /\ redo_stack = <<>>
  /\ rack = <<>>
  /\ active = NoActive
  /\ tainted = {}
  /\ selected = 0
  /\ shown = None /\ edit = None
  /\ tempo \in Tempos /\ prev_tempo = tempo
  /\ \E plugin \in Plugins :
       session = [rack |-> <<[plugin |-> plugin, state |-> TRUE]>>, tempo |-> tempo]
  /\ history = [base |-> <<>>, tip |-> <<>>, loaded |-> FALSE]
  /\ inputs = 0

-----------------------------------------------------------------------------
(* Rack edits, on sequences of slots or of plugins *)

Inserted(s, i, x) == InsertAt(s, IF i <= Len(s) THEN i ELSE Len(s) + 1, x)
Removed(s, i) == IF s = <<>> THEN s ELSE RemoveAt(s, IF i <= Len(s) THEN i ELSE Len(s))
Moved(s, from, to) == IF from > Len(s) THEN s ELSE Inserted(RemoveAt(s, from), to, s[from])

\* apply_undo_action, what it does to the rack; x is the slot it puts back.
EditApplied(s, entry, is_redo, x) ==
  CASE (entry.kind = "add" /\ is_redo) \/ (entry.kind = "remove" /\ ~is_redo)
         -> Inserted(s, entry.slot, x)
    [] (entry.kind = "add" /\ ~is_redo) \/ (entry.kind = "remove" /\ is_redo)
         -> Removed(s, entry.slot)
    [] entry.kind = "move" /\ is_redo  -> Moved(s, entry.old, entry.new)
    [] entry.kind = "move" /\ ~is_redo -> Moved(s, entry.new, entry.old)
    [] OTHER -> s

\* An entry applied to the rack's content, and undone.
Applied(content, entry)  == EditApplied(content, entry, TRUE, Snapshot(entry))
Reverted(content, entry) == EditApplied(content, entry, FALSE, Snapshot(entry))

\* A new entry, and the rack's content it leads to.
Record(entry, content) ==
  /\ Push(entry)
  /\ history' = [history EXCEPT
       !.tip = content,
       !.base = IF Evicts(entry) THEN Applied(@, Head(undo_stack)) ELSE @]

-----------------------------------------------------------------------------
(* HostBackend *)

\* deactivate_plugin: the plugin may crash while it is unloaded; its component
\* handler goes with it.
Taintings == {tainted, tainted \cup ({active.plugin} \ {None})}
deactivate_plugin == active' = NoActive /\ tainted' \in Taintings /\ edit' = None

\* The plugin crashes in the audio callback.
PluginCrashes ==
  /\ active # NoActive /\ ~active.crashed
  /\ active' = [active EXCEPT !.crashed = TRUE]
  /\ UNCHANGED <<stacks, rack, tainted, selected, shown, edit, tempoVars, history>>

\* perform_edit: the user turns a knob in the plugin's editor.
PluginEdits(value) ==
  /\ active # NoActive /\ ~active.crashed
  /\ edit' = value
  /\ UNCHANGED <<stacks, rack, active, tainted, selected, shown, tempoVars, history>>

-----------------------------------------------------------------------------
(* HostApp::update, before the input *)

InRack(i) == i \in DOMAIN rack

\* What is shown of the active plugin: the snapshots given the edits are replaced
\* at once by the values the parameter registry holds.
Refreshed == active.value

\* refresh_params: of the active plugin from the backend, of another from its slot.
refresh_params ==
  \/ selected = 0 /\ shown' = None /\ UNCHANGED rack
  \/ /\ selected # 0 /\ active.slot = selected
     /\ shown' = Refreshed
     /\ rack' = IF InRack(selected) THEN [rack EXCEPT ![selected].cache = Refreshed] ELSE rack
  \/ /\ selected # 0 /\ active.slot # selected
     /\ shown' = IF InRack(selected) THEN rack[selected].cache ELSE None
     /\ UNCHANGED rack

\* The edits are taken while the active plugin's slot is the selected one.
EditsLeft == IF selected # 0 /\ active.slot = selected THEN None ELSE edit

\* sync_transport: a tempo other than last frame's is a new action of the user,
\* unless no plugin is active.
sync_transport(is_active) ==
  /\ prev_tempo' = tempo
  /\ UNCHANGED tempo
  /\ IF is_active /\ tempo # prev_tempo
     THEN Record(SetTempo(prev_tempo, tempo), Capture(rack))
     ELSE UNCHANGED <<stacks, history>>

NextFrame ==
  /\ refresh_params
  /\ IF active.crashed THEN deactivate_plugin
     ELSE edit' = EditsLeft /\ UNCHANGED <<active, tainted>>
  /\ sync_transport(active # NoActive /\ ~active.crashed)
  /\ UNCHANGED selected

-----------------------------------------------------------------------------
(* The user's input *)

add_to_rack(plugin) ==
  /\ Len(rack) < MaxRack
  /\ rack' = Append(rack, NewSlot(plugin))
  /\ Record(AddPlugin(Len(rack) + 1, plugin), Capture(rack'))
  /\ UNCHANGED <<active, tainted, selected, shown, edit, tempoVars>>

\* What a removal does to the plugin and the selection, undone, redone or new.
SlotRemoved(i) ==
  /\ rack' = RemoveAt(rack, i)
  /\ IF active.slot = i THEN deactivate_plugin ELSE UNCHANGED <<active, tainted, edit>>
  /\ selected' = IF selected = i THEN 0 ELSE IF selected > i THEN selected - 1 ELSE selected
  /\ shown' = IF active.slot = i \/ selected = i THEN None ELSE shown

remove_from_rack(i) ==
  /\ SlotRemoved(i)
  /\ Record(RemovePlugin(i), Capture(rack'))
  /\ UNCHANGED tempoVars

\* A slot is dragged onto another: only the moved slot's selection follows.
ReorderRack(from, to) ==
  /\ from # to
  /\ rack' = Moved(rack, from, to)
  /\ selected' = IF selected = from THEN to ELSE selected
  /\ Record(ReorderPlugin(from, to), Capture(rack'))
  /\ UNCHANGED <<active, tainted, shown, edit, tempoVars>>

SelectSlot(i) ==
  /\ selected' = i
  /\ UNCHANGED <<stacks, rack, active, tainted, shown, edit, tempoVars, history>>

\* activate_slot: refused, failed after the old plugin is gone, or done; the
\* staged change is applied and the values shown are cached.
activate_slot(i) ==
  \/ /\ rack[i].plugin \notin tainted
     /\ deactivate_plugin
     /\ UNCHANGED <<rack, selected, shown>>
  \/ LET plugin == rack[i].plugin
         value  == IF rack[i].staged = None THEN Default ELSE rack[i].staged
     IN  /\ plugin \notin tainted
         /\ tainted' \in Taintings /\ edit' = None
         /\ active' = [slot |-> i, plugin |-> plugin, value |-> value, crashed |-> FALSE]
         /\ rack' = [rack EXCEPT ![i].staged = None, ![i].cache = value]
         /\ selected' = i
         /\ shown' = value

ActivateSlot(i) == activate_slot(i) /\ UNCHANGED <<stacks, tempoVars, history>>

\* deactivate_active: the shown values are cached in the active slot.
deactivate_active ==
  /\ active # NoActive
  /\ rack' = IF InRack(active.slot) THEN [rack EXCEPT ![active.slot].cache = shown] ELSE rack
  /\ deactivate_plugin
  /\ UNCHANGED <<stacks, selected, shown, tempoVars, history>>

\* The slider: recorded for the selected slot, sent to the plugin if that is
\* the active slot, staged otherwise.
ChangeParameter(value) ==
  /\ selected # 0 /\ shown # None /\ value # shown
  /\ Record(SetParameter(selected, shown, value), Capture(rack))
  /\ \/ /\ active.slot = selected
        /\ active' = [active EXCEPT !.value = value]
        /\ UNCHANGED rack
     \/ /\ active.slot # selected
        /\ rack' = [rack EXCEPT ![selected].staged = value, ![selected].cache = value]
        /\ UNCHANGED active
  /\ UNCHANGED <<tainted, selected, shown, edit, tempoVars>>

\* load_preset: not recorded.
load_preset(value) ==
  /\ active # NoActive
  /\ active' = [active EXCEPT !.value = value]
  /\ shown' = value
  /\ rack' = IF InRack(active.slot) THEN [rack EXCEPT ![active.slot].cache = value] ELSE rack
  /\ UNCHANGED <<stacks, tainted, selected, edit, tempoVars, history>>

ChangeTempo(value) ==
  /\ value # tempo
  /\ tempo' = value
  /\ UNCHANGED <<stacks, hostVars, prev_tempo, history>>

\* save_session, when the file can be written: the slots as they are; the state of
\* the active plugin is not asked for.
save_session ==
  /\ session' = [rack |-> Capture(rack), tempo |-> tempo]
  /\ UNCHANGED <<stacks, hostVars, tempoVars, history>>

\* load_session, when the file can be read: the rack and the transport are
\* replaced, the history stays.
load_session ==
  /\ deactivate_plugin
  /\ rack' = [i \in DOMAIN session.rack |-> Restored(session.rack[i])]
  /\ tempo' = session.tempo
  /\ selected' = 0
  /\ shown' = None
  /\ history' = IF undo_stack = <<>> /\ redo_stack = <<>>
                THEN [history EXCEPT !.base = session.rack, !.tip = session.rack]
                ELSE [history EXCEPT !.loaded = TRUE]
  /\ UNCHANGED <<stacks, session, prev_tempo>>

-----------------------------------------------------------------------------
(* perform_undo, perform_redo: apply_undo_action *)

\* Mutant: the saved states do not come back.
PutBackStateless(entry) == [NewSlot(entry.plugin) EXCEPT !.cache = entry.cache]

\* The slot an entry puts back: a removed one with its states and cache, a re-added one new.
PutBack(entry) == [Restored(Snapshot(entry)) EXCEPT !.cache = entry.cache]

apply_undo_action(entry, is_redo) ==
  LET removes == entry.kind = (IF is_redo THEN "remove" ELSE "add")
      index   == IF entry.slot <= Len(rack) THEN entry.slot ELSE Len(rack)
      target  == IF is_redo THEN entry.new ELSE entry.old
  IN  /\ IF removes /\ rack # <<>>
         THEN SlotRemoved(index)
         ELSE /\ rack' = EditApplied(rack, entry, is_redo, PutBack(entry))
              /\ active' = IF entry.kind = "param" /\ active # NoActive
                           THEN [active EXCEPT !.value = target] ELSE active
              /\ UNCHANGED <<tainted, selected, shown, edit>>
      /\ tempo' = IF entry.kind = "tempo" THEN target ELSE tempo
      /\ UNCHANGED prev_tempo

perform_undo ==
  /\ undo_stack # <<>> /\ Last(undo_stack).kind = "remove" => Len(rack) < MaxRack
  /\ Undo
  /\ apply_undo_action(Last(undo_stack), FALSE)
  /\ UNCHANGED history

perform_redo ==
  /\ redo_stack # <<>> /\ Last(redo_stack).kind = "add" => Len(rack) < MaxRack
  /\ Redo
  /\ apply_undo_action(Last(redo_stack), TRUE)
  /\ UNCHANGED history

Waits == WindowEnds /\ UNCHANGED <<hostVars, tempoVars, history>>

-----------------------------------------------------------------------------
SessionInput == save_session \/ load_session

RackInput ==
  \/ \E plugin \in Plugins : add_to_rack(plugin)
  \/ \E i \in DOMAIN rack : remove_from_rack(i) \/ SelectSlot(i) \/ ActivateSlot(i)
  \/ SelectSlot(0)
  \/ \E from, to \in DOMAIN rack : ReorderRack(from, to)
  \/ deactivate_active
  \/ \E value \in Values : ChangeParameter(value) \/ load_preset(value)
  \/ \E value \in Tempos : ChangeTempo(value)

Next ==
  \/ /\ inputs < MaxInputs /\ inputs' = inputs + 1
     /\ SessionInput \/ (RackInput /\ UNCHANGED session)
  \/ UNCHANGED <<inputs, session>>
     /\ (NextFrame \/ PluginCrashes \/ Waits \/ perform_undo \/ perform_redo)
  \/ \E value \in Edits : UNCHANGED <<inputs, session>> /\ PluginEdits(value)

Spec == Init /\ [][Next]_vars

-----------------------------------------------------------------------------
(* Properties.  history.base is the content of the rack before the oldest   *)
(* entry still kept, history.tip the content the user's last action led to, *)
(* loaded tells that a session was loaded over entries.                     *)

\* The content of the rack after undoing all there is to undo, and redoing all.
Rewound ==
  LET back[n \in 0..Len(undo_stack)] ==
        IF n = 0 THEN Capture(rack)
        ELSE Reverted(back[n - 1], undo_stack[Len(undo_stack) + 1 - n])
  IN  back[Len(undo_stack)]

Replayed ==
  LET forth[n \in 0..Len(redo_stack)] ==
        IF n = 0 THEN Capture(rack)
        ELSE Applied(forth[n - 1], redo_stack[Len(redo_stack) + 1 - n])
  IN  forth[Len(redo_stack)]

\* Undo leads back along the rack's edits to where the kept history begins,
\* whatever was undone, redone, merged and dropped, as long as no session is
\* loaded in between (apply_undo_action, UndoStack).
UndoLeadsBack == ~history.loaded => Rewound = history.base

\* Redo leads forth again to what the user had made last (perform_redo).
RedoLeadsForth == ~history.loaded => Replayed = history.tip
=============================================================================
