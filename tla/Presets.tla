------------------------------- MODULE Presets -------------------------------
(***************************************************************************)
(* User presets: files kept per plugin, the toolbar that saves, loads and  *)
(* steps through them, and the plugin they are applied to.  The code has   *)
(* two hosts.  In process (gui/app.rs) a click runs to its end.  Across    *)
(* processes (gui/gui_worker.rs, gui/audio_worker.rs) the GUI acts on what *)
(* it was last told and the request travels, through the supervisor, to a  *)
(* worker that may run another plugin by then; both processes may die and  *)
(* be relaunched with part of the messages lost.                           *)
(*                                                                         *)
(* The rack is fixed, a slot stands for its plugin, and a file for what    *)
(* Listing and the loader read from it: the preset's name.                 *)
(***************************************************************************)
EXTENDS Naturals, Sequences, FiniteSets

CONSTANTS
  Hosts,              \* of {"process", "workers"}
  Slots,              \* the slots of the rack
  Names,              \* names of presets, numbered in alphabetical order
  sanitize_filename,  \* the file name made of a name, not one-to-one
  None,               \* no slot, no preset, no file
  Torn,               \* what is in a file that cannot be parsed
  MaxQueue            \* bound on the messages under way in one direction

ASSUME PresetsAssumption ==
  /\ Hosts \subseteq {"process", "workers"}
  /\ Names \subseteq Nat /\ None \notin Slots \cup Names /\ Torn \notin Names \cup {None}
  /\ sanitize_filename \in [Names -> Names]
  /\ MaxQueue \in Nat \ {0}

VARIABLES
  host,      \* which of the two hosts runs
  files,     \* presets_dir and the file in it -> the name in the file
  active,    \* HostBackend.active: its slot
  last,      \* the preset file last applied to, or made of, that instance
  gui,       \* the GUI's active_slot, user_presets and current_preset_name;
             \* asked: it was told of an activation
  toWorker,  \* GuiActions under way to the audio worker
  toGui      \* SupervisorUpdates under way to the GUI

vars == <<host, files, active, last, gui, toWorker, toGui>>

NoUpdates == <<toWorker, toGui>>

-----------------------------------------------------------------------------
(* vst3/presets.rs *)

PresetPath(slot, name) == <<slot, sanitize_filename[name]>>
Paths == {PresetPath(slot, name) : slot \in Slots, name \in Names}

\* The presets of a plugin, leaving out what cannot be parsed.
list_user_presets(store, slot) ==
  {[name |-> store[path], path |-> path] :
     path \in {p \in Paths : p[1] = slot /\ store[p] \in Names}}

\* The outcomes of save_to_file: the directory or the file refused, or the
\* file opened, which empties it, and then written or not.
Outcomes == {"refused", "torn", "written"}
save_to_file(path, name, outcome) ==
  files' = CASE outcome = "refused" -> files
             [] outcome = "torn"    -> [files EXCEPT ![path] = Torn]
             [] outcome = "written" -> [files EXCEPT ![path] = name]

\* The entry n places from the one whose name is shown, the list being sorted
\* by name and closed to a ring; the first one when none is shown.  There is
\* none in an empty list.
Rank(entry) == Cardinality({e \in gui.user_presets : e.name < entry.name})
Shown == {e \in gui.user_presets : e.name = gui.current_preset_name}
Stepped(n) ==
  {e \in gui.user_presets :
     IF Shown = {} THEN Rank(e) = 0
     ELSE \E shown \in Shown : Rank(e) = (Rank(shown) + n) % Cardinality(gui.user_presets)}
NextEntry == Stepped(1)
PrevEntry == Stepped(Cardinality(gui.user_presets) - 1)

-----------------------------------------------------------------------------
FreshGui == [active_slot |-> None, user_presets |-> {}, current_preset_name |-> None,
             asked |-> FALSE]

Init ==
  /\ host \in Hosts
  /\ files = [path \in Paths |-> None]
  /\ active = None /\ last = None
  /\ gui = FreshGui
  /\ toWorker = <<>> /\ toGui = <<>>

\* The toolbar with its save dialog is shown for the selected slot when it is
\* the active one: in process the backend's, across processes the one reported.
AppToolbar == active # None
Toolbar == gui.active_slot # None

-----------------------------------------------------------------------------
(* The host in one process: HostApp *)

InProcess == host = "process"

\* activate_slot with refresh_presets; a failed activation has stopped the
\* plugin that ran, unless the slot was refused before that.
AppActivated(slot) ==
  /\ active' = slot
  /\ gui' = [active_slot |-> slot, user_presets |-> list_user_presets(files, slot),
             current_preset_name |-> None, asked |-> TRUE]
AppStopped(shown) ==
  /\ active' = None
  /\ gui' = [active_slot |-> None, user_presets |-> gui.user_presets,
             current_preset_name |-> shown, asked |-> gui.asked]
AppActivate(slot) ==
  /\ InProcess
  /\ AppActivated(slot) \/ AppStopped(gui.current_preset_name)
  /\ last' = None
  /\ UNCHANGED <<host, files, NoUpdates>>

\* deactivate_active, on the user's wish or because the plugin crashed.
AppDeactivate ==
  /\ InProcess /\ active # None
  /\ AppStopped(gui.current_preset_name)
  /\ last' = None
  /\ UNCHANGED <<host, files, NoUpdates>>

\* init_preset: deactivate and activate again.
AppInitPreset ==
  /\ InProcess /\ AppToolbar
  /\ AppActivated(active) \/ AppStopped(None)
  /\ last' = None
  /\ UNCHANGED <<host, files, NoUpdates>>

\* save_preset: name and list follow only when the file was written.
AppSavePreset(name) ==
  LET path == PresetPath(active, name)
  IN /\ InProcess /\ AppToolbar
     /\ \E outcome \in Outcomes :
          /\ save_to_file(path, name, outcome)
          /\ IF outcome = "written"
             THEN /\ last' = path
                  /\ gui' = [active_slot |-> gui.active_slot, asked |-> gui.asked,
                             user_presets |-> list_user_presets(files', active),
                             current_preset_name |-> name]
             ELSE UNCHANGED <<last, gui>>
     /\ UNCHANGED <<host, active, NoUpdates>>

\* load_preset: the name shown is the one found in the file.
AppLoad(path) ==
  /\ InProcess /\ AppToolbar
  /\ files[path] \in Names
  /\ last' = path
  /\ gui' = [gui EXCEPT !.current_preset_name = files[path]]
  /\ UNCHANGED <<host, files, active, NoUpdates>>
AppLoadPreset == \E entry \in gui.user_presets : AppLoad(entry.path)
AppNextPreset == \E entry \in NextEntry : AppLoad(entry.path)
AppPrevPreset == \E entry \in PrevEntry : AppLoad(entry.path)

HostApp ==
  \/ \E slot \in Slots : AppActivate(slot)
  \/ AppDeactivate \/ AppInitPreset
  \/ \E name \in Names : AppSavePreset(name)
  \/ AppLoadPreset \/ AppNextPreset \/ AppPrevPreset

-----------------------------------------------------------------------------
(* The GUI process: GuiWorkerApp *)

Activate(slot) == [kind |-> "ActivateSlot", slot |-> slot]
Deactivate == [kind |-> "DeactivateSlot"]
SavePreset(path, name) == [kind |-> "SavePreset", path |-> path, name |-> name]
LoadPreset(path) == [kind |-> "LoadPreset", path |-> path]
ListPresets == [kind |-> "ListPresets"]
RequestFullState == [kind |-> "RequestFullState"]

Workers == host = "workers"
Sends(actions) ==
  /\ Workers /\ Len(toWorker) < MaxQueue
  /\ toWorker' = toWorker \o actions
  /\ UNCHANGED <<host, files, active, last, toGui>>

GuiActivate(slot) == gui.active_slot # slot /\ Sends(<<Activate(slot)>>) /\ UNCHANGED gui
GuiDeactivate == Toolbar /\ Sends(<<Deactivate>>) /\ UNCHANGED gui

\* ↺
GuiInitPreset ==
  /\ Toolbar
  /\ Sends(<<Deactivate, Activate(gui.active_slot)>>)
  /\ gui' = [gui EXCEPT !.current_preset_name = None]

\* Mutant: the list is read before the preset is there.
GuiSavePresetListsFirst(name) ==
  /\ Toolbar
  /\ Sends(<<ListPresets, SavePreset(PresetPath(gui.active_slot, name), name)>>)
  /\ gui' = [gui EXCEPT !.current_preset_name = name]

\* The path is made of the name of the slot the GUI shows, and the preset's
\* name is shown before anything is written.
GuiSavePreset(name) ==
  /\ Toolbar
  /\ Sends(<<SavePreset(PresetPath(gui.active_slot, name), name), ListPresets>>)
  /\ gui' = [gui EXCEPT !.current_preset_name = name]

GuiLoad(entry) ==
  /\ Sends(<<LoadPreset(entry.path)>>)
  /\ gui' = [gui EXCEPT !.current_preset_name = entry.name]
GuiLoadPreset == Toolbar /\ \E entry \in gui.user_presets : GuiLoad(entry)
GuiNextPreset == Toolbar /\ \E entry \in NextEntry : GuiLoad(entry)
GuiPrevPreset == Toolbar /\ \E entry \in PrevEntry : GuiLoad(entry)

\* Mutant: the list of the slot before stays until the new one is there.
RackAppliedKeepsList(slot) ==
  IF slot = gui.active_slot THEN UNCHANGED <<gui, toWorker>>
  ELSE /\ gui' = [gui EXCEPT !.active_slot = slot, !.current_preset_name = None,
                             !.asked = @ \/ slot # None]
       /\ toWorker' = IF slot = None THEN toWorker ELSE Append(toWorker, ListPresets)

\* Mutant: the name of the preset stays.
RackAppliedKeepsName(slot) ==
  IF slot = gui.active_slot THEN UNCHANGED <<gui, toWorker>>
  ELSE /\ gui' = [gui EXCEPT !.active_slot = slot, !.user_presets = {},
                             !.asked = @ \/ slot # None]
       /\ toWorker' = IF slot = None THEN toWorker ELSE Append(toWorker, ListPresets)

\* apply_update.  A new active slot empties the list and asks for its own.
RackApplied(slot) ==
  IF slot = gui.active_slot THEN UNCHANGED <<gui, toWorker>>
  ELSE /\ gui' = [active_slot |-> slot, user_presets |-> {}, current_preset_name |-> None,
                  asked |-> gui.asked \/ slot # None]
       /\ toWorker' = IF slot = None THEN toWorker ELSE Append(toWorker, ListPresets)

\* FullState, and AudioProcessRestarted, which says that no plugin runs.
FullStateApplied(slot) == gui' = [gui EXCEPT !.active_slot = slot] /\ UNCHANGED toWorker
PresetListApplied(list) == gui' = [gui EXCEPT !.user_presets = list] /\ UNCHANGED toWorker

GuiReceives ==
  /\ toGui # <<>>
  /\ LET update == Head(toGui)
     IN \/ update.kind = "RackUpdated" /\ RackApplied(update.slot)
        \/ update.kind = "FullState" /\ FullStateApplied(update.slot)
        \/ update.kind = "PresetList" /\ PresetListApplied(update.list)
  /\ toGui' = Tail(toGui)
  /\ UNCHANGED <<host, files, active, last>>

GuiWorker ==
  \/ \E slot \in Slots : GuiActivate(slot)
  \/ GuiDeactivate \/ GuiInitPreset
  \/ \E name \in Names : GuiSavePreset(name)
  \/ GuiLoadPreset \/ GuiNextPreset \/ GuiPrevPreset
  \/ GuiReceives

-----------------------------------------------------------------------------
(* The audio worker: handle_action *)

RackUpdated(slot) == [kind |-> "RackUpdated", slot |-> slot]
FullState(slot) == [kind |-> "FullState", slot |-> slot]
PresetList(list) == [kind |-> "PresetList", list |-> list]

Handles(kind) == toWorker # <<>> /\ Head(toWorker).kind = kind /\ Len(toGui) < MaxQueue
Handled(updates) ==
  /\ toWorker' = Tail(toWorker) /\ toGui' = toGui \o updates
  /\ UNCHANGED <<host, gui>>

\* A failed activation is reported by a status message alone, although the
\* plugin that ran is gone by then.
HandleActivate ==
  /\ Handles("ActivateSlot")
  /\ \/ active' = Head(toWorker).slot /\ Handled(<<RackUpdated(active')>>)
     \/ active' = None /\ Handled(<<>>)
  /\ last' = None /\ UNCHANGED files

HandleDeactivate ==
  /\ Handles("DeactivateSlot")
  /\ active' = None /\ last' = None /\ UNCHANGED files
  /\ Handled(<<RackUpdated(None)>>)

\* The preset is made of whatever runs, the file is the one the GUI named.
HandleSavePreset ==
  /\ Handles("SavePreset")
  /\ \E outcome \in Outcomes : save_to_file(Head(toWorker).path, Head(toWorker).name, outcome)
  /\ last' = IF active = None THEN None ELSE Head(toWorker).path
  /\ Handled(<<>>) /\ UNCHANGED active

\* The preset's plugin_cid is not compared with the plugin that runs.
HandleLoadPreset ==
  /\ Handles("LoadPreset")
  /\ last' = IF active = None THEN None ELSE Head(toWorker).path
  /\ Handled(<<>>) /\ UNCHANGED <<files, active>>

HandleListPresets ==
  /\ Handles("ListPresets")
  /\ Handled(<<PresetList(list_user_presets(files, active))>>)
  /\ UNCHANGED <<files, active, last>>

HandleRequestFullState ==
  /\ Handles("RequestFullState")
  /\ Handled(<<FullState(active)>>)
  /\ UNCHANGED <<files, active, last>>

\* The plugin crashed and is deactivated (run_audio_loop).
PollCrash ==
  /\ Workers /\ active # None /\ Len(toGui) < MaxQueue
  /\ active' = None /\ last' = None
  /\ toGui' = Append(toGui, RackUpdated(None))
  /\ UNCHANGED <<host, files, gui, toWorker>>

AudioWorker ==
  \/ HandleActivate \/ HandleDeactivate \/ HandleSavePreset \/ HandleLoadPreset
  \/ HandleListPresets \/ HandleRequestFullState \/ PollCrash

-----------------------------------------------------------------------------
(* Deaths and relaunches: gui/supervisor.rs *)

\* What one end had taken off a channel, or not yet put through, dies with it.
Suffix(s, n) == SubSeq(s, n + 1, Len(s))
Prefix(s, n) == SubSeq(s, 1, n)

\* try_restart_audio_worker: a save that was going on may leave its file empty.
WorkerDies ==
  /\ Workers /\ Len(toGui) < MaxQueue
  /\ active' = None /\ last' = None
  /\ \E n \in 0..Len(toWorker), m \in 0..Len(toGui) :
       /\ toWorker' = Suffix(toWorker, n)
       /\ toGui' = Append(Prefix(toGui, m), FullState(None))
  /\ \/ UNCHANGED files
     \/ /\ toWorker # <<>> /\ Head(toWorker).kind = "SavePreset"
        /\ toWorker' # toWorker
        /\ save_to_file(Head(toWorker).path, Head(toWorker).name, "torn")
  /\ UNCHANGED <<host, gui>>

\* A new GUI process, for which the supervisor asks the worker's state.
GuiDies ==
  /\ Workers /\ Len(toWorker) < MaxQueue
  /\ gui' = FreshGui
  /\ \E n \in 0..Len(toWorker), m \in 0..Len(toGui) :
       /\ toWorker' = Append(Prefix(toWorker, n), RequestFullState)
       /\ toGui' = Suffix(toGui, m)
  /\ UNCHANGED <<host, files, active, last>>

Next == HostApp \/ GuiWorker \/ AudioWorker \/ WorkerDies \/ GuiDies

Spec == Init /\ [][Next]_vars

-----------------------------------------------------------------------------
(* Properties *)

\* What is offered below the toolbar is the active plugin's own, also while
\* updates about another plugin are under way: the list is emptied when the
\* active slot changes, and PresetList follows the RackUpdated it is about.
ListIsOwn == Toolbar => \A entry \in gui.user_presets : entry.path[1] = gui.active_slot

Settled == toWorker = <<>> /\ toGui = <<>> /\ Toolbar /\ gui.active_slot = active

\* Once no message is under way, every preset that can be loaded is offered; an
\* offer that is not there any more is of a file that a failed save emptied.
\* A relaunched GUI is excepted: FullState does not make it ask for the list.
ListComplete ==
  Settled /\ gui.asked =>
    /\ list_user_presets(files, active) \subseteq gui.user_presets
    /\ \A entry \in gui.user_presets \ list_user_presets(files, active) : files[entry.path] = Torn

\* Once no message is under way, the preset named above the list is in the file
\* the running instance was last asked to load or save: an instance started
\* anew, on this slot or another, never goes on under the name of the old one.
NameIsOfInstance ==
  Settled /\ gui.current_preset_name # None =>
    last = PresetPath(active, gui.current_preset_name)
=============================================================================
