---------------------------- MODULE AudioWorker ----------------------------
(***************************************************************************)
(* The audio-worker process: the rack, the plugin that is processing audio *)
(* (gui/backend.rs, HostBackend) and the message loop that serves the      *)
(* GUI's actions (gui/audio_worker.rs, run_audio_loop and handle_action).  *)
(*                                                                         *)
(* One loop iteration is two steps: a command is handled (pc = "command",  *)
(* or the 50 ms read timeout expires), then the backend is polled for a    *)
(* crash of the plugin (pc = "poll").  The audio callback runs on another  *)
(* thread, so the plugin may crash before either step.  The process itself *)
(* may die at any point; the supervisor then starts a new one and sends it *)
(* the supervisor's shadow of the state.                                   *)
(*                                                                         *)
(* Rack indices start at 1 here and at 0 in the code.  A slot carries a    *)
(* ghost identity "id" (the code has none) so that properties can tell     *)
(* which slot an index meant before and after the rack changes.            *)
(***************************************************************************)
EXTENDS Integers, SequencesExt

CONSTANTS
  Plugins,      \* bundle paths; one class each
  Params,       \* parameter ids of every plugin; {} for plugins without any
  Values,       \* normalized parameter values
  DefaultValue, \* a freshly created instance's value of every parameter
  Settings,     \* tone switch and transport, as one value
  InitSettings,
  SlotIds,      \* ghost identities of rack slots
  MaxSlots,     \* bound on the length of the rack
  ScanResults,  \* the sets of plugins a scan may find
  Sessions,     \* the session files on disk: sequences of [plugin, component_state]
  Presets,      \* the preset files on disk: component state blobs
  Isolation,    \* the values SetProcessIsolation is sent with
  Unloads,      \* how destroying an in-process instance may end
  None

ASSUME WorkerAssumption ==
  /\ DefaultValue \in Values
  /\ InitSettings \in Settings
  /\ MaxSlots \in Nat
  /\ ScanResults \subseteq SUBSET Plugins
  /\ Unloads \subseteq {"clean", "crashed", "heapCorrupted"}
  /\ "clean" \in Unloads
  /\ Isolation \subseteq BOOLEAN

Valuations == [Params -> Values]
Defaults   == [p \in Params |-> DefaultValue]

\* A parameter listing (Vec<ParamSnapshot>) and a component state blob have
\* the same shape: whose they are and the values they hold.  None is the
\* empty Vec, which is all a plugin without parameters ever yields.
Listings == [of : Plugins, val : Valuations] \cup {None}
Listing(plugin, val) == IF Params = {} THEN None ELSE [of |-> plugin, val |-> val]

Staged == UNION {[S -> Values] : S \in SUBSET Params}
NoStaged == [p \in {} |-> DefaultValue]

Slots == [id : SlotIds, plugin : Plugins, param_cache : Listings,
          staged_changes : Staged, component_state : Listings]
Indices == 1..MaxSlots

\* A plugin instance that processes audio.  live is what the plugin computes
\* with, shown is the host's registry of parameter values.
Instances == [slot_index : Indices, id : SlotIds, plugin : Plugins,
              live : Valuations, shown : Valuations, crashed : BOOLEAN]

\* None is Option::None, so no index and no instance.
ASSUME NoneAssumption == None \notin Indices /\ None \notin Instances

ASSUME FilesAssumption ==
  /\ Presets \subseteq [of : Plugins, val : Valuations]
  /\ \A s \in Sessions : /\ s \in Seq([plugin : Plugins, component_state : Listings])
                         /\ Len(s) <= MaxSlots

VARIABLES
  \* AudioWorkerState
  plugin_modules, rack, selected_slot, param_snapshots, settings,
  \* HostBackend
  active, sandboxed, process_isolation, tainted_paths, heap_corruption_detected,
  \* What was sent: the supervisor's ShadowState and the GUI's own copies
  shadow, gui,
  pc

workerVars  == <<plugin_modules, rack, selected_slot, param_snapshots, settings>>
instances   == <<active, sandboxed>>
taintVars   == <<tainted_paths, heap_corruption_detected>>
backendVars == <<instances, process_isolation, taintVars>>
viewVars    == <<shadow, gui>>
vars        == <<workerVars, backendVars, viewVars, pc>>

WorkerTypeOK ==
  /\ plugin_modules \subseteq Plugins
  /\ rack \in Seq(Slots) /\ Len(rack) <= MaxSlots
  /\ selected_slot \in Indices \cup {None}
  /\ param_snapshots \in Listings
  /\ settings \in Settings

BackendTypeOK ==
  /\ active \in Instances \cup {None}
  /\ sandboxed \in Instances \cup {None}
  /\ process_isolation \in BOOLEAN
  /\ tainted_paths \subseteq Plugins
  /\ heap_corruption_detected \in BOOLEAN

ViewTypeOK ==
  /\ shadow \in [plugin_modules : SUBSET Plugins, rack : Seq(Slots),
                 selected_slot : Indices \cup {None}, settings : Settings]
  /\ Len(shadow.rack) <= MaxSlots
  /\ gui \in [active_slot : Indices \cup {None}, heap : BOOLEAN]

TypeOK == WorkerTypeOK /\ BackendTypeOK /\ ViewTypeOK /\ pc \in {"command", "poll"}

-----------------------------------------------------------------------------
(* HostBackend *)

is_active == active # None \/ sandboxed # None

\* The instance the getters of HostBackend look at.
Instance == IF sandboxed # None THEN sandboxed ELSE active

active_slot_index == IF active # None THEN active.slot_index
                     ELSE IF sandboxed # None THEN sandboxed.slot_index
                     ELSE None

is_crashed == is_active /\ Instance.crashed

\* The listing of the running plugin's parameters.
active_param_snapshots ==
  IF is_active THEN Listing(Instance.plugin, Instance.shown) ELSE None

\* get_component_state: nothing from a crashed plugin.
get_component_state ==
  IF is_active /\ ~Instance.crashed
  THEN Listing(Instance.plugin, Instance.live) ELSE None

\* Destroying an in-process instance may crash it: its bundle is then tainted.
\* An isolated plugin takes only its own process down.
Tainting(unload) ==
  /\ tainted_paths' = tainted_paths \cup
       (IF active # None /\ unload # "clean" THEN {active.plugin} ELSE {})
  /\ heap_corruption_detected' =
       (heap_corruption_detected \/ (active # None /\ unload = "heapCorrupted"))

\* Mutant: only the in-process instance is taken down.
DeactivateInProcessOnly(unload) ==
  /\ Tainting(unload)
  /\ active' = None
  /\ UNCHANGED sandboxed

deactivate_plugin(unload) ==
  /\ Tainting(unload)
  /\ active' = None
  /\ sandboxed' = None

\* The instance an activation leaves; deactivate_plugin ran before it.
\* Mutant: without that call.
InstallBeside(inst) ==
  IF process_isolation THEN sandboxed' = inst /\ UNCHANGED active
                       ELSE active' = inst /\ UNCHANGED sandboxed

activate_plugin_sandboxed(inst) == sandboxed' = inst /\ active' = None

install(inst) ==
  IF process_isolation THEN activate_plugin_sandboxed(inst)
                       ELSE active' = inst /\ sandboxed' = None

\* The check activate_plugin makes before it deactivates the current plugin.
\* Mutant: the isolation switch is read the wrong way round.
RefusedInIsolation(plugin) == process_isolation /\ plugin \in tainted_paths

Refused(plugin) == ~process_isolation /\ plugin \in tainted_paths

\* A plugin accepts the blobs of its own kind; the host's registry of values
\* is not read again.
WithState(inst, blob) ==
  IF blob # None /\ blob.of = inst.plugin /\ ~inst.crashed
  THEN [inst EXCEPT !.live = blob.val] ELSE inst

\* set_parameter: queued for the processor; only the in-process registry
\* follows, an isolated plugin keeps the listing it was queried for.
WithParameters(inst, isolated, changes) ==
  LET Over(val) == [p \in Params |-> IF p \in DOMAIN changes THEN changes[p] ELSE val[p]]
  IN  [inst EXCEPT !.live = Over(inst.live),
                   !.shown = IF isolated THEN @ ELSE Over(inst.shown)]

-----------------------------------------------------------------------------
(* Messages to the supervisor, which keeps a shadow and relays to the GUI *)

\* Mutant: the rack is copied before the handler changes it.
RackUpdatedEarly ==
  /\ shadow' = [shadow EXCEPT !.rack = rack, !.selected_slot = selected_slot']
  /\ gui' = [gui EXCEPT !.active_slot = active_slot_index']

\* Mutant: the active slot is read before the handler changes it.
RackUpdatedStale ==
  /\ shadow' = [shadow EXCEPT !.rack = rack', !.selected_slot = selected_slot']
  /\ gui' = [gui EXCEPT !.active_slot = active_slot_index]

RackUpdated ==
  /\ shadow' = [shadow EXCEPT !.rack = rack', !.selected_slot = selected_slot']
  /\ gui' = [gui EXCEPT !.active_slot = active_slot_index']

PluginModulesUpdated ==
  /\ shadow' = [shadow EXCEPT !.plugin_modules = plugin_modules']
  /\ UNCHANGED gui

FullState ==
  /\ shadow' = [plugin_modules |-> plugin_modules', rack |-> rack',
                selected_slot |-> selected_slot', settings |-> settings']
  /\ gui' = [active_slot |-> active_slot_index', heap |-> heap_corruption_detected']

-----------------------------------------------------------------------------
Init ==
  /\ plugin_modules = Plugins
  /\ rack = <<>>
  /\ selected_slot = None
  /\ param_snapshots = None
  /\ settings = InitSettings
  /\ active = None
  /\ sandboxed = None
  /\ process_isolation = FALSE
  /\ tainted_paths = {}
  /\ heap_corruption_detected = FALSE
  /\ shadow = [plugin_modules |-> Plugins, rack |-> <<>>,
               selected_slot |-> None, settings |-> InitSettings]
  /\ gui = [active_slot |-> None, heap |-> FALSE]
  /\ pc = "command"

\* Every handled command, and the read timeout, leads to the poll.
Command == pc = "command" /\ pc' = "poll"

\* The read timeout, Ping, device actions, SavePreset, ListPresets, Undo, Redo,
\* and the commands a handler rejects: no state changes.
NoCommand ==
  /\ Command
  /\ UNCHANGED <<workerVars, backendVars, viewVars>>

\* AudioCommand::RequestFullState (the supervisor has a new GUI to fill), and
\* LoadSession of a file that cannot be read.
RequestFullState ==
  /\ Command
  /\ UNCHANGED <<workerVars, backendVars>>
  /\ FullState

\* RemoveFromRack and StageParameter with an index outside the rack.
ReportRack ==
  /\ Command
  /\ UNCHANGED <<workerVars, backendVars>>
  /\ RackUpdated

ScanPlugins ==
  /\ Command
  /\ plugin_modules' \in ScanResults
  /\ UNCHANGED <<rack, selected_slot, param_snapshots, settings, backendVars>>
  /\ PluginModulesUpdated

FreshIds == SlotIds \ ({rack[i].id : i \in DOMAIN rack} \cup
                       (IF is_active THEN {Instance.id} ELSE {}))

NewSlot(id, plugin, state) ==
  [id |-> id, plugin |-> plugin, param_cache |-> None,
   staged_changes |-> NoStaged, component_state |-> state]

AddToRack ==
  /\ Command
  /\ Len(rack) < MaxSlots
  /\ \E plugin \in plugin_modules, id \in FreshIds :
       rack' = Append(rack, NewSlot(id, plugin, None))
  /\ UNCHANGED <<plugin_modules, selected_slot, param_snapshots, settings, backendVars>>
  /\ RackUpdated

\* Mutants: the shift is forgotten; the removed slot's selection is shifted too.
SelectionNotShifted(index) == IF selected_slot = index THEN None ELSE selected_slot
SelectionAlwaysShifted(index) ==
  IF selected_slot # None /\ selected_slot >= index THEN selected_slot - 1 ELSE selected_slot

\* Where the selection points once the slot at index is gone.
SelectionAfterRemove(index) ==
  IF selected_slot = index THEN None
  ELSE IF selected_slot # None /\ selected_slot > index THEN selected_slot - 1
  ELSE selected_slot

RemoveFromRack(index) ==
  /\ Command
  /\ index \in DOMAIN rack
  /\ IF active_slot_index = index
     THEN \E unload \in Unloads : deactivate_plugin(unload)
     ELSE UNCHANGED <<instances, taintVars>>
  /\ rack' = RemoveAt(rack, index)
  /\ selected_slot' = SelectionAfterRemove(index)
  /\ param_snapshots' = IF index \in {active_slot_index, selected_slot}
                        THEN None ELSE param_snapshots
  /\ UNCHANGED <<plugin_modules, settings, process_isolation>>
  /\ RackUpdated

\* ReorderRack: only a selection of the moved slot follows; the running
\* plugin keeps the index it was activated under.
ReorderRack(from, to) ==
  /\ Command
  /\ from \in DOMAIN rack
  /\ to \in 1..(Len(rack) + 1)
  /\ LET clamped == IF to = Len(rack) + 1 THEN Len(rack) ELSE to
     IN  /\ rack' = InsertAt(RemoveAt(rack, from), clamped, rack[from])
         /\ selected_slot' = IF selected_slot = from THEN clamped ELSE selected_slot
  /\ UNCHANGED <<plugin_modules, param_snapshots, settings, backendVars>>
  /\ RackUpdated

\* The GUI's view may be stale, so the index need not be one of the rack's.
SelectSlot(index) ==
  /\ Command
  /\ selected_slot' = index
  /\ param_snapshots' = IF index = None THEN None
                        ELSE IF active_slot_index = index THEN active_param_snapshots
                        ELSE IF index \in DOMAIN rack THEN rack[index].param_cache
                        ELSE None
  /\ UNCHANGED <<plugin_modules, rack, settings, backendVars, viewVars>>

StageParameter(index, param, value) ==
  /\ Command
  /\ index \in DOMAIN rack
  /\ rack' = [rack EXCEPT
       ![index].staged_changes =
          [p \in DOMAIN @ \cup {param} |-> IF p = param THEN value ELSE @[p]],
       ![index].param_cache =
          IF @ = None THEN None ELSE [@ EXCEPT !.val[param] = value]]
  /\ UNCHANGED <<plugin_modules, selected_slot, param_snapshots, settings, backendVars>>
  /\ RackUpdated
-----------------------------------------------------------------------------
(* Activation and deactivation *)

Fresh(slot, index) ==
  [slot_index |-> index, id |-> slot.id, plugin |-> slot.plugin,
   live |-> Defaults, shown |-> Defaults, crashed |-> FALSE]

\* Mutant: the saved state is applied last.
PreparedStateLast(slot, index) ==
  WithState(WithParameters(Fresh(slot, index), process_isolation, slot.staged_changes),
            slot.component_state)

\* What the handler does to a fresh instance, in its order: the slot's saved
\* state, then its staged changes.
Prepared(slot, index) ==
  WithParameters(WithState(Fresh(slot, index), slot.component_state),
                 process_isolation, slot.staged_changes)

ActivateSlot(index) ==
  /\ Command
  /\ index \in DOMAIN rack
  /\ ~Refused(rack[index].plugin)
  /\ \E unload \in Unloads : Tainting(unload)
  /\ LET inst    == Prepared(rack[index], index)
         listing == Listing(inst.plugin, inst.shown)
     IN  /\ install(inst)
         /\ rack' = [rack EXCEPT ![index].staged_changes = NoStaged,
                                 ![index].param_cache = listing]
         /\ param_snapshots' = listing
  /\ selected_slot' = index
  /\ UNCHANGED <<plugin_modules, settings, process_isolation>>
  /\ RackUpdated

\* Loading, configuring or starting the plugin failed: the previous plugin has
\* already been deactivated, and only a status message is sent.
ActivateSlotFails(index) ==
  /\ Command
  /\ index \in DOMAIN rack
  /\ ~Refused(rack[index].plugin)
  /\ \E unload \in Unloads : deactivate_plugin(unload)
  /\ UNCHANGED <<workerVars, process_isolation, viewVars>>

DeactivateSlot ==
  /\ Command
  /\ rack' = IF active_slot_index \in DOMAIN rack
             THEN [rack EXCEPT ![active_slot_index].param_cache = param_snapshots]
             ELSE rack
  /\ \E unload \in Unloads : deactivate_plugin(unload)
  /\ UNCHANGED <<plugin_modules, selected_slot, param_snapshots, settings, process_isolation>>
  /\ shadow' = [shadow EXCEPT !.rack = rack', !.selected_slot = selected_slot']
  /\ gui' = [active_slot |-> active_slot_index',
             heap |-> gui.heap \/ heap_corruption_detected']

SetParameter(param, value) ==
  /\ Command
  /\ is_active
  /\ LET change == [p \in {param} |-> value] IN
       IF sandboxed # None
       THEN /\ sandboxed' = WithParameters(sandboxed, TRUE, change)
            /\ UNCHANGED active
       ELSE /\ active' = WithParameters(active, FALSE, change)
            /\ UNCHANGED sandboxed
  /\ UNCHANGED <<workerVars, process_isolation, taintVars, viewVars>>

\* LoadPreset: the blob goes to whatever runs, and the listing shown becomes
\* the running plugin's.
LoadPreset(preset) ==
  /\ Command
  /\ IF sandboxed # None
     THEN sandboxed' = WithState(sandboxed, preset) /\ UNCHANGED active
     ELSE /\ active' = IF active # None THEN WithState(active, preset) ELSE None
          /\ UNCHANGED sandboxed
  /\ param_snapshots' = active_param_snapshots'
  /\ UNCHANGED <<plugin_modules, rack, selected_slot, settings,
                 process_isolation, taintVars, viewVars>>

\* SaveSession captures the running plugin's state into the selected slot.
SaveSession ==
  /\ Command
  /\ selected_slot \in DOMAIN rack
  /\ get_component_state # None
  /\ rack' = [rack EXCEPT ![selected_slot].component_state = get_component_state]
  /\ UNCHANGED <<plugin_modules, selected_slot, param_snapshots, settings,
                 backendVars, viewVars>>

CapturePluginState(index) ==
  /\ Command
  /\ index \in DOMAIN rack
  /\ rack' = [rack EXCEPT ![index].component_state = get_component_state]
  /\ UNCHANGED <<plugin_modules, selected_slot, param_snapshots, settings,
                 backendVars, viewVars>>

\* A readable session replaces the rack; its slots are new ones.
LoadSession(session) ==
  /\ Command
  /\ \E unload \in Unloads : deactivate_plugin(unload)
  /\ \E ids \in Injection(DOMAIN session, FreshIds) :
       rack' = [i \in DOMAIN session |->
                  NewSlot(ids[i], session[i].plugin, session[i].component_state)]
  /\ settings' \in Settings
  /\ selected_slot' = None
  /\ param_snapshots' = None
  /\ UNCHANGED <<plugin_modules, process_isolation>>
  /\ FullState

\* SetTransport and SetToneEnabled: kept by the worker, reported to nobody.
SetTransport(new) ==
  /\ Command
  /\ settings' = new
  /\ UNCHANGED <<plugin_modules, rack, selected_slot, param_snapshots,
                 backendVars, viewVars>>

SetProcessIsolation(enabled) ==
  /\ Command
  /\ process_isolation' = enabled
  /\ UNCHANGED <<workerVars, instances, taintVars, viewVars>>
-----------------------------------------------------------------------------
(* The rest of the loop, the audio thread and the death of the process *)

\* Steps 3 and 4 of the loop: a crashed plugin is deactivated and reported;
\* otherwise the listing of the selected running plugin is read again.
PollBackend ==
  /\ pc = "poll"
  /\ pc' = "command"
  /\ IF is_crashed
     THEN /\ \E unload \in Unloads : deactivate_plugin(unload)
          /\ UNCHANGED <<workerVars, process_isolation>>
          /\ RackUpdated
     ELSE /\ param_snapshots' =
               IF is_active /\ selected_slot = active_slot_index
               THEN active_param_snapshots ELSE param_snapshots
          /\ UNCHANGED <<plugin_modules, rack, selected_slot, settings,
                         backendVars, viewVars>>

\* The audio callback caught a signal of the plugin (AudioEngine) or lost the
\* plugin's process (PluginProcess).
PluginCrashes ==
  /\ is_active
  /\ ~Instance.crashed
  /\ IF sandboxed # None
     THEN sandboxed' = [sandboxed EXCEPT !.crashed = TRUE] /\ UNCHANGED active
     ELSE active' = [active EXCEPT !.crashed = TRUE] /\ UNCHANGED sandboxed
  /\ UNCHANGED <<workerVars, process_isolation, taintVars, viewVars, pc>>

\* The process dies; a new one starts empty and handles RestoreState with the
\* supervisor's shadow, answering with its full state.
Restart ==
  /\ plugin_modules' = shadow.plugin_modules
  /\ rack' = shadow.rack
  /\ selected_slot' = shadow.selected_slot
  /\ settings' = shadow.settings
  /\ param_snapshots' = None
  /\ active' = None
  /\ sandboxed' = None
  /\ process_isolation' = FALSE
  /\ tainted_paths' = {}
  /\ heap_corruption_detected' = FALSE
  /\ pc' = "poll"
  /\ FullState

RackCommand ==
  \/ AddToRack
  \/ \E index \in Indices : RemoveFromRack(index)
  \/ \E from, to \in 1..(MaxSlots + 1) : ReorderRack(from, to)
  \/ \E index \in Indices \cup {None} : SelectSlot(index)
  \/ \E index \in Indices, param \in Params, value \in Values :
       StageParameter(index, param, value)
  \/ \E session \in Sessions : LoadSession(session)

PluginCommand ==
  \/ \E index \in Indices : ActivateSlot(index)
  \/ \E index \in Indices : ActivateSlotFails(index)
  \/ DeactivateSlot
  \/ \E param \in Params, value \in Values : SetParameter(param, value)
  \/ \E preset \in Presets : LoadPreset(preset)
  \/ SaveSession
  \/ \E index \in Indices : CapturePluginState(index)

OtherCommand ==
  \/ NoCommand
  \/ RequestFullState
  \/ ReportRack
  \/ ScanPlugins
  \/ \E new \in Settings : SetTransport(new)
  \/ \E enabled \in Isolation : SetProcessIsolation(enabled)

\* The worker's own thread.
WorkerLoop == RackCommand \/ PluginCommand \/ OtherCommand \/ PollBackend

Next == WorkerLoop \/ PluginCrashes \/ Restart

\* The loop is one thread that never waits for longer than the read timeout.
Spec == Init /\ [][Next]_vars /\ WF_vars(WorkerLoop)
-----------------------------------------------------------------------------
(* Properties *)

\* The two ways of running a plugin exclude each other: whichever sequence of
\* activations, isolation switches, crashes and restarts there was, at most one
\* plugin drives the output stream (activate_plugin, deactivate_plugin).
OnePluginAtATime == active = None \/ sandboxed = None

\* A bundle that was tainted while it was not loaded is never loaded into this
\* process again (the check of activate_plugin); only a new process may.
TaintedStaysDown ==
  [][\A p \in tainted_paths :
       active' # None /\ active'.plugin = p => active # None /\ active.plugin = p]_vars

\* If the process dies now, the slots, their staged changes and parameter
\* caches that RestoreState brings back are those the user left: every handler
\* that changes them reports the rack (only captured states are not reported).
ShadowRackCurrent ==
  /\ shadow.plugin_modules = plugin_modules
  /\ Len(shadow.rack) = Len(rack)
  /\ \A i \in DOMAIN rack :
       [shadow.rack[i] EXCEPT !.component_state = rack[i].component_state] = rack[i]

\* The GUI decides between SetParameter and StageParameter by the active slot
\* it was told.  Only a failed activation makes it differ from the backend's.
ActiveSlotReported ==
  [][gui.active_slot = active_slot_index /\ gui'.active_slot # active_slot_index'
       => \E index \in Indices : ActivateSlotFails(index)]_vars

SlotAt(slots, id) == {i \in DOMAIN slots : slots[i].id = id}

\* Shrinking the rack keeps the selection on the slot it was on, or clears it
\* when that slot is gone (RemoveFromRack, LoadSession).
SelectionFollowsRemoval ==
  [][Len(rack') < Len(rack) /\ selected_slot \in DOMAIN rack
       => IF SlotAt(rack', rack[selected_slot].id) = {}
          THEN selected_slot' = None
          ELSE SlotAt(rack', rack[selected_slot].id) = {selected_slot'}]_vars

\* A change staged on an inactive slot is never lost while the slot exists: it
\* stays staged, over reordering, crashes and restarts, until the slot's plugin
\* runs and computes with the staged value (ActivateSlot, StageParameter).
StagedChangesReachThePlugin ==
  [][\A i \in DOMAIN rack : \A j \in SlotAt(rack', rack[i].id) :
       \A p \in DOMAIN rack[i].staged_changes \ DOMAIN rack'[j].staged_changes :
         /\ is_active'
         /\ Instance'.id = rack[i].id
         /\ Instance'.live[p] = rack[i].staged_changes[p]]_vars

\* A plugin that crashed in the audio callback is eventually taken down by the
\* loop, whatever commands keep arriving (step 3 of run_audio_loop).
CrashedPluginStopped == is_crashed ~> ~is_crashed
=============================================================================
