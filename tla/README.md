# TLA+ models of rs-vst-host

rs-vst-host is a VST3 plugin host in Rust: a command line, two graphical hosts
(one process, or three supervised ones), an audio engine that runs plugin code
inside signal handlers, and a process per plugin for those that are isolated.
This directory has TLA+ models of its control logic, the TLC configurations that
check them, and proofs for TLAPS.

    tlc -workers 2 -config MCPluginInstance.cfg MCPluginInstance
    tlapm SupervisorProofs.tla

A configuration `MCx.cfg` belongs to module `MCx`; the three of the audio worker
(`Rack`, `Params`, `Live`) belong to `MCAudioWorker`. Each run takes between a
second and two minutes.

## Inventory

Paths are below `src/src/`. `PROJECT.json` lists the components one by one, the
lines each definition stands for, and the hazards with the line where each bites.

### The supervised host (`gui`)

Three processes, connected by two Unix sockets through the supervisor:

      GUI  --GuiAction-->  supervisor  --AudioCommand-->  audio worker
      GUI  <--update-----  supervisor  <--update--------  audio worker
                                                               |
                              in-process plugin (audio thread), or
                              plugin process (socket + shared memory)

| Component | State | Operations | Hard behaviour | What makes it correct | Modules |
|---|---|---|---|---|---|
| supervisor (`gui/supervisor.rs`) | shadow of the rack, two relaunch counts, the children and their sockets | relay both ways, relaunch of either child, initial synchronisation, restore, shutdown | either child dies between any two steps, with messages unread either way; closing against crashing | what the user has seen survives, a closed window stays closed, nothing is left running | Supervisor, RackService |
| audio worker (`gui/audio_worker.rs`) | rack, selection, listing of parameters, transport, module list | 25 actions, full state, restore, crash poll | indices that shift under a running plugin, several copies of one fact, handlers that fail half way | selection names the right slot, staged changes reach the plugin, every change of the rack is reported | AudioWorker, Presets, HostFiles |
| host backend (`gui/backend.rs`) | running plugin (in process or isolated), isolation switch, tainted bundles, heap flag, editor windows | activate, deactivate, parameters, state, crash query, editors | a plugin may crash in the callback or while it is unloaded | one plugin at a time, a tainted bundle stays out, nothing of it is freed too early | AudioWorker, PluginInstance, PluginIpc, AudioEngine |
| GUI process (`gui/gui_worker.rs`) | copies of the rack, selection, active slot, preset list | send actions, apply updates, notice the supervisor's end | acts on a view that lags | comes to show the worker's state; what it offers is the active plugin's | Supervisor, Presets |
| wire protocol (`gui/ipc.rs`) | none | length-prefixed JSON frames | timeouts inside a frame, blocking writes | whole messages in order | Supervisor; frames: PluginIpc |

### The single-process host

| Component | State | Operations | Hard behaviour | What makes it correct | Modules |
|---|---|---|---|---|---|
| host (`gui/app.rs`) | rack, selection, listing, transport, status | every user action with its record, a frame's refresh, crash poll and transport sync, sessions, presets | undo against sessions, crashes, merging and the sync of the transport | undo leads back along the edits, redo forth again | HostApp, Presets, HostFiles |
| undo history (`gui/undo.rs`) | two stacks | push, undo, redo | merging by time, the depth limit | no entry is lost but the oldest | UndoStack |
| session files (`gui/session.rs`) | one file | capture, restore, save, load | saved states that must come back with their slot | a slot's state is its own | HostApp, AudioWorker |
| routing editor, theme (`gui/routing.rs`, `gui/theme.rs`) | canvas | drawing, mouse | none of control | | not modelled |

### Isolated plugins (`ipc`)

| Component | State | Operations | Hard behaviour | What makes it correct | Modules |
|---|---|---|---|---|---|
| proxy (`ipc/proxy.rs`) | crash and shutdown flags, pending changes | spawn, process, state, shutdown | two threads share one socket; answers after the timeout; a worker that hangs | each answer is of its own request, changes reach the worker once and in order, no process outlives its owner | PluginIpc, PluginService |
| worker (`ipc/worker.rs`) | the plugin and its stage, the queues of a block | one handler per request | crash in a handler, death of the process, more changes in a block than its queues hold | errors are reported, crashes noticed, only a limit keeps a change from the plugin | PluginIpc |
| messages (`ipc/messages.rs`) | none | frames | a frame cut in two by a timeout | one answer per request | PluginIpc |
| shared memory (`ipc/shm.rs`) | a named object, its ready flag | create, open, unlink | what a killed worker leaves behind | the host maps and plays its own worker's | PluginIpc |

### Plugins in process (`vst3`, `audio`, `midi`)

| Component | State | Operations | Hard behaviour | What makes it correct | Modules |
|---|---|---|---|---|---|
| instance (`vst3/instance.rs`), module (`vst3/module.rs`), context, handler and frame (`vst3/host_context.rs`, `vst3/component_handler.rs`, `vst3/plug_frame.rs`) | COM references, host objects, the component's state | creation, setup, processing, state, teardown | each of some fifty calls may be refused or crash; pointers both ways | the VST3 lifecycle, no use after unloading, no leak without a crash | PluginInstance, Vst3Lifecycle |
| editor windows (`gui/editor.rs`) | view, native window | open, resize, close | crash in any step, three platforms | no window of a dead plugin | PluginInstance |
| sandbox (`vst3/sandbox.rs`) | handler count, saved handlers | install, recover, restore | threads enter and leave together | a crash inside is caught | Sandbox |
| engine (`audio/engine.rs`), parameters and events of a block (`vst3/params.rs`, `vst3/param_changes.rs`, `vst3/event_list.rs`, `vst3/process.rs`), MIDI (`midi`) | pending changes, receiver, buffers of fixed size | a block, its inputs from two threads | mutexes only tried, limits of a block | controller and processor agree, no note hangs, nothing stale is played | AudioEngine |
| graph (`audio/graph.rs`, `audio/graph_engine.rs`) | nodes, edges, cached order | editing, processing | cycles, a cache that outlives an edit | every connection is heard | AudioGraph |

### Files and the command line

| Component | State | Operations | Hard behaviour | What makes it correct | Modules |
|---|---|---|---|---|---|
| configuration, cache, scanner (`app/config.rs`, `vst3/cache.rs`, `vst3/scanner.rs`, `app/commands.rs`) | two files | scan, scan-paths, list | several processes, killed while writing, paths spelled in several ways | what was added is kept, a wreck is not taken for empty | HostFiles |
| presets (`vst3/presets.rs`) | a directory per plugin | save, list, load, step | lists and names that lag behind the plugin | what is shown is the active plugin's | Presets |
| shell (`app/interactive.rs`) | none | set, process, quit | against the audio thread | as for the engine | AudioEngine, PluginInstance |

The rest is listed under "Not modelled".

## Modules

    AudioWorker <- AudioWorkerProofs      RackService
                                               ^ refined by Supervisor <- SupervisorProofs
                                          PluginService
                                               ^ refined by PluginIpc <- PluginIpcProofs
    AudioEngine <- AudioEngineProofs      Vst3Lifecycle
    AudioGraph  <- AudioGraphProofs            ^ refined by PluginInstance <- PluginInstanceProofs
    Presets     <- FilesProofs            Sandbox
    HostFiles   <- FilesProofs            UndoStack <- HostApp <- HostAppProofs

`MCx` modules hold model values, symmetry and constant definitions for TLC.
Operators marked "Mutant" in a module are faulty versions of a definition of the
module; no specification uses them, and each makes a property fail when it takes
the definition's place.

### AudioWorker

The audio worker's message loop and the host backend. One turn of
`run_audio_loop` is two steps: a command (`pc = "command"`), then the crash poll
and refresh of the listing (`pc = "poll"`). `PluginCrashes` is the audio thread
and may come before either. `Restart` is the death of the process followed by
`RestoreState` in a new one; it takes the supervisor's shadow, which in this
module is always up to date with what was sent (module Supervisor has the lag).

| Model | Code |
|---|---|
| `rack`, `selected_slot`, `param_snapshots`, `plugin_modules`, `settings` | `AudioWorkerState` |
| `active`, `sandboxed`, `process_isolation`, `tainted_paths`, `heap_corruption_detected` | `HostBackend` |
| `shadow` | `ShadowState` of the supervisor |
| `gui` | the two fields of the GUI that only messages can tell it |
| one action per `GuiAction` that changes state, `NoCommand` for the others | arms of `handle_action` |
| `PollBackend` | steps 3 and 4 of `run_audio_loop` |

A parameter listing and a component state are the plugin they belong to and a
value for each parameter. The state of an instance is what it computes with
(`live`) and what the host's registry says (`shown`): the two differ in the code
because `set_component_state` does not read the values again. The component and
the controller state of a slot are one blob. Tone and transport are one value,
`settings`. Slots have a ghost identity `id`, used only by properties, because
the code has nothing that tells slots apart. Indices start at 1. How unloading
ends (cleanly, in a crash, in a crash with heap corruption) is a choice from
`Unloads`. The shadow starts filled, as it is after the first full state. Left
out: devices, editor windows, status texts, a poisoned mutex.

### Supervisor

The three processes. `spc` is the supervisor's place: the launch of the GUI, the
initial synchronisation, the four steps of the relay loop, the restart of the
worker in two parts, and the ends. The GUI and the worker are their message
loops only; what a command does to the rack is reduced to adding the user's
edit, so that an edit that was lost can be told. The two sockets are four FIFO
channels. What a dead process had written can still be read, what was sent to it
is gone; a relaunch starts with empty channels. `GuiCrashes`, `AudioCrashes` and
`SupervisorDies` may come at any time.

No clock: a read with a timeout finds a message or does not, the window of the
restart limit has passed or not, a child connects in time or not. A message is
read whole. Sockets are not bounded. A process that lives on after its socket
closed is not modelled (`check_gui_exit` kills it after a second).

RackService is what the user may rely on, without processes or messages: a window that
is open never goes back to an older rack, an edit it shows is never lost, nothing is in
the rack that was not asked for, and a closed window is not opened again. A worker that
is started anew may lack every edit that was not saved. In `KeepsRack` the abstract state
is computed from the concrete one:

| RackService | Supervisor |
|---|---|
| `asked` | the edits the user has made (`Edits \ undone`) |
| `rack` | `ReportedRack`: the rack in the last unread report of the worker, dead or alive, or the shadow when every report was read |
| `saved`, `shown` | `shadow`, `gui.rack` |
| `window`, `worker` | whether the processes are up, and whether the window was closed |

An edit is thus done when the worker has reported it, and what a death can take is
exactly what sits in the reports that the supervisor drops with the worker's socket.

### PluginService, PluginIpc

PluginIpc is one isolated plugin from spawn to the end of its process. `main` is
the main thread: a state of `PluginProcess::spawn`, the request it makes or waits
for, or idle. The audio callback is the other caller; `call` is the mutex around
the proxy and the request under way. `requests` and `responses` are the two
directions of the socket; a response may be partly written (`whole`), and a host
that gave up inside one starts its next read there (`garbled`). `worker` is the
process, the stage of its plugin and the crash flag of its instance; `busy` the
request it handles. `pending`, `handed` and `refused` follow each parameter change,
by number, from the host's list to the queues of the plugin (`ids` has its
parameter). `AddChanges` is the worker's loop over `HostParameterChanges::add_change`,
whose result it does not look at: of one block's changes the first `MaxPoints` of a
parameter (16 in the code) and the first `MaxQueues` parameters (64) are taken, and
the others are lost to the plugin, though it runs and the host's list had them.
`refused` holds those, each with the first change of its block. `segment`, `mapped`, `ready` and
`played` are the shared memory: whose object has the name, whether the host has
it mapped, whether its output is that of the block asked for last, and what the
device was given.

`Receive`, `TimeOut`, `ReadGarbled` and `Closed` are the ends of `send_receive`.
A read that starts inside a frame takes any bytes for a length: it fails, having
skipped any number of whole frames. `Handle` has an action per handler of the
worker, each with its error and its crash; that a handler takes any time, or
never returns, is that `Handle` has no fairness. Parameter values, the content of
states, samples and channels are left out.

PluginService is what the protocol promises: one call at a time, requests
answered in order and at most once, an answer that is taken by whichever call is
waiting. `ImplementsService` maps `owed` to the answers on the socket followed by
the requests not answered.

### UndoStack, HostApp

UndoStack has the two stacks with merging and the depth limit; the 500 ms window
is the flag `fresh`, which `WindowEnds` clears for all entries made so far.
HostApp is the one-process host: `NextFrame` is what `HostApp::update` does before
input (refresh, crash poll, transport sync), and every kind of input is an
action. `rack`, `active`, `selected`, `shown`, `tempo`, `prev_tempo` are the
fields of that name (`shown` is `param_snapshots`); `edit` is what the plugin's
own editor has reported; `session` is the session file. One parameter per
plugin; the tempo stands for the time signature, which goes the same way; a
slot's saved component and controller state are one flag. `EditApplied` is
written once, on sequences of anything, for the rack and for the properties,
which run the stacks over the rack's content. Left out: bypass, devices, routing,
panels, and files that cannot be read or written (only a status text changes).

### AudioGraph

Nodes, edges (as pairs of nodes), the cached order and every operation of
`audio/graph.rs`. `has_cycle` is the depth-first search, a step (`Searched`) per call
or return, with the stack of the calls as a path. `compute_topological_order` is
Kahn's algorithm over any iteration order of the hash maps, so that `Orders` is the
set of orders it may return. `process_graph` is the pass of `audio/graph_engine.rs`
along an order, a turn per node: a signal is the set of terms that are added up, each
with the node that made it, what the node did and the signal it was given. Bypassed
or crashed plugins pass their input through. The three loops are recursive functions.

### Vst3Lifecycle, PluginInstance

PluginInstance has the main thread's place `pc`, which is the COM call or system
call made next, from `load` to `unload`, with the editor's and the state's calls
in between; `Following` and its siblings give the order of `Vst3Instance::create`,
`setup`, `shutdown` and `drop`. Each call may succeed, be refused or crash, as
far as the code can tell these apart. `refs` are the COM references the host
holds, `owned` the host's objects, `known` those the plugin has a pointer to;
`phase` is the component's state. `stream`, `engine` and `callback` are the audio
thread: it tries the engine's mutex, and its block is two steps.
`broke` is ghost state: has code of the bundle crashed. Both programs that run a
plugin in process are there: the backend, again and again, and the run command
once. The three platforms differ in the editor only.

Vst3Lifecycle is the abstract contract of a component: its phases, that no call
overlaps a block, and that only a crashed one is abandoned.

### Sandbox

`sandbox_call` on several threads, a step per access to `HANDLER_REFCOUNT`,
`SAVED_HANDLERS` and the process's handlers. A nested call is part of the outer
one.

### AudioEngine

A block is three steps of the audio thread: it empties the MIDI receiver, empties
the pending changes, and calls the plugin; the MIDI thread and the control thread
(the GUI or the shell) run between them and may hold a mutex when it is tried.
All four limits are constants. `controller` and `processor` are the plugin's two
halves. The buffer is counted in frames: which of them hold what the plugin wrote
in this block, what an earlier one left, or silence. `apart` and `missed` name the
parameters and keys that the properties except, each entered where the code says
so: a change beyond a limit, a controller that refuses, a preset, an edit in the
plugin's window; a note dropped at a limit. The two loops that fill the block's
queues and events are recursive functions, one application of their step
(`WithChange`, `WithMessage`) per element. Left out: channels, the test tone,
the transport's content, controllers and pitch bend, the delay within a block.

### Presets

Files per plugin (`files`), which a crash may leave torn; the toolbar's state in
the GUI; the instance in the worker, with the preset it was last given; two
channels of at most `MaxQueue` messages with deaths of both processes. The same
module has the one-process host (`host = "process"`), where a click runs through.
The rack is fixed: its edits are in AudioWorker. A file is the name in it.

### HostFiles

The two files shared by all processes (`store`), the directories that exist, and
what each process does: `task` is its command and step. `fs::write` is two steps,
`open` (the file is empty) and `write`. A directory may be spelled in several ways
and is canonicalized while it exists. `kept` is ghost state: what the user has
added and not removed. Left out: the fields of the cache but the bundles, JSON,
the listings printed. Its specification is `FilesSpec`, and the like, so that one
module can hold the proofs about it and about Presets.

## What the runs check

| Run | Bounds | Why enough |
|---|---|---|
| rack | 2 plugins, 3 slots of 4 identities, no parameters | a slot before, at and behind the one removed or moved; an identity to replace a slot whose plugin still runs |
| params | 1 plugin, 2 slots, 1 parameter of 2 values, 1 session | two slots of one plugin are the case in which a value goes to the wrong one |
| live | 1 slot, both kinds of activation | one plugin has to be taken down |
| supervisor | 1 edit, limit of 2 relaunches, 3 crashes | a crash in the recovery from a crash in a recovery, and both limits |
| ipc | 2 changes of 2 parameters, 1 queue of 1 point, 1 state request, any number of blocks | two changes can be swapped, pass either limit in one block or neither in two; a late answer needs one failed call |
| app | 2 plugins, rack of 3, 5 inputs, history of 2, 2 tempos, 2 values | the third entry evicts; moves have a direction; undo and redo are not counted |
| graph | 5 nodes (Input, Output and 3), 4 connections | every shape of cycle up to five nodes but for those the ends exclude; a node beside a chain of two |
| engine | 2 bundles, 2 handles each, macOS and Windows | a crash of one plugin met by the other; Linux checks `setFrame` like the one and shows windows like the other |
| blocks | 2 parameters and 2 keys, 1 queue, 2 points, 2 events, receiver of 3, blocks of 2 frames asked for 3 | each limit is below what the threads can offer |
| presets | 2 plugins, 2 names, 2 messages each way | the other plugin's list, the other name; a message overtaken by one more |
| files | 2 processes, 3 directories and an alias, one bundle that cannot be loaded | an update against any other command; more processes in the proofs |
| sandbox | 2 threads | the main and the audio thread |

Symmetry is used for plugins, slots, keys, parameters and processes, in runs that
check no liveness. Deadlock is not checked where the program ends or waits for its
user.

What they show:

* **rack**: `OnePluginAtATime`, `TaintedStaysDown` (no step loads a bundle tainted
  before it), `ActiveSlotReported` (only a failed activation makes the GUI's active
  slot differ from the backend's), `SelectionFollowsRemoval`.
* **params**: `TypeOK`; `ShadowRackCurrent` (slots, staged changes and caches in the
  shadow are the worker's); `StagedChangesReachThePlugin` (a staged change stays
  staged until its slot's plugin runs with the value).
* **live**: `CrashedPluginStopped`.
* **supervisor**: `TypeOK`, which has the relaunch limits; `SeenEditsSurvive` (what the
  GUI has shown is in the shadow and in the worker or on its way there);
  `ShadowLagsByUpdates` (the last rack among the unread updates, or the shadow if
  there is none, is the worker's); `KeepsRack`, which is the refinement of RackService
  and implies that a closed window stays closed (`CloseIsFinal`); `GuiCatchesUp`,
  `CloseEndsAll`, `SupervisorLossNoticed` as liveness.
* **ipc**: `ImplementsService`, under any timing of timeouts. As long as no call has
  failed it follows that every answer is its own request's; afterwards answers may
  be one behind, and still: `ChangesInOrder` (while the worker runs no change is lost,
  doubled or overtaken on its way to the queues of a block, and the plugin gets all of
  them but those beyond a limit of their own block; so a change can be lost to a
  running plugin, and it is the newest: in the code it takes more than 16 changes of
  one parameter, or changes of more than 64, between two blocks), `SharedMemoryIsOwn` (no segment of a dead worker
  is mapped, none is left by a worker that ends by itself, and up to the first
  failure the device plays the block it asked for), `NoOrphan`, `SpawnEnds`,
  `CrashNoticed` as liveness.
* **app**: `UndoLeadsBack`, `RedoLeadsForth`: running the stacks over the rack's
  content (which plugins, with which saved states) leads to where the kept history
  begins, or to where the user's last action led. A session loaded over entries is
  excepted: the code keeps the history and applies it to another rack.
* **graph**: `Acyclic`; `DeviceGetsTheGraph` (along any order that is cached, the
  device gets what a recursive definition over the edges says); `InsertKeepsChain`.
* **engine**: `CodeMapped`, `HostObjectsOutlive`, `NothingLeaks`, `LeakIsTainted`;
  `FollowsLifecycle`, the refinement of Vst3Lifecycle; `DeactivationEnds`, liveness.
  Two exceptions are in `HostObjectsOutlive`, with their reason beside it.
* **blocks**: `HalvesAgree`, `NoNoteHangs` (both speak of what will be once what is
  under way is delivered, so that they hold in every state), `NothingStalePlayed`.
* **presets**: `ListIsOwn` at all times; `ListComplete` and `NameIsOfInstance` once no
  message is under way.
* **files**: `ScanPathsKept`, `UnreadableConfigKept`.
* **sandbox**, which finds a violation: `CrashesAreCaught`. `sandbox.rs` takes the count
  to zero and restores the handlers in two steps; a thread that enters between them
  finds a count of zero, installs again, and the first thread then restores the
  system's handlers under it. The comment at `vst3/sandbox.rs:214-216` says that the
  handlers are installed whenever the count is above zero.

Every property of a passing run has a mutant of the code that it finds.

### Divergences met while modelling

What the code does against what a comment or document says, beside the sandbox. The
properties are worded so that these do not make them vacuous, and each is at its
line in the hazards:

* `backend.rs:274` looks a bundle up in `tainted_paths` before the running plugin is
  unloaded, which may taint it (two slots of one bundle).
* `audio_worker.rs:468`: removing or moving slots does not move the running plugin's
  index, against `backend.rs:131`.
* `audio_worker.rs:614`: heap corruption is reported by one of the five handlers that
  unload. `:917`: a preset's values are not listed again. `:579`: deactivation caches
  the listing of the selected slot. `:942`: SavePreset names the plugin the GUI
  showed and saves the one that runs.
* `app.rs:531`: edits in the plugin's own window are put into the listing and
  replaced in the same frame, against `docs/USER_GUIDE.md:439`. `app.rs:546`: an undone
  tempo is recorded as a new action by the next sync, which ends the redo history.
* `app.rs:613`: the one-process host saves the states that came with a session and
  never asks the running plugin, nor applies them on activation, against
  `docs/USER_GUIDE.md:462`.
* `module.rs:250` says the library is leaked after a crash in the teardown; the early
  return still drops the field that owns it.
* A loaded preset's `plugin_cid` is not compared; a failed load or save leaves the
  name shown before; a relaunched GUI does not ask for the preset list.
* Two `scan-paths` commands at once lose an update; a directory spelled by another
  path while it is missing is added twice; a scan that finds nothing leaves the old
  cache (`commands.rs:59`), and a GUI scan ignores the configured paths.
* Answers of an isolated plugin stay out of step after a timeout; the ready flag of
  the shared memory is written and never read, against `shm.rs:65`.

### Fairness

* AudioWorker: weak fairness of `WorkerLoop`. The loop is one thread whose only wait
  is a read with a 50 ms timeout (`NoCommand` is that timeout); nothing is assumed of
  the audio thread or of restarts.
* Supervisor: weak fairness of each process's own steps. Every read in the three
  loops has a timeout, and the waits for a child (`WaitAudio`, `WaitGui`) are enabled
  only when the child is gone. The user's actions and crashes are not fair. Writes
  that block on a full socket would break this; see the hazards.
* PluginIpc: weak fairness of the host's main thread, of the audio callback, of the
  ends of a call (each read has a timeout) and of the worker's loop. None of `Handle`
  (a plugin may hang), `Die` and `User`.
* PluginInstance: weak fairness of the main thread, and of the end of a block, so
  that a plugin returns from `process`; none of the device's callbacks, the user or
  the plugin's crashes. The audio thread only tries the mutex, and the main thread
  blocks on it, which weak fairness covers because the callback releases it and the
  stream is stopped first.
* The other modules state safety only and have no fairness.

## What is proved

For all values of the constants that satisfy the modules' assumptions.

**AudioWorkerProofs** (`TypeCorrect`, `OnePlugin`, `TaintedNotReloaded`,
`ShadowFitToRestore`, `ActiveSlotTold`, `SelectionKept`, `StagedChangesArrive`): the type
invariant, and `OnePluginAtATime`, `TaintedStaysDown`, `ShadowRackCurrent`,
`ActiveSlotReported`, `SelectionFollowsRemoval`, `StagedChangesReachThePlugin`, which is
every safety property of the three runs. `TypeOK` is inductive as
it stands: it bounds the shadow as it bounds the rack, so that a restart from the
shadow keeps it. `InstanceStep` is the lemma in the centre: every step keeps the two
instances, stops both, or installs one that passed the check of `activate_plugin`.
`ShadowStep` and `MessageTellsActiveSlot` say the same of messages: every step leaves
the rack as it is or reports it, and every report has the backend's active slot. The last
two theorems need that no slot is in the rack twice (`SlotsDistinct`, which for a restart
rests on `ShadowRackCurrent`). Removing and moving slots are shown to select each slot of
the old rack at most once (`RemovalSelects`, `MoveSelects`, from what `RemoveAt` and
`InsertAt` put at each position); `RackStep` then says that every step but an activation
carries the staged changes along (`Carried`), and `PreparedComputes` that the instance an
activation installs computes with them whatever state is applied before. The assumption
that `None` is no index and no instance stands for the type of `Option`.

**SupervisorProofs** (`SupervisorTypeCorrect`, `EditsSurvive`, `ShadowLags`,
`ClosedStaysClosed`, `RackIsServed`, `SeenForGood`): for every set of edits, limit of relaunches and number of
crashes. `TypeOK` needs `PlaceInv`: the count of relaunches is bounded because it is
checked at the place "spawn" only, and every place that can lead back there is entered
below the limit; the same invariant says that "spawn" follows a crash, which gives
`ClosedStaysClosed`. The two statements about racks say nothing of the channels and
are not inductive. `RackInv` orders the racks that are in flight: from the GUI towards
the worker they only grow, a restore is the first thing a new worker reads and carries
the shadow before anything was reported, and the update that
`try_restart_audio_worker` forwards without caching has the rack of the shadow. One
lemma per kind of step keeps it: an update taken (`TakenKeeps`), one sent on
(`ViewsKept`), a report (`Reported`), a command that is no restore (`CommandKeeps`).
The refinement `KeepsRack` needs three facts more: the last report is found from the
channel's positions (`ReportedIs`), a read leaves it what it is also when the report it
takes was the last (`ReadingReportsNothing`), and a message sent replaces it only when it
has a rack (`ReportIsLast`); `EditsInv` says that every edit
in a message is one the user made; `ShownInv` that the racks under way to the window
grow, from what it shows on. With these there is one lemma per group of actions
(`RelayServes`, `RelaunchServes`, `WorkerServes`, `WindowServes`). `SeenForGood` follows from
RackService alone: what is shown is saved, and what is saved stays.

**PluginIpcProofs** (`TypeCorrect`, `ServiceInStep`, `ServiceImplemented`, `AnswersOwn`,
`ChangesKeepOrder`, `MemoryIsOwn`): for any number of changes and requests, the types, the refinement
`ImplementsService`, `ChangesInOrder` (for any limits of a block) and `SharedMemoryIsOwn`. What a step does to the
socket is stated of sequences first: `Queue` is the requests not answered, the one that is
handled in front, and `Owes` the kinds of the answers and requests that the service owes;
a step of the worker moves the boundary between the two, a read drops any number of whole
frames from the front. The refinement has one lemma per group of actions and needs the
types only. Of the service itself it is shown that as long as no call has failed every
answer is its own request's (`AnswersAreOwn`, from the invariant that nothing is owed but
the call under way), so that the calls of PluginIpc have that too (`AnswersOwn`). The
inductive invariant adds `SegmentKnown` (where the segment of this or of a
dead worker may exist), `InStep` (before the first failure at most the call under way is
on the socket), `OnlyBlocksCarry` (no other request has changes), `ChangesStand`, which
is the order of the changes in the queue, and `RefusedStand`: what was refused was at a
limit, and came before everything still to be handed, so that no later block and no
later refusal changes that. A block's changes are consecutive numbers by
`ChangesStand`, from which those before a refused one are known (`RefusedOfBlock`).

**PluginInstanceProofs** (`TypeCorrect`, `LibraryStaysOpen`, `PointersLive`,
`TeardownIsComplete`, `LeaksAreTainted`, `ImplementsLifecycle`): for any bundles, handles
and platforms, every safety property of the run: `CodeMapped`, `HostObjectsOutlive`,
`NothingLeaks`, `LeakIsTainted` and the refinement `FollowsLifecycle`. The invariant says
for each place of the main thread what is true there: `ModuleHeld` (a module in hand has
its library open, without one there are no references), `ReleasedSoFar` (what the teardown
has released, and what it recorded as a crash otherwise), `PointersAreLive` (which host
objects the plugin knows, up to the first crash), `PhaseKept` (the component's phase and
the flags the instance keeps of it), `EngineHeld` (the mutex, the callback and the stream
agree), `CrashIsKnown` and `WindowPlaced`. For the refinement each step either returns to
the component at most with a crash, makes one move of the lifecycle with no block under
way, or enters or leaves a call or block.

**FilesProofs, of Presets** (`TypeCorrect`, `OwnPresetsOffered`, `AllPresetsOffered`,
`NameShownIsApplied`): for any rack, names and lengths of the queues, `ListIsOwn`,
`ListComplete` and `NameIsOfInstance`. The last two speak of states with nothing under
way, so that the invariant has to say what the queues will lead to: `ToldAll` (a snapshot
or listing under way comes after the update that tells the GUI of its slot),
`SavesListed` (a save is followed by a listing), `ActivationsListed` (the slot shown is
not activated again behind the GUI's back), `ListStands` (the GUI has the list of the
files, will be sent it or has asked for it) and `NamesStand` (the preset named was applied
last, or will be).

**FilesProofs, of HostFiles** (`FilesTypeCorrect`, `ScanPathsAreKept`, `WreckIsKept`): for any number of
processes, directories and spellings. `FilesInv` is the type invariant with `TasksInv`: a
process that updates the configuration does nothing else and alone writes that file.
`KeptInv` follows an update through its steps, as long as `kept` is known: at most one is
under way, the file has what was kept unless it is being written, and what will be
written is what will be kept. `UpdateMeansKept` is the step from the code's set
operations on spellings to the user's directories.

**AudioEngineProofs** (`TypeCorrect`, `HalvesStayTogether`, `NotesFollowKeys`,
`OutputIsFresh`): for any number of parameters and keys, any limits and blocks of any
length, `HalvesAgree`, `NoNoteHangs` and `NothingStalePlayed`. Beside the types the
invariant has `Clean` (a block that the plugin will be called for starts as silence),
`ShellFirst` (what the shell has set is what it queues next), `Agrees` (the halves agree
until the first of them is told of a change) and `MidiIsNews` (the message under way is of
the key as it is). The loops of the block are recursive functions over the lists, and what
they compute is proved for lists of any length: `Smallest` gives, from the library's
theorem that `<` on the naturals is well founded, the smallest place where a claim fails,
and the step from the place before contradicts it. That way it is shown that the function
chosen exists, that the limits of the block hold, and that the last element about a key or
parameter decides.

**HostAppProofs** (`TypeCorrect`, `UndoLeads`, `RedoLeads`): for any plugins, values and
tempos, any length of the rack and any depth of the history, the types with `DepthBound`
(the two stacks together stay within the depth, though only `push` looks at it),
`UndoLeadsBack` and `RedoLeadsForth`. The invariant is that a chain of contents exists
(`Chained`), from `history.base` over the rack's content to `history.tip`, along which
every entry leads one step forth and, undone, one step back (`Edge`). Every step of the
host is of one of six kinds for it (`NextStep`): the content and the history stay, the
entries grow older, an entry is recorded, undone or redone, a session is loaded. Under this
are lemmas about sequences: an edit of the rack is the same edit of its content
(`CaptureEdit`), and an append, a removal and a move are taken back by what the code does
(`AddTakenBack`, `RemovalTakenBack`, `MoveTakenBack`). Entries are those the host makes
(`Actions`), each with what its kind needs; that they are is part of the invariant.

**AudioGraphProofs** (`CycleFound`, `OrdersComputed`, `TypeCorrect`, `NoCycleEver`,
`AlwaysOrdered`, `DeviceIsRight`, `ChainIsKept`): for graphs of any size and any kinds of
nodes, the types, `Acyclic`, `DeviceGetsTheGraph` and `InsertKeepsChain`. The algorithms
come first, for any finite graph. The search: the path is a path, a node that was
visited and left has its successors left before it, so that an end without a cycle gives
every set of nodes a member without predecessor in it; each node is entered and left once,
so that the steps allowed are enough (`CycleFound`). Kahn's algorithm: the nodes in the
order, those in the queue and those with predecessors to come share out the nodes, and
while nodes are left without a cycle one of them is in the queue (`OrdersComputed`). The
pass: along such an order the buffer of a node whose turn was has the signal that the
equations give it, and these have one solution only, since two would differ first at some
place of the order (`BlockIsSignal`). The inductive invariant `GraphInv` has the types,
one Input and one Output, `Acyclic`, and that what is cached is an order. The chain that
`rebuild_serial_chain` makes and the node that `insert_in_chain` puts between its
neighbours close no cycle, though the code looks only at the last edge of the latter.
For `InsertKeepsChain`: in a serial chain every node but the ends has one edge in and one
out, so that it has one order, each node following its predecessor; the operation's
neighbours are then next to each other, and the new chain has the old order with the node
between them.

Only model-checked:

* Liveness, which the prover cannot do under fairness (it needs `ENABLED`):
  `CrashedPluginStopped`, `GuiCatchesUp`, `CloseEndsAll`, `SupervisorLossNoticed`,
  `NoOrphan`, `SpawnEnds`, `CrashNoticed`, `DeactivationEnds`.

Every invariant and action property of a passing run is proved, and so is the type
invariant of each module with theorems; only two runs check that one too. Sandbox is a
refutation and has no theorem.

## Not modelled

* Theme, routing canvas and the panels of both GUIs: drawing, and mouse handling whose
  only effect on the host are the actions that are modelled.
* `audio/delay_line.rs`, `audio/perf.rs` and latency: latency is displayed, the delay
  lines and counters are read by no other code. `UndoableAction::inverse`,
  `set_bus_arrangements_with_fallback` and `write_input_tone` are called by tests only.
* `audio/device.rs` and the ports of `midi/device.rs`: enumeration by libraries.
* Encodings (JSON, base64, UTF-16), `vst3/ibstream.rs` and `vst3/types.rs`: conversions
  and records without control beyond the bounds of one call.
* Objective-C and X11 calls of the editor, signal frames of the sandbox,
  `diagnostics.rs`: platform code; their outcomes are choices in the models.
* Argument parsing, listings and log texts. Poisoned mutexes: a thread that panics with
  a lock held. The clock, beyond "has the time passed or not".

## Plan

Done: all components above but for what is left out in their sections.

Left, in this order:

1. Bounded sockets between the three processes of the supervised host, with writes that
   block.
