---------------------------- MODULE PluginInstance ----------------------------
(***************************************************************************)
(* The life of a plugin inside the host's process, one COM call at a time: *)
(* module and instance (vst3/module.rs, vst3/instance.rs), the engine      *)
(* behind its mutex (audio/engine.rs), the editor window (gui/editor.rs),  *)
(* and what activates and deactivates them: the host's backend, whenever   *)
(* the user asks (gui/backend.rs), or the run command, once                *)
(* (app/commands.rs).  Two threads run: the main thread, whose place is    *)
(* pc, and the device's audio callback.                                    *)
(*                                                                         *)
(* The plugin may refuse any call or crash in it.  A crash in a sandboxed  *)
(* call is caught by the outermost sandbox of the thread; one outside any  *)
(* sandbox ends the process, and the behaviour with it.                    *)
(***************************************************************************)
EXTENDS Naturals

CONSTANTS
  Bundles,    \* the plugin bundles
  None,       \* no bundle
  Platforms,  \* the systems the host is built for
  MaxHandles  \* bound on the handles on one library

ASSUME PluginInstanceAssumption ==
  None \notin Bundles /\ MaxHandles \in Nat /\ Platforms \subseteq {"macos", "linux", "windows"}

VARIABLES
  program,       \* the backend, or how far the run command is
  platform,      \* the system it is built for
  pc,            \* the main thread: idle, or the call it makes next
  after,         \* the bundle it activates once the running one is down
  deactivating,  \* is the teardown a deactivation, and not a failed activation
  bundle,        \* the bundle of the module in hand
  refs,          \* the COM references held on objects of the bundle
  owned,         \* the host objects made for it and not destroyed
  known,         \* the host objects its objects have a pointer to
  phase,         \* the component's own state
  broke,         \* has the bundle's code crashed since it was loaded
  instance,      \* Vst3Instance.active, processing, crashed, owns_separate_controller
  editor,        \* the editor's native window, and is it in HostBackend.editor_windows
  resize,        \* HostPlugFrame.pending_resize
  stream,        \* does the device call back
  engine,        \* AudioEngine.is_shutdown, shutdown_requested, and who has the mutex
  callback,      \* the audio thread
  handles,       \* open handles on each library
  tainted,       \* HostBackend.tainted_paths
  drop_crashed   \* LAST_DROP_CRASHED and DEACTIVATION_CRASHED

objectVars  == <<bundle, refs, owned, known, phase>>
audioVars   == <<stream, engine, callback>>
processVars == <<handles, tainted, drop_crashed>>
taskVars    == <<program, platform, after, deactivating>>
editorVars  == <<editor, resize>>
vars == <<pc, taskVars, objectVars, broke, instance, editorVars, audioVars, processVars>>

Objects == {"factory", "instance_factory", "component", "processor", "controller", "view"}
HostObjects ==
  {"module_context", "host_context", "controller_context", "component_handler", "plug_frame"}

\* The calls that go through the engine's mutex.
LockedCalls == {"get_component_state", "get_controller_state", "set_component_state",
                "set_controller_state", "create_editor_view"}

\* The order of the calls in Vst3Instance::shutdown and drop.
Following ==
  [set_processing_off   |-> "set_active_off",
   set_active_off       |-> "clear_handler",
   clear_handler        |-> "disconnect",
   disconnect           |-> "terminate_controller",
   terminate_controller |-> "release_controller",
   release_controller   |-> "terminate_component",
   terminate_component  |-> "release_processor",
   release_processor    |-> "release_component",
   release_component    |-> "release_factory",
   release_factory      |-> "destroy_host"]

\* The order of the calls of an activation, in HostBackend::activate_plugin
Activation ==
  [create           |-> "can_process",
   can_process      |-> "arrange",
   arrange          |-> "setup",
   setup            |-> "activate",
   activate         |-> "start",
   start            |-> "install_handler",
   install_handler  |-> "query_parameters",
   query_parameters |-> "has_editor",
   has_editor       |-> "build_stream"]

\* and in the run command, which has no editor.
NextCall ==
  IF pc = "query_parameters" /\ program # "backend" THEN "build_stream" ELSE Activation[pc]

Locations ==
  {"idle", "load", "create", "can_process", "arrange", "setup", "activate", "start",
   "install_handler", "query_parameters", "has_editor", "build_stream",
   "is_platform_supported", "get_size", "create_window", "set_frame", "attached", "on_size",
   "release_view",
   "close_editors", "drain", "destroy_host", "leak", "free", "module", "bundle_exit",
   "unload", "caught"}
  \cup LockedCalls \cup DOMAIN Following

Inactive == [active |-> FALSE, processing |-> FALSE, crashed |-> FALSE, separate |-> FALSE]
Quiet == [is_shutdown |-> FALSE, shutdown_requested |-> FALSE, lock |-> "free"]

TypeOK ==
  /\ program \in {"backend", "run", "running", "stopping"} /\ platform \in Platforms
  /\ pc \in Locations
  /\ after \in Bundles \cup {None} /\ bundle \in Bundles \cup {None}
  /\ deactivating \in BOOLEAN /\ broke \in BOOLEAN /\ stream \in BOOLEAN
  /\ refs \subseteq Objects /\ owned \subseteq HostObjects /\ known \subseteq HostObjects
  /\ phase \in {"absent", "initialized", "configured", "active", "processing", "terminated"}
  /\ instance \in [active : BOOLEAN, processing : BOOLEAN, crashed : BOOLEAN,
                   separate : BOOLEAN]
  /\ editor \in {"none", "opening", "open", "orphan"} /\ resize \in BOOLEAN
  /\ engine \in [is_shutdown : BOOLEAN, shutdown_requested : BOOLEAN,
                 lock : {"free", "main", "audio"}]
  /\ callback \in {"waiting", "process"}
  /\ handles \in [Bundles -> 0..MaxHandles]
  /\ tainted \subseteq Bundles
  /\ drop_crashed \in [last : BOOLEAN, deactivation : BOOLEAN]

Init ==
  /\ program \in {"backend", "run"} /\ platform \in Platforms
  /\ pc = "idle"
  /\ after = None /\ deactivating = FALSE
  /\ bundle = None /\ refs = {} /\ owned = {} /\ known = {} /\ phase = "absent"
  /\ broke = FALSE
  /\ instance = Inactive
  /\ editor = "none" /\ resize = FALSE
  /\ stream = FALSE /\ engine = Quiet /\ callback = "waiting"
  /\ handles = [b \in Bundles |-> 0]
  /\ tainted = {}
  /\ drop_crashed = [last |-> FALSE, deactivation |-> FALSE]

-----------------------------------------------------------------------------
(* HostBackend::activate_plugin, commands::run *)

\* A tainted bundle is refused before the running plugin is taken down.
ActivatePlugin(b) ==
  /\ program = "backend"
  /\ pc = "idle"
  /\ b \notin tainted
  /\ after' = b
  /\ pc' = IF bundle = None THEN "load" ELSE "close_editors"
  /\ UNCHANGED <<program, platform, deactivating, objectVars, broke, instance, editorVars, audioVars, processVars>>

\* resolve_plugin has found the bundle in the cache.
RunPlugin(b) ==
  /\ program = "run"
  /\ program' = "running"
  /\ after' = b
  /\ pc' = "load"
  /\ UNCHANGED <<platform, deactivating, objectVars, broke, instance, editorVars, audioVars,
                 processVars>>

\* Vst3Module::load fails: a library that was opened is closed again.
LoadFails ==
  /\ pc = "load"
  /\ pc' = "idle"
  /\ after' = None
  /\ UNCHANGED <<program, platform, deactivating, objectVars, broke, instance, editorVars, audioVars, processVars>>

\* Only an IPluginFactory3 is given the module's host context.
FactoryContext == SUBSET {"module_context"}

\* The library is opened and its factory taken.
Load ==
  /\ pc = "load"
  /\ handles[after] < MaxHandles
  /\ bundle' = after
  /\ handles' = [handles EXCEPT ![after] = @ + 1]
  /\ refs' = {"factory"}
  /\ owned' = {"module_context"}
  /\ known' \in FactoryContext
  /\ pc' = "create"
  /\ UNCHANGED <<taskVars, phase, broke, instance, editorVars, audioVars,
                 tainted, drop_crashed>>

\* Vst3Instance::create: what was made of a component that is refused is undone.
Create ==
  /\ pc = "create"
  /\ \/ /\ pc' = "module"
        /\ UNCHANGED objectVars
     \/ /\ refs' = refs \cup {"component", "processor", "instance_factory"}
        /\ owned' = owned \cup {"host_context"}
        /\ known' = known \cup {"host_context"}
        /\ phase' = "initialized"
        /\ pc' = NextCall
        /\ UNCHANGED bundle
  /\ UNCHANGED <<taskVars, broke, instance, editorVars, audioVars, processVars>>

\* The instance is dropped: what is known to have crashed is not called again.
TearDown(crashed) == pc' = IF crashed THEN "leak" ELSE "set_processing_off"

\* can_process_f32 does not record a crash; there may be no output device.
CanProcess ==
  /\ pc = "can_process"
  /\ \/ pc' = NextCall /\ UNCHANGED broke
     \/ TearDown(FALSE) /\ broke' \in {broke, TRUE}
  /\ UNCHANGED <<taskVars, objectVars, instance, editorVars, audioVars, processVars>>

\* A call of the activation succeeds, is refused, or crashes and is recorded.
Enters(to) ==
  /\ pc' = NextCall
  /\ phase' = to
  /\ instance' = [active |-> to \in {"active", "processing"}, processing |-> to = "processing",
                   crashed |-> instance.crashed, separate |-> instance.separate]
  /\ UNCHANGED broke
IsRefused == TearDown(FALSE) /\ UNCHANGED <<phase, broke, instance>>
CrashRecorded ==
  /\ broke' = TRUE
  /\ instance' = [instance EXCEPT !.crashed = TRUE]
  /\ TearDown(TRUE)
  /\ UNCHANGED phase
Configures == UNCHANGED <<taskVars, bundle, refs, owned, known, editorVars, audioVars, processVars>>

\* What it says of the arrangement is ignored.
SetBusArrangements ==
  pc = "arrange" /\ (Enters(phase) \/ CrashRecorded) /\ Configures
SetupProcessing ==
  pc = "setup" /\ (Enters("configured") \/ IsRefused \/ CrashRecorded) /\ Configures
Activate ==
  pc = "activate" /\ (Enters("active") \/ IsRefused \/ CrashRecorded) /\ Configures
StartProcessing ==
  /\ pc = "start"
  /\ Enters("processing") \/ IsRefused \/ CrashRecorded
  /\ Configures

\* What is held and known once a controller was found: the component itself, or
\* a separate object with a host context of its own, which is connected to the
\* component and given its state, whatever the two say of it.
Found(objects, separate) ==
  [refs |-> refs \cup {"controller"}, owned |-> owned \cup objects,
   known |-> known \cup objects, separate |-> separate]
ItsOwn == Found({}, FALSE)
Separate == Found({"controller_context"}, TRUE)

\* Vst3Instance::get_controller: the cached one, a new one, or none.
Controllers ==
  LET unchanged == [refs |-> refs, owned |-> owned, known |-> known,
                    separate |-> instance.separate]
  IN  IF "controller" \in refs THEN {unchanged} ELSE {unchanged, ItsOwn, Separate}

Takes(c, crashed) ==
  /\ refs' = c.refs /\ owned' = c.owned /\ known' = c.known
  /\ instance' = [active |-> instance.active, processing |-> instance.processing,
                   crashed |-> instance.crashed \/ crashed, separate |-> c.separate]

\* The controller was given the handler, which the host keeps unless it crashed.
Handed(c, kept) ==
  [refs |-> c.refs, owned |-> c.owned \cup kept,
   known |-> c.known \cup {"component_handler"}, separate |-> c.separate]

\* install_component_handler: after a crash the handler is destroyed although
\* the plugin may have kept it, and the activation goes on.
InstallHandler ==
  /\ pc = "install_handler"
  /\ pc' = NextCall
  /\ \E c \in Controllers :
       \/ Takes(c, FALSE) /\ UNCHANGED broke
       \/ /\ "controller" \in c.refs
          /\ Takes(Handed(c, {"component_handler"}), FALSE)
          /\ UNCHANGED broke
       \/ /\ "controller" \in c.refs
          /\ Takes(c, TRUE) \/ Takes(Handed(c, {}), TRUE)
          /\ broke' = TRUE
  /\ UNCHANGED <<taskVars, bundle, phase, editorVars, audioVars, processVars>>

\* query_parameters asks for the controller again, and lists its parameters
\* without a sandbox, a crash recorded before or not.
QueryParameters ==
  /\ pc = "query_parameters"
  /\ pc' = NextCall
  /\ \E c \in Controllers : Takes(c, FALSE)
  /\ UNCHANGED <<taskVars, bundle, phase, broke, editorVars, audioVars, processVars>>

WithView(c) == [c EXCEPT !.refs = @ \cup {"view"}]

\* has_editor: a view is made and released; only a crash in making it is recorded.
HasEditor ==
  /\ pc = "has_editor"
  /\ pc' = NextCall
  /\ \/ UNCHANGED <<objectVars, broke, instance>>
     \/ /\ ~instance.crashed
        /\ \E c \in Controllers :
             \/ Takes(c, FALSE) /\ UNCHANGED broke
             \/ /\ "controller" \in c.refs
                /\ Takes(c, TRUE) \/ Takes(WithView(c), FALSE)
                /\ broke' = TRUE
        /\ UNCHANGED <<bundle, phase>>
  /\ UNCHANGED <<taskVars, editorVars, audioVars, processVars>>

\* The instance goes into a new engine, and the stream plays or cannot be built.
BuildStream ==
  /\ pc = "build_stream"
  /\ engine' = Quiet
  /\ \/ /\ stream' = TRUE
        /\ pc' = "idle"
        /\ after' = None
     \/ /\ TearDown(instance.crashed)
        /\ UNCHANGED <<stream, after>>
  /\ UNCHANGED <<program, platform, deactivating, objectVars, broke, instance, editorVars, callback, processVars>>

-----------------------------------------------------------------------------
(* The running plugin *)

\* The callback looks at the flag, tries the mutex, and calls process unless the
\* engine is shut down or crashed; in every other case it leaves silence.
BeginProcess ==
  /\ stream
  /\ callback = "waiting"
  /\ ~engine.shutdown_requested
  /\ engine.lock = "free"
  /\ ~engine.is_shutdown /\ ~instance.crashed
  /\ callback' = "process"
  /\ engine' = [engine EXCEPT !.lock = "audio"]
  /\ UNCHANGED <<pc, taskVars, objectVars, broke, instance, editorVars, stream, processVars>>

EndProcess ==
  /\ callback = "process"
  /\ callback' = "waiting"
  /\ \E crash \in BOOLEAN :
       /\ broke' = (broke \/ crash)
       /\ instance' = [instance EXCEPT !.crashed = crash]
       /\ engine' = [is_shutdown |-> crash, shutdown_requested |-> engine.shutdown_requested,
                      lock |-> "free"]
  /\ UNCHANGED <<pc, taskVars, objectVars, editorVars, stream, processVars>>

\* A state or editor request waits for the mutex.
LockEngine(op) ==
  /\ program = "backend"
  /\ pc = "idle"
  /\ bundle # None
  /\ engine.lock = "free"
  /\ ~instance.crashed
  /\ op = "create_editor_view" => editor # "open"
  /\ engine' = [engine EXCEPT !.lock = "main"]
  /\ pc' = op
  /\ UNCHANGED <<taskVars, objectVars, broke, instance, editorVars, stream, callback, processVars>>

Returns(op) ==
  /\ pc = op
  /\ engine' = [engine EXCEPT !.lock = "free"]
  /\ UNCHANGED <<taskVars, bundle, phase, editorVars, stream, callback, processVars>>

\* The two readers do not record a crash.
GetComponentState ==
  /\ Returns("get_component_state")
  /\ pc' = "idle"
  /\ broke' \in {broke, TRUE}
  /\ UNCHANGED <<refs, owned, known, instance>>

GetControllerState ==
  /\ Returns("get_controller_state")
  /\ pc' = "idle"
  /\ \E c \in Controllers : Takes(c, FALSE) /\ broke' \in {broke, broke \/ "controller" \in c.refs}

\* A state the component accepts is passed on to the controller.
SetComponentState ==
  /\ Returns("set_component_state")
  /\ pc' = "idle"
  /\ \/ \E c \in Controllers : Takes(c, FALSE) /\ UNCHANGED broke
     \/ /\ broke' = TRUE
        /\ instance' = [instance EXCEPT !.crashed = TRUE]
        /\ UNCHANGED <<refs, owned, known>>

SetControllerState ==
  /\ Returns("set_controller_state")
  /\ pc' = "idle"
  /\ \E c \in Controllers :
       \/ Takes(c, FALSE) /\ UNCHANGED broke
       \/ "controller" \in c.refs /\ Takes(c, TRUE) /\ broke' = TRUE

CreateEditorView ==
  /\ Returns("create_editor_view")
  /\ \E c \in Controllers :
       \/ Takes(c, FALSE) /\ pc' = "idle" /\ UNCHANGED broke
       \/ /\ "controller" \in c.refs
          /\ Takes(WithView(c), FALSE)
          /\ pc' = "is_platform_supported"
          /\ UNCHANGED broke
       \/ "controller" \in c.refs /\ Takes(c, TRUE) /\ pc' = "idle" /\ broke' = TRUE

\* EditorWindow::open, one call after the other.  A view that has crashed is left alone.
ViewCall(call) ==
  /\ pc = call
  /\ UNCHANGED <<taskVars, bundle, refs, phase, instance, audioVars, processVars>>
GiveUp == pc' = "idle" /\ broke' = TRUE
HaveFrame == editor' = "opening" /\ owned' = owned \cup {"plug_frame"}

\* The native window and the frame go, whether or not the view has let go of it.
CloseNative == editor' = "none" /\ resize' = FALSE /\ owned' = owned \ {"plug_frame"}

IsPlatformTypeSupported ==
  /\ ViewCall("is_platform_supported")
  /\ \/ pc' \in {"get_size", "release_view"} /\ UNCHANGED broke
     \/ GiveUp
  /\ UNCHANGED <<owned, known, editorVars>>

\* A view that does not tell its size gets a standard one.
GetSize ==
  /\ ViewCall("get_size")
  /\ \/ pc' = "create_window" /\ UNCHANGED broke
     \/ GiveUp
  /\ UNCHANGED <<owned, known, editorVars>>

\* Without a native window the view is forgotten.
CreateWindow ==
  /\ ViewCall("create_window")
  /\ \/ pc' = "set_frame" /\ HaveFrame
     \/ pc' = "idle" /\ UNCHANGED <<editor, owned>>
  /\ UNCHANGED <<known, broke, resize>>

\* What the view says of the frame is ignored, and on Windows its crash too.
SetFrame ==
  /\ ViewCall("set_frame")
  /\ known' \in {known, known \cup {"plug_frame"}}
  /\ \/ pc' = "attached" /\ broke' \in {broke, broke \/ platform = "windows"}
        /\ UNCHANGED <<owned, editorVars>>
     \/ platform # "windows" /\ GiveUp /\ CloseNative

Attached ==
  /\ ViewCall("attached")
  /\ \/ /\ IF platform = "macos" THEN pc' = "on_size" /\ UNCHANGED editor
                                  ELSE pc' = "idle" /\ editor' = "open"
        /\ UNCHANGED <<broke, owned, resize>>
     \/ pc' = "release_view" /\ UNCHANGED broke /\ CloseNative
     \/ GiveUp /\ CloseNative
  /\ UNCHANGED known

\* A crash is ignored, and the window shown.
OnSize ==
  /\ ViewCall("on_size")
  /\ pc' = "idle" /\ broke' \in {broke, TRUE} /\ editor' = "open"
  /\ UNCHANGED <<owned, known, resize>>

\* release_view_safe
ReleaseView ==
  /\ pc = "release_view"
  /\ pc' = "idle"
  /\ \/ /\ refs' = refs \ {"view"}
        /\ known' = known \ {"plug_frame"}
        /\ UNCHANGED broke
     \/ broke' = TRUE /\ UNCHANGED <<refs, known>>
  /\ UNCHANGED <<taskVars, bundle, owned, phase, instance, editorVars, audioVars, processVars>>

\* EditorWindow::close: removed, setFrame and release in one sandbox.
CloseWindow ==
  /\ CloseNative
  /\ \/ /\ refs' = refs \ {"view"}
        /\ known' = known \ {"plug_frame"}
        /\ UNCHANGED broke
     \/ broke' = TRUE /\ UNCHANGED <<refs, known>>

\* The user closes the window and poll_editors drops it.
WindowClosed ==
  /\ pc = "idle"
  /\ editor = "open"
  /\ CloseWindow
  /\ UNCHANGED <<pc, taskVars, bundle, phase, instance, audioVars, processVars>>

\* IPlugFrame::resizeView, which the view calls.
ResizeView ==
  /\ editor \in {"opening", "open"}
  /\ "plug_frame" \in known
  /\ resize' = TRUE
  /\ UNCHANGED <<pc, taskVars, objectVars, broke, instance, editor, audioVars, processVars>>

\* poll_resize: a crash in onSize marks the window as detached, so that it is
\* dropped and nothing closes it.
PollResize ==
  /\ pc = "idle"
  /\ editor = "open" /\ resize
  /\ resize' = FALSE
  /\ \/ UNCHANGED <<editor, broke>>
     \/ editor' = "orphan" /\ broke' = TRUE
  /\ UNCHANGED <<pc, taskVars, objectVars, instance, audioVars, processVars>>

-----------------------------------------------------------------------------
(* HostBackend::deactivate_plugin, Vst3Instance::drop and Vst3Module::drop *)

DeactivatePlugin ==
  /\ program = "backend"
  /\ pc = "idle"
  /\ bundle # None
  /\ pc' = "close_editors"
  /\ UNCHANGED <<taskVars, objectVars, broke, instance, editorVars, audioVars, processVars>>

\* A mutant of StopStream that leaves the stream to the drop of its owner.
StopStreamLast ==
  /\ pc = "close_editors"
  /\ IF editor = "open"
     THEN CloseWindow
     ELSE UNCHANGED <<editorVars, refs, owned, known, broke>>
  /\ deactivating' = TRUE
  /\ drop_crashed' = [drop_crashed EXCEPT !.deactivation = FALSE]
  /\ pc' = "drain"
  /\ UNCHANGED <<program, platform, after, bundle, phase, instance, audioVars, handles, tainted>>

\* The editors go first, then the stream.
StopStream ==
  /\ pc = "close_editors"
  /\ IF editor = "open"
     THEN CloseWindow
     ELSE UNCHANGED <<editorVars, refs, owned, known, broke>>
  /\ deactivating' = TRUE
  /\ drop_crashed' = [drop_crashed EXCEPT !.deactivation = FALSE]
  /\ stream' = FALSE
  /\ pc' = "drain"
  /\ UNCHANGED <<program, platform, after, bundle, phase, instance, engine, callback, handles, tainted>>

\* The run command ends: the stream first here too, but no sandbox around the rest.
Stop ==
  /\ program = "running"
  /\ pc = "idle"
  /\ bundle # None
  /\ program' = "stopping"
  /\ stream' = FALSE
  /\ pc' = "drain"
  /\ UNCHANGED <<platform, after, deactivating, objectVars, broke, instance, editorVars, engine, callback, processVars>>

\* A mutant of ShutDown that waits neither for the callback nor for the mutex.
ShutDownUnlocked ==
  /\ pc = "drain"
  /\ engine' = [is_shutdown |-> TRUE, shutdown_requested |-> TRUE, lock |-> engine.lock]
  /\ TearDown(instance.crashed)
  /\ UNCHANGED <<taskVars, objectVars, broke, instance, editorVars, stream, callback, processVars>>

\* A mutant of ShutDown that drops the module before the engine.
ShutDownUnloads ==
  /\ pc = "drain"
  /\ callback = "waiting"
  /\ engine.lock = "free"
  /\ engine' = [is_shutdown |-> TRUE, shutdown_requested |-> TRUE, lock |-> engine.lock]
  /\ TearDown(instance.crashed)
  /\ handles' = [handles EXCEPT ![bundle] = @ - 1]
  /\ UNCHANGED <<taskVars, objectVars, broke, instance, editorVars, stream, callback,
                 tainted, drop_crashed>>

\* The callback under way has returned; AudioEngine::shutdown.
ShutDown ==
  /\ pc = "drain"
  /\ callback = "waiting"
  /\ engine.lock = "free"
  /\ engine' = [is_shutdown |-> TRUE, shutdown_requested |-> TRUE, lock |-> engine.lock]
  /\ TearDown(instance.crashed)
  /\ UNCHANGED <<taskVars, objectVars, broke, instance, editorVars, stream, callback, processVars>>

\* A mutant of Applies that clears the handler of a separate controller only.
AppliesSeparately(step) ==
  CASE step = "set_processing_off" -> instance.processing
    [] step = "set_active_off" -> instance.active
    [] step = "clear_handler" -> instance.separate /\ "component_handler" \in owned
    [] step \in {"disconnect", "terminate_controller"} -> instance.separate
    [] step = "release_controller" -> "controller" \in refs
    [] OTHER -> TRUE

\* Does the drop make this call?
Applies(step) ==
  CASE step = "set_processing_off" -> instance.processing
    [] step = "set_active_off" -> instance.active
    [] step = "clear_handler" -> "controller" \in refs /\ "component_handler" \in owned
    [] step \in {"disconnect", "terminate_controller"} -> instance.separate
    [] step = "release_controller" -> "controller" \in refs
    [] OTHER -> TRUE

\* A mutant of Released without the instance's reference on the factory.
ReleasedNoFactory ==
  [release_controller |-> "controller", release_processor |-> "processor",
   release_component |-> "component"]

Released ==
  [release_controller |-> "controller", release_processor |-> "processor",
   release_component |-> "component", release_factory |-> "instance_factory"]

\* The pointers to host objects that the call makes the plugin give up.
Forgotten(step) ==
  CASE step = "clear_handler" -> {"component_handler"}
    [] step = "terminate_controller" -> {"controller_context"}
    [] step = "release_controller" -> IF instance.separate THEN {"component_handler"} ELSE {}
    [] step = "terminate_component" -> {"host_context"}
    [] OTHER -> {}

Leaves ==
  [set_processing_off |-> "active", set_active_off |-> "configured",
   terminate_component |-> "terminated", release_component |-> "absent"]

\* A call of the drop that does not apply.
Skips(step) ==
  /\ ~Applies(step)
  /\ pc' = Following[step]
  /\ UNCHANGED <<objectVars, broke, instance>>

\* Vst3Instance::shutdown: a crash is recorded and ends the calls.
ShutdownStep ==
  /\ pc \in {"set_processing_off", "set_active_off"}
  /\ \/ Skips(pc)
     \/ /\ Applies(pc)
        /\ phase' = Leaves[pc]
        /\ instance' = [active |-> pc = "set_processing_off", processing |-> FALSE,
                         crashed |-> instance.crashed, separate |-> instance.separate]
        /\ pc' = Following[pc]
        /\ UNCHANGED <<bundle, refs, owned, known, broke>>
     \/ /\ Applies(pc)
        /\ broke' = TRUE
        /\ instance' = [instance EXCEPT !.crashed = TRUE]
        /\ pc' = "leak"
        /\ UNCHANGED objectVars
  /\ UNCHANGED <<taskVars, editorVars, audioVars, processVars>>

\* Vst3Instance::drop: a crash ends the calls; inside the sandbox of
\* deactivate_plugin, which a nested one cannot catch, it leaves that too.
DropStep ==
  /\ pc \in DOMAIN Following \ {"set_processing_off", "set_active_off"}
  /\ \/ Skips(pc)
     \/ /\ Applies(pc)
        /\ refs' = IF pc \in DOMAIN Released THEN refs \ {Released[pc]} ELSE refs
        /\ known' = known \ Forgotten(pc)
        /\ phase' = IF pc \in DOMAIN Leaves THEN Leaves[pc] ELSE phase
        /\ pc' = Following[pc]
        /\ UNCHANGED <<bundle, owned, broke, instance>>
     \/ /\ Applies(pc)
        /\ broke' = TRUE
        /\ pc' = IF deactivating THEN "caught" ELSE "leak"
        /\ UNCHANGED <<objectVars, instance>>
  /\ UNCHANGED <<taskVars, editorVars, audioVars, processVars>>

\* The host objects made for the instance are destroyed.
DestroyHost ==
  /\ pc = "destroy_host"
  /\ owned' = owned \ {"host_context", "controller_context", "component_handler"}
  /\ pc' = "free"
  /\ UNCHANGED <<taskVars, bundle, refs, known, phase, broke, instance, editorVars, audioVars,
                 processVars>>

\* A mutant of Leak that tells the module only.
LeakForModule ==
  /\ pc = "leak"
  /\ drop_crashed' = [drop_crashed EXCEPT !.last = TRUE]
  /\ pc' = "free"
  /\ UNCHANGED <<taskVars, objectVars, broke, instance, editorVars, audioVars, handles, tainted>>

\* They are leaked with the objects of a crashed plugin, and both flags are set.
Leak ==
  /\ pc = "leak"
  /\ drop_crashed' = [last |-> TRUE, deactivation |-> TRUE]
  /\ pc' = "free"
  /\ UNCHANGED <<taskVars, objectVars, broke, instance, editorVars, audioVars, handles, tainted>>

\* The engine's own memory is freed, which may abort on the heap a crash has
\* left; without the outer sandbox that ends the process.
Free ==
  /\ pc = "free"
  /\ pc' = "module" \/ (broke /\ deactivating /\ pc' = "caught")
  /\ UNCHANGED <<taskVars, objectVars, broke, instance, editorVars, audioVars, processVars>>

\* Vst3Module::drop: the flag the last drop has left is taken.  The module's
\* host context is destroyed in either case.
DropModule ==
  /\ pc = "module"
  /\ drop_crashed' = [drop_crashed EXCEPT !.last = FALSE]
  /\ \/ /\ drop_crashed.last
        /\ owned' = owned \ {"module_context"}
        /\ pc' = "unload"
        /\ UNCHANGED <<refs, known, broke>>
     \/ /\ ~drop_crashed.last
        /\ refs' = refs \ {"factory"}
        /\ known' = known \ {"module_context"}
        /\ owned' = owned \ {"module_context"}
        /\ pc' = "bundle_exit"
        /\ UNCHANGED broke
     \/ /\ ~drop_crashed.last
        /\ broke' = TRUE
        /\ IF deactivating
           THEN pc' = "caught" /\ UNCHANGED owned
           ELSE pc' = "unload" /\ owned' = owned \ {"module_context"}
        /\ UNCHANGED <<refs, known>>
  /\ UNCHANGED <<taskVars, bundle, phase, instance, editorVars, audioVars, handles, tainted>>

\* bundleExit and the release of the CFBundle.
BundleExit ==
  /\ pc = "bundle_exit"
  /\ \/ pc' = "unload" /\ broke' \in {broke, broke \/ ~deactivating}
     \/ deactivating /\ pc' = "caught" /\ broke' = TRUE
  /\ UNCHANGED <<taskVars, objectVars, instance, editorVars, audioVars, processVars>>

\* The end of a teardown, with the taint that deactivate_plugin records, and on
\* to the activation that asked for it.
Finish(crashed) ==
  /\ tainted' = IF deactivating /\ (crashed \/ drop_crashed.deactivation)
                THEN tainted \cup {bundle}
                ELSE tainted
  /\ bundle' = None /\ refs' = {} /\ owned' = {} /\ known' = {} /\ phase' = "absent"
  /\ broke' = FALSE
  /\ instance' = Inactive
  /\ engine' = Quiet
  /\ deactivating' = FALSE
  /\ pc' = IF deactivating /\ after # None THEN "load" ELSE "idle"
  /\ after' = IF deactivating THEN after ELSE None
  /\ UNCHANGED <<program, platform, editorVars, stream, callback, drop_crashed>>

\* The fields of the module are dropped whichever way its drop returned, and
\* with them the handle on the library.
Unload ==
  /\ pc = "unload"
  /\ handles' = [handles EXCEPT ![bundle] = @ - 1]
  /\ Finish(FALSE)

\* The outer sandbox has caught a crash: all that was not dropped yet is leaked.
Caught ==
  /\ pc = "caught"
  /\ Finish(TRUE)
  /\ UNCHANGED handles

-----------------------------------------------------------------------------

\* What the user asks for.
User ==
  \/ \E b \in Bundles : ActivatePlugin(b) \/ RunPlugin(b)
  \/ \E op \in LockedCalls : LockEngine(op)
  \/ WindowClosed \/ ResizeView \/ PollResize \/ DeactivatePlugin \/ Stop

\* What the main thread does by itself once asked.
Main ==
  \/ LoadFails \/ Load \/ Create \/ CanProcess
  \/ SetBusArrangements \/ SetupProcessing \/ Activate \/ StartProcessing
  \/ InstallHandler \/ QueryParameters \/ HasEditor \/ BuildStream
  \/ GetComponentState \/ GetControllerState \/ SetComponentState \/ SetControllerState
  \/ CreateEditorView \/ IsPlatformTypeSupported \/ GetSize \/ CreateWindow \/ SetFrame
  \/ Attached \/ OnSize \/ ReleaseView
  \/ StopStream \/ ShutDown \/ ShutdownStep \/ DropStep \/ DestroyHost \/ Leak \/ Free
  \/ DropModule \/ BundleExit \/ Unload \/ Caught

Audio == BeginProcess \/ EndProcess

Next == User \/ Main \/ Audio

\* The main thread runs, and calls of the plugin return; the device may stop
\* calling back and the user may stop asking.
Spec == Init /\ [][Next]_vars /\ WF_vars(Main) /\ WF_vars(EndProcess)

-----------------------------------------------------------------------------
(* Properties *)

\* The library stays open for as long as the host holds a reference on one of
\* its objects.
CodeMapped == refs # {} => handles[bundle] > 0

\* Up to its first crash a plugin has pointers to live host objects only, but
\* for two: the frame of a view that refused to be attached is destroyed before
\* the view is released, and a factory that the crash of an earlier plugin makes
\* the module leak keeps the module's context until its library is closed.
HostObjectsOutlive == ~broke /\ pc \notin {"release_view", "unload"} => known \subseteq owned

\* Nothing is leaked by a teardown of a plugin that did not crash, unless the
\* crash of an earlier one was left for its module, or its view got no window; and
\* no opening that fails, by a crash or not, leaves a native window.
NothingLeaks ==
  /\ pc = "unload" /\ ~broke => refs \subseteq {"factory", "view"} /\ owned = {}
  /\ editor = "opening" => pc \in {"set_frame", "attached", "on_size"}

\* A plugin whose instance was leaked by its deactivation is tainted.
LeakIsTainted ==
  [][deactivating /\ ~deactivating' /\ refs \cap {"component", "processor", "controller"} # {}
       => bundle \in tainted']_vars

\* The component is used the way a VST3 host must use it.
Lifecycle ==
  INSTANCE Vst3Lifecycle WITH block <- callback = "process", call <- pc \in LockedCalls
FollowsLifecycle == Lifecycle!Spec

\* A deactivation ends however often the device calls back.
DeactivationEnds == pc = "close_editors" ~> pc = "idle"
=============================================================================
