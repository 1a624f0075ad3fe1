------------------------ MODULE PluginInstanceProofs ------------------------
(***************************************************************************)
(* What holds of PluginInstance whatever the bundles are: the library stays *)
(* open under its objects, the plugin's pointers are to live host objects, *)
(* nothing is leaked without a crash, what a crash leaks is tainted, and   *)
(* the component is used as Vst3Lifecycle says.                            *)
(***************************************************************************)
EXTENDS PluginInstance, TLAPS

-----------------------------------------------------------------------------
(* The places of the main thread *)

\* The calls that open a window for a view.
ViewCalls ==
  {"is_platform_supported", "get_size", "create_window", "set_frame", "attached", "on_size",
   "release_view"}

\* The engine plays, or could.
Playing == {"idle", "close_editors"} \cup LockedCalls \cup ViewCalls

\* The component processes, and its engine is not made yet.
Prepared == {"install_handler", "query_parameters", "has_editor", "build_stream"}

\* The drop of the instance, from the release of the controller on,
AfterController ==
  {"terminate_component", "release_processor", "release_component", "release_factory",
   "destroy_host"}

\* and what comes after it.
Ending == {"free", "module", "bundle_exit", "unload"}
GivenUp == {"leak", "caught"}

-----------------------------------------------------------------------------
(* The inductive invariant *)

\* The type invariant, in five parts.
ControlTyped ==
  /\ program \in {"backend", "run", "running", "stopping"} /\ platform \in Platforms
  /\ pc \in Locations
  /\ after \in Bundles \cup {None} /\ bundle \in Bundles \cup {None}
  /\ handles \in [Bundles -> 0..MaxHandles]
ObjectsTyped ==
  /\ refs \subseteq Objects /\ owned \subseteq HostObjects /\ known \subseteq HostObjects
  /\ phase \in {"absent", "initialized", "configured", "active", "processing", "terminated"}
  /\ editor \in {"none", "opening", "open", "orphan"}
  /\ callback \in {"waiting", "process"}
  /\ tainted \subseteq Bundles
FlagsTyped ==
  deactivating \in BOOLEAN /\ broke \in BOOLEAN /\ stream \in BOOLEAN /\ resize \in BOOLEAN
InstanceTyped ==
  instance \in [active : BOOLEAN, processing : BOOLEAN, crashed : BOOLEAN, separate : BOOLEAN]
EngineTyped ==
  /\ engine \in [is_shutdown : BOOLEAN, shutdown_requested : BOOLEAN,
                 lock : {"free", "main", "audio"}]
  /\ drop_crashed \in [last : BOOLEAN, deactivation : BOOLEAN]

\* A module in hand has its library open; without one nothing is held.
ModuleHeld ==
  /\ bundle # None => pc # "load" /\ handles[bundle] > 0
  /\ bundle = None => pc \in {"idle", "load"} /\ refs = {} /\ owned = {} /\ known = {}
  /\ pc = "load" => after \in Bundles
  /\ program = "run" => pc = "idle" /\ bundle = None

\* What is recorded as a crash was one, and so was what is leaked or caught.
CrashIsKnown ==
  /\ instance.crashed => broke
  /\ pc \in GivenUp => broke

\* A window is opened and shown while the plugin plays, and it has its frame.
WindowPlaced ==
  /\ editor \in {"opening", "open"} => pc \in Playing /\ bundle # None /\ program = "backend"
  /\ pc \in LockedCalls \cup ViewCalls => program = "backend"
  /\ editor = "opening" <=> pc \in {"set_frame", "attached", "on_size"}
  /\ editor = "opening" => "plug_frame" \in owned
  /\ ~broke /\ "plug_frame" \in owned => editor \in {"opening", "open"}

\* What the teardown has released so far, and what it has flagged otherwise.
ReleasedSoFar ==
  /\ pc = "create" => refs = {"factory"} /\ owned = {"module_context"}
  /\ pc \in AfterController => "controller" \notin refs
  /\ pc \in {"release_component", "release_factory", "destroy_host"} => "processor" \notin refs
  /\ pc \in {"release_factory", "destroy_host"} => "component" \notin refs
  /\ pc = "destroy_host" => "instance_factory" \notin refs
  /\ pc \in Ending => refs \subseteq {"factory", "view"} \/ (broke /\ drop_crashed.deactivation)
  /\ pc \in {"free", "module"} /\ ~broke => owned \subseteq {"module_context"}
  /\ pc \in {"bundle_exit", "unload"} /\ ~broke => owned = {}

\* Up to the first crash, what the plugin knows of the host's objects: the
\* handler through its controller, a context of a separate controller only, and
\* each of them no longer than until the call that takes it back.
PointersAreLive ==
  /\ pc \notin AfterController \cup Ending \cup GivenUp =>
       (instance.separate => "controller" \in refs)
  /\ ~broke =>
       /\ pc \notin AfterController \cup Ending =>
            ("component_handler" \in known => "controller" \in refs)
       /\ "controller_context" \in known => instance.separate
       /\ pc \in {"disconnect", "terminate_controller", "release_controller"}
                 \cup AfterController => "component_handler" \notin known
       /\ pc \in {"release_controller"} \cup AfterController => "controller_context" \notin known
       /\ pc \in AfterController \ {"terminate_component"} => "host_context" \notin known
       /\ pc = "release_view" => known \subseteq owned \cup {"plug_frame"}
       /\ pc \notin {"release_view", "unload"} => known \subseteq owned

\* The component's own state at each place of the main thread.
PhaseKept ==
  /\ bundle = None => phase = "absent" /\ ~broke /\ ~instance.active /\ ~instance.processing
  /\ pc = "create" => phase = "absent" /\ ~broke /\ ~instance.active /\ ~instance.processing
  /\ pc \in {"can_process", "arrange", "setup"} => phase = "initialized"
  /\ pc = "activate" => phase = "configured"
  /\ pc = "start" => phase = "active"
  /\ pc \in Playing \cup Prepared \cup {"drain"} /\ bundle # None => phase = "processing"
  /\ pc = "set_processing_off" => phase \in {"initialized", "configured", "active", "processing"}
  /\ pc = "set_active_off" => phase \in {"initialized", "configured", "active"}
  /\ pc \in {"clear_handler", "disconnect", "terminate_controller", "release_controller",
             "terminate_component"} => phase \in {"initialized", "configured"}
  /\ pc \in {"release_processor", "release_component"} => phase = "terminated"
  /\ pc \in {"release_factory", "destroy_host"} => phase = "absent"
  /\ pc \in Ending => broke \/ phase = "absent"
  /\ pc \notin Ending \cup GivenUp =>
       /\ instance.processing <=> phase = "processing"
       /\ instance.active <=> phase \in {"active", "processing"}

\* The engine's mutex tells who is inside the plugin, and the device calls back
\* into a running plugin only.
EngineHeld ==
  /\ callback = "process" <=> engine.lock = "audio"
  /\ pc \in LockedCalls <=> engine.lock = "main"
  /\ callback = "process" => pc \in Playing \cup {"drain"} /\ bundle # None
  /\ stream => pc \in Playing /\ bundle # None

IInv ==
  /\ ControlTyped /\ ObjectsTyped /\ FlagsTyped /\ InstanceTyped /\ EngineTyped
  /\ ModuleHeld /\ CrashIsKnown /\ WindowPlaced /\ ReleasedSoFar /\ PointersAreLive
  /\ PhaseKept /\ EngineHeld

-----------------------------------------------------------------------------
(* The steps, by what they have in common *)

Asked ==
  \/ \E b \in Bundles : ActivatePlugin(b) \/ RunPlugin(b)
  \/ \E op \in LockedCalls : LockEngine(op)
  \/ DeactivatePlugin \/ Stop
ShownWindow == WindowClosed \/ ResizeView \/ PollResize
Loading == LoadFails \/ Load \/ Create
Configuring ==
  CanProcess \/ SetBusArrangements \/ SetupProcessing \/ Activate \/ StartProcessing
Preparing == InstallHandler \/ QueryParameters \/ HasEditor \/ BuildStream
Requests ==
  GetComponentState \/ GetControllerState \/ SetComponentState \/ SetControllerState
  \/ CreateEditorView
OpeningWindow ==
  IsPlatformTypeSupported \/ GetSize \/ CreateWindow \/ SetFrame \/ Attached \/ OnSize
  \/ ReleaseView
Stopping == StopStream \/ ShutDown
Dropping == ShutdownStep \/ DropStep
Freeing == DestroyHost \/ Leak \/ Free
ModuleGoes == DropModule \/ BundleExit
Finishing == Unload \/ Caught

\* They are all the steps.
LEMMA StepsAreAll ==
  Next => \/ Asked \/ ShownWindow \/ Loading \/ Configuring \/ Preparing \/ Requests
          \/ OpeningWindow \/ Stopping \/ Dropping \/ Freeing \/ ModuleGoes \/ Finishing \/ Audio
  BY Zenon DEF Next, User, Main, Asked, ShownWindow, Loading, Configuring, Preparing, Requests,
         OpeningWindow, Stopping, Dropping, Freeing, ModuleGoes, Finishing

\* The places, the bundles and the handles keep their types.
LEMMA ControlStaysTyped ==
  ASSUME ControlTyped, ModuleHeld, [Next]_vars
  PROVE  ControlTyped'
<1> USE PluginInstanceAssumption
    DEF ControlTyped, ModuleHeld, Locations, LockedCalls, Following, taskVars, objectVars,
        editorVars, audioVars, processVars
<1>1. CASE Asked
  BY <1>1 DEF Asked, ActivatePlugin, RunPlugin, LockEngine, DeactivatePlugin, Stop
<1>2. CASE ShownWindow
  BY <1>2 DEF ShownWindow, WindowClosed, ResizeView, PollResize, CloseWindow, CloseNative
<1>3. CASE Loading
  BY <1>3 DEF Loading, LoadFails, Load, Create, FactoryContext, NextCall, Activation
<1>4. CASE Configuring
  <2>1. CASE CanProcess
    BY <2>1 DEF CanProcess, TearDown, NextCall, Activation
  <2>2. CASE SetBusArrangements
    BY <2>2 DEF SetBusArrangements, Enters, IsRefused, CrashRecorded, Configures, TearDown,
       NextCall, Activation
  <2>3. CASE SetupProcessing
    BY <2>3 DEF SetupProcessing, Enters, IsRefused, CrashRecorded, Configures, TearDown,
       NextCall, Activation
  <2>4. CASE Activate
    BY <2>4 DEF Activate, Enters, IsRefused, CrashRecorded, Configures, TearDown, NextCall,
       Activation
  <2>5. CASE StartProcessing
    BY <2>5 DEF StartProcessing, Enters, IsRefused, CrashRecorded, Configures, TearDown,
       NextCall, Activation
  <2> QED
    BY <1>4, <2>1, <2>2, <2>3, <2>4, <2>5 DEF Configuring
<1>5. CASE Preparing
  BY <1>5 DEF Preparing, InstallHandler, QueryParameters, HasEditor, BuildStream, Handed,
     WithView, Controllers, Found, ItsOwn, Separate, Takes, TearDown, Quiet, NextCall,
     Activation
<1>6. CASE Requests
  BY <1>6 DEF Requests, GetComponentState, GetControllerState, SetComponentState,
     SetControllerState, CreateEditorView, Returns, WithView, Controllers, Found, ItsOwn,
     Separate, Takes
<1>7. CASE OpeningWindow
  BY <1>7 DEF OpeningWindow, IsPlatformTypeSupported, GetSize, CreateWindow, SetFrame,
     Attached, OnSize, ReleaseView, ViewCall, GiveUp, HaveFrame, CloseNative
<1>8. CASE Stopping
  BY <1>8 DEF Stopping, StopStream, ShutDown, CloseWindow, CloseNative, TearDown
<1>9. CASE Dropping
  BY <1>9 DEF Dropping, ShutdownStep, DropStep, Skips, Applies, Following, Leaves, Released,
     Forgotten
<1>10. CASE Freeing
  BY <1>10 DEF Freeing, DestroyHost, Leak, Free
<1>11. CASE ModuleGoes
  BY <1>11 DEF ModuleGoes, DropModule, BundleExit
<1>12. CASE Finishing
  BY <1>12 DEF Finishing, Unload, Caught, Finish, Inactive, Quiet
<1>13. CASE Audio
  BY <1>13 DEF Audio, BeginProcess, EndProcess
<1>14. CASE UNCHANGED vars
  BY <1>14 DEF vars
<1> HIDE DEF ControlTyped, ModuleHeld, Locations, LockedCalls, Following, taskVars,
             objectVars, editorVars, audioVars, processVars
<1> QED
  BY <1>1, <1>2, <1>3, <1>4, <1>5, <1>6, <1>7, <1>8, <1>9, <1>10, <1>11, <1>12, <1>13, <1>14,
     StepsAreAll

\* So do the objects held,
LEMMA ObjectsStayTyped ==
  ASSUME ControlTyped, ModuleHeld, ObjectsTyped, [Next]_vars
  PROVE  ObjectsTyped'
<1> USE PluginInstanceAssumption
    DEF ControlTyped, ModuleHeld, ObjectsTyped, Objects, HostObjects, LockedCalls,
        taskVars, objectVars, editorVars, audioVars, processVars
<1>1. CASE Asked
  BY <1>1 DEF Asked, ActivatePlugin, RunPlugin, LockEngine, DeactivatePlugin, Stop
<1>2. CASE ShownWindow
  BY <1>2 DEF ShownWindow, WindowClosed, ResizeView, PollResize, CloseWindow, CloseNative
<1>3. CASE Loading
  BY <1>3 DEF Loading, LoadFails, Load, Create, FactoryContext, NextCall, Activation
<1>4. CASE Configuring
  <2>1. CASE CanProcess
    BY <2>1 DEF CanProcess, TearDown, NextCall, Activation
  <2>2. CASE SetBusArrangements
    BY <2>2 DEF SetBusArrangements, Enters, IsRefused, CrashRecorded, Configures, TearDown,
       NextCall, Activation
  <2>3. CASE SetupProcessing
    BY <2>3 DEF SetupProcessing, Enters, IsRefused, CrashRecorded, Configures, TearDown,
       NextCall, Activation
  <2>4. CASE Activate
    BY <2>4 DEF Activate, Enters, IsRefused, CrashRecorded, Configures, TearDown, NextCall,
       Activation
  <2>5. CASE StartProcessing
    BY <2>5 DEF StartProcessing, Enters, IsRefused, CrashRecorded, Configures, TearDown,
       NextCall, Activation
  <2> QED
    BY <1>4, <2>1, <2>2, <2>3, <2>4, <2>5 DEF Configuring
<1>5. CASE Preparing
  BY <1>5 DEF Preparing, InstallHandler, QueryParameters, HasEditor, BuildStream, Handed,
     WithView, Controllers, Found, ItsOwn, Separate, Takes, TearDown, Quiet, NextCall,
     Activation
<1>6. CASE Requests
  <2>1. CASE GetComponentState
    BY <2>1 DEF GetComponentState, Returns
  <2>2. CASE GetControllerState
    BY <2>2 DEF GetControllerState, Returns, Controllers, Found, ItsOwn, Separate, Takes
  <2>3. CASE SetComponentState
    BY <2>3 DEF SetComponentState, Returns, Controllers, Found, ItsOwn, Separate, Takes
  <2>4. CASE SetControllerState
    BY <2>4 DEF SetControllerState, Returns, Controllers, Found, ItsOwn, Separate, Takes
  <2>5. CASE CreateEditorView
    BY <2>5 DEF CreateEditorView, Returns, WithView, Controllers, Found, ItsOwn, Separate,
       Takes
  <2> QED
    BY <1>6, <2>1, <2>2, <2>3, <2>4, <2>5 DEF Requests
<1>7. CASE OpeningWindow
  BY <1>7 DEF OpeningWindow, IsPlatformTypeSupported, GetSize, CreateWindow, SetFrame,
     Attached, OnSize, ReleaseView, ViewCall, GiveUp, HaveFrame, CloseNative
<1>8. CASE Stopping
  BY <1>8 DEF Stopping, StopStream, ShutDown, CloseWindow, CloseNative, TearDown
<1>9. CASE Dropping
  BY <1>9 DEF Dropping, ShutdownStep, DropStep, Skips, Applies, Following, Leaves, Released,
     Forgotten
<1>10. CASE Freeing
  BY <1>10 DEF Freeing, DestroyHost, Leak, Free
<1>11. CASE ModuleGoes
  BY <1>11 DEF ModuleGoes, DropModule, BundleExit
<1>12. CASE Finishing
  BY <1>12 DEF Finishing, Unload, Caught, Finish, Inactive, Quiet
<1>13. CASE Audio
  BY <1>13 DEF Audio, BeginProcess, EndProcess
<1>14. CASE UNCHANGED vars
  BY <1>14 DEF vars
<1> HIDE DEF ControlTyped, ModuleHeld, ObjectsTyped, Objects, HostObjects, LockedCalls,
             taskVars, objectVars, editorVars, audioVars, processVars
<1> QED
  BY <1>1, <1>2, <1>3, <1>4, <1>5, <1>6, <1>7, <1>8, <1>9, <1>10, <1>11, <1>12, <1>13, <1>14,
     StepsAreAll

\* the flags,
LEMMA FlagsStayTyped ==
  ASSUME FlagsTyped, [Next]_vars
  PROVE  FlagsTyped'
<1> USE PluginInstanceAssumption
    DEF FlagsTyped, taskVars, objectVars, editorVars, audioVars, processVars
<1>1. CASE Asked
  BY <1>1 DEF Asked, ActivatePlugin, RunPlugin, LockEngine, DeactivatePlugin, Stop
<1>2. CASE ShownWindow
  BY <1>2 DEF ShownWindow, WindowClosed, ResizeView, PollResize, CloseWindow, CloseNative
<1>3. CASE Loading
  BY <1>3 DEF Loading, LoadFails, Load, Create, FactoryContext, NextCall, Activation
<1>4. CASE Configuring
  <2>1. CASE CanProcess
    BY <2>1 DEF CanProcess, TearDown, NextCall, Activation
  <2>2. CASE SetBusArrangements
    BY <2>2 DEF SetBusArrangements, Enters, IsRefused, CrashRecorded, Configures, TearDown,
       NextCall, Activation
  <2>3. CASE SetupProcessing
    BY <2>3 DEF SetupProcessing, Enters, IsRefused, CrashRecorded, Configures, TearDown,
       NextCall, Activation
  <2>4. CASE Activate
    BY <2>4 DEF Activate, Enters, IsRefused, CrashRecorded, Configures, TearDown, NextCall,
       Activation
  <2>5. CASE StartProcessing
    BY <2>5 DEF StartProcessing, Enters, IsRefused, CrashRecorded, Configures, TearDown,
       NextCall, Activation
  <2> QED
    BY <1>4, <2>1, <2>2, <2>3, <2>4, <2>5 DEF Configuring
<1>5. CASE Preparing
  BY <1>5 DEF Preparing, InstallHandler, QueryParameters, HasEditor, BuildStream, Handed,
     WithView, Controllers, Found, ItsOwn, Separate, Takes, TearDown, Quiet, NextCall,
     Activation
<1>6. CASE Requests
  BY <1>6 DEF Requests, GetComponentState, GetControllerState, SetComponentState,
     SetControllerState, CreateEditorView, Returns, WithView, Controllers, Found, ItsOwn,
     Separate, Takes
<1>7. CASE OpeningWindow
  BY <1>7 DEF OpeningWindow, IsPlatformTypeSupported, GetSize, CreateWindow, SetFrame,
     Attached, OnSize, ReleaseView, ViewCall, GiveUp, HaveFrame, CloseNative
<1>8. CASE Stopping
  BY <1>8 DEF Stopping, StopStream, ShutDown, CloseWindow, CloseNative, TearDown
<1>9. CASE Dropping
  BY <1>9 DEF Dropping, ShutdownStep, DropStep, Skips, Applies, Following, Leaves, Released,
     Forgotten
<1>10. CASE Freeing
  BY <1>10 DEF Freeing, DestroyHost, Leak, Free
<1>11. CASE ModuleGoes
  BY <1>11 DEF ModuleGoes, DropModule, BundleExit
<1>12. CASE Finishing
  BY <1>12 DEF Finishing, Unload, Caught, Finish, Inactive, Quiet
<1>13. CASE Audio
  BY <1>13 DEF Audio, BeginProcess, EndProcess
<1>14. CASE UNCHANGED vars
  BY <1>14 DEF vars
<1> HIDE DEF FlagsTyped, taskVars, objectVars, editorVars, audioVars, processVars
<1> QED
  BY <1>1, <1>2, <1>3, <1>4, <1>5, <1>6, <1>7, <1>8, <1>9, <1>10, <1>11, <1>12, <1>13, <1>14,
     StepsAreAll

\* and the engine.
LEMMA EngineStaysTyped ==
  ASSUME EngineTyped, [Next]_vars
  PROVE  EngineTyped'
<1> USE PluginInstanceAssumption
    DEF EngineTyped, taskVars, objectVars, editorVars, audioVars, processVars
<1>1. CASE Asked
  BY <1>1 DEF Asked, ActivatePlugin, RunPlugin, LockEngine, DeactivatePlugin, Stop
<1>2. CASE ShownWindow
  BY <1>2 DEF ShownWindow, WindowClosed, ResizeView, PollResize, CloseWindow, CloseNative
<1>3. CASE Loading
  BY <1>3 DEF Loading, LoadFails, Load, Create, FactoryContext, NextCall, Activation
<1>4. CASE Configuring
  BY <1>4 DEF Configuring, CanProcess, SetBusArrangements, SetupProcessing, Activate,
     StartProcessing, Enters, IsRefused, CrashRecorded, Configures, TearDown, NextCall,
     Activation
<1>5. CASE Preparing
  <2>1. CASE InstallHandler \/ QueryParameters \/ HasEditor
    BY <2>1 DEF InstallHandler, QueryParameters, HasEditor
  <2>2. CASE BuildStream
    BY <2>2 DEF BuildStream, Quiet
  <2> QED
    BY <1>5, <2>1, <2>2 DEF Preparing
<1>6. CASE Requests
  BY <1>6 DEF Requests, GetComponentState, GetControllerState, SetComponentState,
     SetControllerState, CreateEditorView, Returns, WithView, Controllers, Found, ItsOwn,
     Separate, Takes
<1>7. CASE OpeningWindow
  BY <1>7 DEF OpeningWindow, IsPlatformTypeSupported, GetSize, CreateWindow, SetFrame,
     Attached, OnSize, ReleaseView, ViewCall, GiveUp, HaveFrame, CloseNative
<1>8. CASE Stopping
  <2>1. CASE StopStream
    BY <2>1 DEF StopStream
  <2>2. CASE ShutDown
    BY <2>2 DEF ShutDown
  <2> QED
    BY <1>8, <2>1, <2>2 DEF Stopping
<1>9. CASE Dropping
  BY <1>9 DEF Dropping, ShutdownStep, DropStep, Skips, Applies, Following, Leaves, Released,
     Forgotten
<1>10. CASE Freeing
  <2>1. CASE DestroyHost \/ Free
    BY <2>1 DEF DestroyHost, Free
  <2>2. CASE Leak
    BY <2>2, Zenon DEF Leak
  <2> QED
    BY <1>10, <2>1, <2>2 DEF Freeing
<1>11. CASE ModuleGoes
  BY <1>11 DEF ModuleGoes, DropModule, BundleExit
<1>12. CASE Finishing
  <2>1. CASE Unload
    BY <2>1 DEF Unload, Finish, Quiet
  <2>2. CASE Caught
    BY <2>2 DEF Caught, Finish, Quiet
  <2> QED
    BY <1>12, <2>1, <2>2 DEF Finishing
<1>13. CASE Audio
  BY <1>13 DEF Audio, BeginProcess, EndProcess
<1>14. CASE UNCHANGED vars
  BY <1>14 DEF vars
<1> HIDE DEF EngineTyped, taskVars, objectVars, editorVars, audioVars, processVars
<1> QED
  BY <1>1, <1>2, <1>3, <1>4, <1>5, <1>6, <1>7, <1>8, <1>9, <1>10, <1>11, <1>12, <1>13, <1>14,
     StepsAreAll

\* The handle on the library goes with the module and not before.
LEMMA ModuleStaysHeld ==
  ASSUME ControlTyped, ModuleHeld, [Next]_vars
  PROVE  ModuleHeld'
<1> USE PluginInstanceAssumption
    DEF ControlTyped, ModuleHeld, Playing, ViewCalls, LockedCalls, Prepared,
        AfterController, Ending, GivenUp, taskVars, objectVars, editorVars, audioVars,
        processVars
<1>1. CASE Asked
  BY <1>1 DEF Asked, ActivatePlugin, RunPlugin, LockEngine, DeactivatePlugin, Stop
<1>2. CASE ShownWindow
  BY <1>2 DEF ShownWindow, WindowClosed, ResizeView, PollResize, CloseWindow, CloseNative
<1>3. CASE Loading
  BY <1>3 DEF Loading, LoadFails, Load, Create, FactoryContext, NextCall, Activation
<1>4. CASE Configuring
  <2>1. CASE CanProcess
    BY <2>1 DEF CanProcess, TearDown, NextCall, Activation
  <2>2. CASE SetBusArrangements
    BY <2>2 DEF SetBusArrangements, Enters, IsRefused, CrashRecorded, Configures, TearDown,
       NextCall, Activation
  <2>3. CASE SetupProcessing
    BY <2>3 DEF SetupProcessing, Enters, IsRefused, CrashRecorded, Configures, TearDown,
       NextCall, Activation
  <2>4. CASE Activate
    BY <2>4 DEF Activate, Enters, IsRefused, CrashRecorded, Configures, TearDown, NextCall,
       Activation
  <2>5. CASE StartProcessing
    BY <2>5 DEF StartProcessing, Enters, IsRefused, CrashRecorded, Configures, TearDown,
       NextCall, Activation
  <2> QED
    BY <1>4, <2>1, <2>2, <2>3, <2>4, <2>5 DEF Configuring
<1>5. CASE Preparing
  BY <1>5 DEF Preparing, InstallHandler, QueryParameters, HasEditor, BuildStream, Handed,
     WithView, Controllers, Found, ItsOwn, Separate, Takes, TearDown, Quiet, NextCall,
     Activation
<1>6. CASE Requests
  BY <1>6 DEF Requests, GetComponentState, GetControllerState, SetComponentState,
     SetControllerState, CreateEditorView, Returns, WithView, Controllers, Found, ItsOwn,
     Separate, Takes
<1>7. CASE OpeningWindow
  BY <1>7 DEF OpeningWindow, IsPlatformTypeSupported, GetSize, CreateWindow, SetFrame,
     Attached, OnSize, ReleaseView, ViewCall, GiveUp, HaveFrame, CloseNative
<1>8. CASE Stopping
  BY <1>8 DEF Stopping, StopStream, ShutDown, CloseWindow, CloseNative, TearDown
<1>9. CASE Dropping
  BY <1>9 DEF Dropping, ShutdownStep, DropStep, Skips, Applies, Following, Leaves, Released,
     Forgotten
<1>10. CASE Freeing
  BY <1>10 DEF Freeing, DestroyHost, Leak, Free
<1>11. CASE ModuleGoes
  BY <1>11 DEF ModuleGoes, DropModule, BundleExit
<1>12. CASE Finishing
  BY <1>12 DEF Finishing, Unload, Caught, Finish, Inactive, Quiet
<1>13. CASE Audio
  BY <1>13 DEF Audio, BeginProcess, EndProcess
<1>14. CASE UNCHANGED vars
  BY <1>14 DEF vars
<1> HIDE DEF ControlTyped, ModuleHeld, Playing, ViewCalls, LockedCalls, Prepared,
             AfterController, Ending, GivenUp, taskVars, objectVars, editorVars, audioVars,
             processVars
<1> QED
  BY <1>1, <1>2, <1>3, <1>4, <1>5, <1>6, <1>7, <1>8, <1>9, <1>10, <1>11, <1>12, <1>13, <1>14,
     StepsAreAll

\* A crash is recorded together with the crash.
LEMMA CrashStaysKnown ==
  ASSUME FlagsTyped, InstanceTyped, EngineTyped, CrashIsKnown, [Next]_vars
  PROVE  CrashIsKnown'
<1> USE PluginInstanceAssumption
    DEF FlagsTyped, InstanceTyped, EngineTyped, CrashIsKnown, GivenUp, LockedCalls,
        taskVars, objectVars, editorVars, audioVars, processVars
<1>1. CASE Asked
  BY <1>1 DEF Asked, ActivatePlugin, RunPlugin, LockEngine, DeactivatePlugin, Stop
<1>2. CASE ShownWindow
  BY <1>2 DEF ShownWindow, WindowClosed, ResizeView, PollResize, CloseWindow, CloseNative
<1>3. CASE Loading
  BY <1>3 DEF Loading, LoadFails, Load, Create, FactoryContext, NextCall, Activation
<1>4. CASE Configuring
  <2>1. CASE CanProcess
    BY <2>1 DEF CanProcess, TearDown, NextCall, Activation
  <2>2. CASE SetBusArrangements
    BY <2>2 DEF SetBusArrangements, Enters, IsRefused, CrashRecorded, Configures, TearDown,
       NextCall, Activation
  <2>3. CASE SetupProcessing
    BY <2>3 DEF SetupProcessing, Enters, IsRefused, CrashRecorded, Configures, TearDown,
       NextCall, Activation
  <2>4. CASE Activate
    BY <2>4 DEF Activate, Enters, IsRefused, CrashRecorded, Configures, TearDown, NextCall,
       Activation
  <2>5. CASE StartProcessing
    BY <2>5 DEF StartProcessing, Enters, IsRefused, CrashRecorded, Configures, TearDown,
       NextCall, Activation
  <2> QED
    BY <1>4, <2>1, <2>2, <2>3, <2>4, <2>5 DEF Configuring
<1>5. CASE Preparing
  BY <1>5 DEF Preparing, InstallHandler, QueryParameters, HasEditor, BuildStream, Handed,
     WithView, Controllers, Found, ItsOwn, Separate, Takes, TearDown, Quiet, NextCall,
     Activation
<1>6. CASE Requests
  <2>1. CASE GetComponentState
    BY <2>1 DEF GetComponentState, Returns
  <2>2. CASE GetControllerState
    BY <2>2 DEF GetControllerState, Returns, Controllers, Found, ItsOwn, Separate, Takes
  <2>3. CASE SetComponentState
    BY <2>3 DEF SetComponentState, Returns, Controllers, Found, ItsOwn, Separate, Takes
  <2>4. CASE SetControllerState
    BY <2>4 DEF SetControllerState, Returns, Controllers, Found, ItsOwn, Separate, Takes
  <2>5. CASE CreateEditorView
    BY <2>5 DEF CreateEditorView, Returns, WithView, Controllers, Found, ItsOwn, Separate,
       Takes
  <2> QED
    BY <1>6, <2>1, <2>2, <2>3, <2>4, <2>5 DEF Requests
<1>7. CASE OpeningWindow
  BY <1>7 DEF OpeningWindow, IsPlatformTypeSupported, GetSize, CreateWindow, SetFrame,
     Attached, OnSize, ReleaseView, ViewCall, GiveUp, HaveFrame, CloseNative
<1>8. CASE Stopping
  BY <1>8 DEF Stopping, StopStream, ShutDown, CloseWindow, CloseNative, TearDown
<1>9. CASE Dropping
  BY <1>9 DEF Dropping, ShutdownStep, DropStep, Skips, Applies, Following, Leaves, Released,
     Forgotten
<1>10. CASE Freeing
  BY <1>10 DEF Freeing, DestroyHost, Leak, Free
<1>11. CASE ModuleGoes
  BY <1>11 DEF ModuleGoes, DropModule, BundleExit
<1>12. CASE Finishing
  BY <1>12 DEF Finishing, Unload, Caught, Finish, Inactive, Quiet
<1>13. CASE Audio
  BY <1>13 DEF Audio, BeginProcess, EndProcess
<1>14. CASE UNCHANGED vars
  BY <1>14 DEF vars
<1> HIDE DEF FlagsTyped, InstanceTyped, EngineTyped, CrashIsKnown, GivenUp, LockedCalls,
             taskVars, objectVars, editorVars, audioVars, processVars
<1> QED
  BY <1>1, <1>2, <1>3, <1>4, <1>5, <1>6, <1>7, <1>8, <1>9, <1>10, <1>11, <1>12, <1>13, <1>14,
     StepsAreAll

\* The window goes before the stream, and its frame with it.
LEMMA WindowStaysPlaced ==
  ASSUME ControlTyped, FlagsTyped, InstanceTyped, EngineTyped, ModuleHeld, WindowPlaced, [Next]_vars
  PROVE  WindowPlaced'
<1> USE PluginInstanceAssumption
    DEF ControlTyped, FlagsTyped, InstanceTyped, EngineTyped, ModuleHeld, WindowPlaced,
        Playing, ViewCalls, LockedCalls, Prepared, AfterController, Ending, GivenUp, taskVars,
        objectVars, editorVars, audioVars, processVars
<1>1. CASE Asked
  BY <1>1 DEF Asked, ActivatePlugin, RunPlugin, LockEngine, DeactivatePlugin, Stop
<1>2. CASE ShownWindow
  BY <1>2 DEF ShownWindow, WindowClosed, ResizeView, PollResize, CloseWindow, CloseNative
<1>3. CASE Loading
  BY <1>3 DEF Loading, LoadFails, Load, Create, FactoryContext, NextCall, Activation
<1>4. CASE Configuring
  <2>1. CASE CanProcess
    BY <2>1 DEF CanProcess, TearDown, NextCall, Activation
  <2>2. CASE SetBusArrangements
    BY <2>2 DEF SetBusArrangements, Enters, IsRefused, CrashRecorded, Configures, TearDown,
       NextCall, Activation
  <2>3. CASE SetupProcessing
    BY <2>3 DEF SetupProcessing, Enters, IsRefused, CrashRecorded, Configures, TearDown,
       NextCall, Activation
  <2>4. CASE Activate
    BY <2>4 DEF Activate, Enters, IsRefused, CrashRecorded, Configures, TearDown, NextCall,
       Activation
  <2>5. CASE StartProcessing
    BY <2>5 DEF StartProcessing, Enters, IsRefused, CrashRecorded, Configures, TearDown,
       NextCall, Activation
  <2> QED
    BY <1>4, <2>1, <2>2, <2>3, <2>4, <2>5 DEF Configuring
<1>5. CASE Preparing
  BY <1>5 DEF Preparing, InstallHandler, QueryParameters, HasEditor, BuildStream, Handed,
     WithView, Controllers, Found, ItsOwn, Separate, Takes, TearDown, Quiet, NextCall,
     Activation
<1>6. CASE Requests
  <2>1. CASE GetComponentState
    BY <2>1 DEF GetComponentState, Returns
  <2>2. CASE GetControllerState
    BY <2>2 DEF GetControllerState, Returns, Controllers, Found, ItsOwn, Separate, Takes
  <2>3. CASE SetComponentState
    BY <2>3 DEF SetComponentState, Returns, Controllers, Found, ItsOwn, Separate, Takes
  <2>4. CASE SetControllerState
    BY <2>4 DEF SetControllerState, Returns, Controllers, Found, ItsOwn, Separate, Takes
  <2>5. CASE CreateEditorView
    BY <2>5 DEF CreateEditorView, Returns, WithView, Controllers, Found, ItsOwn, Separate,
       Takes
  <2> QED
    BY <1>6, <2>1, <2>2, <2>3, <2>4, <2>5 DEF Requests
<1>7. CASE OpeningWindow
  BY <1>7 DEF OpeningWindow, IsPlatformTypeSupported, GetSize, CreateWindow, SetFrame,
     Attached, OnSize, ReleaseView, ViewCall, GiveUp, HaveFrame, CloseNative
<1>8. CASE Stopping
  BY <1>8 DEF Stopping, StopStream, ShutDown, CloseWindow, CloseNative, TearDown
<1>9. CASE Dropping
  BY <1>9 DEF Dropping, ShutdownStep, DropStep, Skips, Applies, Following, Leaves, Released,
     Forgotten
<1>10. CASE Freeing
  BY <1>10 DEF Freeing, DestroyHost, Leak, Free
<1>11. CASE ModuleGoes
  BY <1>11 DEF ModuleGoes, DropModule, BundleExit
<1>12. CASE Finishing
  BY <1>12 DEF Finishing, Unload, Caught, Finish, Inactive, Quiet
<1>13. CASE Audio
  BY <1>13 DEF Audio, BeginProcess, EndProcess
<1>14. CASE UNCHANGED vars
  BY <1>14 DEF vars
<1> HIDE DEF ControlTyped, FlagsTyped, InstanceTyped, EngineTyped, ModuleHeld,
             WindowPlaced, Playing, ViewCalls, LockedCalls, Prepared, AfterController, Ending,
             GivenUp, taskVars, objectVars, editorVars, audioVars, processVars
<1> QED
  BY <1>1, <1>2, <1>3, <1>4, <1>5, <1>6, <1>7, <1>8, <1>9, <1>10, <1>11, <1>12, <1>13, <1>14,
     StepsAreAll

\* The drop releases every object, unless it is flagged that it did not.
LEMMA ReleasesInOrder ==
  ASSUME ObjectsTyped, FlagsTyped, InstanceTyped, EngineTyped, ModuleHeld, CrashIsKnown,
         WindowPlaced, ReleasedSoFar, [Next]_vars
  PROVE  ReleasedSoFar'
<1> USE PluginInstanceAssumption
    DEF ObjectsTyped, FlagsTyped, InstanceTyped, EngineTyped, ModuleHeld, CrashIsKnown,
        WindowPlaced, ReleasedSoFar, Objects, HostObjects, Playing, ViewCalls, LockedCalls,
        Prepared, AfterController, Ending, GivenUp, taskVars, objectVars, editorVars,
        audioVars, processVars
<1>1. CASE Asked
  BY <1>1 DEF Asked, ActivatePlugin, RunPlugin, LockEngine, DeactivatePlugin, Stop
<1>2. CASE ShownWindow
  BY <1>2 DEF ShownWindow, WindowClosed, ResizeView, PollResize, CloseWindow, CloseNative
<1>3. CASE Loading
  BY <1>3 DEF Loading, LoadFails, Load, Create, FactoryContext, NextCall, Activation
<1>4. CASE Configuring
  <2>1. CASE CanProcess
    BY <2>1 DEF CanProcess, TearDown, NextCall, Activation
  <2>2. CASE SetBusArrangements
    BY <2>2 DEF SetBusArrangements, Enters, IsRefused, CrashRecorded, Configures, TearDown,
       NextCall, Activation
  <2>3. CASE SetupProcessing
    BY <2>3 DEF SetupProcessing, Enters, IsRefused, CrashRecorded, Configures, TearDown,
       NextCall, Activation
  <2>4. CASE Activate
    BY <2>4 DEF Activate, Enters, IsRefused, CrashRecorded, Configures, TearDown, NextCall,
       Activation
  <2>5. CASE StartProcessing
    BY <2>5 DEF StartProcessing, Enters, IsRefused, CrashRecorded, Configures, TearDown,
       NextCall, Activation
  <2> QED
    BY <1>4, <2>1, <2>2, <2>3, <2>4, <2>5 DEF Configuring
<1>5. CASE Preparing
  BY <1>5 DEF Preparing, InstallHandler, QueryParameters, HasEditor, BuildStream, Handed,
     WithView, Controllers, Found, ItsOwn, Separate, Takes, TearDown, Quiet, NextCall,
     Activation
<1>6. CASE Requests
  BY <1>6 DEF Requests, GetComponentState, GetControllerState, SetComponentState,
     SetControllerState, CreateEditorView, Returns, WithView, Controllers, Found, ItsOwn,
     Separate, Takes
<1>7. CASE OpeningWindow
  BY <1>7 DEF OpeningWindow, IsPlatformTypeSupported, GetSize, CreateWindow, SetFrame,
     Attached, OnSize, ReleaseView, ViewCall, GiveUp, HaveFrame, CloseNative
<1>8. CASE Stopping
  BY <1>8 DEF Stopping, StopStream, ShutDown, CloseWindow, CloseNative, TearDown
<1>9. CASE Dropping
  BY <1>9 DEF Dropping, ShutdownStep, DropStep, Skips, Applies, Following, Leaves, Released,
     Forgotten
<1>10. CASE Freeing
  <2>1. CASE DestroyHost
    BY <2>1 DEF DestroyHost
  <2>2. CASE Leak
    BY <2>2 DEF Leak
  <2>3. CASE Free
    BY <2>3 DEF Free
  <2> QED
    BY <1>10, <2>1, <2>2, <2>3 DEF Freeing
<1>11. CASE ModuleGoes
  BY <1>11 DEF ModuleGoes, DropModule, BundleExit
<1>12. CASE Finishing
  BY <1>12 DEF Finishing, Unload, Caught, Finish, Inactive, Quiet
<1>13. CASE Audio
  BY <1>13 DEF Audio, BeginProcess, EndProcess
<1>14. CASE UNCHANGED vars
  BY <1>14 DEF vars
<1> HIDE DEF ObjectsTyped, FlagsTyped, InstanceTyped, EngineTyped, ModuleHeld,
             CrashIsKnown, WindowPlaced, ReleasedSoFar, Objects, HostObjects, Playing,
             ViewCalls, LockedCalls, Prepared, AfterController, Ending, GivenUp, taskVars,
             objectVars, editorVars, audioVars, processVars
<1> QED
  BY <1>1, <1>2, <1>3, <1>4, <1>5, <1>6, <1>7, <1>8, <1>9, <1>10, <1>11, <1>12, <1>13, <1>14,
     StepsAreAll

\* No host object is destroyed before the plugin has given up its pointer.
LEMMA PointersStayLive ==
  ASSUME ObjectsTyped, FlagsTyped, InstanceTyped, EngineTyped, ModuleHeld, CrashIsKnown,
         WindowPlaced, ReleasedSoFar, PointersAreLive, [Next]_vars
  PROVE  PointersAreLive'
<1> USE PluginInstanceAssumption
    DEF ObjectsTyped, FlagsTyped, InstanceTyped, EngineTyped, ModuleHeld, CrashIsKnown,
        WindowPlaced, ReleasedSoFar, PointersAreLive, Objects, HostObjects, Playing,
        ViewCalls, LockedCalls, Prepared, AfterController, Ending, GivenUp, taskVars,
        objectVars, editorVars, audioVars, processVars
<1>1. CASE Asked
  BY <1>1 DEF Asked, ActivatePlugin, RunPlugin, LockEngine, DeactivatePlugin, Stop
<1>2. CASE ShownWindow
  BY <1>2 DEF ShownWindow, WindowClosed, ResizeView, PollResize, CloseWindow, CloseNative
<1>3. CASE Loading
  <2>1. CASE LoadFails
    BY <2>1 DEF LoadFails
  <2>2. CASE Load
    BY <2>2 DEF Load, FactoryContext
  <2>3. CASE Create
    BY <2>3 DEF Create, NextCall, Activation
  <2> QED
    BY <1>3, <2>1, <2>2, <2>3 DEF Loading
<1>4. CASE Configuring
  <2>1. CASE CanProcess
    BY <2>1 DEF CanProcess, TearDown, NextCall, Activation
  <2>2. CASE SetBusArrangements
    BY <2>2 DEF SetBusArrangements, Enters, IsRefused, CrashRecorded, Configures, TearDown,
       NextCall, Activation
  <2>3. CASE SetupProcessing
    BY <2>3 DEF SetupProcessing, Enters, IsRefused, CrashRecorded, Configures, TearDown,
       NextCall, Activation
  <2>4. CASE Activate
    BY <2>4 DEF Activate, Enters, IsRefused, CrashRecorded, Configures, TearDown, NextCall,
       Activation
  <2>5. CASE StartProcessing
    BY <2>5 DEF StartProcessing, Enters, IsRefused, CrashRecorded, Configures, TearDown,
       NextCall, Activation
  <2> QED
    BY <1>4, <2>1, <2>2, <2>3, <2>4, <2>5 DEF Configuring
<1>5. CASE Preparing
  BY <1>5 DEF Preparing, InstallHandler, QueryParameters, HasEditor, BuildStream, Handed,
     WithView, Controllers, Found, ItsOwn, Separate, Takes, TearDown, Quiet, NextCall,
     Activation
<1>6. CASE Requests
  <2>1. CASE GetComponentState
    BY <2>1 DEF GetComponentState, Returns
  <2>2. CASE GetControllerState
    BY <2>2 DEF GetControllerState, Returns, Controllers, Found, ItsOwn, Separate, Takes
  <2>3. CASE SetComponentState
    BY <2>3 DEF SetComponentState, Returns, Controllers, Found, ItsOwn, Separate, Takes
  <2>4. CASE SetControllerState
    BY <2>4 DEF SetControllerState, Returns, Controllers, Found, ItsOwn, Separate, Takes
  <2>5. CASE CreateEditorView
    BY <2>5 DEF CreateEditorView, Returns, WithView, Controllers, Found, ItsOwn, Separate,
       Takes
  <2> QED
    BY <1>6, <2>1, <2>2, <2>3, <2>4, <2>5 DEF Requests
<1>7. CASE OpeningWindow
  <2>1. CASE IsPlatformTypeSupported
    BY <2>1 DEF IsPlatformTypeSupported, ViewCall, GiveUp
  <2>2. CASE GetSize
    BY <2>2 DEF GetSize, ViewCall, GiveUp
  <2>3. CASE CreateWindow
    BY <2>3 DEF CreateWindow, ViewCall, HaveFrame
  <2>4. CASE SetFrame
    BY <2>4 DEF SetFrame, ViewCall, GiveUp, CloseNative
  <2>5. CASE Attached
    BY <2>5 DEF Attached, ViewCall, GiveUp, CloseNative
  <2>6. CASE OnSize
    BY <2>6 DEF OnSize, ViewCall
  <2>7. CASE ReleaseView
    BY <2>7 DEF ReleaseView
  <2> QED
    BY <1>7, <2>1, <2>2, <2>3, <2>4, <2>5, <2>6, <2>7 DEF OpeningWindow
<1>8. CASE Stopping
  BY <1>8 DEF Stopping, StopStream, ShutDown, CloseWindow, CloseNative, TearDown
<1>9. CASE Dropping
  BY <1>9 DEF Dropping, ShutdownStep, DropStep, Skips, Applies, Following, Leaves, Released,
     Forgotten
<1>10. CASE Freeing
  <2>1. CASE DestroyHost
    BY <2>1 DEF DestroyHost
  <2>2. CASE Leak
    BY <2>2 DEF Leak
  <2>3. CASE Free
    BY <2>3 DEF Free
  <2> QED
    BY <1>10, <2>1, <2>2, <2>3 DEF Freeing
<1>11. CASE ModuleGoes
  BY <1>11 DEF ModuleGoes, DropModule, BundleExit
<1>12. CASE Finishing
  BY <1>12 DEF Finishing, Unload, Caught, Finish, Inactive, Quiet
<1>13. CASE Audio
  BY <1>13 DEF Audio, BeginProcess, EndProcess
<1>14. CASE UNCHANGED vars
  BY <1>14 DEF vars
<1> HIDE DEF ObjectsTyped, FlagsTyped, InstanceTyped, EngineTyped, ModuleHeld,
             CrashIsKnown, WindowPlaced, ReleasedSoFar, PointersAreLive, Objects, HostObjects,
             Playing, ViewCalls, LockedCalls, Prepared, AfterController, Ending, GivenUp,
             taskVars, objectVars, editorVars, audioVars, processVars
<1> QED
  BY <1>1, <1>2, <1>3, <1>4, <1>5, <1>6, <1>7, <1>8, <1>9, <1>10, <1>11, <1>12, <1>13, <1>14,
     StepsAreAll

\* The host keeps book of the component's state until it crashes.
LEMMA PhaseStaysKept ==
  ASSUME ObjectsTyped, FlagsTyped, InstanceTyped, EngineTyped, ModuleHeld, CrashIsKnown,
         WindowPlaced, EngineHeld, PhaseKept, [Next]_vars
  PROVE  PhaseKept'
<1> USE PluginInstanceAssumption
    DEF ObjectsTyped, FlagsTyped, InstanceTyped, EngineTyped, ModuleHeld, CrashIsKnown,
        WindowPlaced, EngineHeld, PhaseKept, Playing, ViewCalls, LockedCalls, Prepared,
        AfterController, Ending, GivenUp, taskVars, objectVars, editorVars, audioVars,
        processVars
<1>1. CASE Asked
  BY <1>1 DEF Asked, ActivatePlugin, RunPlugin, LockEngine, DeactivatePlugin, Stop
<1>2. CASE ShownWindow
  BY <1>2 DEF ShownWindow, WindowClosed, ResizeView, PollResize, CloseWindow, CloseNative
<1>3. CASE Loading
  BY <1>3 DEF Loading, LoadFails, Load, Create, FactoryContext, NextCall, Activation
<1>4. CASE Configuring
  <2>1. CASE CanProcess
    BY <2>1 DEF CanProcess, TearDown, NextCall, Activation
  <2>2. CASE SetBusArrangements
    BY <2>2 DEF SetBusArrangements, Enters, IsRefused, CrashRecorded, Configures, TearDown,
       NextCall, Activation
  <2>3. CASE SetupProcessing
    BY <2>3 DEF SetupProcessing, Enters, IsRefused, CrashRecorded, Configures, TearDown,
       NextCall, Activation
  <2>4. CASE Activate
    <3>1. CASE Enters("active")
      BY <2>4, <3>1 DEF Activate, Enters, Configures, NextCall, Activation
    <3>2. CASE IsRefused
      BY <2>4, <3>2 DEF Activate, IsRefused, Configures, TearDown
    <3>3. CASE CrashRecorded
      BY <2>4, <3>3 DEF Activate, CrashRecorded, Configures, TearDown
    <3> QED
      BY <2>4, <3>1, <3>2, <3>3 DEF Activate
  <2>5. CASE StartProcessing
    BY <2>5 DEF StartProcessing, Enters, IsRefused, CrashRecorded, Configures, TearDown,
       NextCall, Activation
  <2> QED
    BY <1>4, <2>1, <2>2, <2>3, <2>4, <2>5 DEF Configuring
<1>5. CASE Preparing
  BY <1>5 DEF Preparing, InstallHandler, QueryParameters, HasEditor, BuildStream, Handed,
     WithView, Controllers, Found, ItsOwn, Separate, Takes, TearDown, Quiet, NextCall,
     Activation
<1>6. CASE Requests
  <2>1. CASE GetComponentState
    BY <2>1 DEF GetComponentState, Returns
  <2>2. CASE GetControllerState
    BY <2>2 DEF GetControllerState, Returns, Controllers, Found, ItsOwn, Separate, Takes
  <2>3. CASE SetComponentState
    BY <2>3 DEF SetComponentState, Returns, Controllers, Found, ItsOwn, Separate, Takes
  <2>4. CASE SetControllerState
    BY <2>4 DEF SetControllerState, Returns, Controllers, Found, ItsOwn, Separate, Takes
  <2>5. CASE CreateEditorView
    BY <2>5 DEF CreateEditorView, Returns, WithView, Controllers, Found, ItsOwn, Separate,
       Takes
  <2> QED
    BY <1>6, <2>1, <2>2, <2>3, <2>4, <2>5 DEF Requests
<1>7. CASE OpeningWindow
  BY <1>7 DEF OpeningWindow, IsPlatformTypeSupported, GetSize, CreateWindow, SetFrame,
     Attached, OnSize, ReleaseView, ViewCall, GiveUp, HaveFrame, CloseNative
<1>8. CASE Stopping
  BY <1>8 DEF Stopping, StopStream, ShutDown, CloseWindow, CloseNative, TearDown
<1>9. CASE Dropping
  BY <1>9 DEF Dropping, ShutdownStep, DropStep, Skips, Applies, Following, Leaves, Released,
     Forgotten
<1>10. CASE Freeing
  BY <1>10 DEF Freeing, DestroyHost, Leak, Free
<1>11. CASE ModuleGoes
  BY <1>11 DEF ModuleGoes, DropModule, BundleExit
<1>12. CASE Finishing
  BY <1>12 DEF Finishing, Unload, Caught, Finish, Inactive, Quiet
<1>13. CASE Audio
  BY <1>13 DEF Audio, BeginProcess, EndProcess
<1>14. CASE UNCHANGED vars
  BY <1>14 DEF vars
<1> HIDE DEF ObjectsTyped, FlagsTyped, InstanceTyped, EngineTyped, ModuleHeld,
             CrashIsKnown, WindowPlaced, EngineHeld, PhaseKept, Playing, ViewCalls,
             LockedCalls, Prepared, AfterController, Ending, GivenUp, taskVars, objectVars,
             editorVars, audioVars, processVars
<1> QED
  BY <1>1, <1>2, <1>3, <1>4, <1>5, <1>6, <1>7, <1>8, <1>9, <1>10, <1>11, <1>12, <1>13, <1>14,
     StepsAreAll

\* The mutex is taken and given back by the same thread.
LEMMA EngineStaysHeld ==
  ASSUME ControlTyped, ObjectsTyped, FlagsTyped, InstanceTyped, EngineTyped, ModuleHeld,
         WindowPlaced, EngineHeld, [Next]_vars
  PROVE  EngineHeld'
<1> USE PluginInstanceAssumption
    DEF ControlTyped, ObjectsTyped, FlagsTyped, InstanceTyped, EngineTyped, ModuleHeld,
        WindowPlaced, EngineHeld, Playing, ViewCalls, LockedCalls, Prepared, AfterController,
        Ending, GivenUp, taskVars, objectVars, editorVars, audioVars, processVars
<1>1. CASE Asked
  BY <1>1 DEF Asked, ActivatePlugin, RunPlugin, LockEngine, DeactivatePlugin, Stop
<1>2. CASE ShownWindow
  BY <1>2 DEF ShownWindow, WindowClosed, ResizeView, PollResize, CloseWindow, CloseNative
<1>3. CASE Loading
  BY <1>3 DEF Loading, LoadFails, Load, Create, FactoryContext, NextCall, Activation
<1>4. CASE Configuring
  <2>1. CASE CanProcess
    BY <2>1 DEF CanProcess, TearDown, NextCall, Activation
  <2>2. CASE SetBusArrangements
    BY <2>2 DEF SetBusArrangements, Enters, IsRefused, CrashRecorded, Configures, TearDown,
       NextCall, Activation
  <2>3. CASE SetupProcessing
    BY <2>3 DEF SetupProcessing, Enters, IsRefused, CrashRecorded, Configures, TearDown,
       NextCall, Activation
  <2>4. CASE Activate
    BY <2>4 DEF Activate, Enters, IsRefused, CrashRecorded, Configures, TearDown, NextCall,
       Activation
  <2>5. CASE StartProcessing
    BY <2>5 DEF StartProcessing, Enters, IsRefused, CrashRecorded, Configures, TearDown,
       NextCall, Activation
  <2> QED
    BY <1>4, <2>1, <2>2, <2>3, <2>4, <2>5 DEF Configuring
<1>5. CASE Preparing
  BY <1>5 DEF Preparing, InstallHandler, QueryParameters, HasEditor, BuildStream, Handed,
     WithView, Controllers, Found, ItsOwn, Separate, Takes, TearDown, Quiet, NextCall,
     Activation
<1>6. CASE Requests
  BY <1>6 DEF Requests, GetComponentState, GetControllerState, SetComponentState,
     SetControllerState, CreateEditorView, Returns, WithView, Controllers, Found, ItsOwn,
     Separate, Takes
<1>7. CASE OpeningWindow
  BY <1>7 DEF OpeningWindow, IsPlatformTypeSupported, GetSize, CreateWindow, SetFrame,
     Attached, OnSize, ReleaseView, ViewCall, GiveUp, HaveFrame, CloseNative
<1>8. CASE Stopping
  BY <1>8 DEF Stopping, StopStream, ShutDown, CloseWindow, CloseNative, TearDown
<1>9. CASE Dropping
  BY <1>9 DEF Dropping, ShutdownStep, DropStep, Skips, Applies, Following, Leaves, Released,
     Forgotten
<1>10. CASE Freeing
  BY <1>10 DEF Freeing, DestroyHost, Leak, Free
<1>11. CASE ModuleGoes
  BY <1>11 DEF ModuleGoes, DropModule, BundleExit
<1>12. CASE Finishing
  BY <1>12 DEF Finishing, Unload, Caught, Finish, Inactive, Quiet
<1>13. CASE Audio
  BY <1>13 DEF Audio, BeginProcess, EndProcess
<1>14. CASE UNCHANGED vars
  BY <1>14 DEF vars
<1> HIDE DEF ControlTyped, ObjectsTyped, FlagsTyped, InstanceTyped, EngineTyped,
             ModuleHeld, WindowPlaced, EngineHeld, Playing, ViewCalls, LockedCalls, Prepared,
             AfterController, Ending, GivenUp, taskVars, objectVars, editorVars, audioVars,
             processVars
<1> QED
  BY <1>1, <1>2, <1>3, <1>4, <1>5, <1>6, <1>7, <1>8, <1>9, <1>10, <1>11, <1>12, <1>13, <1>14,
     StepsAreAll

\* A call of the activation that succeeds types the instance,
LEMMA EntersTyped ==
  ASSUME InstanceTyped, NEW to, Enters(to)
  PROVE  InstanceTyped'
<1>1. (to \in {"active", "processing"}) \in BOOLEAN /\ (to = "processing") \in BOOLEAN
  OBVIOUS
<1> QED
  BY <1>1, Zenon DEF InstanceTyped, Enters

\* a controller is its own or is separate,
LEMMA ControllerTyped ==
  ASSUME InstanceTyped, NEW c \in Controllers
  PROVE  c.separate \in BOOLEAN
<1>1. \/ c = [refs |-> refs, owned |-> owned, known |-> known, separate |-> instance.separate]
      \/ c = ItsOwn \/ c = Separate
  BY Zenon DEF Controllers
<1>2. ItsOwn.separate = FALSE /\ Separate.separate = TRUE
  BY DEF Found, ItsOwn, Separate
<1>3. [refs |-> refs, owned |-> owned, known |-> known,
       separate |-> instance.separate].separate = instance.separate
  BY Zenon
<1>4. instance.separate \in BOOLEAN
  BY DEF InstanceTyped
<1> QED
  BY <1>1, <1>2, <1>3, <1>4, Zenon

\* and so is what a call does with it.
LEMMA TakesTyped ==
  ASSUME InstanceTyped, NEW crashed \in BOOLEAN, NEW c \in Controllers,
         \/ Takes(c, crashed) \/ Takes(WithView(c), crashed)
         \/ \E kept \in SUBSET HostObjects : Takes(Handed(c, kept), crashed)
  PROVE  InstanceTyped'
<1>1. ASSUME NEW d, d.separate \in BOOLEAN, Takes(d, crashed) PROVE InstanceTyped'
  BY <1>1, Zenon DEF InstanceTyped, Takes
<1>2. WithView(c).separate = c.separate
  BY DEF Controllers, Found, ItsOwn, Separate, WithView
<1>3. ASSUME NEW kept PROVE Handed(c, kept).separate = c.separate
  BY DEF Handed
<1> QED
  BY <1>1, <1>2, <1>3, ControllerTyped

\* The instance keeps its type.
LEMMA InstanceStaysTyped ==
  ASSUME InstanceTyped, [Next]_vars
  PROVE  InstanceTyped'
<1>1. CASE UNCHANGED instance
  BY <1>1 DEF InstanceTyped
<1>2. CASE instance' = [instance EXCEPT !.crashed = TRUE]
  BY <1>2 DEF InstanceTyped
<1>3. CASE Configuring
  <2>1. CASE \E to : Enters(to)
    BY <2>1, EntersTyped
  <2> QED
    BY <1>1, <1>2, <1>3, <2>1 DEF Configuring, CanProcess, SetBusArrangements, SetupProcessing,
       Activate, StartProcessing, IsRefused, CrashRecorded
<1>4. CASE Preparing
  <2>1. {} \in SUBSET HostObjects /\ {"component_handler"} \in SUBSET HostObjects
    BY DEF HostObjects
  <2>2. CASE InstallHandler
    BY <2>1, <2>2, TakesTyped DEF InstallHandler
  <2>3. CASE QueryParameters \/ HasEditor \/ BuildStream
    BY <1>1, <2>3, TakesTyped DEF QueryParameters, HasEditor, BuildStream
  <2> QED
    BY <1>4, <2>2, <2>3 DEF Preparing
<1>5. CASE Requests
  <2>1. CASE CreateEditorView
    BY <2>1, TakesTyped DEF CreateEditorView
  <2>2. CASE GetComponentState \/ GetControllerState \/ SetComponentState \/ SetControllerState
    BY <1>1, <1>2, <2>2, TakesTyped
       DEF GetComponentState, GetControllerState, SetComponentState, SetControllerState
  <2> QED
    BY <1>5, <2>1, <2>2 DEF Requests
<1>6. CASE ShutdownStep
  <2>1. CASE instance' = [active |-> pc = "set_processing_off", processing |-> FALSE,
                          crashed |-> instance.crashed, separate |-> instance.separate]
    <3>1. (pc = "set_processing_off") \in BOOLEAN
      OBVIOUS
    <3> QED
      BY <2>1, <3>1, Zenon DEF InstanceTyped
  <2> QED
    BY <1>1, <1>2, <1>6, <2>1, Zenon DEF ShutdownStep, Skips
<1>7. CASE Finishing
  <2>1. instance' = Inactive
    BY <1>7 DEF Finishing, Unload, Caught, Finish
  <2> QED
    BY <2>1, Zenon DEF Inactive, InstanceTyped
<1>8. CASE EndProcess
  BY <1>8 DEF EndProcess, InstanceTyped
<1>9. CASE Asked \/ ShownWindow \/ Loading \/ OpeningWindow
  BY <1>1, <1>9 DEF Asked, ActivatePlugin, RunPlugin, LockEngine, DeactivatePlugin, Stop,
     ShownWindow, WindowClosed, ResizeView, PollResize, Loading, LoadFails, Load, Create,
     OpeningWindow, IsPlatformTypeSupported, GetSize, CreateWindow, SetFrame, Attached, OnSize,
     ReleaseView, ViewCall
<1>10. CASE Stopping \/ DropStep \/ Freeing \/ ModuleGoes \/ BeginProcess \/ UNCHANGED vars
  BY <1>1, <1>10 DEF Stopping, StopStream, ShutDown, DropStep, Skips, Freeing, DestroyHost,
     Leak, Free, ModuleGoes, DropModule, BundleExit, BeginProcess, vars
<1> QED
  BY <1>3, <1>4, <1>5, <1>6, <1>7, <1>8, <1>9, <1>10, StepsAreAll DEF Dropping, Audio

-----------------------------------------------------------------------------
(* The theorems *)

\* The invariant is inductive.
LEMMA IInvIsInductive ==
  /\ Init => IInv
  /\ IInv /\ [Next]_vars => IInv'
<1>1. Init => IInv
  <2> SUFFICES ASSUME Init PROVE IInv
    OBVIOUS
  <2> USE PluginInstanceAssumption DEF Init
  <2>1. ControlTyped /\ ObjectsTyped
    BY DEF ControlTyped, ObjectsTyped, Locations
  <2>2. FlagsTyped /\ EngineTyped
    BY DEF FlagsTyped, EngineTyped, Quiet
  <2>3. InstanceTyped
    BY Zenon DEF InstanceTyped, Inactive
  <2>4. ModuleHeld /\ CrashIsKnown /\ WindowPlaced
    BY DEF ModuleHeld, CrashIsKnown, WindowPlaced, Inactive, GivenUp, LockedCalls, ViewCalls
  <2>5. ReleasedSoFar /\ PointersAreLive
    BY DEF ReleasedSoFar, PointersAreLive, Inactive, AfterController, Ending, GivenUp
  <2>6. PhaseKept /\ EngineHeld
    BY DEF PhaseKept, EngineHeld, Inactive, Quiet, Playing, Prepared, LockedCalls, ViewCalls,
       Ending, GivenUp
  <2> QED
    BY <2>1, <2>2, <2>3, <2>4, <2>5, <2>6 DEF IInv
<1>2. IInv /\ [Next]_vars => IInv'
  BY ControlStaysTyped, ObjectsStayTyped, FlagsStayTyped, InstanceStaysTyped, EngineStaysTyped,
     ModuleStaysHeld, CrashStaysKnown, WindowStaysPlaced, ReleasesInOrder, PointersStayLive,
     PhaseStaysKept, EngineStaysHeld
     DEF IInv
<1> QED
  BY <1>1, <1>2

\* It holds in every state.
LEMMA IInvHolds == Spec => []IInv
  BY IInvIsInductive, PTL DEF Spec

\* Every variable keeps its type (Vst3Module, Vst3Instance, EditorWindow, AudioEngine).
THEOREM TypeCorrect == Spec => []TypeOK
<1>1. IInv => TypeOK
  BY DEF IInv, ControlTyped, ObjectsTyped, FlagsTyped, InstanceTyped, EngineTyped, TypeOK
<1> QED
  BY <1>1, IInvHolds, PTL

\* No object outlives the library its code is in (Vst3Module::drop, ActiveState::drop).
THEOREM LibraryStaysOpen == Spec => []CodeMapped
<1>1. IInv => CodeMapped
  BY DEF IInv, ModuleHeld, CodeMapped
<1> QED
  BY <1>1, IInvHolds, PTL

\* No pointer to a destroyed host object is left with a plugin that never crashed
\* (Vst3Instance::drop, EditorWindow::close).
THEOREM PointersLive == Spec => []HostObjectsOutlive
<1>1. IInv => HostObjectsOutlive
  BY DEF IInv, PointersAreLive, HostObjectsOutlive
<1> QED
  BY <1>1, IInvHolds, PTL

\* A teardown without a crash leaks nothing, and a failed opening no window.
THEOREM TeardownIsComplete == Spec => []NothingLeaks
<1>1. IInv => NothingLeaks
  BY DEF IInv, ReleasedSoFar, WindowPlaced, Ending, NothingLeaks
<1> QED
  BY <1>1, IInvHolds, PTL

\* A bundle that a deactivation leaves behind in the process is not loaded again
\* (HostBackend::deactivate_plugin, tainted_paths).
THEOREM LeaksAreTainted == Spec => LeakIsTainted
<1>1. IInv /\ [Next]_vars =>
        [deactivating /\ ~deactivating' /\ refs \cap {"component", "processor", "controller"} # {}
           => bundle \in tainted']_vars
  <2> SUFFICES ASSUME IInv, Next, deactivating, ~deactivating',
                      refs \cap {"component", "processor", "controller"} # {}
               PROVE  bundle \in tainted'
    BY DEF vars
  <2>1. CASE Finishing
    BY <2>1 DEF Finishing, Unload, Caught, Finish, IInv, ReleasedSoFar, Ending
  <2>2. CASE Asked \/ ShownWindow \/ Loading \/ Configuring
    BY <2>2 DEF Asked, ActivatePlugin, RunPlugin, LockEngine, DeactivatePlugin, Stop,
       ShownWindow, WindowClosed, ResizeView, PollResize, Loading, LoadFails, Load, Create,
       Configuring, CanProcess, SetBusArrangements, SetupProcessing, Activate,
       StartProcessing, Configures, taskVars
  <2>3. CASE Preparing \/ Requests \/ OpeningWindow
    BY <2>3 DEF Preparing, InstallHandler, QueryParameters, HasEditor, BuildStream, Requests,
       GetComponentState, GetControllerState, SetComponentState, SetControllerState,
       CreateEditorView, Returns, OpeningWindow, IsPlatformTypeSupported, GetSize,
       CreateWindow, SetFrame, Attached, OnSize, ReleaseView, ViewCall, taskVars
  <2>4. CASE Stopping \/ Dropping \/ Freeing \/ ModuleGoes \/ Audio
    BY <2>4 DEF Stopping, StopStream, ShutDown, Dropping, ShutdownStep, DropStep, Freeing,
       DestroyHost, Leak, Free, ModuleGoes, DropModule, BundleExit, Audio, BeginProcess,
       EndProcess, taskVars
  <2> QED
    BY <2>1, <2>2, <2>3, <2>4, StepsAreAll
<1> QED
  BY <1>1, IInvHolds, PTL DEF Spec, LeakIsTainted

-----------------------------------------------------------------------------
(* PluginInstance implements Vst3Lifecycle *)

\* A step without a call that returns to the component: at most its code crashes.
AtMostCrash ==
  /\ phase' = phase /\ callback' = callback
  /\ pc \in LockedCalls <=> pc' \in LockedCalls
  /\ broke' \in {broke, TRUE}

\* A step with one that succeeds.
OneMove ==
  /\ callback = "waiting" /\ UNCHANGED <<callback, broke>>
  /\ pc \notin LockedCalls /\ pc' \notin LockedCalls
  /\ <<phase, phase'>> \in Lifecycle!Moves

\* The return of a call that excludes a block.
OneReturn ==
  /\ phase' = phase /\ callback' = callback
  /\ pc \in LockedCalls /\ pc' \notin LockedCalls
  /\ broke' \in {broke, TRUE}

\* What these three are to the component.
LEMMA CrashOrMove ==
  ASSUME FlagsTyped, AtMostCrash \/ OneMove \/ OneReturn
  PROVE  Lifecycle!Next \/ UNCHANGED Lifecycle!vars
<1>1. CASE AtMostCrash /\ broke' = broke
  <2>1. (callback' = "process") = (callback = "process")
    BY <1>1 DEF AtMostCrash
  <2>2. (pc' \in LockedCalls) = (pc \in LockedCalls)
    BY <1>1 DEF AtMostCrash
  <2> QED
    BY <1>1, <2>1, <2>2 DEF AtMostCrash, Lifecycle!vars
<1>2. CASE AtMostCrash /\ broke' # broke
  <2>1. (callback' = "process") = (callback = "process")
    BY <1>2 DEF AtMostCrash
  <2>2. (pc' \in LockedCalls) = (pc \in LockedCalls)
    BY <1>2 DEF AtMostCrash
  <2>3. ~broke /\ broke' = TRUE
    BY <1>2 DEF AtMostCrash, FlagsTyped
  <2> QED
    BY <1>2, <2>1, <2>2, <2>3, Zenon DEF AtMostCrash, Lifecycle!Next, Lifecycle!Crash
<1>3. CASE OneMove
  <2>1. (callback' = "process") = (callback = "process")
    BY <1>3 DEF OneMove
  <2>2. (pc' \in LockedCalls) = (pc \in LockedCalls)
    BY <1>3 DEF OneMove
  <2>3. ~(callback = "process") /\ ~(pc \in LockedCalls)
    BY <1>3 DEF OneMove
  <2> QED
    BY <1>3, <2>1, <2>2, <2>3, Zenon DEF OneMove, Lifecycle!Next, Lifecycle!Move
<1>4. CASE OneReturn
  <2>1. (callback' = "process") = (callback = "process")
    BY <1>4 DEF OneReturn
  <2>2. (pc' \in LockedCalls) = FALSE
    BY <1>4 DEF OneReturn
  <2> QED
    BY <1>4, <2>1, <2>2, Zenon DEF OneReturn, Lifecycle!Next, Lifecycle!EndCall
<1> QED
  BY <1>1, <1>2, <1>3, <1>4

\* What a step is to the component.
LEMMA LifecycleStep ==
  ASSUME IInv, [Next]_vars
  PROVE  Lifecycle!Next \/ UNCHANGED Lifecycle!vars
<1> DEFINE Shown == AtMostCrash \/ OneMove \/ OneReturn
<1> USE PluginInstanceAssumption
    DEF IInv, ModuleHeld, CrashIsKnown, WindowPlaced, PhaseKept, EngineHeld, FlagsTyped,
        ObjectsTyped, Playing, ViewCalls, Prepared, LockedCalls, Ending, GivenUp, taskVars,
        objectVars, editorVars, audioVars, processVars
<1>2. ASSUME ShownWindow PROVE Shown
  BY <1>2 DEF ShownWindow, WindowClosed, ResizeView, PollResize, CloseWindow, CloseNative,
     AtMostCrash
<1>3. ASSUME Loading PROVE Shown
  <2>1. CASE LoadFails
    BY <2>1 DEF LoadFails, AtMostCrash, OneMove, Lifecycle!Moves
  <2>2. CASE Load
    BY <2>2 DEF Load, AtMostCrash, OneMove, Lifecycle!Moves
  <2>3. CASE Create
    BY <2>3 DEF Create, NextCall, Activation, AtMostCrash, OneMove, Lifecycle!Moves
  <2> QED
    BY <1>3, <2>1, <2>2, <2>3 DEF Loading
<1>4. ASSUME Configuring PROVE Shown
  <2>1. CASE CanProcess
    BY <2>1 DEF CanProcess, TearDown, NextCall, Activation, AtMostCrash, OneMove,
       Lifecycle!Moves
  <2>2. CASE SetBusArrangements
    BY <2>2 DEF SetBusArrangements, Enters, IsRefused, CrashRecorded, Configures, TearDown,
       NextCall, Activation, AtMostCrash, OneMove, Lifecycle!Moves
  <2>3. CASE SetupProcessing
    BY <2>3 DEF SetupProcessing, Enters, IsRefused, CrashRecorded, Configures, TearDown,
       NextCall, Activation, AtMostCrash, OneMove, Lifecycle!Moves
  <2>4. CASE Activate
    BY <2>4 DEF Activate, Enters, IsRefused, CrashRecorded, Configures, TearDown, NextCall,
       Activation, AtMostCrash, OneMove, Lifecycle!Moves
  <2>5. CASE StartProcessing
    BY <2>5 DEF StartProcessing, Enters, IsRefused, CrashRecorded, Configures, TearDown,
       NextCall, Activation, AtMostCrash, OneMove, Lifecycle!Moves
  <2> QED
    BY <1>4, <2>1, <2>2, <2>3, <2>4, <2>5 DEF Configuring
<1>5. ASSUME Preparing PROVE Shown
  <2>1. CASE InstallHandler
    BY <2>1 DEF InstallHandler, Takes, NextCall, Activation, AtMostCrash
  <2>2. CASE QueryParameters
    BY <2>2 DEF QueryParameters, Takes, NextCall, Activation, AtMostCrash
  <2>3. CASE HasEditor
    BY <2>3 DEF HasEditor, Takes, NextCall, Activation, AtMostCrash
  <2>4. CASE BuildStream
    BY <2>4 DEF BuildStream, TearDown, AtMostCrash
  <2> QED
    BY <1>5, <2>1, <2>2, <2>3, <2>4 DEF Preparing
<1>7. ASSUME OpeningWindow PROVE Shown
  BY <1>7 DEF OpeningWindow, IsPlatformTypeSupported, GetSize, CreateWindow, SetFrame,
     Attached, OnSize, ReleaseView, ViewCall, GiveUp, HaveFrame, CloseNative, AtMostCrash
<1>8. ASSUME Stopping PROVE Shown
  BY <1>8 DEF Stopping, StopStream, ShutDown, CloseWindow, CloseNative, TearDown, AtMostCrash
<1>9. ASSUME Dropping PROVE Shown
  <2>1. CASE ShutdownStep
    <3>1. CASE pc = "set_processing_off"
      BY <2>1, <3>1 DEF ShutdownStep, Skips, Applies, Following, Leaves, AtMostCrash, OneMove,
         Lifecycle!Moves
    <3>2. CASE pc = "set_active_off"
      BY <2>1, <3>2 DEF ShutdownStep, Skips, Applies, Following, Leaves, AtMostCrash, OneMove,
         Lifecycle!Moves
    <3> QED
      BY <2>1, <3>1, <3>2 DEF ShutdownStep
  <2>2. CASE DropStep /\ pc \in {"terminate_component", "release_component"}
    <3>1. CASE pc = "terminate_component"
      BY <2>2, <3>1 DEF DropStep, Skips, Applies, Following, Leaves, AtMostCrash, OneMove,
         Lifecycle!Moves
    <3>2. CASE pc = "release_component"
      BY <2>2, <3>2 DEF DropStep, Skips, Applies, Following, Leaves, AtMostCrash, OneMove,
         Lifecycle!Moves
    <3> QED
      BY <2>2, <3>1, <3>2
  <2>3. CASE DropStep /\ pc \notin {"terminate_component", "release_component"}
    <3>1. pc \notin DOMAIN Leaves
      BY <2>3 DEF DropStep, Leaves
    <3>2. pc' \notin LockedCalls /\ pc \notin LockedCalls
      BY <2>3 DEF DropStep, Skips, Following
    <3> QED
      BY <2>3, <3>1, <3>2 DEF DropStep, Skips, AtMostCrash
  <2> QED
    BY <1>9, <2>1, <2>2, <2>3 DEF Dropping
<1>10. ASSUME Freeing PROVE Shown
  BY <1>10 DEF Freeing, DestroyHost, Leak, Free, AtMostCrash
<1>11. ASSUME ModuleGoes PROVE Shown
  BY <1>11 DEF ModuleGoes, DropModule, BundleExit, AtMostCrash
<1>14. ASSUME UNCHANGED vars PROVE Shown
  BY <1>14 DEF vars, AtMostCrash
<1>1. CASE Asked
  BY <1>1 DEF Asked, ActivatePlugin, RunPlugin, LockEngine, DeactivatePlugin, Stop,
     Lifecycle!Next, Lifecycle!vars, Lifecycle!BeginCall
<1>6. ASSUME Requests PROVE Shown
  <2>1. CASE GetComponentState
    BY <2>1 DEF GetComponentState, Returns, OneReturn
  <2>2. CASE GetControllerState
    BY <2>2 DEF GetControllerState, Returns, Takes, OneReturn
  <2>3. CASE SetComponentState
    BY <2>3 DEF SetComponentState, Returns, Takes, OneReturn
  <2>4. CASE SetControllerState
    BY <2>4 DEF SetControllerState, Returns, Takes, OneReturn
  <2>5. CASE CreateEditorView
    BY <2>5 DEF CreateEditorView, Returns, Takes, OneReturn
  <2> QED
    BY <1>6, <2>1, <2>2, <2>3, <2>4, <2>5 DEF Requests
<1>12. CASE Finishing
  BY <1>12 DEF Finishing, Unload, Caught, Finish, Inactive, Quiet, Lifecycle!Next,
     Lifecycle!vars, Lifecycle!Abandon
<1>13. CASE Audio
  BY <1>13 DEF Audio, BeginProcess, EndProcess, Lifecycle!Next, Lifecycle!vars,
     Lifecycle!BeginBlock, Lifecycle!EndBlock
<1> QED
  BY <1>1, <1>2, <1>3, <1>4, <1>5, <1>6, <1>7, <1>8, <1>9, <1>10, <1>11, <1>12, <1>13, <1>14,
     StepsAreAll, CrashOrMove

\* Sequences of calls of the host are those a plugin may expect (Vst3Instance, AudioEngine).
THEOREM ImplementsLifecycle == Spec => FollowsLifecycle
<1>1. Init => Lifecycle!Init
  BY DEF Init, Lifecycle!Init, LockedCalls
<1>2. IInv /\ [Next]_vars => [Lifecycle!Next]_Lifecycle!vars
  BY LifecycleStep
<1> QED
  BY <1>1, <1>2, IInvHolds, PTL DEF Spec, FollowsLifecycle, Lifecycle!Spec
=============================================================================
