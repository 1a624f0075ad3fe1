----------------------------- MODULE Supervisor -----------------------------
(***************************************************************************)
(* The three processes of the supervised host: the supervisor relays       *)
(* actions from the GUI to the audio worker and updates back, relaunches   *)
(* whichever of the two dies, and keeps a shadow of the rack to restore a  *)
(* relaunched worker from (gui/supervisor.rs; the loops of                 *)
(* gui/gui_worker.rs and gui/audio_worker.rs as far as they exchange       *)
(* messages).  Module AudioWorker has what the worker does with a command. *)
(*                                                                         *)
(* A rack is the set of the user's edits it contains, so that an edit that *)
(* is lost can be told.  A socket is a FIFO sequence of whole messages; a  *)
(* read finds one or times out.  Data a dead process has written can still *)
(* be read; what was written to it is gone.                                *)
(***************************************************************************)
EXTENDS Integers, Sequences, FiniteSets

CONSTANTS
  Edits,       \* the edits the user may make, each once (a bound)
  MaxRestarts, \* MAX_RAPID_RESTARTS
  MaxCrashes   \* bound on the crashes of either child

ASSUME SupervisorAssumption == MaxRestarts \in Nat \ {0} /\ MaxCrashes \in Nat

VARIABLES
  spc,           \* where the supervisor is
  shadow,        \* ShadowState.rack
  guiRestarts,   \* gui_restart_count
  audioRestarts, \* audio_restart_count
  gui,           \* the GUI process: its state and its copies of the rack and active_slot
  audio,         \* the audio worker: its state, rack and whether a plugin is active
  actions,       \* GUI -> supervisor
  commands,      \* supervisor -> audio worker
  updates,       \* audio worker -> supervisor
  views,         \* supervisor -> GUI
  undone,        \* edits the user has not made yet
  crashes        \* crashes that may still happen

channels   == <<actions, commands, updates, views>>
supervisor == <<spc, shadow, guiRestarts, audioRestarts>>
budget     == <<undone, crashes>>
vars       == <<supervisor, gui, audio, channels, budget>>

Racks    == SUBSET Edits
Actions  == [kind : {"edit", "shutdown"}, rack : Racks]
Commands == [kind : {"edit", "shutdown", "full", "restore"}, rack : Racks]
Updates  == [kind : {"rack", "full", "restarted", "ack"}, rack : Racks, active : BOOLEAN]

GuiProcesses == [state : {"running", "closing", "closed", "crashed"},
                 rack : Racks, active : BOOLEAN, supervisor_disconnected : BOOLEAN]
Workers      == [state : {"running", "exited", "crashed"}, rack : Racks, active : BOOLEAN]

SupervisorStates ==
  {"spawn", "initial",                               \* run_supervisor, up to the relay loop
   "action", "update", "gui_alive", "audio_alive",   \* the four steps of the relay loop
   "restored",                                       \* try_restart_audio_worker, new worker up
   "gui_exit", "gui_crashed",                        \* check_gui_exit, LoopResult::Crashed
   "wait_gui", "clean", "wait_audio", "ended"}

TypeOK ==
  /\ spc \in SupervisorStates
  /\ shadow \in Racks
  /\ guiRestarts \in 0..MaxRestarts
  /\ audioRestarts \in Nat
  /\ gui \in GuiProcesses
  /\ audio \in Workers
  /\ actions \in Seq(Actions)
  /\ commands \in Seq(Commands)
  /\ updates \in Seq(Updates)
  /\ views \in Seq(Updates)
  /\ undone \in Racks
  /\ crashes \in 0..MaxCrashes

-----------------------------------------------------------------------------
Shutdown == [kind |-> "shutdown", rack |-> {}]

audioUp == audio.state = "running"
guiUp   == gui.state \in {"running", "closing"}
connected == spc # "ended"

\* What AudioWorkerContext::spawn and the GUI's launch leave behind.
SpawnedWorker == [state |-> "running", rack |-> {}, active |-> FALSE]
SpawnedGui == [state |-> "running", rack |-> {}, active |-> FALSE,
               supervisor_disconnected |-> FALSE]

\* ShadowState::to_restore_command
to_restore_command == [kind |-> "restore", rack |-> shadow]

\* send_audio_command: a write to a dead worker fails and is only logged.
send_audio_command(cmd) ==
  commands' = IF audioUp THEN Append(commands, cmd) ELSE commands

\* send_gui_update, of one update or several.
send_gui_updates(sent) ==
  views' = IF guiUp THEN views \o sent ELSE views

\* Mutant: only a full state is cached.
UpdateFromFullOnly(update) ==
  shadow' = IF update.kind = "full" THEN update.rack ELSE shadow

\* ShadowState::update_from
update_from(update) ==
  shadow' = IF update.kind \in {"full", "rack"} THEN update.rack ELSE shadow

Init ==
  /\ spc = "spawn"
  /\ shadow = {}
  /\ guiRestarts = 0
  /\ audioRestarts = 0
  /\ gui = [SpawnedGui EXCEPT !.state = "crashed"]
  /\ audio = SpawnedWorker
  /\ actions = <<>>
  /\ commands = <<>>
  /\ updates = <<>>
  /\ views = <<>>
  /\ undone = Edits
  /\ crashes = MaxCrashes

-----------------------------------------------------------------------------
(* run_supervisor: launching the GUI *)

\* gui_restart_count after the window check at the top of the loop: the count
\* starts again when the first counted crash is longer ago than the window.
WindowChecked(count) == count = guiRestarts \/ count = 0

\* Mutant: the count of relaunches is not looked at.
LaunchGuiUnlimited ==
  /\ spc = "spawn"
  /\ gui' = SpawnedGui
  /\ actions' = <<>>
  /\ views' = <<>>
  /\ send_audio_command([kind |-> "full", rack |-> {}])
  /\ spc' = "initial"
  /\ UNCHANGED <<shadow, guiRestarts, audioRestarts, audio, updates, budget>>

\* A new GUI is launched and connects; the worker is asked for its state.
LaunchGui ==
  /\ spc = "spawn"
  /\ \E count \in 0..(MaxRestarts - 1) :
       WindowChecked(count) /\ guiRestarts' = count
  /\ gui' = SpawnedGui
  /\ actions' = <<>>
  /\ views' = <<>>
  /\ send_audio_command([kind |-> "full", rack |-> {}])
  /\ spc' = "initial"
  /\ UNCHANGED <<shadow, audioRestarts, audio, updates, budget>>

\* The limit is reached, or the GUI does not connect: the worker is shut down.
AbandonGui ==
  /\ spc = "spawn"
  /\ \/ guiRestarts >= MaxRestarts /\ UNCHANGED guiRestarts
     \/ \E count \in 0..(MaxRestarts - 1) :
          WindowChecked(count) /\ guiRestarts' = count
  /\ send_audio_command(Shutdown)
  /\ spc' = "wait_audio"
  /\ UNCHANGED <<shadow, audioRestarts, gui, audio, actions, updates, views, budget>>

\* Mutant: the answer to the new GUI's request is kept, not forwarded.
InitialSyncKept ==
  /\ spc = "initial"
  /\ \/ /\ updates # <<>>
        /\ update_from(Head(updates))
        /\ updates' = Tail(updates)
        /\ UNCHANGED views
     \/ UNCHANGED <<shadow, updates, views>>
  /\ spc' = "action"
  /\ UNCHANGED <<guiRestarts, audioRestarts, gui, audio, actions, commands, budget>>

\* One update is read, the answer or an older one; or none within 50 ms.
InitialSync ==
  /\ spc = "initial"
  /\ \/ /\ updates # <<>>
        /\ update_from(Head(updates))
        /\ send_gui_updates(<<Head(updates)>>)
        /\ updates' = Tail(updates)
     \/ UNCHANGED <<shadow, updates, views>>
  /\ spc' = "action"
  /\ UNCHANGED <<guiRestarts, audioRestarts, gui, audio, actions, commands, budget>>

\* LoopResult::Crashed
GuiCrashed ==
  /\ spc = "gui_crashed"
  /\ guiRestarts' = guiRestarts + 1
  /\ spc' = "spawn"
  /\ UNCHANGED <<shadow, audioRestarts, gui, audio, channels, budget>>

\* Mutant: the worker is not told.
CleanShutdownSilent ==
  /\ spc = "clean"
  /\ spc' = "wait_audio"
  /\ UNCHANGED <<shadow, guiRestarts, audioRestarts, gui, audio, channels, budget>>

\* LoopResult::CleanShutdown
CleanShutdown ==
  /\ spc = "clean"
  /\ send_audio_command(Shutdown)
  /\ spc' = "wait_audio"
  /\ UNCHANGED <<shadow, guiRestarts, audioRestarts, gui, audio,
                 actions, updates, views, budget>>

\* audio_ctx.child.wait()
WaitAudio ==
  /\ spc = "wait_audio"
  /\ ~audioUp
  /\ spc' = "ended"
  /\ UNCHANGED <<shadow, guiRestarts, audioRestarts, gui, audio, channels, budget>>

-----------------------------------------------------------------------------
(* run_relay_loop *)

\* Step 1: one action is forwarded; or the GUI's socket is at its end, also in
\* the middle of a message; or nothing came within 25 ms.
RelayAction ==
  /\ spc = "action"
  /\ \/ /\ actions # <<>>
        /\ actions' = Tail(actions)
        /\ send_audio_command(Head(actions))
        /\ spc' = IF Head(actions).kind = "shutdown" THEN "clean" ELSE "update"
     \/ /\ actions = <<>>
        /\ spc' = IF guiUp THEN "update" ELSE "gui_exit"
        /\ UNCHANGED <<actions, commands>>
  /\ UNCHANGED <<shadow, guiRestarts, audioRestarts, gui, audio, updates, views, budget>>

\* check_gui_exit: a process that lives on after its socket closed for longer
\* than the grace period would be killed; here the socket closes with it.
GuiExit ==
  /\ spc = "gui_exit"
  /\ spc' = IF gui.state = "closed" THEN "clean" ELSE "gui_crashed"
  /\ UNCHANGED <<shadow, guiRestarts, audioRestarts, gui, audio, channels, budget>>

\* Step 2: one update is cached and forwarded, or none came within 25 ms.
RelayUpdate ==
  /\ spc = "update"
  /\ \/ /\ updates # <<>>
        /\ update_from(Head(updates))
        /\ send_gui_updates(<<Head(updates)>>)
        /\ updates' = Tail(updates)
     \/ /\ updates = <<>> /\ audioUp
        /\ UNCHANGED <<shadow, updates, views>>
  /\ spc' = "gui_alive"
  /\ UNCHANGED <<guiRestarts, audioRestarts, gui, audio, actions, commands, budget>>

\* Mutant: a GUI that exited is relaunched whatever its exit status.
GuiAliveAnyStatus ==
  /\ spc = "gui_alive"
  /\ spc' = IF guiUp THEN "audio_alive" ELSE "gui_crashed"
  /\ UNCHANGED <<shadow, guiRestarts, audioRestarts, gui, audio, channels, budget>>

\* Step 3: a GUI that exited ends the loop, even with actions still unread.
GuiAlive ==
  /\ spc = "gui_alive"
  /\ spc' = IF guiUp THEN "audio_alive"
            ELSE IF gui.state = "closed" THEN "clean" ELSE "gui_crashed"
  /\ UNCHANGED <<shadow, guiRestarts, audioRestarts, gui, audio, channels, budget>>

\* Step 4: nothing to do unless the worker exited abnormally.
AudioAlive ==
  /\ spc = "audio_alive"
  /\ audio.state # "crashed"
  /\ spc' = "action"
  /\ UNCHANGED <<shadow, guiRestarts, audioRestarts, gui, audio, channels, budget>>

\* The two places that find the worker dead: the end of its socket in step 2,
\* when every update was read, and its exit status in step 4, when not.
WorkerFoundDead ==
  \/ spc = "update" /\ updates = <<>> /\ ~audioUp
  \/ spc = "audio_alive" /\ audio.state = "crashed"

\* restart_count after its check: counted on, or from 1 again when the window
\* has passed.
Counted(count) == count = audioRestarts + 1 \/ count = 1

\* Mutant: the restored rack is the one the first worker started with.
RestartAudioEmpty ==
  /\ WorkerFoundDead
  /\ \E count \in 1..MaxRestarts : Counted(count) /\ audioRestarts' = count
  /\ audio' = SpawnedWorker
  /\ updates' = <<>>
  /\ commands' = <<[kind |-> "restore", rack |-> {}]>>
  /\ spc' = "restored"
  /\ UNCHANGED <<shadow, guiRestarts, gui, actions, views, budget>>

\* Mutant: what the dead worker had written is still read after the relaunch.
RestartAudioKeepsUpdates ==
  /\ WorkerFoundDead
  /\ \E count \in 1..MaxRestarts : Counted(count) /\ audioRestarts' = count
  /\ audio' = SpawnedWorker
  /\ commands' = <<to_restore_command>>
  /\ spc' = "restored"
  /\ UNCHANGED <<shadow, guiRestarts, gui, actions, updates, views, budget>>

\* try_restart_audio_worker up to RestoreState: both directions of the old
\* connection are dropped with what they still hold.
RestartAudio ==
  /\ WorkerFoundDead
  /\ \E count \in 1..MaxRestarts : Counted(count) /\ audioRestarts' = count
  /\ audio' = SpawnedWorker
  /\ updates' = <<>>
  /\ commands' = <<to_restore_command>>
  /\ spc' = "restored"
  /\ UNCHANGED <<shadow, guiRestarts, gui, actions, views, budget>>

\* The limit is reached, or the new worker does not connect.  In step 2 the
\* supervisor only waits for the GUI from now on; step 4 goes on with the loop.
AbandonAudio ==
  /\ WorkerFoundDead
  /\ \/ audioRestarts' = audioRestarts + 1
     \/ audioRestarts' = 1
  /\ spc' = IF spc = "update" THEN "wait_gui" ELSE "action"
  /\ UNCHANGED <<shadow, guiRestarts, gui, audio, channels, budget>>

\* The rest of try_restart_audio_worker: the worker's answer, unless it takes
\* longer than 5 s, goes to the GUI (not to the shadow), then the notice.
ForwardRestored ==
  /\ spc = "restored"
  /\ LET notice == [kind |-> "restarted", rack |-> {}, active |-> FALSE]
     IN  \/ /\ updates # <<>>
            /\ send_gui_updates(<<Head(updates), notice>>)
            /\ updates' = Tail(updates)
         \/ send_gui_updates(<<notice>>) /\ UNCHANGED updates
  /\ spc' = "action"
  /\ UNCHANGED <<shadow, guiRestarts, audioRestarts, gui, audio, actions, commands, budget>>

\* gui_child.wait() after the worker was given up
WaitGui ==
  /\ spc = "wait_gui"
  /\ ~guiUp
  /\ spc' = "clean"
  /\ UNCHANGED <<shadow, guiRestarts, audioRestarts, gui, audio, channels, budget>>
-----------------------------------------------------------------------------
(* The GUI process *)

\* send_action: without a supervisor the pipe is broken.
UserEdits ==
  /\ gui.state = "running"
  /\ ~gui.supervisor_disconnected
  /\ \E e \in undone :
       /\ undone' = undone \ {e}
       /\ IF connected
          THEN /\ actions' = Append(actions, [kind |-> "edit", rack |-> {e}])
               /\ UNCHANGED gui
          ELSE /\ gui' = [gui EXCEPT !.supervisor_disconnected = TRUE, !.active = FALSE]
               /\ UNCHANGED actions
  /\ UNCHANGED <<supervisor, audio, commands, updates, views, crashes>>

\* poll_updates and apply_update
ApplyUpdate ==
  /\ gui.state = "running"
  /\ views # <<>>
  /\ LET update == Head(views)
     IN  gui' = CASE update.kind \in {"full", "rack"} ->
                       [gui EXCEPT !.rack = update.rack, !.active = update.active]
                  [] update.kind = "restarted" -> [gui EXCEPT !.active = FALSE]
                  [] OTHER -> gui
  /\ views' = Tail(views)
  /\ UNCHANGED <<supervisor, audio, actions, commands, updates, budget>>

\* poll_updates reads the end of the stream.
LoseSupervisor ==
  /\ gui.state = "running"
  /\ views = <<>>
  /\ ~connected
  /\ ~gui.supervisor_disconnected
  /\ gui' = [gui EXCEPT !.supervisor_disconnected = TRUE, !.active = FALSE]
  /\ UNCHANGED <<supervisor, audio, channels, budget>>

\* close_requested(): Shutdown is sent before the window goes.
CloseWindow ==
  /\ gui.state = "running"
  /\ gui' = [gui EXCEPT !.state = "closing"]
  /\ actions' = IF connected THEN Append(actions, Shutdown) ELSE actions
  /\ UNCHANGED <<supervisor, audio, commands, updates, views, budget>>

GuiExits ==
  /\ gui.state = "closing"
  /\ gui' = [gui EXCEPT !.state = "closed"]
  /\ UNCHANGED <<supervisor, audio, channels, budget>>

-----------------------------------------------------------------------------
(* The audio worker process (run_audio_loop) *)

Report(kind) ==
  updates' = Append(updates, [kind |-> kind, rack |-> audio'.rack, active |-> audio'.active])

\* An action changes the rack, and may start or stop a plugin.
HandleAction ==
  /\ Head(commands).kind = "edit"
  /\ \E active \in BOOLEAN :
       audio' = [audio EXCEPT !.rack = @ \cup Head(commands).rack, !.active = active]
  /\ Report("rack")

RequestFullState ==
  /\ Head(commands).kind = "full"
  /\ UNCHANGED audio
  /\ Report("full")

RestoreState ==
  /\ Head(commands).kind = "restore"
  /\ audio' = [audio EXCEPT !.rack = Head(commands).rack]
  /\ Report("full")

WorkerShutdown ==
  /\ Head(commands).kind = "shutdown"
  /\ audio' = [audio EXCEPT !.state = "exited"]
  /\ Report("ack")

HandleCommand ==
  /\ audioUp /\ connected
  /\ commands # <<>>
  /\ commands' = Tail(commands)
  /\ HandleAction \/ RequestFullState \/ RestoreState \/ WorkerShutdown
  /\ UNCHANGED <<supervisor, gui, actions, views, budget>>

\* The crash poll of the loop takes a crashed plugin down.
PluginDeactivated ==
  /\ audioUp /\ connected
  /\ audio.active
  /\ audio' = [audio EXCEPT !.active = FALSE]
  /\ Report("rack")
  /\ UNCHANGED <<supervisor, gui, actions, commands, views, budget>>

\* Mutant: a worker without supervisor goes on as if the read had timed out.
WorkerIgnoresEnd ==
  /\ audioUp /\ ~connected
  /\ commands # <<>>
  /\ commands' = Tail(commands)
  /\ UNCHANGED <<supervisor, gui, audio, actions, updates, views, budget>>

\* The end of the supervisor's socket, or a write that fails on it.
WorkerDisconnected ==
  /\ audioUp /\ ~connected
  /\ audio' = [audio EXCEPT !.state = "exited"]
  /\ UNCHANGED <<supervisor, gui, channels, budget>>

-----------------------------------------------------------------------------
(* Crashes *)

GuiCrashes ==
  /\ guiUp /\ crashes > 0
  /\ gui' = [gui EXCEPT !.state = "crashed"]
  /\ crashes' = crashes - 1
  /\ UNCHANGED <<supervisor, audio, channels, undone>>

\* What the worker had not read is lost, what it wrote is not.
AudioCrashes ==
  /\ audioUp /\ crashes > 0
  /\ audio' = [audio EXCEPT !.state = "crashed", !.active = FALSE]
  /\ commands' = <<>>
  /\ crashes' = crashes - 1
  /\ UNCHANGED <<supervisor, gui, actions, updates, views, undone>>

\* The supervisor is killed, or returns early because a GUI cannot be started.
SupervisorDies ==
  /\ connected /\ crashes > 0
  /\ spc' = "ended"
  /\ crashes' = crashes - 1
  /\ UNCHANGED <<shadow, guiRestarts, audioRestarts, gui, audio, channels, undone>>

-----------------------------------------------------------------------------
SupervisorStep ==
  \/ LaunchGui \/ AbandonGui \/ InitialSync \/ GuiCrashed \/ CleanShutdown \/ WaitAudio
  \/ RelayAction \/ GuiExit \/ RelayUpdate \/ GuiAlive \/ AudioAlive
  \/ RestartAudio \/ AbandonAudio \/ ForwardRestored \/ WaitGui

WorkerStep == HandleCommand \/ WorkerDisconnected

GuiStep == ApplyUpdate \/ LoseSupervisor \/ GuiExits

Next ==
  \/ SupervisorStep \/ WorkerStep \/ GuiStep
  \/ UserEdits \/ CloseWindow \/ PluginDeactivated
  \/ GuiCrashes \/ AudioCrashes \/ SupervisorDies

\* Each process is one loop whose reads time out, so none of them rests while
\* it has something to do; the user and the crashes are free.
Spec == /\ Init /\ [][Next]_vars
        /\ WF_vars(SupervisorStep) /\ WF_vars(WorkerStep) /\ WF_vars(GuiStep)

-----------------------------------------------------------------------------
(* Properties *)

PendingRestores == {i \in DOMAIN commands : commands[i].kind = "restore"}

\* An edit the GUI has shown is never lost again, whichever processes crash in
\* whatever order: it is in the shadow, and the worker has it or is about to
\* have it restored (update_from before send_gui_update; RestoreState first).
SeenEditsSurvive ==
  /\ gui.rack \subseteq shadow
  /\ audioUp => shadow \subseteq audio.rack \cup
                  UNION {commands[i].rack : i \in PendingRestores}

RackReports == {i \in DOMAIN updates : updates[i].kind \in {"full", "rack"}}

\* The shadow is behind the worker by exactly the updates not read yet: those
\* are all that a crash of the worker can take from the rack.
ShadowLagsByUpdates ==
  audioUp /\ PendingRestores = {} =>
    /\ RackReports = {} => audio.rack = shadow
    /\ \A i \in RackReports :
         (\A j \in RackReports : j <= i) => audio.rack = updates[i].rack

\* The rack reported last, or the shadow when every report was read.
ReportedRack ==
  IF RackReports = {} THEN shadow
  ELSE updates[CHOOSE i \in RackReports : \A j \in RackReports : j <= i].rack

Window == IF guiUp THEN "open" ELSE IF gui.state = "closed" THEN "closed" ELSE "none"
Worker == IF audioUp THEN "up" ELSE "down"

\* What the user may rely on through all crashes: an edit that was shown stays, a
\* window never goes back to an older rack, a closed one is not opened again, nothing
\* is done that was not asked for (update_from, to_restore_command, the forwarding
\* order of run_relay_loop).
Service == INSTANCE RackService WITH
  asked  <- Edits \ undone,
  rack   <- ReportedRack,
  saved  <- shadow,
  shown  <- gui.rack,
  window <- Window,
  worker <- Worker

KeepsRack == Service!Spec

\* A window the user closed stays closed: the exit is never taken for a crash.
\* KeepsRack implies it.
CloseIsFinal == [][gui.state = "closed" => gui'.state = "closed"]_vars

Relaying == spc \in {"action", "update", "gui_alive", "audio_alive"}

\* After the last edit and crash, the GUI comes to show the worker's rack and
\* active slot, also when it or the worker was relaunched on the way.
GuiCatchesUp ==
  <>[](Relaying /\ gui.state = "running"
         => gui.rack = audio.rack /\ gui.active = audio.active)

\* Closing the window ends all three processes.
CloseEndsAll == gui.state = "closed" ~> spc = "ended" /\ ~audioUp

\* A lost supervisor leaves no orphans: the worker exits, and a GUI that is
\* still open says so.
SupervisorLossNoticed ==
  spc = "ended" ~> ~audioUp /\ (gui.state = "running" => gui.supervisor_disconnected)
=============================================================================
