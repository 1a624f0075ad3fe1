-------------------------- MODULE SupervisorProofs --------------------------
(***************************************************************************)
(* Proofs about Supervisor: its types, that an edit the GUI has shown is   *)
(* never lost, that the shadow lags by the unread updates only, that a     *)
(* closed window stays closed, and that the host, through every crash of   *)
(* its processes, does what the abstract host RackService may do.          *)
(***************************************************************************)
EXTENDS Supervisor, SequenceTheorems, WellFoundedInduction, TLAPS

-----------------------------------------------------------------------------
(* Channels *)

\* Sending appends to a channel and keeps what is in it.
LEMMA Sent ==
  ASSUME NEW S, NEW c \in Seq(S), NEW m \in S
  PROVE  /\ Append(c, m) \in Seq(S)
         /\ DOMAIN Append(c, m) = 1..(Len(c) + 1)
         /\ \A i \in DOMAIN c : Append(c, m)[i] = c[i]
         /\ Append(c, m)[Len(c) + 1] = m
PROOF
  <1>1. DOMAIN c = 1..Len(c) /\ Len(c) \in Nat
    BY LenProperties
  <1>2. Append(c, m) \in Seq(S) /\ Len(Append(c, m)) = Len(c) + 1
    BY AppendProperties
  <1> QED BY <1>1, <1>2, AppendProperties, LenProperties

\* Receiving takes the head and moves the rest up.
LEMMA Received ==
  ASSUME NEW S, NEW c \in Seq(S), c # <<>>
  PROVE  /\ Head(c) \in S /\ Head(c) = c[1] /\ 1 \in DOMAIN c
         /\ Tail(c) \in Seq(S)
         /\ \A i \in DOMAIN Tail(c) : i + 1 \in DOMAIN c /\ Tail(c)[i] = c[i+1]
         /\ \A i \in DOMAIN c : i # 1 => i - 1 \in DOMAIN Tail(c) /\ Tail(c)[i-1] = c[i]
PROOF
  <1>1. DOMAIN c = 1..Len(c) /\ Len(c) \in Nat /\ Len(c) # 0
    BY LenProperties, EmptySeq
  <1>2. /\ Head(c) \in S /\ Head(c) = c[1]
        /\ Tail(c) \in Seq(S) /\ Len(Tail(c)) = Len(c) - 1
        /\ \A i \in 1..Len(Tail(c)) : Tail(c)[i] = c[i+1]
    BY HeadTailProperties, <1>1
  <1>3. DOMAIN Tail(c) = 1..(Len(c) - 1)
    BY <1>2, LenProperties
  <1>4. \A i \in DOMAIN Tail(c) : i + 1 \in DOMAIN c /\ Tail(c)[i] = c[i+1]
    BY <1>1, <1>2, <1>3
  <1>5. \A i \in DOMAIN c : i # 1 => i - 1 \in DOMAIN Tail(c) /\ Tail(c)[i-1] = c[i]
    BY <1>1, <1>3, <1>4
  <1> QED BY <1>1, <1>2, <1>4, <1>5

-----------------------------------------------------------------------------
(* Places and processes *)

\* Where the supervisor is tells what the GUI can be and how often it may
\* still be relaunched.
PlaceInv ==
  /\ spc \notin {"spawn", "wait_audio", "ended"} => guiRestarts < MaxRestarts
  /\ spc \in {"spawn", "gui_crashed"} => gui.state = "crashed"
  /\ spc = "gui_exit" => ~guiUp

-----------------------------------------------------------------------------
(* Types *)

\* What the helpers send is of the channels' types.
LEMMA SendTypes ==
  ASSUME TypeOK
  PROVE  /\ \A cmd \in Commands : send_audio_command(cmd) => commands' \in Seq(Commands)
         /\ \A sent \in Seq(Updates) : send_gui_updates(sent) => views' \in Seq(Updates)
         /\ \A update \in Updates : update_from(update) => shadow' \in Racks
         /\ Shutdown \in Actions /\ Shutdown \in Commands /\ Actions \subseteq Commands
         /\ SpawnedWorker \in Workers /\ SpawnedGui \in GuiProcesses
PROOF
  <1>1. \A cmd \in Commands : send_audio_command(cmd) => commands' \in Seq(Commands)
    BY Sent DEF send_audio_command, TypeOK
  <1>2. \A sent \in Seq(Updates) : send_gui_updates(sent) => views' \in Seq(Updates)
    BY ConcatProperties DEF send_gui_updates, TypeOK
  <1>3. \A update \in Updates : update_from(update) => shadow' \in Racks
    BY DEF update_from, TypeOK, Updates
  <1>4. /\ Shutdown \in Actions /\ Shutdown \in Commands /\ Actions \subseteq Commands
        /\ SpawnedWorker \in Workers /\ SpawnedGui \in GuiProcesses
    BY DEF Shutdown, Actions, Commands, SpawnedWorker, SpawnedGui, Workers,
           GuiProcesses, Racks
  <1> QED BY <1>1, <1>2, <1>3, <1>4

\* Steps of the supervisor that leave both children and their racks alone.
LEMMA SupervisorTypes ==
  ASSUME TypeOK, PlaceInv, SupervisorStep
  PROVE  TypeOK' /\ PlaceInv'
PROOF
  <1> USE SupervisorAssumption
  <1>0. /\ spc \in SupervisorStates /\ shadow \in Racks /\ guiRestarts \in 0..MaxRestarts
        /\ audioRestarts \in Nat /\ gui \in GuiProcesses /\ audio \in Workers
        /\ actions \in Seq(Actions) /\ commands \in Seq(Commands)
        /\ updates \in Seq(Updates) /\ views \in Seq(Updates)
        /\ undone \in Racks /\ crashes \in 0..MaxCrashes /\ MaxRestarts \in Nat \ {0}
    BY DEF TypeOK
  <1>1. /\ [kind |-> "full", rack |-> {}] \in Commands
        /\ to_restore_command \in Commands
        /\ [kind |-> "restarted", rack |-> {}, active |-> FALSE] \in Updates
    BY <1>0 DEF Commands, Updates, to_restore_command, Racks
  <1>2. \A s \in SupervisorStates : s = s
    OBVIOUS
  <1>3. updates # <<>> => /\ Head(updates) \in Updates /\ Tail(updates) \in Seq(Updates)
                          /\ <<Head(updates)>> \in Seq(Updates)
    BY <1>0, Received
  <1>4. actions # <<>> => Head(actions) \in Actions /\ Tail(actions) \in Seq(Actions)
    BY <1>0, Received
  <1>5. CASE LaunchGui
    BY <1>0, <1>1, <1>5, SendTypes, EmptySeq
       DEF LaunchGui, TypeOK, PlaceInv, SupervisorStates, budget, guiUp
  <1>6. CASE AbandonGui
    BY <1>0, <1>6, SendTypes
       DEF AbandonGui, TypeOK, PlaceInv, SupervisorStates, budget, guiUp
  <1>7. CASE InitialSync
    BY <1>0, <1>3, <1>7, SendTypes
       DEF InitialSync, TypeOK, PlaceInv, SupervisorStates, budget, guiUp
  <1>8. CASE GuiCrashed
    BY <1>0, <1>8
       DEF GuiCrashed, TypeOK, PlaceInv, SupervisorStates, budget, guiUp, channels
  <1>9. CASE CleanShutdown
    BY <1>0, <1>9, SendTypes
       DEF CleanShutdown, TypeOK, PlaceInv, SupervisorStates, budget, guiUp
  <1>10. CASE WaitAudio \/ WaitGui \/ AudioAlive
    BY <1>0, <1>10
       DEF WaitAudio, WaitGui, AudioAlive, TypeOK, PlaceInv, SupervisorStates, budget,
           guiUp, channels
  <1>11. CASE RelayAction
    <2>1. commands' \in Seq(Commands)
      BY <1>0, <1>4, <1>11, SendTypes DEF RelayAction
    <2>2. spc' \in {"clean", "update", "gui_exit"} /\ actions' \in Seq(Actions)
          /\ (spc' = "gui_exit" => ~guiUp)
      BY <1>0, <1>4, <1>11 DEF RelayAction
    <2> QED BY <1>0, <1>11, <2>1, <2>2
            DEF RelayAction, TypeOK, PlaceInv, SupervisorStates, budget, guiUp
  <1>12. CASE GuiExit \/ GuiAlive
    BY <1>0, <1>12
       DEF GuiExit, GuiAlive, TypeOK, PlaceInv, SupervisorStates, budget, guiUp, channels,
           GuiProcesses
  <1>13. CASE RelayUpdate
    BY <1>0, <1>3, <1>13, SendTypes
       DEF RelayUpdate, TypeOK, PlaceInv, SupervisorStates, budget, guiUp
  <1>14. CASE RestartAudio
    <2>1. commands' \in Seq(Commands) /\ updates' \in Seq(Updates) /\ audio' \in Workers
      BY <1>1, <1>14, SendTypes DEF RestartAudio
    <2>2. audioRestarts' \in Nat
      BY <1>0, <1>14 DEF RestartAudio
    <2> QED BY <1>0, <1>14, <2>1, <2>2
            DEF RestartAudio, WorkerFoundDead, TypeOK, PlaceInv, SupervisorStates, budget,
                guiUp
  <1>15. CASE AbandonAudio
    BY <1>0, <1>15
       DEF AbandonAudio, WorkerFoundDead, TypeOK, PlaceInv, SupervisorStates, budget,
           guiUp, channels
  <1>16. CASE ForwardRestored
    <2> DEFINE notice == [kind |-> "restarted", rack |-> {}, active |-> FALSE]
    <2>1. <<notice>> \in Seq(Updates)
          /\ (updates # <<>> => <<Head(updates), notice>> \in Seq(Updates))
      BY <1>1, <1>3
    <2>2. views' \in Seq(Updates) /\ updates' \in Seq(Updates)
      BY <1>0, <1>3, <1>16, <2>1, SendTypes DEF ForwardRestored
    <2> QED BY <1>0, <1>16, <2>2
            DEF ForwardRestored, TypeOK, PlaceInv, SupervisorStates, budget, guiUp
  <1> QED BY <1>5, <1>6, <1>7, <1>8, <1>9, <1>10, <1>11, <1>12, <1>13, <1>14, <1>15, <1>16
          DEF SupervisorStep

\* Steps of the other processes, of the user, and crashes.
LEMMA ProcessTypes ==
  ASSUME TypeOK, PlaceInv,
         \/ WorkerStep \/ GuiStep \/ UserEdits \/ CloseWindow \/ PluginDeactivated
         \/ GuiCrashes \/ AudioCrashes \/ SupervisorDies
  PROVE  TypeOK' /\ PlaceInv'
PROOF
  <1> USE SupervisorAssumption
  <1>0. /\ spc \in SupervisorStates /\ shadow \in Racks /\ guiRestarts \in 0..MaxRestarts
        /\ audioRestarts \in Nat /\ gui \in GuiProcesses /\ audio \in Workers
        /\ actions \in Seq(Actions) /\ commands \in Seq(Commands)
        /\ updates \in Seq(Updates) /\ views \in Seq(Updates)
        /\ undone \in Racks /\ crashes \in 0..MaxCrashes /\ MaxRestarts \in Nat \ {0}
    BY DEF TypeOK
  <1>1. ASSUME NEW kind \in {"rack", "full", "ack"}, Report(kind), audio' \in Workers
        PROVE  updates' \in Seq(Updates)
    <2>1. [kind |-> kind, rack |-> audio'.rack, active |-> audio'.active] \in Updates
      BY <1>1 DEF Workers, Updates
    <2> QED BY <1>0, <1>1, <2>1, Sent DEF Report
  <1>2. commands # <<>> => Head(commands) \in Commands /\ Tail(commands) \in Seq(Commands)
    BY <1>0, Received
  <1>3. CASE HandleCommand
    <2>1. CASE HandleAction
      <3>1. audio' \in Workers
        <4>1. Head(commands).rack \in Racks
          BY <1>2, <1>3 DEF HandleCommand, Commands
        <4>2. (audio.rack \cup Head(commands).rack) \in Racks
          BY <1>0, <4>1 DEF Workers, Racks
        <4>3. PICK active \in BOOLEAN :
                audio' = [audio EXCEPT !.rack = @ \cup Head(commands).rack, !.active = active]
          BY <2>1 DEF HandleAction
        <4> QED BY <1>0, <4>2, <4>3 DEF Workers
      <3>2. updates' \in Seq(Updates)
        BY <1>1, <2>1, <3>1 DEF HandleAction
      <3>3. commands' \in Seq(Commands)
        BY <1>2, <1>3 DEF HandleCommand
      <3> QED BY <1>0, <1>3, <3>1, <3>2, <3>3
              DEF HandleCommand, TypeOK, PlaceInv, supervisor, budget, guiUp
    <2>2. CASE RequestFullState
      BY <1>0, <1>1, <1>2, <1>3, <2>2
         DEF RequestFullState, HandleCommand, TypeOK, PlaceInv, supervisor, budget, guiUp
    <2>3. CASE RestoreState
      <3>1. audio' \in Workers
        BY <1>0, <1>2, <1>3, <2>3 DEF RestoreState, HandleCommand, Workers, Commands, Racks
      <3> QED BY <1>0, <1>1, <1>2, <1>3, <2>3, <3>1
              DEF RestoreState, HandleCommand, TypeOK, PlaceInv, supervisor, budget, guiUp
    <2>4. CASE WorkerShutdown
      <3>1. audio' \in Workers
        BY <1>0, <2>4 DEF WorkerShutdown, Workers
      <3> QED BY <1>0, <1>1, <1>2, <1>3, <2>4, <3>1
              DEF WorkerShutdown, HandleCommand, TypeOK, PlaceInv, supervisor, budget, guiUp
    <2> QED BY <1>3, <2>1, <2>2, <2>3, <2>4 DEF HandleCommand
  <1>4. CASE WorkerDisconnected
    BY <1>0, <1>4 DEF WorkerDisconnected, Workers, TypeOK, PlaceInv, supervisor, budget,
                      channels, guiUp
  <1>5. CASE PluginDeactivated
    <2>1. audio' \in Workers
      BY <1>0, <1>5 DEF PluginDeactivated, Workers
    <2> QED BY <1>0, <1>1, <1>5, <2>1
            DEF PluginDeactivated, TypeOK, PlaceInv, supervisor, budget, guiUp
  <1>6. CASE ApplyUpdate
    <2>1. /\ Head(views) \in Updates /\ views' \in Seq(Updates)
      BY <1>0, <1>6, Received DEF ApplyUpdate
    <2>2. gui' \in GuiProcesses /\ gui'.state = gui.state
      BY <1>0, <1>6, <2>1 DEF ApplyUpdate, GuiProcesses, Updates
    <2> QED BY <1>0, <1>6, <2>1, <2>2
            DEF ApplyUpdate, TypeOK, PlaceInv, supervisor, budget, guiUp
  <1>7. CASE LoseSupervisor
    BY <1>0, <1>7 DEF LoseSupervisor, GuiProcesses, TypeOK, PlaceInv, supervisor, budget,
                      channels, guiUp
  <1>8. CASE GuiExits
    BY <1>0, <1>8 DEF GuiExits, GuiProcesses, TypeOK, PlaceInv, supervisor, budget,
                      channels, guiUp
  <1>9. CASE UserEdits
    <2>1. PICK e \in undone :
            /\ undone' = undone \ {e}
            /\ IF connected
               THEN /\ actions' = Append(actions, [kind |-> "edit", rack |-> {e}])
                    /\ UNCHANGED gui
               ELSE /\ gui' = [gui EXCEPT !.supervisor_disconnected = TRUE, !.active = FALSE]
                    /\ UNCHANGED actions
      BY <1>9 DEF UserEdits
    <2>2. [kind |-> "edit", rack |-> {e}] \in Actions
      BY <1>0 DEF Actions, Racks
    <2>3. undone' \in Racks
      BY <1>0, <2>1 DEF Racks
    <2>4. actions' \in Seq(Actions)
      <3>1. Append(actions, [kind |-> "edit", rack |-> {e}]) \in Seq(Actions)
        BY <1>0, <2>2, Sent
      <3>2. actions' = actions \/ actions' = Append(actions, [kind |-> "edit", rack |-> {e}])
        BY <2>1
      <3> QED BY <1>0, <3>1, <3>2
    <2>5. gui' \in GuiProcesses /\ gui'.state = gui.state
      BY <1>0, <2>1 DEF GuiProcesses
    <2> QED BY <1>0, <1>9, <2>3, <2>4, <2>5 DEF UserEdits, TypeOK, PlaceInv, supervisor, guiUp
  <1>10. CASE CloseWindow
    <2>1. Append(actions, Shutdown) \in Seq(Actions)
      BY <1>0, Sent, SendTypes
    <2>2. actions' \in Seq(Actions)
      BY <1>0, <1>10, <2>1 DEF CloseWindow
    <2>3. gui' \in GuiProcesses
      BY <1>0, <1>10 DEF CloseWindow, GuiProcesses
    <2>4. /\ UNCHANGED <<spc, shadow, guiRestarts, audioRestarts, audio, commands, updates, views>>
          /\ UNCHANGED <<undone, crashes>>
          /\ gui.state = "running" /\ gui'.state = "closing"
      BY <1>0, <1>10 DEF CloseWindow, GuiProcesses, supervisor, budget
    <2>5. TypeOK'
      BY <1>0, <2>2, <2>3, <2>4 DEF TypeOK
    <2>6. PlaceInv'
      BY <2>4 DEF PlaceInv, guiUp
    <2> QED BY <2>5, <2>6
  <1>11. CASE GuiCrashes
    <2>1. /\ gui' = [gui EXCEPT !.state = "crashed"]
          /\ crashes > 0 /\ crashes' = crashes - 1
          /\ UNCHANGED <<spc, shadow, guiRestarts, audioRestarts, audio>>
          /\ UNCHANGED <<actions, commands, updates, views, undone>>
      BY <1>11 DEF GuiCrashes, supervisor, channels
    <2>2. gui' \in GuiProcesses /\ gui'.state = "crashed"
      BY <1>0, <2>1 DEF GuiProcesses
    <2>3. crashes' \in 0..MaxCrashes
      BY <1>0, <2>1
    <2>4. TypeOK'
      BY <1>0, <2>1, <2>2, <2>3 DEF TypeOK
    <2>5. PlaceInv'
      BY <2>1, <2>2 DEF PlaceInv, guiUp
    <2> QED BY <2>4, <2>5
  <1>12. CASE AudioCrashes
    <2>1. audio' \in Workers /\ commands' \in Seq(Commands)
      BY <1>0, <1>12, EmptySeq DEF AudioCrashes, Workers
    <2> QED BY <1>0, <1>12, <2>1 DEF AudioCrashes, TypeOK, PlaceInv, supervisor, guiUp
  <1>13. CASE SupervisorDies
    BY <1>0, <1>13 DEF SupervisorDies, SupervisorStates, TypeOK, PlaceInv, channels, guiUp
  <1> QED BY <1>3, <1>4, <1>5, <1>6, <1>7, <1>8, <1>9, <1>10, <1>11, <1>12, <1>13
          DEF WorkerStep, GuiStep

\* Every step keeps the types and the supervisor's place.
LEMMA TypeStep ==
  TypeOK /\ PlaceInv /\ [Next]_vars => TypeOK' /\ PlaceInv'
PROOF
  <1> SUFFICES ASSUME TypeOK, PlaceInv, [Next]_vars
               PROVE  TypeOK' /\ PlaceInv'
    OBVIOUS
  <1>1. CASE UNCHANGED vars
    BY <1>1 DEF TypeOK, PlaceInv, vars, supervisor, channels, budget, guiUp
  <1>2. CASE Next
    BY <1>2, SupervisorTypes, ProcessTypes DEF Next
  <1> QED BY <1>1, <1>2

\* The first worker is up, no GUI is.
LEMMA InitTypes == Init => TypeOK /\ PlaceInv
PROOF
  <1> SUFFICES ASSUME Init PROVE TypeOK /\ PlaceInv
    OBVIOUS
  <1>1. gui \in GuiProcesses /\ gui.state = "crashed" /\ audio \in Workers
    BY DEF Init, SpawnedGui, SpawnedWorker, GuiProcesses, Workers, Racks
  <1>2. /\ actions \in Seq(Actions) /\ commands \in Seq(Commands)
        /\ updates \in Seq(Updates) /\ views \in Seq(Updates)
    BY EmptySeq DEF Init
  <1> QED BY <1>1, <1>2, SupervisorAssumption
          DEF Init, TypeOK, PlaceInv, SupervisorStates, Racks, guiUp

\* Every reachable state of the three processes has its type; in particular
\* the relaunches of the GUI never exceed the limit.
THEOREM SupervisorTypeCorrect == Spec => []TypeOK
PROOF
  <1>1. TypeOK /\ PlaceInv /\ [Next]_vars => (TypeOK /\ PlaceInv)'
    BY TypeStep
  <1> QED BY <1>1, InitTypes, PTL DEF Spec

-----------------------------------------------------------------------------
(* The racks in flight *)

Reports(channel) == {i \in DOMAIN channel : channel[i].kind \in {"full", "rack"}}

\* What the GUI has or will be shown is in the shadow.
ViewsInv ==
  /\ gui.rack \subseteq shadow
  /\ \A i \in Reports(views) : views[i].rack \subseteq shadow

\* Racks only grow from one report to the next.
UpdatesInv ==
  /\ \A i \in Reports(updates) : shadow \subseteq updates[i].rack
  /\ \A i, j \in Reports(updates) : i <= j => updates[i].rack \subseteq updates[j].rack

\* A restore is the first thing a new worker reads, before it reports anything.
RestoreInv ==
  \A i \in DOMAIN commands :
    commands[i].kind = "restore" =>
      /\ i = 1
      /\ commands[i].rack = shadow
      /\ updates = <<>>
      /\ ~audio.active

\* The worker's rack is the one it reported last, or the shadow.
WorkerInv ==
  audioUp /\ PendingRestores = {} =>
    /\ shadow \subseteq audio.rack
    /\ \A i \in Reports(updates) : updates[i].rack \subseteq audio.rack
    /\ Reports(updates) = {} => audio.rack = shadow
    /\ \A i \in Reports(updates) :
         (\A j \in Reports(updates) : j <= i) => audio.rack = updates[i].rack

\* What try_restart_audio_worker forwards is the rack it restored.
RestoredInv ==
  spc = "restored" =>
    \/ updates = <<>> /\ (audioUp => PendingRestores # {})
    \/ updates # <<>> /\ Head(updates).rack = shadow

RackInv == ViewsInv /\ UpdatesInv /\ RestoreInv /\ WorkerInv /\ RestoredInv

\* Updates sent to the GUI whose racks are in the shadow keep ViewsInv.
LEMMA ViewsKept ==
  ASSUME TypeOK, ViewsInv, shadow \subseteq shadow', gui'.rack = gui.rack,
         NEW sent \in Seq(Updates), send_gui_updates(sent),
         \A i \in Reports(sent) : sent[i].rack \subseteq shadow'
  PROVE  ViewsInv'
PROOF
  <1>1. views \in Seq(Updates)
    BY DEF TypeOK
  <1>2. CASE ~guiUp
    BY <1>2 DEF send_gui_updates, ViewsInv, Reports
  <1>3. CASE guiUp
    <2>1. views' = views \o sent
      BY <1>3 DEF send_gui_updates
    <2>2. /\ DOMAIN views = 1..Len(views) /\ Len(views) \in Nat
          /\ DOMAIN sent = 1..Len(sent) /\ Len(sent) \in Nat
      BY <1>1, LenProperties
    <2>3. /\ DOMAIN (views \o sent) = 1..(Len(views) + Len(sent))
          /\ \A i \in DOMAIN views : (views \o sent)[i] = views[i]
          /\ \A i \in DOMAIN (views \o sent) :
               i \notin DOMAIN views => /\ i - Len(views) \in DOMAIN sent
                                      /\ (views \o sent)[i] = sent[i - Len(views)]
      BY <1>1, <2>2, ConcatProperties, LenProperties
    <2>4. ASSUME NEW i \in Reports(views') PROVE views'[i].rack \subseteq shadow'
      <3>1. CASE i \in DOMAIN views
        BY <2>1, <2>3, <2>4, <3>1 DEF Reports, ViewsInv
      <3>2. CASE i \notin DOMAIN views
        BY <2>1, <2>3, <2>4, <3>2 DEF Reports
      <3> QED BY <3>1, <3>2
    <2> QED BY <2>4 DEF ViewsInv
  <1> QED BY <1>2, <1>3

\* A command that is no restore changes nothing about the racks.
LEMMA CommandKeeps ==
  ASSUME TypeOK, RestoreInv, WorkerInv,
         NEW cmd \in Commands, cmd.kind # "restore", send_audio_command(cmd),
         UNCHANGED <<shadow, updates, audio>>
  PROVE  /\ RestoreInv' /\ WorkerInv'
         /\ PendingRestores' = PendingRestores
PROOF
  <1>1. commands \in Seq(Commands)
    BY DEF TypeOK
  <1>2. CASE ~audioUp
    BY <1>2 DEF send_audio_command, RestoreInv, WorkerInv, PendingRestores, audioUp
  <1>3. CASE audioUp
    <2>1. commands' = Append(commands, cmd)
      BY <1>3 DEF send_audio_command
    <2>2. DOMAIN commands = 1..Len(commands) /\ Len(commands) \in Nat
      BY <1>1, LenProperties
    <2>3. \A i \in DOMAIN commands' :
            \/ i \in DOMAIN commands /\ commands'[i] = commands[i]
            \/ i \notin DOMAIN commands /\ commands'[i].kind # "restore"
      BY <1>1, <2>1, <2>2, Sent
    <2>4. DOMAIN commands \subseteq DOMAIN commands'
      BY <1>1, <2>1, <2>2, Sent
    <2>5. PendingRestores' = PendingRestores
      BY <2>3, <2>4 DEF PendingRestores
    <2>6. RestoreInv'
      BY <2>3 DEF RestoreInv
    <2> QED BY <2>5, <2>6 DEF WorkerInv, audioUp
  <1> QED BY <1>2, <1>3

\* A read takes the oldest update; the ones behind it keep their order.
LEMMA UpdateTaken ==
  ASSUME TypeOK, UpdatesInv, updates # <<>>, updates' = Tail(updates)
  PROVE  /\ Head(updates) \in Updates /\ Head(updates) = updates[1] /\ 1 \in DOMAIN updates
         /\ \A i \in Reports(updates') :
              i + 1 \in Reports(updates) /\ updates'[i] = updates[i+1] /\ i \in Nat \ {0}
         /\ \A i \in Reports(updates) :
              i # 1 => i - 1 \in Reports(updates') /\ updates'[i-1] = updates[i]
PROOF
  <1>1. updates \in Seq(Updates)
    BY DEF TypeOK
  <1>2. /\ Head(updates) \in Updates /\ Head(updates) = updates[1] /\ 1 \in DOMAIN updates
        /\ Tail(updates) \in Seq(Updates)
        /\ \A i \in DOMAIN Tail(updates) :
             i + 1 \in DOMAIN updates /\ Tail(updates)[i] = updates[i+1]
        /\ \A i \in DOMAIN updates :
             i # 1 => i - 1 \in DOMAIN Tail(updates) /\ Tail(updates)[i-1] = updates[i]
    BY <1>1, Received
  <1>3. DOMAIN Tail(updates) = 1..Len(Tail(updates)) /\ Len(Tail(updates)) \in Nat
    BY <1>2, LenProperties
  <1> QED BY <1>2, <1>3 DEF Reports

\* Once the oldest update is taken, the worker's rack is still the one it
\* reported last, if a taken report is in the shadow.
LEMMA TakenKeeps ==
  ASSUME TypeOK, UpdatesInv, WorkerInv, updates # <<>>, updates' = Tail(updates),
         UNCHANGED <<audio, commands>>,
         shadow' \in {shadow, Head(updates).rack},
         1 \in Reports(updates) => shadow' = Head(updates).rack,
         1 \notin Reports(updates) => shadow' = shadow
  PROVE  shadow \subseteq shadow' /\ UpdatesInv' /\ WorkerInv'
PROOF
  <1>1. /\ Head(updates) = updates[1]
        /\ \A i \in Reports(updates') :
             i + 1 \in Reports(updates) /\ updates'[i] = updates[i+1] /\ i \in Nat \ {0}
        /\ \A i \in Reports(updates) :
             i # 1 => i - 1 \in Reports(updates') /\ updates'[i-1] = updates[i]
    BY UpdateTaken
  <1>2. shadow \subseteq shadow'
    BY <1>1 DEF UpdatesInv
  <1>3. Reports(updates) \subseteq Nat
    <2>1. DOMAIN updates = 1..Len(updates) /\ Len(updates) \in Nat
      BY LenProperties DEF TypeOK
    <2> QED BY <2>1 DEF Reports
  <1>4. \A i \in Reports(updates') : shadow' \subseteq updates'[i].rack
    <2>1. SUFFICES ASSUME NEW i \in Reports(updates')
                   PROVE  shadow' \subseteq updates'[i].rack
      OBVIOUS
    <2>2. /\ i + 1 \in Reports(updates) /\ updates'[i] = updates[i+1]
          /\ i \in Nat \ {0}
      BY <1>1
    <2>3. 1 <= i + 1
      BY <2>2
    <2>4. CASE 1 \in Reports(updates)
      BY <1>1, <2>2, <2>3, <2>4 DEF UpdatesInv
    <2>5. CASE 1 \notin Reports(updates)
      BY <2>2, <2>5 DEF UpdatesInv
    <2> QED BY <2>4, <2>5
  <1>5. \A i, j \in Reports(updates') : i <= j => updates'[i].rack \subseteq updates'[j].rack
    <2>1. SUFFICES ASSUME NEW i \in Reports(updates'), NEW j \in Reports(updates'), i <= j
                   PROVE  updates'[i].rack \subseteq updates'[j].rack
      OBVIOUS
    <2>2. /\ i + 1 \in Reports(updates) /\ updates'[i] = updates[i+1] /\ i \in Nat
          /\ j + 1 \in Reports(updates) /\ updates'[j] = updates[j+1] /\ j \in Nat
      BY <1>1
    <2>3. i + 1 <= j + 1
      BY <2>1, <2>2
    <2> QED BY <2>2, <2>3 DEF UpdatesInv
  <1>6. WorkerInv'
    <2>1. SUFFICES ASSUME audioUp, PendingRestores = {} PROVE WorkerInv'
      BY DEF WorkerInv, audioUp, PendingRestores
    <2>2. /\ shadow \subseteq audio.rack
          /\ \A i \in Reports(updates) : updates[i].rack \subseteq audio.rack
          /\ Reports(updates) = {} => audio.rack = shadow
          /\ \A i \in Reports(updates) :
               (\A j \in Reports(updates) : j <= i) => audio.rack = updates[i].rack
      BY <2>1 DEF WorkerInv
    <2>3. shadow' \subseteq audio.rack
      BY <1>1, <2>2
    <2>4. \A i \in Reports(updates') : updates'[i].rack \subseteq audio.rack
      BY <1>1, <2>2
    <2>5. ASSUME Reports(updates') = {} PROVE audio.rack = shadow'
      <3>1. Reports(updates) \subseteq {1}
        BY <1>1, <2>5
      <3>2. CASE 1 \in Reports(updates)
        BY <1>1, <2>2, <3>1, <3>2
      <3>3. CASE 1 \notin Reports(updates)
        BY <2>2, <3>1, <3>3
      <3> QED BY <3>2, <3>3
    <2>6. ASSUME NEW i \in Reports(updates'), \A j \in Reports(updates') : j <= i
          PROVE  audio.rack = updates'[i].rack
      <3>1. i + 1 \in Reports(updates) /\ updates'[i] = updates[i+1] /\ i \in Nat \ {0}
        BY <1>1
      <3>2. ASSUME NEW j \in Reports(updates) PROVE j <= i + 1
        <4>1. CASE j = 1
          BY <3>1, <4>1
        <4>2. CASE j # 1
          <5>1. j - 1 <= i /\ j \in Nat
            BY <1>1, <1>3, <2>6, <4>2
          <5> QED BY <3>1, <5>1
        <4> QED BY <4>1, <4>2
      <3> QED BY <2>2, <3>1, <3>2
    <2> QED BY <2>3, <2>4, <2>5, <2>6 DEF WorkerInv
  <1> QED BY <1>2, <1>4, <1>5, <1>6 DEF UpdatesInv

\* A report of a rack that has grown since the last one keeps the order of the
\* reports, and the worker's rack is the one it reported last.
LEMMA Reported ==
  ASSUME TypeOK, UpdatesInv, shadow' = shadow, audio' \in Workers,
         NEW kind \in {"rack", "full", "ack"}, Report(kind), audioUp' => kind # "ack",
         shadow \subseteq audio'.rack,
         \A i \in Reports(updates) : updates[i].rack \subseteq audio'.rack
  PROVE  /\ UpdatesInv' /\ WorkerInv'
         /\ updates' # <<>>
         /\ updates # <<>> => Head(updates') = Head(updates)
         /\ updates = <<>> => Head(updates').rack = audio'.rack
PROOF
  <1> DEFINE new == [kind |-> kind, rack |-> audio'.rack, active |-> audio'.active]
             last == Len(updates) + 1
  <1>1. /\ updates \in Seq(Updates) /\ new \in Updates
        /\ updates' = Append(updates, new)
    BY DEF TypeOK, Workers, Updates, Report
  <1>2. /\ DOMAIN updates = 1..Len(updates) /\ Len(updates) \in Nat
    BY <1>1, LenProperties
  <1> HIDE DEF new
  <1>3. /\ updates' \in Seq(Updates) /\ DOMAIN updates' = 1..last
        /\ \A i \in DOMAIN updates : updates'[i] = updates[i]
        /\ updates'[last] = new
    BY <1>1, Sent
  <1>4. \A i \in DOMAIN updates' : i \in DOMAIN updates \/ i = last
    BY <1>2, <1>3
  <1>5. \A i \in DOMAIN updates : i < last
    BY <1>2
  <1>6. /\ \A i \in Reports(updates') :
             \/ i \in Reports(updates) /\ updates'[i] = updates[i]
             \/ i = last /\ updates'[i].rack = audio'.rack
        /\ \A i \in Reports(updates) : i \in Reports(updates')
        /\ kind # "ack" => last \in Reports(updates')
    BY <1>2, <1>3, <1>4 DEF Reports, new
  <1>7. \A i \in Reports(updates') : shadow' \subseteq updates'[i].rack
    BY <1>6 DEF UpdatesInv
  <1>8. ASSUME NEW i \in Reports(updates'), NEW j \in Reports(updates'), i <= j
        PROVE  updates'[i].rack \subseteq updates'[j].rack
    <2>1. CASE i = last
      <3>1. j = last
        BY <1>2, <1>5, <1>6, <1>8, <2>1 DEF Reports
      <3> QED BY <2>1, <3>1
    <2>2. CASE i # last /\ j = last
      <3>1. updates'[j].rack = audio'.rack
        BY <1>3, <2>2 DEF new
      <3>2. i \in Reports(updates) /\ updates'[i] = updates[i]
        BY <1>6, <1>8, <2>2
      <3> QED BY <3>1, <3>2
    <2>3. CASE i # last /\ j # last
      BY <1>6, <1>8, <2>3 DEF UpdatesInv
    <2> QED BY <2>1, <2>2, <2>3
  <1>9. WorkerInv'
    <2>1. SUFFICES ASSUME audioUp' PROVE WorkerInv'
      BY DEF WorkerInv
    <2>2. last \in Reports(updates')
      BY <1>6, <2>1
    <2>3. \A i \in Reports(updates') : updates'[i].rack \subseteq audio'.rack
      BY <1>6
    <2>4. ASSUME NEW i \in Reports(updates'), \A j \in Reports(updates') : j <= i
          PROVE  audio'.rack = updates'[i].rack
      <3>1. last <= i
        BY <2>2, <2>4
      <3>2. i = last
        BY <1>2, <1>5, <1>6, <3>1 DEF Reports
      <3> QED BY <1>3, <3>2 DEF new
    <2> QED BY <2>2, <2>3, <2>4 DEF WorkerInv
  <1>10. /\ updates' # <<>> /\ Head(updates') = updates'[1]
    BY <1>2, <1>3, EmptySeq, HeadTailProperties
  <1>11. updates # <<>> => Head(updates') = Head(updates)
    <2>1. updates # <<>> => Head(updates) = updates[1] /\ 1 \in DOMAIN updates
      BY <1>1, Received
    <2> QED BY <1>3, <1>10, <2>1
  <1>12. updates = <<>> => Head(updates').rack = audio'.rack
    <2>1. updates = <<>> => last = 1
      BY EmptySeq
    <2> QED BY <1>3, <1>10, <2>1 DEF new
  <1> QED BY <1>7, <1>8, <1>9, <1>10, <1>11, <1>12 DEF UpdatesInv

-----------------------------------------------------------------------------
(* Every step keeps RackInv *)

\* A step that touches none of the racks in flight, nor makes a worker.
LEMMA QuietKeeps ==
  ASSUME RackInv, gui'.rack = gui.rack, views' = views, shadow' = shadow,
         UNCHANGED <<commands, updates>>,
         audio' = audio \/ (~audioUp' /\ (audio'.active => audio.active)),
         spc' = "restored" => spc = "restored"
  PROVE  RackInv'
PROOF
  <1>1. PendingRestores' = PendingRestores
    BY DEF PendingRestores
  <1>2. audioUp' => audio' = audio /\ audioUp
    BY DEF audioUp
  <1> QED BY <1>1, <1>2
          DEF RackInv, ViewsInv, UpdatesInv, RestoreInv, WorkerInv, RestoredInv, Reports

\* The supervisor's steps between its reads: it sends the worker an action, a
\* request or nothing.
LEMMA RelayKeepsRacks ==
  ASSUME TypeOK, RackInv,
         \/ LaunchGui \/ AbandonGui \/ GuiCrashed \/ CleanShutdown \/ WaitAudio
         \/ RelayAction \/ GuiExit \/ GuiAlive \/ AudioAlive \/ AbandonAudio \/ WaitGui
  PROVE  RackInv'
PROOF
  <1> DEFINE full == [kind |-> "full", rack |-> {}]
  <1>1. /\ full \in Commands /\ full.kind # "restore"
        /\ Shutdown \in Commands /\ Shutdown.kind # "restore"
    BY DEF Commands, Racks, Shutdown
  <1>2. CASE LaunchGui
    <2>1. RestoreInv' /\ WorkerInv'
      <3> HIDE DEF full
      <3>1. send_audio_command(full) /\ UNCHANGED <<shadow, updates, audio>>
        BY <1>2 DEF LaunchGui, full
      <3> QED BY <1>1, <3>1, CommandKeeps DEF RackInv
    <2>2. ViewsInv'
      BY <1>2 DEF LaunchGui, SpawnedGui, ViewsInv, Reports
    <2>3. UpdatesInv' /\ RestoredInv'
      BY <1>2 DEF LaunchGui, RackInv, UpdatesInv, RestoredInv, Reports
    <2> QED BY <2>1, <2>2, <2>3 DEF RackInv
  <1>3. CASE AbandonGui \/ CleanShutdown \/ (RelayAction /\ actions # <<>>)
    <2>1. PICK cmd \in Commands : cmd.kind # "restore" /\ send_audio_command(cmd)
      <3>1. actions # <<>> => Head(actions) \in Commands /\ Head(actions).kind # "restore"
        <4>1. actions # <<>> => Head(actions) \in Actions
          BY Received DEF TypeOK
        <4> QED BY <4>1 DEF Actions, Commands
      <3> QED BY <1>1, <1>3, <3>1 DEF AbandonGui, CleanShutdown, RelayAction
    <2>2. /\ UNCHANGED <<shadow, updates, audio, gui, views>>
          /\ spc' # "restored"
      BY <1>3 DEF AbandonGui, CleanShutdown, RelayAction
    <2>3. RestoreInv' /\ WorkerInv'
      BY <2>1, <2>2, CommandKeeps DEF RackInv
    <2> QED BY <2>2, <2>3
            DEF RackInv, ViewsInv, UpdatesInv, RestoredInv, Reports
  <1>4. CASE \/ GuiCrashed \/ WaitAudio \/ (RelayAction /\ actions = <<>>) \/ GuiExit
             \/ GuiAlive \/ AudioAlive \/ AbandonAudio \/ WaitGui
    <2>1. /\ UNCHANGED <<gui, views, shadow, commands, updates, audio>>
          /\ spc' # "restored"
      BY <1>4 DEF GuiCrashed, WaitAudio, RelayAction, GuiExit, GuiAlive, AudioAlive,
                  AbandonAudio, WaitGui, channels
    <2> QED BY <2>1, QuietKeeps
  <1> QED BY <1>2, <1>3, <1>4

\* A read update is cached before it is sent on.
LEMMA ReadKeepsRacks ==
  ASSUME TypeOK, RackInv, InitialSync \/ RelayUpdate
  PROVE  RackInv'
PROOF
  <1>1. CASE updates' = updates
    <2>1. InitialSync \/ RelayUpdate =>
            \/ updates' = Tail(updates) /\ updates # <<>>
            \/ UNCHANGED <<shadow, updates, views>>
      BY DEF InitialSync, RelayUpdate
    <2>2. updates # <<>> => Tail(updates) # updates
      <3>1. updates # <<>> => Len(Tail(updates)) = Len(updates) - 1 /\ Len(updates) \in Nat
        BY HeadTailProperties, LenProperties DEF TypeOK
      <3> QED BY <3>1
    <2>3. UNCHANGED <<gui, views, shadow, commands, updates, audio>> /\ spc' # "restored"
      BY <1>1, <2>1, <2>2 DEF InitialSync, RelayUpdate
    <2> QED BY <2>3, QuietKeeps
  <1>2. CASE updates' # updates
    <2>1. /\ updates # <<>> /\ updates' = Tail(updates)
          /\ update_from(Head(updates)) /\ send_gui_updates(<<Head(updates)>>)
          /\ UNCHANGED <<gui, audio, commands>> /\ spc' # "restored"
      BY <1>2 DEF InitialSync, RelayUpdate
    <2>2. Head(updates) \in Updates /\ Head(updates) = updates[1] /\ 1 \in DOMAIN updates
      BY <2>1, UpdateTaken DEF RackInv
    <2>3. /\ shadow' \in {shadow, Head(updates).rack}
          /\ 1 \in Reports(updates) => shadow' = Head(updates).rack
          /\ 1 \notin Reports(updates) => shadow' = shadow
      BY <2>1, <2>2 DEF update_from, Reports
    <2>4. shadow \subseteq shadow' /\ UpdatesInv' /\ WorkerInv'
      BY <2>1, <2>3, TakenKeeps DEF RackInv
    <2>5. ViewsInv'
      <3> DEFINE sent == <<Head(updates)>>
      <3>1. sent \in Seq(Updates) /\ \A i \in DOMAIN sent : i = 1 /\ sent[i] = Head(updates)
        BY <2>2
      <3>2. \A i \in Reports(sent) : sent[i].rack \subseteq shadow'
        BY <2>2, <2>3, <3>1 DEF Reports
      <3> QED BY <2>1, <2>4, <3>1, <3>2, ViewsKept DEF RackInv
    <2>6. RestoreInv'
      BY <2>1 DEF RackInv, RestoreInv
    <2> QED BY <2>1, <2>4, <2>5, <2>6 DEF RackInv, RestoredInv
  <1> QED BY <1>1, <1>2

\* A new worker is restored from the shadow before anything else, and the rack
\* it answers with, forwarded without being cached, is the shadow.
LEMMA RestartKeepsRacks ==
  ASSUME TypeOK, RackInv, RestartAudio \/ ForwardRestored
  PROVE  RackInv'
PROOF
  <1>1. CASE RestartAudio
    <2>1. /\ commands' = <<to_restore_command>> /\ updates' = <<>>
          /\ audio' = SpawnedWorker /\ UNCHANGED <<shadow, gui, views>>
      BY <1>1 DEF RestartAudio
    <2>2. /\ DOMAIN commands' = {1} /\ commands'[1].kind = "restore"
          /\ commands'[1].rack = shadow'
      BY <2>1 DEF to_restore_command
    <2>3. PendingRestores' # {}
      BY <2>2 DEF PendingRestores
    <2> QED BY <2>1, <2>2, <2>3
            DEF RackInv, ViewsInv, UpdatesInv, RestoreInv, WorkerInv, RestoredInv, Reports,
                SpawnedWorker
  <1>2. CASE ForwardRestored
    <2> DEFINE notice == [kind |-> "restarted", rack |-> {}, active |-> FALSE]
    <2>1. /\ spc = "restored" /\ spc' = "action"
          /\ UNCHANGED <<shadow, gui, audio, commands>>
          /\ \/ /\ updates # <<>> /\ updates' = Tail(updates)
                /\ send_gui_updates(<<Head(updates), notice>>)
             \/ UNCHANGED updates /\ send_gui_updates(<<notice>>)
      BY <1>2 DEF ForwardRestored
    <2>2. notice \in Updates /\ notice.kind = "restarted"
      BY DEF Updates, Racks
    <2> HIDE DEF notice
    <2>3. RestoreInv'
      BY <2>1, EmptySeq DEF RackInv, RestoreInv, TypeOK
    <2>4. CASE UNCHANGED updates /\ send_gui_updates(<<notice>>)
      <3>1. /\ <<notice>> \in Seq(Updates)
            /\ \A i \in DOMAIN <<notice>> : <<notice>>[i] = notice
        BY <2>2
      <3>2. Reports(<<notice>>) = {}
        BY <2>2, <3>1 DEF Reports
      <3>3. ViewsInv'
        BY <2>1, <2>4, <3>1, <3>2, ViewsKept DEF RackInv
      <3> QED BY <2>1, <2>3, <2>4, <3>3
              DEF RackInv, UpdatesInv, WorkerInv, RestoredInv, Reports, PendingRestores,
                  audioUp
    <2>5. CASE /\ updates # <<>> /\ updates' = Tail(updates)
               /\ send_gui_updates(<<Head(updates), notice>>)
      <3>1. Head(updates) \in Updates /\ Head(updates) = updates[1]
        BY <2>5, UpdateTaken DEF RackInv
      <3>2. Head(updates).rack = shadow
        BY <2>1, <2>5 DEF RackInv, RestoredInv
      <3>3. shadow \subseteq shadow' /\ UpdatesInv' /\ WorkerInv'
        BY <2>1, <2>5, <3>2, TakenKeeps DEF RackInv
      <3> DEFINE sent == <<Head(updates), notice>>
      <3>4. /\ sent \in Seq(Updates)
            /\ \A i \in DOMAIN sent : sent[i] = Head(updates) \/ sent[i] = notice
        BY <2>2, <3>1
      <3>5. \A i \in Reports(sent) : sent[i].rack \subseteq shadow'
        BY <2>1, <2>2, <3>2, <3>4 DEF Reports
      <3>6. ViewsInv'
        BY <2>1, <2>5, <3>3, <3>4, <3>5, ViewsKept DEF RackInv
      <3> QED BY <2>1, <2>3, <3>3, <3>6 DEF RackInv, RestoredInv
    <2> QED BY <2>1, <2>4, <2>5
  <1> QED BY <1>1, <1>2

\* A command is handled: the worker restores the shadow, or its rack grows,
\* and it reports the rack it has then.
LEMMA CommandKeepsRacks ==
  ASSUME TypeOK, TypeOK', RackInv, HandleCommand
  PROVE  RackInv'
PROOF
  <1>1. /\ audioUp /\ commands # <<>> /\ commands' = Tail(commands)
        /\ UNCHANGED <<spc, shadow, gui, views>>
        /\ Head(commands) \in Commands /\ Head(commands) = commands[1]
        /\ 1 \in DOMAIN commands
        /\ audio' \in Workers /\ audio \in Workers
    BY Received DEF HandleCommand, TypeOK, supervisor
  <1>2. /\ \A i \in DOMAIN commands' :
             i + 1 \in DOMAIN commands /\ commands'[i] = commands[i+1] /\ i \in Nat \ {0}
    <2>1. DOMAIN commands' = 1..Len(commands') /\ Len(commands') \in Nat
      BY LenProperties DEF TypeOK
    <2>2. \A i \in DOMAIN Tail(commands) :
            i + 1 \in DOMAIN commands /\ Tail(commands)[i] = commands[i+1]
      BY <1>1, Received DEF TypeOK
    <2> QED BY <1>1, <2>1, <2>2
  <1>3. \A i \in DOMAIN commands' : commands'[i].kind # "restore"
    BY <1>2 DEF RackInv, RestoreInv
  <1>4. PICK kind \in {"rack", "full", "ack"} : Report(kind) /\ (audioUp' => kind # "ack")
    <2>1. Report("rack") \/ Report("full") \/ (Report("ack") /\ WorkerShutdown)
      BY DEF HandleCommand, HandleAction, RequestFullState, RestoreState, WorkerShutdown
    <2>2. WorkerShutdown => ~audioUp'
      BY <1>1 DEF WorkerShutdown, Workers, audioUp
    <2>3. "ack" # "rack" /\ "ack" # "full"
      OBVIOUS
    <2> QED BY <2>1, <2>2, <2>3
  <1>5. /\ shadow \subseteq audio'.rack
        /\ \A i \in Reports(updates) : updates[i].rack \subseteq audio'.rack
        /\ commands[1].kind = "restore" => audio'.rack = shadow /\ updates = <<>>
    <2>1. CASE commands[1].kind = "restore"
      <3>1. audio'.rack = commands[1].rack
        BY <1>1, <2>1 DEF HandleCommand, HandleAction, RequestFullState, RestoreState,
                          WorkerShutdown, Workers
      <3>2. commands[1].rack = shadow /\ updates = <<>>
        BY <1>1, <2>1 DEF RackInv, RestoreInv
      <3>3. Reports(updates) = {}
        BY <3>2, EmptySeq DEF Reports
      <3> QED BY <3>1, <3>2, <3>3
    <2>2. CASE commands[1].kind # "restore"
      <3>1. PendingRestores = {}
        BY <2>2 DEF PendingRestores, RackInv, RestoreInv
      <3>2. /\ shadow \subseteq audio.rack
            /\ \A i \in Reports(updates) : updates[i].rack \subseteq audio.rack
        BY <1>1, <3>1 DEF RackInv, WorkerInv
      <3>3. audio.rack \subseteq audio'.rack
        <4>1. CASE HandleAction
          BY <1>1, <4>1 DEF HandleAction, Workers
        <4>2. CASE RequestFullState
          BY <4>2 DEF RequestFullState
        <4>3. CASE WorkerShutdown
          BY <1>1, <4>3 DEF WorkerShutdown, Workers
        <4> QED BY <1>1, <2>2, <4>1, <4>2, <4>3 DEF HandleCommand, RestoreState
      <3> QED BY <2>2, <3>2, <3>3
    <2> QED BY <2>1, <2>2
  <1>6. /\ UpdatesInv' /\ WorkerInv' /\ updates' # <<>>
        /\ updates # <<>> => Head(updates') = Head(updates)
        /\ updates = <<>> => Head(updates').rack = audio'.rack
    BY <1>1, <1>4, <1>5, Reported DEF RackInv
  <1>7. RestoredInv'
    <2>1. SUFFICES ASSUME spc = "restored" PROVE Head(updates').rack = shadow
      BY <1>1, <1>6 DEF RestoredInv
    <2>2. CASE updates # <<>>
      BY <1>6, <2>1, <2>2 DEF RackInv, RestoredInv
    <2>3. CASE updates = <<>>
      <3>1. commands[1].kind = "restore"
        BY <1>1, <2>1, <2>3 DEF RackInv, RestoredInv, RestoreInv, PendingRestores
      <3> QED BY <1>5, <1>6, <2>3, <3>1
    <2> QED BY <2>2, <2>3
  <1> QED BY <1>1, <1>3, <1>6, <1>7 DEF RackInv, ViewsInv, RestoreInv, Reports

\* A plugin that is active has been started by a command read after the restore.
LEMMA DeactivationKeepsRacks ==
  ASSUME TypeOK, TypeOK', RackInv, PluginDeactivated
  PROVE  RackInv'
PROOF
  <1>1. /\ audioUp /\ audio.active /\ Report("rack")
        /\ audio'.rack = audio.rack /\ audio' \in Workers
        /\ UNCHANGED <<spc, shadow, gui, views, commands>>
    BY DEF PluginDeactivated, TypeOK, Workers, supervisor
  <1>2. PendingRestores = {}
    BY <1>1 DEF RackInv, RestoreInv, PendingRestores
  <1>3. /\ shadow \subseteq audio'.rack
        /\ \A i \in Reports(updates) : updates[i].rack \subseteq audio'.rack
    BY <1>1, <1>2 DEF RackInv, WorkerInv
  <1>4. /\ UpdatesInv' /\ WorkerInv' /\ updates' # <<>>
        /\ updates # <<>> => Head(updates') = Head(updates)
    <2>1. Report("rack") /\ shadow' = shadow /\ UpdatesInv
      BY <1>1 DEF RackInv
    <2> QED BY <1>1, <1>3, <2>1, Reported
  <1>5. RestoreInv'
    BY <1>1, <1>2 DEF RestoreInv, PendingRestores
  <1>6. RestoredInv'
    BY <1>1, <1>2, <1>4 DEF RackInv, RestoredInv
  <1> QED BY <1>1, <1>4, <1>5, <1>6 DEF RackInv, ViewsInv, Reports

\* The GUI shows what it is sent, in order.
LEMMA ApplyKeepsRacks ==
  ASSUME TypeOK, RackInv, ApplyUpdate
  PROVE  RackInv'
PROOF
  <1>1. /\ views # <<>> /\ views' = Tail(views)
        /\ UNCHANGED <<spc, shadow, audio, commands, updates>>
    BY DEF ApplyUpdate, supervisor
  <1>2. /\ Head(views) \in Updates /\ Head(views) = views[1] /\ 1 \in DOMAIN views
        /\ \A i \in DOMAIN Tail(views) : i + 1 \in DOMAIN views /\ Tail(views)[i] = views[i+1]
    BY <1>1, Received DEF TypeOK
  <1>3. \/ gui'.rack = gui.rack
        \/ Head(views).kind \in {"full", "rack"} /\ gui'.rack = Head(views).rack
    BY DEF ApplyUpdate, TypeOK, GuiProcesses
  <1>4. gui'.rack \subseteq shadow'
    BY <1>1, <1>2, <1>3 DEF RackInv, ViewsInv, Reports
  <1>5. \A i \in Reports(views') : views'[i].rack \subseteq shadow'
    BY <1>1, <1>2 DEF RackInv, ViewsInv, Reports
  <1> QED BY <1>1, <1>4, <1>5
          DEF RackInv, ViewsInv, UpdatesInv, RestoreInv, WorkerInv, RestoredInv, Reports,
              PendingRestores, audioUp

\* Steps that only change what a process is doing.
LEMMA OtherKeepsRacks ==
  ASSUME TypeOK, RackInv,
         \/ WorkerDisconnected \/ LoseSupervisor \/ GuiExits \/ UserEdits \/ CloseWindow
         \/ GuiCrashes \/ SupervisorDies \/ AudioCrashes
  PROVE  RackInv'
PROOF
  <1>1. gui \in GuiProcesses /\ audio \in Workers
    BY DEF TypeOK
  <1>2. CASE AudioCrashes
    <2>1. /\ ~audioUp' /\ DOMAIN commands' = {} /\ audio'.active = FALSE
          /\ UNCHANGED <<spc, shadow, gui, views, updates>>
      BY <1>1, <1>2, EmptySeq DEF AudioCrashes, Workers, audioUp, supervisor
    <2> QED BY <2>1 DEF RackInv, ViewsInv, UpdatesInv, RestoreInv, WorkerInv, RestoredInv,
                        Reports
  <1>3. CASE WorkerDisconnected
    <2>1. /\ ~audioUp' /\ audio'.active = audio.active
          /\ UNCHANGED <<spc, shadow, gui, views, commands, updates>>
      BY <1>1, <1>3 DEF WorkerDisconnected, Workers, audioUp, supervisor, channels
    <2> QED BY <2>1, QuietKeeps
  <1>4. CASE LoseSupervisor \/ GuiExits \/ CloseWindow \/ GuiCrashes
    <2>1. /\ gui'.rack = gui.rack
          /\ UNCHANGED <<spc, shadow, audio, views, commands, updates>>
      BY <1>1, <1>4 DEF LoseSupervisor, GuiExits, CloseWindow, GuiCrashes, GuiProcesses,
                        supervisor, channels
    <2> QED BY <2>1, QuietKeeps
  <1>5. CASE UserEdits
    <2>1. /\ gui'.rack = gui.rack
          /\ UNCHANGED <<spc, shadow, audio, views, commands, updates>>
      BY <1>1, <1>5 DEF UserEdits, GuiProcesses, supervisor
    <2> QED BY <2>1, QuietKeeps
  <1>6. CASE SupervisorDies
    <2>1. /\ spc' # "restored"
          /\ UNCHANGED <<gui, shadow, audio, views, commands, updates>>
      BY <1>6 DEF SupervisorDies, channels
    <2> QED BY <2>1, QuietKeeps
  <1> QED BY <1>2, <1>3, <1>4, <1>5, <1>6

\* Every step of the three processes keeps the racks in step.
LEMMA RackStep ==
  TypeOK /\ PlaceInv /\ RackInv /\ [Next]_vars => RackInv'
PROOF
  <1> SUFFICES ASSUME TypeOK, PlaceInv, RackInv, [Next]_vars
               PROVE  RackInv'
    OBVIOUS
  <1>1. TypeOK'
    BY TypeStep
  <1>2. CASE UNCHANGED vars
    BY <1>2, QuietKeeps DEF vars, supervisor, channels
  <1>3. CASE SupervisorStep
    BY <1>3, RelayKeepsRacks, ReadKeepsRacks, RestartKeepsRacks DEF SupervisorStep
  <1>4. CASE HandleCommand
    BY <1>1, <1>4, CommandKeepsRacks
  <1>5. CASE PluginDeactivated
    BY <1>1, <1>5, DeactivationKeepsRacks
  <1>6. CASE ApplyUpdate
    BY <1>6, ApplyKeepsRacks
  <1>7. CASE \/ WorkerDisconnected \/ LoseSupervisor \/ GuiExits \/ UserEdits \/ CloseWindow
             \/ GuiCrashes \/ SupervisorDies \/ AudioCrashes
    BY <1>7, OtherKeepsRacks
  <1> QED BY <1>2, <1>3, <1>4, <1>5, <1>6, <1>7 DEF Next, WorkerStep, GuiStep

\* At the start every rack is empty and nothing is in flight.
LEMMA InitRacks == Init => RackInv
PROOF
  <1> SUFFICES ASSUME Init PROVE RackInv
    OBVIOUS
  <1>1. DOMAIN updates = {} /\ DOMAIN views = {} /\ DOMAIN commands = {}
    BY EmptySeq DEF Init
  <1> QED BY <1>1 DEF Init, SpawnedGui, SpawnedWorker, RackInv, ViewsInv, UpdatesInv,
                      RestoreInv, WorkerInv, RestoredInv, Reports

\* The racks in flight are ordered in every reachable state.
LEMMA RackInvariant == Spec => [](TypeOK /\ PlaceInv /\ RackInv)
PROOF
  <1>1. TypeOK /\ PlaceInv /\ RackInv /\ [Next]_vars => (TypeOK /\ PlaceInv /\ RackInv)'
    BY TypeStep, RackStep
  <1> QED BY <1>1, InitTypes, InitRacks, PTL DEF Spec

-----------------------------------------------------------------------------
(* The properties *)

\* An edit the GUI has shown is never lost again: whatever order of crashes and
\* relaunches, it is in the shadow, and the running worker has it or has yet to
\* read the restore that brings it back.
THEOREM EditsSurvive == Spec => []SeenEditsSurvive
PROOF
  <1>1. TypeOK /\ PlaceInv /\ RackInv => SeenEditsSurvive
    <2> SUFFICES ASSUME TypeOK, RackInv PROVE SeenEditsSurvive
      OBVIOUS
    <2>1. gui.rack \subseteq shadow
      BY DEF RackInv, ViewsInv
    <2>2. ASSUME audioUp, PendingRestores = {} PROVE shadow \subseteq audio.rack
      BY <2>2 DEF RackInv, WorkerInv
    <2>3. \A i \in PendingRestores : commands[i].rack = shadow
      BY DEF RackInv, RestoreInv, PendingRestores
    <2> QED BY <2>1, <2>2, <2>3 DEF SeenEditsSurvive
  <1> QED BY <1>1, RackInvariant, PTL

\* A crash of the worker takes from the rack what it has reported and the
\* supervisor has not read, and nothing else: the rack it dies with is the one
\* it reported last, or the shadow.
THEOREM ShadowLags == Spec => []ShadowLagsByUpdates
PROOF
  <1>1. TypeOK /\ PlaceInv /\ RackInv => ShadowLagsByUpdates
    BY DEF RackInv, WorkerInv, ShadowLagsByUpdates, Reports, RackReports
  <1> QED BY <1>1, RackInvariant, PTL

\* A window the user closed stays closed: only LaunchGui starts a GUI, and it
\* does so only after one that crashed.
THEOREM ClosedStaysClosed == Spec => CloseIsFinal
PROOF
  <1>1. TypeOK /\ PlaceInv /\ RackInv /\ [Next]_vars
          => [gui.state = "closed" => gui'.state = "closed"]_vars
    <2> SUFFICES ASSUME TypeOK, PlaceInv, [Next]_vars, gui.state = "closed"
                 PROVE  gui'.state = "closed"
      OBVIOUS
    <2>1. spc # "spawn" /\ ~guiUp /\ gui \in GuiProcesses
      BY DEF PlaceInv, TypeOK, guiUp
    <2>2. CASE UNCHANGED vars
      BY <2>2 DEF vars
    <2>3. CASE SupervisorStep
      BY <2>1, <2>3 DEF SupervisorStep, LaunchGui, AbandonGui, InitialSync, GuiCrashed,
           CleanShutdown, WaitAudio, RelayAction, GuiExit, RelayUpdate, GuiAlive, AudioAlive,
           RestartAudio, AbandonAudio, ForwardRestored, WaitGui
    <2>4. CASE WorkerStep \/ PluginDeactivated \/ AudioCrashes \/ SupervisorDies
      BY <2>4 DEF WorkerStep, HandleCommand, WorkerDisconnected, PluginDeactivated,
           AudioCrashes, SupervisorDies
    <2>5. CASE GuiStep \/ UserEdits \/ CloseWindow \/ GuiCrashes
      BY <2>1, <2>5 DEF GuiStep, ApplyUpdate, LoseSupervisor, GuiExits, UserEdits,
           CloseWindow, GuiCrashes, guiUp
    <2> QED BY <2>2, <2>3, <2>4, <2>5 DEF Next
  <1> QED BY <1>1, RackInvariant, PTL DEF Spec, CloseIsFinal

-----------------------------------------------------------------------------
(* The rack reported last *)

\* A set of numbers has a first.
LEMMA Smallest ==
  ASSUME NEW T \in SUBSET Nat, T # {}
  PROVE  \E x \in T : \A y \in T : x <= y
PROOF
  <1>1. PICK x \in T : \A y \in T : ~(<<y, x>> \in OpToRel(<, Nat))
    BY NatLessThanWellFounded, WFMin
  <1>2. ASSUME NEW y \in T PROVE x <= y
    <2>1. ~(<<y, x>> \in {ss \in Nat \X Nat : ss[1] < ss[2]})
      BY <1>1 DEF OpToRel
    <2>2. <<y, x>> \in Nat \X Nat
      OBVIOUS
    <2>3. ~(y < x)
      BY <2>1, <2>2
    <2> QED BY <2>3
  <1> QED BY <1>2

\* Of the places in a channel one is the last.
LEMMA Largest ==
  ASSUME NEW n \in Nat, NEW S \in SUBSET (1..n), S # {}
  PROVE  \E x \in S : \A y \in S : y <= x
PROOF
  <1> DEFINE T == {n - x : x \in S}
  <1>1. T \in SUBSET Nat /\ T # {}
    <2>1. \A x \in S : n - x \in Nat
      OBVIOUS
    <2> QED BY <2>1
  <1>2. PICK t \in T : \A u \in T : t <= u
    <2> HIDE DEF T
    <2> QED BY <1>1, Smallest
  <1>3. PICK x \in S : t = n - x
    OBVIOUS
  <1>4. ASSUME NEW y \in S PROVE y <= x
    <2>1. n - y \in T
      OBVIOUS
    <2>2. n - x <= n - y
      BY <1>2, <1>3, <2>1
    <2> QED BY <2>2
  <1> QED BY <1>4

LastReport(channel, i) == i \in Reports(channel) /\ \A j \in Reports(channel) : j <= i

\* What ReportedRack says.
ReportedRight ==
  /\ Reports(updates) = {} => ReportedRack = shadow
  /\ \A i : LastReport(updates, i) => ReportedRack = updates[i].rack
  /\ Reports(updates) # {} => \E i : LastReport(updates, i)

\* The last report is there to be chosen.
LEMMA ReportedIs == TypeOK => ReportedRight
PROOF
  <1> SUFFICES ASSUME TypeOK PROVE ReportedRight
    OBVIOUS
  <1>1. /\ DOMAIN updates = 1..Len(updates) /\ Len(updates) \in Nat
        /\ Reports(updates) = RackReports
    BY LenProperties DEF TypeOK, Reports, RackReports
  <1>2. RackReports \subseteq 1..Len(updates) /\ RackReports \subseteq Nat
    BY <1>1 DEF RackReports
  <1>3. ASSUME NEW i, LastReport(updates, i) PROVE ReportedRack = updates[i].rack
    <2> DEFINE k == CHOOSE x \in RackReports : \A j \in RackReports : j <= x
    <2>1. i \in RackReports /\ \A j \in RackReports : j <= i
      BY <1>1, <1>3 DEF LastReport
    <2>2. k \in RackReports /\ \A j \in RackReports : j <= k
      BY <2>1
    <2> HIDE DEF k
    <2>3. k = i
      <3>1. i <= k /\ k <= i /\ i \in Nat /\ k \in Nat
        BY <1>2, <2>1, <2>2
      <3> QED BY <3>1
    <2>4. ReportedRack = updates[k].rack
      BY <2>1 DEF ReportedRack, k
    <2> QED BY <2>3, <2>4
  <1>4. Reports(updates) # {} => \E i : LastReport(updates, i)
    BY <1>1, <1>2, Largest DEF LastReport
  <1>5. Reports(updates) = {} => ReportedRack = shadow
    BY <1>1 DEF ReportedRack
  <1> QED BY <1>3, <1>4, <1>5 DEF ReportedRight

\* Reading an update does not change what was reported last: it goes to the
\* shadow, or is it already.
LEMMA ReadingReportsNothing ==
  ASSUME TypeOK, TypeOK', UpdatesInv, updates # <<>>, updates' = Tail(updates),
         1 \in Reports(updates) => shadow' = Head(updates).rack,
         1 \notin Reports(updates) => shadow' = shadow
  PROVE  ReportedRack' = ReportedRack
PROOF
  <1>1. /\ Head(updates) = updates[1]
        /\ \A i \in Reports(updates') :
             i + 1 \in Reports(updates) /\ updates'[i] = updates[i+1] /\ i \in Nat \ {0}
        /\ \A i \in Reports(updates) :
             i # 1 => i - 1 \in Reports(updates') /\ updates'[i-1] = updates[i]
    BY UpdateTaken
  <1>2. /\ Reports(updates') = {} => ReportedRack' = shadow'
        /\ \A i : LastReport(updates', i) => ReportedRack' = updates'[i].rack
        /\ Reports(updates') # {} => \E i : LastReport(updates', i)
    <2>1. ReportedRight'
      BY ReportedIs, PTL
    <2> QED BY <2>1 DEF ReportedRight, Reports, LastReport
  <1>3. Reports(updates) \subseteq Nat
    <2>1. DOMAIN updates = 1..Len(updates) /\ Len(updates) \in Nat
      BY LenProperties DEF TypeOK
    <2> QED BY <2>1 DEF Reports
  <1>4. CASE Reports(updates') = {}
    <2>1. Reports(updates) \subseteq {1}
      BY <1>1, <1>4
    <2>2. CASE 1 \in Reports(updates)
      <3>1. LastReport(updates, 1)
        BY <2>1, <2>2 DEF LastReport
      <3> QED BY <1>1, <1>2, <1>4, <2>2, <3>1, ReportedIs DEF ReportedRight
    <2>3. CASE 1 \notin Reports(updates)
      <3>1. Reports(updates) = {}
        BY <2>1, <2>3
      <3> QED BY <1>2, <1>4, <2>3, <3>1, ReportedIs DEF ReportedRight
    <2> QED BY <2>2, <2>3
  <1>5. CASE Reports(updates') # {}
    <2>1. PICK i : LastReport(updates', i)
      BY <1>2, <1>5
    <2>2. i \in Reports(updates') /\ \A j \in Reports(updates') : j <= i
      BY <2>1 DEF LastReport
    <2>3. i + 1 \in Reports(updates) /\ updates'[i] = updates[i+1] /\ i \in Nat \ {0}
      BY <1>1, <2>2
    <2>4. ASSUME NEW j \in Reports(updates) PROVE j <= i + 1
      <3>1. CASE j = 1
        BY <2>3, <3>1
      <3>2. CASE j # 1
        <4>1. j - 1 <= i /\ j \in Nat
          BY <1>1, <1>3, <2>2, <3>2
        <4> QED BY <2>3, <4>1
      <3> QED BY <3>1, <3>2
    <2>5. LastReport(updates, i + 1)
      BY <2>3, <2>4 DEF LastReport
    <2>6. ReportedRack' = updates'[i].rack
      BY <1>2, <2>1
    <2>7. ReportedRack = updates[i+1].rack
      BY <2>5, ReportedIs DEF ReportedRight
    <2> QED BY <2>3, <2>6, <2>7
  <1> QED BY <1>4, <1>5

\* A report is the last one; an acknowledgement is none.
LEMMA ReportIsLast ==
  ASSUME TypeOK, TypeOK', shadow' = shadow, NEW kind \in {"rack", "full", "ack"}, Report(kind)
  PROVE  /\ kind # "ack" => ReportedRack' = audio'.rack
         /\ kind = "ack" => ReportedRack' = ReportedRack
PROOF
  <1> DEFINE new == [kind |-> kind, rack |-> audio'.rack, active |-> audio'.active]
             last == Len(updates) + 1
  <1>1. /\ updates \in Seq(Updates) /\ new \in Updates
        /\ updates' = Append(updates, new)
    BY DEF TypeOK, Workers, Updates, Report
  <1>2. /\ DOMAIN updates = 1..Len(updates) /\ Len(updates) \in Nat
    BY <1>1, LenProperties
  <1>3. new.kind = kind /\ new.rack = audio'.rack
    OBVIOUS
  <1> HIDE DEF new
  <1>4. /\ DOMAIN updates' = 1..last
        /\ \A i \in DOMAIN updates : updates'[i] = updates[i]
        /\ updates'[last] = new
    BY <1>1, Sent
  <1>5. /\ Reports(updates') = {} => ReportedRack' = shadow'
        /\ \A i : LastReport(updates', i) => ReportedRack' = updates'[i].rack
    <2>1. ReportedRight'
      BY ReportedIs, PTL
    <2> QED BY <2>1 DEF ReportedRight, Reports, LastReport
  <1>6. CASE kind # "ack"
    <2>1. last \in Reports(updates') /\ \A j \in Reports(updates') : j <= last
      BY <1>2, <1>3, <1>4, <1>6 DEF Reports
    <2>2. LastReport(updates', last)
      BY <2>1 DEF LastReport
    <2> QED BY <1>3, <1>4, <1>5, <1>6, <2>2
  <1>7. CASE kind = "ack"
    <2>1. Reports(updates') = Reports(updates)
      <3>1. last \notin Reports(updates')
        BY <1>3, <1>4, <1>7 DEF Reports
      <3>2. \A i : i \in DOMAIN updates' <=> i \in DOMAIN updates \/ i = last
        BY <1>2, <1>4
      <3>3. last \notin DOMAIN updates
        BY <1>2
      <3> QED BY <1>4, <3>1, <3>2, <3>3 DEF Reports
    <2>2. CASE Reports(updates) = {}
      BY <1>5, <1>7, <2>1, <2>2, ReportedIs DEF ReportedRight
    <2>3. CASE Reports(updates) # {}
      <3>1. PICK i : LastReport(updates, i)
        BY <2>3, ReportedIs DEF ReportedRight
      <3>2. LastReport(updates', i) /\ updates'[i] = updates[i]
        BY <1>4, <2>1, <3>1 DEF LastReport, Reports
      <3> QED BY <1>5, <1>7, <3>1, <3>2, ReportedIs DEF ReportedRight
    <2> QED BY <2>2, <2>3
  <1> QED BY <1>6, <1>7

\* What is saved is reported, and a worker that is not being restored has what it
\* reported.
ReportHolds ==
  /\ shadow \subseteq ReportedRack
  /\ updates = <<>> => ReportedRack = shadow
  /\ audioUp /\ PendingRestores = {} => audio.rack = ReportedRack

\* That follows from the order of the racks in flight.
LEMMA ReportedHas == TypeOK /\ RackInv => ReportHolds
PROOF
  <1> SUFFICES ASSUME TypeOK, RackInv PROVE ReportHolds
    OBVIOUS
  <1>1. CASE Reports(updates) = {}
    BY <1>1, ReportedIs DEF ReportHolds, ReportedRight, RackInv, WorkerInv
  <1>2. CASE Reports(updates) # {}
    <2>1. PICK i : LastReport(updates, i)
      BY <1>2, ReportedIs DEF ReportedRight
    <2>2. ReportedRack = updates[i].rack /\ i \in Reports(updates)
          /\ \A j \in Reports(updates) : j <= i
      BY <2>1, ReportedIs DEF LastReport, ReportedRight
    <2>3. updates # <<>>
      BY <2>2, EmptySeq DEF Reports
    <2> QED BY <2>2, <2>3 DEF ReportHolds, RackInv, WorkerInv, UpdatesInv
  <1> QED BY <1>1, <1>2

-----------------------------------------------------------------------------
(* The edits in flight are the user's *)

Asked == Edits \ undone

EditsIn(channel, made) ==
  \A i \in DOMAIN channel :
    channel[i].kind = "edit" => \E e \in made : channel[i].rack = {e}

EditsInv == EditsIn(actions, Asked) /\ EditsIn(commands, Asked)

\* A message that is sent.
LEMMA EditsAdded ==
  ASSUME NEW S, NEW c \in Seq(S), NEW m \in S, NEW made, EditsIn(c, made),
         m.kind = "edit" => \E e \in made : m.rack = {e}
  PROVE  EditsIn(Append(c, m), made)
PROOF
  <1>1. /\ DOMAIN Append(c, m) = 1..(Len(c) + 1)
        /\ \A i \in DOMAIN c : Append(c, m)[i] = c[i]
        /\ Append(c, m)[Len(c) + 1] = m
        /\ DOMAIN c = 1..Len(c) /\ Len(c) \in Nat
    BY Sent, LenProperties
  <1>2. \A i \in DOMAIN Append(c, m) : i \in DOMAIN c \/ i = Len(c) + 1
    BY <1>1
  <1>3. ASSUME NEW i \in DOMAIN Append(c, m), Append(c, m)[i].kind = "edit"
        PROVE  \E e \in made : Append(c, m)[i].rack = {e}
    <2>1. CASE i \in DOMAIN c
      BY <1>1, <1>3, <2>1 DEF EditsIn
    <2>2. CASE i = Len(c) + 1
      BY <1>1, <1>3, <2>2
    <2> QED BY <1>2, <2>1, <2>2
  <1> QED BY <1>3 DEF EditsIn

\* A message that is read.
LEMMA EditsTaken ==
  ASSUME NEW S, NEW c \in Seq(S), c # <<>>, NEW made, EditsIn(c, made)
  PROVE  /\ EditsIn(Tail(c), made)
         /\ Head(c).kind = "edit" => \E e \in made : Head(c).rack = {e}
PROOF
  <1>1. /\ Head(c) = c[1] /\ 1 \in DOMAIN c
        /\ \A i \in DOMAIN Tail(c) : i + 1 \in DOMAIN c /\ Tail(c)[i] = c[i+1]
    BY Received
  <1> QED BY <1>1 DEF EditsIn

\* A command the supervisor sends.
LEMMA EditsSent ==
  ASSUME TypeOK, EditsInv, NEW cmd \in Commands, send_audio_command(cmd),
         cmd.kind = "edit" => \E e \in Asked : cmd.rack = {e}
  PROVE  EditsIn(commands', Asked)
PROOF
  <1>1. commands \in Seq(Commands) /\ EditsIn(commands, Asked)
    BY DEF TypeOK, EditsInv
  <1>2. EditsIn(Append(commands, cmd), Asked)
    BY <1>1, EditsAdded
  <1> QED BY <1>1, <1>2 DEF send_audio_command

\* Nothing but the user's edits is ever put into a channel.
LEMMA EditsStep ==
  ASSUME TypeOK, EditsInv, [Next]_vars
  PROVE  EditsInv'
PROOF
  <1>0. /\ actions \in Seq(Actions) /\ commands \in Seq(Commands) /\ undone \in Racks
        /\ EditsIn(actions, Asked) /\ EditsIn(commands, Asked)
        /\ Shutdown \in Actions /\ Shutdown \in Commands /\ Shutdown.kind # "edit"
        /\ Actions \subseteq Commands
    BY SendTypes DEF TypeOK, EditsInv, Shutdown
  <1>1. \A made : EditsIn(<<>>, made)
    BY EmptySeq DEF EditsIn
  <1>2. ASSUME UNCHANGED undone, EditsIn(actions', Asked), EditsIn(commands', Asked)
        PROVE  EditsInv'
    BY <1>2 DEF EditsInv, Asked
  <1>3. CASE UNCHANGED <<actions, commands, undone>>
    BY <1>0, <1>2, <1>3
  <1>4. CASE LaunchGui
    <2>1. PICK full \in Commands : full = [kind |-> "full", rack |-> {}]
      BY DEF Commands, Racks
    <2>2. UNCHANGED undone /\ actions' = <<>> /\ send_audio_command(full) /\ full.kind = "full"
      BY <1>4, <2>1 DEF LaunchGui, budget
    <2> QED BY <1>1, <1>2, <2>2, EditsSent
  <1>5. CASE AbandonGui \/ CleanShutdown
    <2>1. UNCHANGED <<undone, actions>> /\ send_audio_command(Shutdown)
      BY <1>5 DEF AbandonGui, CleanShutdown, budget
    <2> QED BY <1>0, <1>2, <2>1, EditsSent
  <1>6. CASE RelayAction
    <2>1. CASE UNCHANGED <<actions, commands>>
      BY <1>3, <1>6, <2>1 DEF RelayAction, budget
    <2>2. CASE actions # <<>> /\ actions' = Tail(actions) /\ send_audio_command(Head(actions))
      <3>1. UNCHANGED undone
        BY <1>6 DEF RelayAction, budget
      <3>2. Head(actions) \in Commands
        BY <1>0, <2>2, Received
      <3>3. /\ EditsIn(Tail(actions), Asked)
            /\ Head(actions).kind = "edit" => \E e \in Asked : Head(actions).rack = {e}
        BY <1>0, <2>2, EditsTaken
      <3>4. EditsIn(commands', Asked)
        BY <2>2, <3>2, <3>3, EditsSent
      <3> QED BY <1>2, <2>2, <3>1, <3>3, <3>4
    <2> QED BY <1>6, <2>1, <2>2 DEF RelayAction
  <1>7. CASE RestartAudio
    <2>1. /\ UNCHANGED <<undone, actions>> /\ commands' = <<to_restore_command>>
      BY <1>7 DEF RestartAudio, budget
    <2>2. EditsIn(commands', Asked)
      BY <2>1 DEF EditsIn, to_restore_command
    <2> QED BY <1>0, <1>2, <2>1, <2>2
  <1>8. CASE HandleCommand
    <2>1. UNCHANGED <<undone, actions>> /\ commands # <<>> /\ commands' = Tail(commands)
      BY <1>8 DEF HandleCommand, budget
    <2> QED BY <1>0, <1>2, <2>1, EditsTaken
  <1>9. CASE AudioCrashes
    <2>1. UNCHANGED <<undone, actions>> /\ commands' = <<>>
      BY <1>9 DEF AudioCrashes
    <2> QED BY <1>0, <1>1, <1>2, <2>1
  <1>10. CASE CloseWindow
    <2>1. /\ UNCHANGED <<undone, commands>>
          /\ actions' = actions \/ actions' = Append(actions, Shutdown)
      BY <1>10 DEF CloseWindow, budget
    <2>2. EditsIn(Append(actions, Shutdown), Asked)
      BY <1>0, EditsAdded
    <2> QED BY <1>0, <1>2, <2>1, <2>2
  <1>11. CASE UserEdits
    <2>1. PICK e \in undone :
            /\ undone' = undone \ {e}
            /\ actions' = actions \/ actions' = Append(actions, [kind |-> "edit", rack |-> {e}])
      BY <1>11 DEF UserEdits
    <2>2. PICK m \in Actions : m = [kind |-> "edit", rack |-> {e}]
      BY <1>0 DEF Actions, Racks
    <2>3. e \in Asked' /\ \A x \in Asked : x \in Asked'
      BY <1>0, <2>1 DEF Asked, Racks
    <2> DEFINE made == Edits \ undone'
    <2>4. EditsIn(actions, made) /\ EditsIn(commands, made)
      BY <1>0, <2>3 DEF EditsIn, Asked
    <2>5. e \in made /\ m.rack = {e}
      BY <2>2, <2>3 DEF Asked
    <2> HIDE DEF made
    <2>6. EditsIn(Append(actions, m), made)
      BY <1>0, <2>4, <2>5, EditsAdded
    <2>7. EditsIn(actions', made) /\ EditsIn(commands', made)
      <3>1. commands' = commands
        BY <1>11 DEF UserEdits
      <3> QED BY <2>1, <2>2, <2>4, <2>6, <3>1
    <2> QED BY <2>7 DEF EditsInv, Asked, made
  <1>12. CASE \/ InitialSync \/ GuiCrashed \/ WaitAudio \/ GuiExit \/ RelayUpdate \/ GuiAlive
              \/ AudioAlive \/ AbandonAudio \/ ForwardRestored \/ WaitGui
              \/ WorkerDisconnected \/ GuiStep \/ PluginDeactivated \/ GuiCrashes
              \/ SupervisorDies
    <2>1. UNCHANGED <<actions, commands, undone>>
      BY <1>12 DEF InitialSync, GuiCrashed, WaitAudio, GuiExit, RelayUpdate, GuiAlive, AudioAlive,
           AbandonAudio, ForwardRestored, WaitGui, WorkerDisconnected, GuiStep, ApplyUpdate,
           LoseSupervisor, GuiExits, PluginDeactivated, GuiCrashes, SupervisorDies, channels, budget
    <2> QED BY <1>3, <2>1
  <1>13. CASE UNCHANGED vars
    BY <1>3, <1>13 DEF vars, channels, budget
  <1> QED BY <1>4, <1>5, <1>6, <1>7, <1>8, <1>9, <1>10, <1>11, <1>12, <1>13
          DEF Next, SupervisorStep, WorkerStep

-----------------------------------------------------------------------------
(* What the window will show only grows *)

Ordered(channel) ==
  \A i, j \in Reports(channel) : i <= j => channel[i].rack \subseteq channel[j].rack

ShownInv ==
  /\ \A i \in Reports(views) : gui.rack \subseteq views[i].rack
  /\ Ordered(views)

\* Updates that have all that is saved come after those under way.
LEMMA ShownSent ==
  ASSUME TypeOK, ViewsInv, ShownInv, gui'.rack = gui.rack,
         NEW sent \in Seq(Updates), send_gui_updates(sent), Ordered(sent),
         \A i \in Reports(sent) : shadow \subseteq sent[i].rack
  PROVE  ShownInv'
PROOF
  <1>1. views \in Seq(Updates)
    BY DEF TypeOK
  <1>2. CASE ~guiUp
    BY <1>2 DEF send_gui_updates, ShownInv, Ordered, Reports
  <1>3. CASE guiUp
    <2> DEFINE n == Len(views)
    <2>1. views' = views \o sent
      BY <1>3 DEF send_gui_updates
    <2>2. /\ DOMAIN views = 1..n /\ n \in Nat
          /\ DOMAIN sent = 1..Len(sent) /\ Len(sent) \in Nat
      BY <1>1, LenProperties
    <2>3. /\ DOMAIN views' = 1..(n + Len(sent))
          /\ \A i \in DOMAIN views : views'[i] = views[i]
          /\ \A i \in DOMAIN views' :
               i \notin DOMAIN views => i - n \in DOMAIN sent /\ views'[i] = sent[i - n]
      BY <1>1, <2>1, <2>2, ConcatProperties, LenProperties
    <2>4. \A i \in Reports(views') :
            \/ i \in Reports(views) /\ views'[i] = views[i] /\ i <= n
            \/ i - n \in Reports(sent) /\ views'[i] = sent[i - n] /\ i > n /\ i \in Nat
      BY <2>2, <2>3 DEF Reports
    <2>5. ASSUME NEW i \in Reports(views') PROVE gui'.rack \subseteq views'[i].rack
      BY <2>4, <2>5 DEF ShownInv, ViewsInv
    <2>6. ASSUME NEW i \in Reports(views'), NEW j \in Reports(views'), i <= j
          PROVE  views'[i].rack \subseteq views'[j].rack
      <3>1. CASE j \in Reports(views) /\ views'[j] = views[j] /\ j <= n
        <4>1. i \in Nat /\ j \in Nat
          BY <2>2, <2>3, <2>6 DEF Reports
        <4>2. i \in Reports(views) /\ views'[i] = views[i]
          BY <2>2, <2>4, <2>6, <3>1, <4>1
        <4> QED BY <2>6, <3>1, <4>2 DEF ShownInv, Ordered
      <3>2. CASE j - n \in Reports(sent) /\ views'[j] = sent[j - n]
        <4>1. CASE i \in Reports(views) /\ views'[i] = views[i]
          <5>1. views[i].rack \subseteq shadow
            BY <4>1 DEF ViewsInv
          <5>2. shadow \subseteq sent[j - n].rack
            BY <3>2
          <5> QED BY <3>2, <4>1, <5>1, <5>2
        <4>2. CASE i - n \in Reports(sent) /\ views'[i] = sent[i - n]
          <5>1. i \in Nat /\ j \in Nat
            BY <2>2, <2>3, <2>6 DEF Reports
          <5>2. i - n <= j - n
            BY <2>2, <2>6, <5>1
          <5> QED BY <3>2, <4>2, <5>2 DEF Ordered
        <4> QED BY <2>4, <2>6, <4>1, <4>2
      <3> QED BY <2>4, <2>6, <3>1, <3>2
    <2> QED BY <2>5, <2>6 DEF ShownInv, Ordered
  <1> QED BY <1>2, <1>3

\* What is read and sent on is the rack that was saved, or a later one.
LEMMA ShownStep ==
  ASSUME TypeOK, RackInv, ShownInv, [Next]_vars
  PROVE  ShownInv'
PROOF
  <1>0. views \in Seq(Updates) /\ updates \in Seq(Updates) /\ ViewsInv
    BY DEF TypeOK, RackInv
  <1>1. CASE gui'.rack = gui.rack /\ views' = views
    BY <1>1 DEF ShownInv, Ordered, Reports
  <1>2. CASE LaunchGui
    <2>1. views' = <<>>
      BY <1>2 DEF LaunchGui
    <2>2. Reports(views') = {}
      BY <2>1, EmptySeq DEF Reports
    <2> QED BY <2>2 DEF ShownInv, Ordered
  <1>3. updates # <<>> => /\ Head(updates) \in Updates /\ Head(updates) = updates[1]
                          /\ 1 \in DOMAIN updates
    BY <1>0, Received
  <1>4. CASE InitialSync \/ RelayUpdate
    <2>1. CASE UNCHANGED views
      BY <1>1, <1>4, <2>1 DEF InitialSync, RelayUpdate
    <2>2. CASE updates # <<>> /\ send_gui_updates(<<Head(updates)>>)
      <3> DEFINE sent == <<Head(updates)>>
      <3>1. sent \in Seq(Updates) /\ \A i \in DOMAIN sent : i = 1 /\ sent[i] = updates[1]
        BY <1>3, <2>2
      <3>2. \A i \in Reports(sent) : shadow \subseteq sent[i].rack
        BY <1>3, <2>2, <3>1 DEF Reports, RackInv, UpdatesInv
      <3>3. Ordered(sent)
        BY <3>1 DEF Ordered, Reports
      <3>4. gui'.rack = gui.rack
        BY <1>4 DEF InitialSync, RelayUpdate
      <3> QED BY <1>0, <2>2, <3>1, <3>2, <3>3, <3>4, ShownSent
    <2> QED BY <1>4, <2>1, <2>2 DEF InitialSync, RelayUpdate
  <1>5. CASE ForwardRestored
    <2>1. PICK notice \in Updates : notice = [kind |-> "restarted", rack |-> {}, active |-> FALSE]
      BY DEF Updates, Racks
    <2>2. /\ spc = "restored" /\ gui' = gui
          /\ \/ updates # <<>> /\ send_gui_updates(<<Head(updates), notice>>)
             \/ send_gui_updates(<<notice>>)
      BY <1>5, <2>1 DEF ForwardRestored
    <2>3. notice.kind = "restarted"
      BY <2>1
    <2>4. CASE send_gui_updates(<<notice>>)
      <3> DEFINE sent == <<notice>>
      <3>1. sent \in Seq(Updates) /\ \A i \in DOMAIN sent : sent[i] = notice
        OBVIOUS
      <3>2. Reports(sent) = {}
        BY <2>3, <3>1 DEF Reports
      <3>3. Ordered(sent)
        BY <3>2 DEF Ordered
      <3> QED BY <1>0, <2>2, <2>4, <3>1, <3>2, <3>3, ShownSent
    <2>5. CASE updates # <<>> /\ send_gui_updates(<<Head(updates), notice>>)
      <3> DEFINE sent == <<Head(updates), notice>>
      <3>1. /\ sent \in Seq(Updates) /\ sent[1] = Head(updates)
            /\ \A i \in DOMAIN sent : i = 1 \/ sent[i] = notice
        BY <1>3, <2>5
      <3>2. \A i \in Reports(sent) : i = 1
        BY <2>3, <3>1 DEF Reports
      <3>3. Head(updates).rack = shadow
        BY <2>2, <2>5 DEF RackInv, RestoredInv
      <3>4. \A i \in Reports(sent) : shadow \subseteq sent[i].rack
        BY <3>1, <3>2, <3>3
      <3>5. Ordered(sent)
        BY <3>2 DEF Ordered
      <3> HIDE DEF sent
      <3>6. send_gui_updates(sent)
        BY <2>5 DEF sent
      <3> QED BY <1>0, <2>2, <3>1, <3>4, <3>5, <3>6, ShownSent
    <2> QED BY <2>2, <2>4, <2>5
  <1>6. CASE ApplyUpdate
    <2>1. views # <<>> /\ views' = Tail(views)
      BY <1>6 DEF ApplyUpdate
    <2>2. /\ Head(views) \in Updates /\ Head(views) = views[1] /\ 1 \in DOMAIN views
          /\ Tail(views) \in Seq(Updates)
          /\ \A i \in DOMAIN Tail(views) : i + 1 \in DOMAIN views /\ Tail(views)[i] = views[i+1]
      BY <1>0, <2>1, Received
    <2>3. \A i \in Reports(views') :
            i + 1 \in Reports(views) /\ views'[i] = views[i+1] /\ i \in Nat \ {0}
      <3>1. DOMAIN Tail(views) = 1..Len(Tail(views)) /\ Len(Tail(views)) \in Nat
        BY <2>2, LenProperties
      <3> QED BY <2>1, <2>2, <3>1 DEF Reports
    <2>4. \/ gui'.rack = gui.rack
          \/ 1 \in Reports(views) /\ gui'.rack = views[1].rack
      BY <1>6, <2>2 DEF ApplyUpdate, TypeOK, GuiProcesses, Reports
    <2>5. ASSUME NEW i \in Reports(views') PROVE gui'.rack \subseteq views'[i].rack
      <3>1. i + 1 \in Reports(views) /\ views'[i] = views[i+1] /\ 1 <= i + 1
        BY <2>3, <2>5
      <3> QED BY <2>4, <3>1 DEF ShownInv, Ordered
    <2>6. ASSUME NEW i \in Reports(views'), NEW j \in Reports(views'), i <= j
          PROVE  views'[i].rack \subseteq views'[j].rack
      <3>1. /\ i + 1 \in Reports(views) /\ views'[i] = views[i+1] /\ i \in Nat
            /\ j + 1 \in Reports(views) /\ views'[j] = views[j+1] /\ j \in Nat
        BY <2>3, <2>6
      <3>2. i + 1 <= j + 1
        BY <2>6, <3>1
      <3> QED BY <3>1, <3>2 DEF ShownInv, Ordered
    <2> QED BY <2>5, <2>6 DEF ShownInv, Ordered
  <1>7. CASE \/ AbandonGui \/ GuiCrashed \/ CleanShutdown \/ WaitAudio \/ RelayAction \/ GuiExit
             \/ GuiAlive \/ AudioAlive \/ RestartAudio \/ AbandonAudio \/ WaitGui
             \/ WorkerStep \/ PluginDeactivated \/ AudioCrashes \/ SupervisorDies
             \/ UNCHANGED vars
    <2>1. UNCHANGED <<gui, views>>
      BY <1>7 DEF AbandonGui, GuiCrashed, CleanShutdown, WaitAudio, RelayAction, GuiExit, GuiAlive,
           AudioAlive, RestartAudio, AbandonAudio, WaitGui, WorkerStep, HandleCommand,
           WorkerDisconnected, PluginDeactivated, AudioCrashes, SupervisorDies, vars, channels
    <2> QED BY <1>1, <2>1
  <1>8. CASE LoseSupervisor \/ GuiExits \/ UserEdits \/ CloseWindow \/ GuiCrashes
    <2>1. gui'.rack = gui.rack /\ views' = views
      BY <1>8 DEF LoseSupervisor, GuiExits, UserEdits, CloseWindow, GuiCrashes, TypeOK, GuiProcesses,
           channels
    <2> QED BY <1>1, <2>1
  <1> QED BY <1>2, <1>4, <1>5, <1>6, <1>7, <1>8 DEF Next, SupervisorStep, GuiStep

-----------------------------------------------------------------------------
(* The three processes keep the rack as RackService says *)

\* What the mapping depends on.
LEMMA Unnoticed ==
  ASSUME UNCHANGED <<undone, shadow>>, ReportedRack' = ReportedRack, gui'.rack = gui.rack,
         Window' = Window, Worker' = Worker
  PROVE  UNCHANGED Service!vars
BY DEF Service!vars

\* With the same updates and the same shadow the same rack is reported.
LEMMA SameReport ==
  ASSUME UNCHANGED <<updates, shadow>>
  PROVE  ReportedRack' = ReportedRack
BY DEF ReportedRack, RackReports

\* The relay leaves the children and the racks alone; what it reads it saves.
LEMMA RelayServes ==
  ASSUME TypeOK, TypeOK', RackInv, RackInv',
         \/ AbandonGui \/ GuiCrashed \/ CleanShutdown \/ WaitAudio \/ RelayAction \/ GuiExit
         \/ GuiAlive \/ AudioAlive \/ AbandonAudio \/ WaitGui \/ SupervisorDies
         \/ InitialSync \/ RelayUpdate \/ ForwardRestored
  PROVE  [Service!Next]_(Service!vars)
PROOF
  <1>1. UNCHANGED <<undone, gui, audio>>
    BY DEF AbandonGui, GuiCrashed, CleanShutdown, WaitAudio, RelayAction, GuiExit, GuiAlive,
         AudioAlive, AbandonAudio, WaitGui, SupervisorDies, InitialSync, RelayUpdate,
         ForwardRestored, budget
  <1>2. gui'.rack = gui.rack /\ Window' = Window /\ Worker' = Worker
    BY <1>1 DEF Window, Worker, guiUp, audioUp
  <1>3. CASE UNCHANGED <<updates, shadow>>
    BY <1>1, <1>2, <1>3, SameReport, Unnoticed
  <1>4. ASSUME updates # <<>> PROVE Head(updates) = updates[1] /\ 1 \in DOMAIN updates
    BY <1>4, Received DEF TypeOK
  <1>5. CASE updates # <<>> /\ updates' = Tail(updates) /\ update_from(Head(updates))
    <2>1. /\ 1 \in Reports(updates) => shadow' = Head(updates).rack
          /\ 1 \notin Reports(updates) => shadow' = shadow
      BY <1>4, <1>5 DEF update_from, Reports
    <2>2. ReportedRack' = ReportedRack
      BY <1>5, <2>1, ReadingReportsNothing DEF RackInv
    <2>3. shadow \subseteq shadow'
      BY <1>4, <1>5, <2>1 DEF RackInv, UpdatesInv
    <2>4. shadow' \subseteq ReportedRack
      <3>1. ReportHolds'
        BY ReportedHas, PTL
      <3> QED BY <2>2, <3>1 DEF ReportHolds
    <2>5. Service!Save
      BY <1>1, <1>2, <2>2, <2>3, <2>4 DEF Service!Save
    <2> QED BY <2>5 DEF Service!Next
  <1>6. CASE ForwardRestored /\ updates # <<>> /\ updates' = Tail(updates)
    <2>1. Head(updates).rack = shadow /\ shadow' = shadow
      BY <1>6 DEF ForwardRestored, RackInv, RestoredInv
    <2>2. ReportedRack' = ReportedRack
      BY <1>6, <2>1, ReadingReportsNothing DEF RackInv
    <2> QED BY <1>1, <1>2, <2>1, <2>2, Unnoticed
  <1>7. \/ UNCHANGED <<updates, shadow>>
        \/ updates # <<>> /\ updates' = Tail(updates) /\ update_from(Head(updates))
        \/ ForwardRestored /\ updates # <<>> /\ updates' = Tail(updates)
    BY DEF AbandonGui, GuiCrashed, CleanShutdown, WaitAudio, RelayAction, GuiExit, GuiAlive,
         AudioAlive, AbandonAudio, WaitGui, SupervisorDies, InitialSync, RelayUpdate,
         ForwardRestored, channels
  <1> QED BY <1>3, <1>5, <1>6, <1>7

\* A child is relaunched: the window is empty, the worker has what was saved.
LEMMA RelaunchServes ==
  ASSUME TypeOK, TypeOK', PlaceInv, RackInv, RackInv', LaunchGui \/ RestartAudio
  PROVE  [Service!Next]_(Service!vars)
PROOF
  <1>1. CASE LaunchGui
    <2>1. UNCHANGED <<undone, audio, updates, shadow>> /\ gui' = SpawnedGui /\ spc = "spawn"
      BY <1>1 DEF LaunchGui, budget
    <2>2. Window = "none" /\ Window' = "open" /\ gui'.rack = {} /\ Worker' = Worker
      BY <2>1 DEF PlaceInv, Window, Worker, guiUp, audioUp, SpawnedGui
    <2>3. Service!Open
      BY <2>1, <2>2, SameReport DEF Service!Open
    <2> QED BY <2>3 DEF Service!Next
  <1>2. CASE RestartAudio
    <2>1. /\ UNCHANGED <<undone, gui, shadow>> /\ audio' = SpawnedWorker /\ updates' = <<>>
          /\ ~audioUp
      BY <1>2 DEF RestartAudio, WorkerFoundDead, audioUp, budget
    <2>2. Worker = "down" /\ Worker' = "up" /\ Window' = Window /\ gui'.rack = gui.rack
      BY <2>1 DEF Window, Worker, guiUp, audioUp, SpawnedWorker
    <2>3. ReportedRack' = shadow
      <3>1. ReportHolds'
        BY ReportedHas, PTL
      <3> QED BY <2>1, <3>1 DEF ReportHolds
    <2>4. Service!Restart
      BY <2>1, <2>2, <2>3 DEF Service!Restart
    <2> QED BY <2>4 DEF Service!Next
  <1> QED BY <1>1, <1>2

\* The worker does an edit that was asked for, reports the rack it has, or ends.
LEMMA WorkerServes ==
  ASSUME TypeOK, TypeOK', RackInv, EditsInv,
         HandleCommand \/ WorkerDisconnected \/ PluginDeactivated \/ AudioCrashes
  PROVE  [Service!Next]_(Service!vars)
PROOF
  <1>0. audio \in Workers /\ audio' \in Workers /\ ReportHolds /\ audioUp
    BY ReportedHas DEF TypeOK, HandleCommand, WorkerDisconnected, PluginDeactivated, AudioCrashes
  <1>1. UNCHANGED <<undone, gui, shadow>>
    BY DEF HandleCommand, WorkerDisconnected, PluginDeactivated, AudioCrashes, supervisor, budget
  <1>2. gui'.rack = gui.rack /\ Window' = Window /\ Worker = "up"
    BY <1>0, <1>1 DEF Window, Worker, guiUp
  <1>3. ASSUME ~audioUp', ReportedRack' = ReportedRack PROVE [Service!Next]_(Service!vars)
    <2>1. Worker' = "down"
      BY <1>3 DEF Worker, audioUp
    <2>2. Service!End
      BY <1>1, <1>2, <1>3, <2>1 DEF Service!End
    <2> QED BY <2>2 DEF Service!Next
  <1>4. ASSUME audioUp', ReportedRack' = ReportedRack PROVE [Service!Next]_(Service!vars)
    <2>1. Worker' = "up"
      BY <1>4 DEF Worker, audioUp
    <2> QED BY <1>1, <1>2, <1>4, <2>1, Unnoticed
  <1>5. CASE HandleCommand
    <2>1. /\ commands # <<>> /\ Head(commands) \in Commands /\ Head(commands) = commands[1]
          /\ 1 \in DOMAIN commands
      BY <1>5, Received DEF HandleCommand, TypeOK
    <2>2. ASSUME commands[1].kind # "restore" PROVE audio.rack = ReportedRack
      <3>1. PendingRestores = {}
        BY <2>2 DEF PendingRestores, RackInv, RestoreInv
      <3> QED BY <1>0, <3>1 DEF ReportHolds
    <2>3. CASE HandleAction
      <3>1. PICK e \in Asked : Head(commands).rack = {e}
        <4>1. EditsIn(commands, Asked) /\ commands \in Seq(Commands) /\ Head(commands).kind = "edit"
          BY <2>3 DEF EditsInv, TypeOK, HandleAction
        <4> QED BY <2>1, <4>1, EditsTaken
      <3>2. audio'.rack = audio.rack \cup {e} /\ audioUp'
        BY <1>0, <2>3, <3>1 DEF HandleAction, Workers, audioUp
      <3>3. ReportedRack' = audio'.rack
        BY <1>1, <2>3, ReportIsLast DEF HandleAction
      <3>4. audio.rack = ReportedRack
        BY <2>1, <2>2, <2>3 DEF HandleAction
      <3>5. Worker' = "up"
        BY <3>2 DEF Worker, audioUp
      <3>6. ReportedRack' = ReportedRack \cup {e}
        BY <3>2, <3>3, <3>4
      <3>7. e \in Edits /\ e \in Edits \ undone
        BY <3>1 DEF Asked
      <3>8. Service!Do(e)
        BY <1>1, <1>2, <3>5, <3>6, <3>7 DEF Service!Do
      <3> QED BY <3>7, <3>8 DEF Service!Next
    <2>4. CASE RequestFullState
      <3>1. audio' = audio /\ Report("full") /\ commands[1].kind # "restore"
        BY <2>1, <2>4 DEF RequestFullState
      <3>2. ReportedRack' = ReportedRack
        BY <1>1, <2>2, <3>1, ReportIsLast
      <3> QED BY <1>0, <1>4, <3>1, <3>2 DEF audioUp
    <2>5. CASE RestoreState
      <3>1. /\ audio'.rack = commands[1].rack /\ audioUp' /\ Report("full")
            /\ commands[1].kind = "restore"
        BY <1>0, <2>1, <2>5 DEF RestoreState, Workers, audioUp
      <3>2. commands[1].rack = shadow /\ updates = <<>>
        BY <2>1, <3>1 DEF RackInv, RestoreInv
      <3>3. ReportedRack' = ReportedRack
        BY <1>0, <1>1, <3>1, <3>2, ReportIsLast DEF ReportHolds
      <3> QED BY <1>4, <3>1, <3>3
    <2>6. CASE WorkerShutdown
      <3>1. ~audioUp' /\ Report("ack")
        BY <1>0, <2>6 DEF WorkerShutdown, Workers, audioUp
      <3>2. ReportedRack' = ReportedRack
        BY <1>1, <3>1, ReportIsLast
      <3> QED BY <1>3, <3>1, <3>2
    <2> QED BY <1>5, <2>3, <2>4, <2>5, <2>6 DEF HandleCommand
  <1>6. CASE PluginDeactivated
    <2>1. audio.active /\ audio'.rack = audio.rack /\ audioUp' /\ Report("rack")
      BY <1>0, <1>6 DEF PluginDeactivated, Workers, audioUp
    <2>2. PendingRestores = {}
      BY <2>1 DEF RackInv, RestoreInv, PendingRestores
    <2>3. ReportedRack' = ReportedRack
      BY <1>0, <1>1, <2>1, <2>2, ReportIsLast DEF ReportHolds
    <2> QED BY <1>4, <2>1, <2>3
  <1>7. CASE WorkerDisconnected \/ AudioCrashes
    <2>1. ~audioUp' /\ updates' = updates
      BY <1>0, <1>7 DEF WorkerDisconnected, AudioCrashes, Workers, audioUp, channels
    <2> QED BY <1>1, <1>3, <2>1, SameReport
  <1> QED BY <1>5, <1>6, <1>7

\* The window shows more, and goes; the user edits.
LEMMA WindowServes ==
  ASSUME TypeOK, RackInv, ShownInv,
         \/ ApplyUpdate \/ LoseSupervisor \/ GuiExits \/ UserEdits \/ CloseWindow \/ GuiCrashes
  PROVE  [Service!Next]_(Service!vars)
PROOF
  <1>0. gui \in GuiProcesses /\ undone \in Racks
    BY DEF TypeOK
  <1>1. UNCHANGED <<audio, updates, shadow>>
    BY DEF ApplyUpdate, LoseSupervisor, GuiExits, UserEdits, CloseWindow, GuiCrashes, supervisor,
         channels
  <1>2. ReportedRack' = ReportedRack /\ Worker' = Worker /\ Window = "open"
    <2>1. guiUp
      BY DEF ApplyUpdate, LoseSupervisor, GuiExits, UserEdits, CloseWindow, GuiCrashes, guiUp
    <2> QED BY <1>1, <2>1, SameReport DEF Worker, audioUp, Window
  <1>3. CASE ApplyUpdate
    <2>1. /\ gui.state = "running" /\ views # <<>> /\ UNCHANGED undone
      BY <1>3 DEF ApplyUpdate, budget
    <2>2. Head(views) \in Updates /\ Head(views) = views[1] /\ 1 \in DOMAIN views
      BY <2>1, Received DEF TypeOK
    <2>3. /\ gui'.state = "running"
          /\ \/ gui'.rack = gui.rack
             \/ 1 \in Reports(views) /\ gui'.rack = views[1].rack
      BY <1>0, <1>3, <2>1, <2>2 DEF ApplyUpdate, GuiProcesses, Reports
    <2>4. gui.rack \subseteq gui'.rack /\ gui'.rack \subseteq shadow
      BY <2>3 DEF ShownInv, RackInv, ViewsInv
    <2>5. Window' = Window
      BY <2>1, <2>3 DEF Window, guiUp
    <2>6. Service!Show
      BY <1>1, <1>2, <2>1, <2>4, <2>5 DEF Service!Show
    <2> QED BY <2>6 DEF Service!Next
  <1>4. CASE LoseSupervisor \/ CloseWindow
    <2>1. gui'.rack = gui.rack /\ gui'.state \in {"running", "closing"} /\ UNCHANGED undone
      BY <1>0, <1>4 DEF LoseSupervisor, CloseWindow, GuiProcesses, budget
    <2>2. Window' = "open"
      BY <2>1 DEF Window, guiUp
    <2> QED BY <1>1, <1>2, <2>1, <2>2, Unnoticed
  <1>5. CASE GuiExits \/ GuiCrashes
    <2>1. gui'.rack = gui.rack /\ gui'.state \in {"closed", "crashed"} /\ UNCHANGED undone
      BY <1>0, <1>5 DEF GuiExits, GuiCrashes, GuiProcesses, budget
    <2>2. Window' \in {"closed", "none"}
      BY <2>1 DEF Window, guiUp
    <2>3. Service!Leave
      BY <1>1, <1>2, <2>1, <2>2 DEF Service!Leave
    <2> QED BY <2>3 DEF Service!Next
  <1>6. CASE UserEdits
    <2>1. PICK e \in undone :
            /\ undone' = undone \ {e}
            /\ gui'.rack = gui.rack /\ gui'.state = gui.state /\ gui.state = "running"
      BY <1>0, <1>6 DEF UserEdits, GuiProcesses
    <2>2. Window' = Window
      BY <2>1 DEF Window, guiUp
    <2>3. e \in Edits /\ Edits \ undone' = (Edits \ undone) \cup {e}
      BY <1>0, <2>1 DEF Racks
    <2>4. Service!Ask(e)
      BY <1>1, <1>2, <2>1, <2>2, <2>3 DEF Service!Ask
    <2> QED BY <2>3, <2>4 DEF Service!Next
  <1> QED BY <1>3, <1>4, <1>5, <1>6

\* What the refinement needs, in every reachable state.
ServiceInv == TypeOK /\ PlaceInv /\ RackInv /\ EditsInv /\ ShownInv

\* It is kept by every step.
LEMMA ServiceInvariant == Spec => []ServiceInv
PROOF
  <1>1. Init => ServiceInv
    <2> SUFFICES ASSUME Init PROVE ServiceInv
      OBVIOUS
    <2>1. DOMAIN actions = {} /\ DOMAIN commands = {} /\ DOMAIN views = {}
      BY EmptySeq DEF Init
    <2> QED BY <2>1, InitTypes, InitRacks DEF ServiceInv, EditsInv, EditsIn, ShownInv, Ordered, Reports
  <1>2. ServiceInv /\ [Next]_vars => ServiceInv'
    BY TypeStep, RackStep, EditsStep, ShownStep DEF ServiceInv
  <1> QED BY <1>1, <1>2, PTL DEF Spec

\* Every step of the three processes is one of the service, or does not concern it.
LEMMA ServiceStep ==
  ASSUME ServiceInv, ServiceInv', [Next]_vars
  PROVE  [Service!Next]_(Service!vars)
PROOF
  <1>0. TypeOK /\ PlaceInv /\ RackInv /\ EditsInv /\ ShownInv /\ TypeOK' /\ RackInv'
    BY DEF ServiceInv
  <1>1. CASE UNCHANGED vars
    <2>1. UNCHANGED <<undone, shadow, updates, gui, audio>>
      BY <1>1 DEF vars, supervisor, channels, budget
    <2>2. gui'.rack = gui.rack /\ Window' = Window /\ Worker' = Worker
      BY <2>1 DEF Window, Worker, guiUp, audioUp
    <2> QED BY <2>1, <2>2, SameReport, Unnoticed
  <1>2. CASE SupervisorStep \/ SupervisorDies
    BY <1>0, <1>2, RelayServes, RelaunchServes DEF SupervisorStep
  <1>3. CASE WorkerStep \/ PluginDeactivated \/ AudioCrashes
    BY <1>0, <1>3, WorkerServes DEF WorkerStep
  <1>4. CASE GuiStep \/ UserEdits \/ CloseWindow \/ GuiCrashes
    BY <1>0, <1>4, WindowServes DEF GuiStep
  <1> QED BY <1>1, <1>2, <1>3, <1>4 DEF Next

\* The supervised host implements RackService: whatever dies in whatever order, what
\* the user has seen stays, an open window never goes back, nothing is in the rack
\* that was not asked for, and a closed window is not opened again.
THEOREM RackIsServed == Spec => KeepsRack
PROOF
  <1>1. Init => Service!Init
    <2> SUFFICES ASSUME Init PROVE Service!Init
      OBVIOUS
    <2>1. TypeOK /\ RackInv
      BY InitTypes, InitRacks
    <2>2. ReportedRack = {}
      BY <2>1, ReportedHas DEF ReportHolds, Init
    <2>3. Window = "none" /\ Worker = "up"
      BY DEF Init, Window, Worker, guiUp, audioUp, SpawnedGui, SpawnedWorker
    <2>4. Edits \ undone = {} /\ shadow = {} /\ gui.rack = {}
      BY DEF Init, SpawnedGui
    <2> QED BY <2>2, <2>3, <2>4 DEF Service!Init
  <1>2. ServiceInv /\ ServiceInv' /\ [Next]_vars => [Service!Next]_(Service!vars)
    BY ServiceStep
  <1> QED BY <1>1, <1>2, ServiceInvariant, PTL DEF Spec, KeepsRack, Service!Spec

\* Of the service: what is shown is saved, what is saved is done, what is done was
\* asked for.
LEMMA ServiceInOrder == Service!Spec => []Service!InOrder
PROOF
  <1>1. Service!Init => Service!InOrder
    BY DEF Service!Init, Service!InOrder
  <1>2. Service!InOrder /\ [Service!Next]_(Service!vars) => Service!InOrder'
    <2> SUFFICES ASSUME Service!InOrder, [Service!Next]_(Service!vars) PROVE Service!InOrder'
      OBVIOUS
    <2> QED BY DEF Service!InOrder, Service!Next, Service!vars, Service!Ask, Service!Do,
             Service!Save, Service!Show, Service!Open, Service!Leave, Service!End, Service!Restart
  <1> QED BY <1>1, <1>2, PTL DEF Service!Spec

\* So an edit that a window has shown is in the rack from then on for good, through
\* every death and relaunch of the worker and of the window.
THEOREM SeenForGood ==
  ASSUME NEW e
  PROVE  Spec => [](e \in gui.rack => [](e \in ReportedRack))
PROOF
  <1>1. Service!InOrder => (e \in gui.rack => e \in shadow) /\ (e \in shadow => e \in ReportedRack)
    BY DEF Service!InOrder
  <1>2. [Service!Next]_(Service!vars) => (e \in shadow => (e \in shadow)')
    BY DEF Service!Next, Service!vars, Service!Ask, Service!Do, Service!Save, Service!Show,
         Service!Open, Service!Leave, Service!End, Service!Restart
  <1> QED BY <1>1, <1>2, RackIsServed, ServiceInOrder, PTL DEF KeepsRack, Service!Spec
=============================================================================
