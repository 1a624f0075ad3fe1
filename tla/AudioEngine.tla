----------------------------- MODULE AudioEngine -----------------------------
(***************************************************************************)
(* What reaches a plugin in one block of audio (audio/engine.rs): the      *)
(* notes that the MIDI thread has left in the receiver (midi/device.rs)    *)
(* and the parameter changes that the control thread has left in the       *)
(* pending list, each behind a mutex that the audio thread only tries.     *)
(* The control thread is the GUI's (HostBackend::set_parameter) or the     *)
(* shell's (app/interactive.rs), and the plugin itself reports edits of    *)
(* its own editor through the component handler.                           *)
(*                                                                         *)
(* A block is three steps of the audio thread: it empties the receiver, it *)
(* empties the pending list, and it calls the plugin.  Both lists that the *)
(* plugin is given have a limit, and so has the receiver.                  *)
(***************************************************************************)
EXTENDS Naturals, SequencesExt

CONSTANTS
  Params,      \* the plugin's parameters
  Values,      \* their normalized values
  Default,     \* the value each has in a new instance
  Keys,        \* the keys of the keyboard
  Setups,      \* has the engine a MIDI receiver, and the plugin a controller
  MaxQueues,   \* MAX_PARAM_QUEUES
  MaxPoints,   \* MAX_POINTS_PER_PARAM
  MaxEvents,   \* MAX_EVENTS_PER_BLOCK
  MaxBuffered, \* the receiver's capacity
  MaxBlock,    \* ProcessBuffers.max_block_size, in frames
  MaxFrames,   \* bound on the frames the device asks for
  MaxPending   \* bound on the changes the control thread makes between two blocks

ASSUME AudioEngineAssumption ==
  /\ Default \in Values
  /\ Setups \subseteq [midi : BOOLEAN, controller : BOOLEAN]
  /\ {MaxQueues, MaxPoints, MaxEvents, MaxBuffered, MaxBlock, MaxFrames,
      MaxPending} \subseteq Nat
  /\ MaxPoints > 0

VARIABLES
  setup,
  \* parameters
  control,       \* what the control thread has still to do of the change it makes
  pending,       \* AudioEngine.pending_param_changes
  controller,    \* the values the plugin's controller has
  processor,     \* the values the plugin computes with
  param_changes, \* HostParameterChanges: the points of each parameter that has a queue
  \* notes
  midi,          \* the message that the MIDI thread, with the mutex, is about to leave
  buffer,        \* MidiReceiver.buffer
  event_list,    \* HostEventList.events
  pressed,       \* the keys that are down
  sounding,      \* the notes the plugin plays
  \* the block
  block,         \* the audio thread's step, and the frames it was asked for
  output,        \* the frames of the output buffer that hold what the plugin wrote
  played,        \* what the device was given
  \* what the properties except
  apart,         \* parameters whose last change was not put to both halves of the plugin
  missed         \* keys whose last message was dropped

paramVars == <<control, pending, controller, processor, param_changes, apart>>
noteVars  == <<midi, buffer, event_list, pressed, sounding, missed>>
blockVars == <<block, output, played>>
vars == <<setup, paramVars, noteVars, blockVars>>

Changes == [param : Params, value : Values]
Events == [on : BOOLEAN, key : Keys]
Messages == [status : {"on", "off"}, key : Keys, velocity : {0, 1}] \cup {[status |-> "other"]}
Idle == [todo |-> <<>>, change |-> <<>>]

TypeOK ==
  /\ setup \in Setups
  /\ control = Idle \/ control.change \in Changes
  /\ pending \in Seq(Changes)
  /\ {controller, processor} \subseteq [Params -> Values]
  /\ DOMAIN param_changes \subseteq Params /\ Cardinality(DOMAIN param_changes) <= MaxQueues
  /\ \A p \in DOMAIN param_changes :
       param_changes[p] \in Seq(Values) /\ Len(param_changes[p]) \in 1..MaxPoints
  /\ midi \in Seq(Messages) /\ buffer \in Seq(Messages) /\ Len(buffer) <= MaxBuffered
  /\ event_list \in Seq(Events) /\ Len(event_list) <= MaxEvents
  /\ pressed \subseteq Keys /\ sounding \subseteq Keys
  /\ block \in [step : {"waiting", "params", "process", "crashed"}, frames : 0..MaxFrames]
  /\ output \in [1..MaxBlock -> BOOLEAN]
  /\ played \subseteq {"silence", "fresh", "stale"}
  /\ apart \subseteq Params /\ missed \subseteq Keys

NoChanges == [p \in {} |-> <<>>]

Init ==
  /\ setup \in Setups
  /\ control = Idle
  /\ pending = <<>> /\ param_changes = NoChanges
  /\ controller = [p \in Params |-> Default]
  /\ processor = controller
  /\ midi = <<>> /\ buffer = <<>> /\ event_list = <<>>
  /\ pressed = {} /\ sounding = {}
  /\ block = [step |-> "waiting", frames |-> 0]
  /\ output = [i \in 1..MaxBlock |-> FALSE]
  /\ played = {}
  /\ apart = {} /\ missed = {}

-----------------------------------------------------------------------------
(* The control thread *)

\* A change is queued for the processor and set on the controller: the GUI does
\* the two in this order, the shell in the other.
set_parameter(p, v) ==
  control' = [todo |-> <<"lock", "push", "set">>, change |-> [param |-> p, value |-> v]]
cmd_set(p, v) ==
  control' = [todo |-> <<"set", "lock", "push">>, change |-> [param |-> p, value |-> v]]

ChangeParameter(p, v) ==
  /\ setup.controller
  /\ control = Idle
  /\ Len(pending) < MaxPending
  /\ set_parameter(p, v) \/ cmd_set(p, v)
  /\ UNCHANGED <<setup, pending, controller, processor, param_changes, apart, noteVars, blockVars>>

Does(step) == control.todo # <<>> /\ Head(control.todo) = step
Done ==
  control' = IF Len(control.todo) = 1 THEN Idle
             ELSE [todo |-> Tail(control.todo), change |-> control.change]

\* The control thread takes the mutex of the pending list,
LockPending ==
  /\ Does("lock")
  /\ Done
  /\ UNCHANGED <<setup, pending, controller, processor, param_changes, apart, noteVars, blockVars>>

\* and leaves the change there.
PushPending ==
  /\ Does("push")
  /\ Done
  /\ pending' = Append(pending, control.change)
  /\ LET p == control.change.param
         edited == Len(control.todo) = 1 /\ controller[p] # control.change.value
     IN  apart' = IF edited THEN apart ELSE apart \ {p}
  /\ UNCHANGED <<setup, controller, processor, param_changes, noteVars, blockVars>>

\* ParameterRegistry::set_normalized.  When the controller refuses, the shell
\* leaves it at that; the GUI has queued the change already.
SetNormalized ==
  /\ Does("set")
  /\ LET p == control.change.param
     IN  \/ /\ controller' = [controller EXCEPT ![p] = control.change.value]
            /\ Done
            /\ UNCHANGED apart
         \/ /\ control' = Idle
            /\ apart' = IF Len(control.todo) = 1 THEN apart \cup {p} ELSE apart
            /\ UNCHANGED controller
  /\ UNCHANGED <<setup, pending, processor, param_changes, noteVars, blockVars>>

\* A preset is loaded: the component's state, which is passed on to the
\* controller unless that refuses it.  The changes still pending are applied in
\* the next block, on top of it.
LoadState(state) ==
  /\ setup.controller
  /\ control = Idle
  /\ block.step = "waiting"
  /\ processor' = state
  /\ \/ /\ controller' = state
        /\ apart' = {pending[i].param : i \in DOMAIN pending}
     \/ /\ UNCHANGED controller
        /\ apart' = Params
  /\ UNCHANGED <<setup, control, pending, param_changes, noteVars, blockVars>>

\* The user turns a knob in the plugin's own editor.  What the component handler
\* is told goes to the GUI only (module HostApp).
PerformEdit(p, v) ==
  /\ setup.controller
  /\ controller' = [controller EXCEPT ![p] = v]
  /\ apart' = apart \cup {p}
  /\ UNCHANGED <<setup, control, pending, processor, param_changes, noteVars, blockVars>>

-----------------------------------------------------------------------------
(* The MIDI thread *)

\* A message of the keyboard: a key goes down or up, the latter also as a note-on
\* of velocity 0, or it is about something else.
Plays(m) ==
  \/ /\ m.status = "on" /\ m.velocity = 1 /\ m.key \notin pressed
     /\ pressed' = pressed \cup {m.key}
  \/ /\ m.status \in {"on", "off"} /\ m.velocity = 0 /\ m.key \in pressed
     /\ pressed' = pressed \ {m.key}
  \/ m.status = "other" /\ UNCHANGED pressed

\* MidiReceiver::push takes the mutex,
Arrives(m) ==
  /\ setup.midi
  /\ midi = <<>>
  /\ Plays(m)
  /\ midi' = <<m>>
  /\ UNCHANGED <<setup, paramVars, buffer, event_list, sounding, missed, blockVars>>

\* and leaves the message, or drops it when the buffer is full.
PushMessage ==
  /\ midi # <<>>
  /\ midi' = <<>>
  /\ LET about == IF midi[1].status = "other" THEN {} ELSE {midi[1].key}
     IN  \/ /\ Len(buffer) < MaxBuffered
            /\ buffer' = buffer \o midi
            /\ missed' = missed \ about
         \/ /\ Len(buffer) >= MaxBuffered
            /\ UNCHANGED buffer
            /\ missed' = missed \cup about
  /\ UNCHANGED <<setup, paramVars, event_list, pressed, sounding, blockVars>>

-----------------------------------------------------------------------------
(* The audio thread *)

\* Mutant: a note-on is a note-on whatever its velocity.
ToEventByStatus(m) == [on |-> m.status = "on", key |-> m.key]

midi_to_vst3_event(m) == [on |-> m.status = "on" /\ m.velocity # 0, key |-> m.key]

\* Messages about something else than a note are left out.
WithMessage(events, m) ==
  IF m.status = "other" THEN events ELSE Append(events, midi_to_vst3_event(m))

translate_midi_batch(messages) ==
  LET events[n \in 0..Len(messages)] ==
        IF n = 0 THEN <<>> ELSE WithMessage(events[n - 1], messages[n])
  IN  events[Len(messages)]

Capped(events) == SubSeq(events, 1, IF Len(events) < MaxEvents THEN Len(events) ELSE MaxEvents)

\* HostEventList::clear, MidiReceiver::drain and HostEventList::add: nothing when
\* the mutex is taken or no port is open; the newest events beyond the limit are
\* dropped.
DrainMidi ==
  IF setup.midi /\ midi = <<>>
  THEN LET events == translate_midi_batch(buffer)
       IN  /\ buffer' = <<>>
           /\ event_list' = Capped(events)
           /\ missed' = missed \cup {events[i].key : i \in (MaxEvents + 1)..Len(events)}
  ELSE event_list' = <<>> /\ UNCHANGED <<buffer, missed>>

Samples(frames) == IF frames < MaxBlock THEN frames ELSE MaxBlock

\* Mutant: the output buffer is left as the last block left it.
PrepareKeeps(frames) == UNCHANGED output

\* ProcessBuffers::prepare: silence where the block will be.
prepare(frames) == output' = [i \in 1..MaxBlock |-> output[i] /\ i > Samples(frames)]

\* AudioEngine::process, up to the events.  A block of no frames is none.
BeginBlock(frames) ==
  /\ block.step = "waiting"
  /\ prepare(frames)
  /\ DrainMidi
  /\ block' = [step |-> "params", frames |-> frames]
  /\ played' = {}
  /\ UNCHANGED <<setup, paramVars, midi, pressed, sounding>>

\* HostParameterChanges::add_change: can it take a point for p?
HasRoom(changes, p) ==
  IF p \in DOMAIN changes THEN Len(changes[p]) < MaxPoints
                          ELSE Cardinality(DOMAIN changes) < MaxQueues

add_change(changes, change) ==
  LET p == change.param
      points == (IF p \in DOMAIN changes THEN changes[p] ELSE <<>>) \o <<change.value>>
  IN  IF HasRoom(changes, p)
      THEN [q \in DOMAIN changes \cup {p} |-> IF q = p THEN points ELSE changes[q]]
      ELSE changes

\* The queues after one more change, and the parameters one was refused for.
WithChange(done, change) ==
  [queues  |-> add_change(done.queues, change),
   refused |-> done.refused \cup (IF HasRoom(done.queues, change.param) THEN {} ELSE {change.param})]

\* The changes are added one after the other.
Added(changes) ==
  LET done[n \in 0..Len(changes)] ==
        IF n = 0 THEN [queues |-> NoChanges, refused |-> {}]
        ELSE WithChange(done[n - 1], changes[n])
  IN  done[Len(changes)]

\* Mutant: the list is emptied although its mutex was not free.
DrainParamsClears ==
  /\ pending' = <<>>
  /\ IF Does("push")
     THEN param_changes' = NoChanges /\ UNCHANGED apart
     ELSE /\ param_changes' = Added(pending).queues
          /\ apart' = apart \cup Added(pending).refused

\* HostParameterChanges::clear, and the pending changes are added in their order,
\* unless the mutex is taken; what does not fit is dropped.
DrainParams ==
  IF Does("push")
  THEN param_changes' = NoChanges /\ UNCHANGED <<pending, apart>>
  ELSE /\ pending' = <<>>
       /\ param_changes' = Added(pending).queues
       /\ apart' = apart \cup Added(pending).refused

TakeParams ==
  /\ block.step = "params"
  /\ block' = [block EXCEPT !.step = "process"]
  /\ DrainParams
  /\ UNCHANGED <<setup, control, controller, processor, noteVars, output, played>>

\* The plugin plays the events in their order and moves each parameter to its
\* last point.
WithEvent(notes, e) == IF e.on THEN notes \cup {e.key} ELSE notes \ {e.key}

Sounding(notes, events) ==
  LET sounds[n \in 0..Len(events)] ==
        IF n = 0 THEN notes ELSE WithEvent(sounds[n - 1], events[n])
  IN  sounds[Len(events)]
Moved(values, changes) ==
  [p \in Params |-> IF p \in DOMAIN changes THEN Last(changes[p]) ELSE values[p]]

\* read_output_interleaved: the plugin has written the first frames of the
\* block; what the device wants beyond the block is silence.
Played(frames, written) ==
  {IF i > Samples(frames) THEN "silence"
   ELSE IF i <= written THEN "fresh"
   ELSE IF output[i] THEN "stale" ELSE "silence" : i \in 1..frames}

CallPlugin(written) ==
  /\ block.step = "process"
  /\ written <= Samples(block.frames)
  /\ block' = [step |-> "waiting", frames |-> 0]
  /\ sounding' = Sounding(sounding, event_list)
  /\ processor' = Moved(processor, param_changes)
  /\ played' = Played(block.frames, written)
  /\ output' = [i \in 1..MaxBlock |-> output[i] \/ i <= written]
  /\ UNCHANGED <<setup, control, pending, controller, param_changes, apart, midi, buffer, event_list, pressed, missed>>

\* The plugin crashes in process, and is not called again.
PluginCrashes ==
  /\ block.step = "process"
  /\ block' = [step |-> "crashed", frames |-> 0]
  /\ played' = {"silence"}
  /\ UNCHANGED <<setup, paramVars, noteVars, output>>

-----------------------------------------------------------------------------
Control ==
  \/ \E p \in Params, v \in Values : ChangeParameter(p, v) \/ PerformEdit(p, v)
  \/ LockPending \/ PushPending \/ SetNormalized
  \/ \E state \in [Params -> Values] : LoadState(state)

Midi == (\E m \in Messages : Arrives(m)) \/ PushMessage

Audio ==
  \/ \E frames \in 1..MaxFrames : BeginBlock(frames)
  \/ TakeParams
  \/ \E written \in 0..MaxBlock : CallPlugin(written)
  \/ PluginCrashes

Next == Control \/ Midi \/ Audio

Spec == Init /\ [][Next]_vars

-----------------------------------------------------------------------------
(* Properties *)

Delivered == block.step = "waiting"

\* What the plugin will compute with and play once all that is under way has
\* been delivered.
Upcoming(p) ==
  LET queued == {i \in DOMAIN pending : pending[i].param = p}
      newest == CHOOSE i \in queued : \A j \in queued : j <= i
  IN  IF queued # {} THEN pending[newest].value
      ELSE IF block.step = "process" /\ p \in DOMAIN param_changes THEN Last(param_changes[p])
      ELSE processor[p]

UpcomingNotes ==
  LET given == IF Delivered THEN sounding ELSE Sounding(sounding, event_list)
  IN  Sounding(given, translate_midi_batch(buffer \o midi))

\* The two halves of the plugin agree on every parameter once the changes under
\* way are delivered, however the threads' steps fall and whichever try of a
\* mutex fails.  They part only by a change beyond a block's limits, by one the
\* controller refuses, by a preset loaded over pending changes or refused by the
\* controller, and by an edit in the plugin's own window, which no code forwards
\* (AudioEngine::process, HostBackend::set_parameter, interactive::cmd_set).
HalvesAgree ==
  block.step # "crashed" =>
    \A p \in Params \ apart :
      control = Idle \/ control.change.param # p => Upcoming(p) = controller[p]

\* The notes that sound are those of the keys that are down, once the messages
\* under way are delivered: no note hangs and none is missing, but for keys whose
\* last message was dropped at a limit (MidiReceiver, translate, HostEventList).
NoNoteHangs ==
  block.step # "crashed" =>
    \A k \in Keys \ missed : k \in UpcomingNotes <=> k \in pressed

\* The device is never given frames of an earlier block, whatever the lengths of
\* the blocks and however little of one the plugin writes (ProcessBuffers).
NothingStalePlayed == "stale" \notin played
=============================================================================
