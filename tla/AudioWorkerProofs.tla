------------------------- MODULE AudioWorkerProofs -------------------------
(***************************************************************************)
(* Machine-checked theorems about AudioWorker, for every value of its      *)
(* constants: type correctness, that two plugins never run at once, that   *)
(* the supervisor's shadow is always fit to restore the rack from, that a  *)
(* tainted bundle is not loaded again, that the GUI is told of the active  *)
(* slot, that the selection stays on its slot when slots go, and that no   *)
(* staged change is dropped before a plugin computes with it.              *)
(***************************************************************************)
EXTENDS AudioWorker, SequenceTheorems, TLAPS

-----------------------------------------------------------------------------
(* What the operations on a rack yield *)

\* Removing a position shortens a sequence by one (Vec::remove).
LEMMA RemoveAtSeq ==
  ASSUME NEW S, NEW s \in Seq(S), NEW i \in 1..Len(s)
  PROVE  RemoveAt(s, i) \in Seq(S) /\ Len(RemoveAt(s, i)) = Len(s) - 1
PROOF
  <1> DEFINE front == SubSeq(s, 1, i-1)
             back  == SubSeq(s, i+1, Len(s))
  <1>1. front \in Seq(S) /\ Len(front) = i - 1
    BY SubSeqProperties, LenProperties, ElementOfSeq
  <1>2. back \in Seq(S) /\ Len(back) = Len(s) - i
    BY SubSeqProperties, LenProperties, ElementOfSeq
  <1>3. RemoveAt(s, i) = front \o back
    BY DEF RemoveAt
  <1>4. Len(s) \in Nat /\ i \in Nat
    BY LenProperties
  <1> HIDE DEF front, back
  <1>5. front \o back \in Seq(S) /\ Len(front \o back) = Len(front) + Len(back)
    BY <1>1, <1>2, ConcatProperties
  <1> QED BY <1>1, <1>2, <1>3, <1>4, <1>5

\* Inserting at a position up to one past the end lengthens it by one
\* (Vec::insert).
LEMMA InsertAtSeq ==
  ASSUME NEW S, NEW s \in Seq(S), NEW i \in 1..(Len(s) + 1), NEW e \in S
  PROVE  InsertAt(s, i, e) \in Seq(S) /\ Len(InsertAt(s, i, e)) = Len(s) + 1
PROOF
  <1> DEFINE front == SubSeq(s, 1, i-1)
             back  == SubSeq(s, i, Len(s))
  <1>1. front \in Seq(S) /\ Len(front) = i - 1
    BY SubSeqProperties, LenProperties, ElementOfSeq
  <1>2. back \in Seq(S) /\ Len(back) = Len(s) - i + 1
    BY SubSeqProperties, LenProperties, ElementOfSeq
  <1>3. InsertAt(s, i, e) = (front \o <<e>>) \o back
    BY DEF InsertAt
  <1>4. Len(s) \in Nat /\ i \in Nat
    BY LenProperties
  <1>5. <<e>> \in Seq(S) /\ Len(<<e>>) = 1
    OBVIOUS
  <1> HIDE DEF front, back
  <1>6. front \o <<e>> \in Seq(S) /\ Len(front \o <<e>>) = Len(front) + 1
    BY <1>1, <1>5, ConcatProperties
  <1>7. /\ (front \o <<e>>) \o back \in Seq(S)
        /\ Len((front \o <<e>>) \o back) = Len(front \o <<e>>) + Len(back)
    BY <1>2, <1>6, ConcatProperties
  <1>8. Len(front \o <<e>>) = i
    BY <1>1, <1>4, <1>6
  <1>9. i + (Len(s) - i + 1) = Len(s) + 1
    BY <1>4
  <1> QED BY <1>2, <1>3, <1>7, <1>8, <1>9

LEMMA DefaultsType == Defaults \in Valuations
BY WorkerAssumption DEF Defaults, Valuations

LEMMA NoStagedType == NoStaged \in Staged
PROOF
  <1>1. NoStaged \in [{} -> Values]
    BY DEF NoStaged
  <1> QED BY <1>1 DEF Staged

\* A listing has one of the two shapes a Vec<ParamSnapshot> is modelled by.
LEMMA ListingType ==
  ASSUME NEW plugin \in Plugins, NEW val \in Valuations
  PROVE  Listing(plugin, val) \in Listings
BY DEF Listing, Listings

LEMMA NewSlotType ==
  ASSUME NEW id \in SlotIds, NEW plugin \in Plugins, NEW state \in Listings
  PROVE  NewSlot(id, plugin, state) \in Slots
BY NoStagedType DEF NewSlot, Slots, Listings

\* Restoring a state changes only what the plugin computes with.
LEMMA WithStateType ==
  ASSUME NEW inst \in Instances, NEW blob \in Listings
  PROVE  /\ WithState(inst, blob) \in Instances
         /\ WithState(inst, blob).plugin = inst.plugin
         /\ WithState(inst, blob).slot_index = inst.slot_index
BY DEF WithState, Instances, Listings

\* Setting parameters changes only values.
LEMMA WithParametersType ==
  ASSUME NEW inst \in Instances, NEW isolated \in BOOLEAN, NEW changes \in Staged
  PROVE  /\ WithParameters(inst, isolated, changes) \in Instances
         /\ WithParameters(inst, isolated, changes).plugin = inst.plugin
         /\ WithParameters(inst, isolated, changes).slot_index = inst.slot_index
PROOF
  <1> DEFINE Over(val) == [q \in Params |-> IF q \in DOMAIN changes THEN changes[q] ELSE val[q]]
  <1>1. PICK S \in SUBSET Params : changes \in [S -> Values]
    BY DEF Staged
  <1>2. Over(inst.live) \in Valuations /\ Over(inst.shown) \in Valuations
    BY <1>1 DEF Instances, Valuations
  <1>3. WithParameters(inst, isolated, changes)
          = [inst EXCEPT !.live = Over(inst.live),
                         !.shown = IF isolated THEN @ ELSE Over(inst.shown)]
    BY DEF WithParameters
  <1> HIDE DEF Over
  <1> QED BY <1>2, <1>3 DEF Instances

LEMMA PreparedType ==
  ASSUME NEW slot \in Slots, NEW index \in Indices, process_isolation \in BOOLEAN
  PROVE  /\ Prepared(slot, index) \in Instances
         /\ Prepared(slot, index).plugin = slot.plugin
PROOF
  <1>1. Fresh(slot, index) \in Instances /\ Fresh(slot, index).plugin = slot.plugin
    BY DefaultsType DEF Fresh, Instances, Slots
  <1>2. slot.component_state \in Listings /\ slot.staged_changes \in Staged
    BY DEF Slots
  <1>3. /\ WithState(Fresh(slot, index), slot.component_state) \in Instances
        /\ WithState(Fresh(slot, index), slot.component_state).plugin = slot.plugin
    BY <1>1, <1>2, WithStateType
  <1> QED BY <1>2, <1>3, WithParametersType DEF Prepared

-----------------------------------------------------------------------------
(* Type correctness *)

\* What the getters of HostBackend return.
LEMMA GetterTypes ==
  ASSUME BackendTypeOK
  PROVE  /\ active_slot_index \in Indices \cup {None}
         /\ is_active => Instance \in Instances
         /\ active_param_snapshots \in Listings
         /\ get_component_state \in Listings
PROOF
  <1>1. active_slot_index \in Indices \cup {None}
    BY DEF BackendTypeOK, active_slot_index, Instances
  <1>2. is_active => Instance \in Instances
    BY DEF BackendTypeOK, is_active, Instance
  <1>3. None \in Listings
    BY DEF Listings
  <1>4. is_active => /\ Instance.plugin \in Plugins
                     /\ Instance.live \in Valuations
                     /\ Instance.shown \in Valuations
    BY <1>2 DEF Instances
  <1> QED
    BY <1>1, <1>2, <1>3, <1>4, ListingType DEF active_param_snapshots, get_component_state

\* Every message carries values of the right types to the supervisor and GUI.
LEMMA MessageTypes ==
  ASSUME WorkerTypeOK', BackendTypeOK', ViewTypeOK,
         RackUpdated \/ FullState \/ PluginModulesUpdated
  PROVE  ViewTypeOK'
PROOF
  <1>1. active_slot_index' \in Indices \cup {None}
    BY DEF BackendTypeOK, active_slot_index, Instances
  <1>2. CASE RackUpdated
    BY <1>1, <1>2 DEF RackUpdated, WorkerTypeOK, ViewTypeOK
  <1>3. CASE FullState
    BY <1>1, <1>3 DEF FullState, WorkerTypeOK, BackendTypeOK, ViewTypeOK
  <1>4. CASE PluginModulesUpdated
    BY <1>4 DEF PluginModulesUpdated, WorkerTypeOK, ViewTypeOK
  <1> QED BY <1>2, <1>3, <1>4

LEMMA TaintingType ==
  ASSUME BackendTypeOK, NEW unload, Tainting(unload)
  PROVE  tainted_paths' \subseteq Plugins /\ heap_corruption_detected' \in BOOLEAN
BY DEF BackendTypeOK, Tainting, Instances

\* Deactivation leaves a well-typed, inactive backend.
LEMMA DeactivateType ==
  ASSUME BackendTypeOK, NEW unload, deactivate_plugin(unload),
         UNCHANGED process_isolation
  PROVE  BackendTypeOK'
BY TaintingType DEF deactivate_plugin, BackendTypeOK

LEMMA InitTypeOK == Init => TypeOK
PROOF
  <1> SUFFICES ASSUME Init PROVE TypeOK
    OBVIOUS
  <1>1. <<>> \in Seq(Slots) /\ Len(<<>>) = 0
    BY EmptySeq
  <1>2. WorkerTypeOK
    BY <1>1, WorkerAssumption DEF Init, WorkerTypeOK, Listings
  <1>3. BackendTypeOK
    BY DEF Init, BackendTypeOK
  <1>4. ViewTypeOK
    BY <1>1, WorkerAssumption DEF Init, ViewTypeOK
  <1> QED BY <1>2, <1>3, <1>4 DEF Init, TypeOK

\* The commands that change the rack or the selection.
LEMMA RackCommandType == TypeOK /\ RackCommand => TypeOK'
PROOF
  <1> SUFFICES ASSUME TypeOK, RackCommand PROVE TypeOK'
    OBVIOUS
  <1> USE DEF TypeOK
  <1>1. /\ Len(rack) \in Nat
        /\ DOMAIN rack = 1..Len(rack)
        /\ \A i \in DOMAIN rack : rack[i] \in Slots /\ i \in Indices
        /\ None \in Listings
    BY LenProperties, ElementOfSeq, WorkerAssumption DEF WorkerTypeOK, Indices, Listings
  <1>2. CASE AddToRack
    <2>1. PICK plugin \in plugin_modules, id \in FreshIds :
            rack' = Append(rack, NewSlot(id, plugin, None))
      BY <1>2 DEF AddToRack
    <2>2. NewSlot(id, plugin, None) \in Slots
      BY <1>1, NewSlotType DEF FreshIds, WorkerTypeOK
    <2>3. rack' \in Seq(Slots) /\ Len(rack') = Len(rack) + 1
      BY <2>1, <2>2 DEF WorkerTypeOK
    <2>4. WorkerTypeOK'
      BY <1>1, <1>2, <2>3, WorkerAssumption DEF AddToRack, WorkerTypeOK
    <2>5. BackendTypeOK'
      BY <1>2 DEF AddToRack, BackendTypeOK, backendVars, instances, taintVars
    <2> QED BY <1>2, <2>4, <2>5, MessageTypes DEF AddToRack, Command
  <1>3. CASE \E index \in Indices : RemoveFromRack(index)
    <2>1. PICK index \in Indices : RemoveFromRack(index)
      BY <1>3
    <2>2. rack' \in Seq(Slots) /\ Len(rack') = Len(rack) - 1
      BY <1>1, <2>1, RemoveAtSeq DEF RemoveFromRack, WorkerTypeOK
    <2>3. selected_slot' \in Indices \cup {None}
      <3>1. selected_slot \in Indices \cup {None} /\ index \in Indices
        BY DEF WorkerTypeOK
      <3>2. selected_slot' = SelectionAfterRemove(index)
        BY <2>1 DEF RemoveFromRack
      <3>3. CASE selected_slot = None
        BY <3>2, <3>3 DEF SelectionAfterRemove
      <3>4. CASE selected_slot \in Indices /\ selected_slot # None
        <4>1. selected_slot \in Indices /\ selected_slot > index
                => selected_slot - 1 \in Indices
          BY <3>1, WorkerAssumption DEF Indices
        <4> QED BY <3>2, <3>4, <4>1 DEF SelectionAfterRemove
      <3> QED BY <3>1, <3>3, <3>4
    <2>4. WorkerTypeOK'
      BY <1>1, <2>1, <2>2, <2>3, WorkerAssumption DEF RemoveFromRack, WorkerTypeOK
    <2>5. BackendTypeOK'
      BY <2>1, DeactivateType
      DEF RemoveFromRack, BackendTypeOK, instances, taintVars
    <2> QED BY <2>1, <2>4, <2>5, MessageTypes DEF RemoveFromRack, Command
  <1>4. CASE \E from, to \in 1..(MaxSlots + 1) : ReorderRack(from, to)
    <2>1. PICK from \in 1..(MaxSlots + 1), to \in 1..(MaxSlots + 1) : ReorderRack(from, to)
      BY <1>4
    <2> DEFINE clamped == IF to = Len(rack) + 1 THEN Len(rack) ELSE to
    <2>2. /\ RemoveAt(rack, from) \in Seq(Slots)
          /\ Len(RemoveAt(rack, from)) = Len(rack) - 1
      BY <1>1, <2>1, RemoveAtSeq DEF ReorderRack, WorkerTypeOK
    <2>3. clamped \in 1..Len(rack) /\ clamped \in Indices
      BY <1>1, <2>1, WorkerAssumption DEF ReorderRack, WorkerTypeOK, Indices
    <2>4. /\ rack' = InsertAt(RemoveAt(rack, from), clamped, rack[from])
          /\ selected_slot' = IF selected_slot = from THEN clamped ELSE selected_slot
          /\ from \in DOMAIN rack
      BY <2>1 DEF ReorderRack
    <2> HIDE DEF clamped
    <2>5. rack' \in Seq(Slots) /\ Len(rack') = Len(rack)
      BY <1>1, <2>2, <2>3, <2>4, InsertAtSeq
    <2>6. WorkerTypeOK'
      BY <2>1, <2>3, <2>4, <2>5 DEF ReorderRack, WorkerTypeOK
    <2>7. BackendTypeOK'
      BY <2>1 DEF ReorderRack, BackendTypeOK, backendVars, instances, taintVars
    <2> QED BY <2>1, <2>6, <2>7, MessageTypes DEF ReorderRack, Command
  <1>5. CASE \E index \in Indices \cup {None} : SelectSlot(index)
    <2>1. PICK index \in Indices \cup {None} : SelectSlot(index)
      BY <1>5
    <2>2. param_snapshots' \in Listings
      BY <1>1, <2>1, GetterTypes DEF SelectSlot, Slots
    <2>3. WorkerTypeOK'
      BY <2>1, <2>2 DEF SelectSlot, WorkerTypeOK
    <2> QED
      BY <2>1, <2>3
      DEF SelectSlot, Command, BackendTypeOK, ViewTypeOK, backendVars, instances, taintVars, viewVars
  <1>6. CASE \E index \in Indices, param \in Params, value \in Values :
               StageParameter(index, param, value)
    <2>1. PICK index \in Indices, param \in Params, value \in Values :
            StageParameter(index, param, value)
      BY <1>6
    <2> DEFINE staged == rack[index].staged_changes
               cache  == rack[index].param_cache
               staged2 == [x \in DOMAIN staged \cup {param} |->
                             IF x = param THEN value ELSE staged[x]]
               cache2 == IF cache = None THEN None ELSE [cache EXCEPT !.val[param] = value]
    <2>2. rack[index] \in Slots /\ index \in 1..Len(rack)
      BY <1>1, <2>1 DEF StageParameter
    <2>3. staged2 \in Staged
      <3>1. PICK S \in SUBSET Params : staged \in [S -> Values]
        BY <2>2 DEF Slots, Staged
      <3>2. staged2 \in [S \cup {param} -> Values]
        BY <3>1
      <3>3. S \cup {param} \in SUBSET Params
        BY <3>1
      <3> QED BY <3>2, <3>3 DEF Staged
    <2>4. cache2 \in Listings
      BY <1>1, <2>2 DEF Slots, Listings, Valuations
    <2>5. rack' = [rack EXCEPT ![index] =
                     [rack[index] EXCEPT !.staged_changes = staged2, !.param_cache = cache2]]
      BY <2>1, <2>2 DEF StageParameter, Slots
    <2> HIDE DEF staged2, cache2
    <2>6. [rack[index] EXCEPT !.staged_changes = staged2, !.param_cache = cache2] \in Slots
      BY <2>2, <2>3, <2>4 DEF Slots
    <2>7. rack' \in Seq(Slots) /\ Len(rack') = Len(rack)
      BY <2>2, <2>5, <2>6, ExceptSeq DEF WorkerTypeOK
    <2>8. WorkerTypeOK'
      BY <2>1, <2>7 DEF StageParameter, WorkerTypeOK
    <2>9. BackendTypeOK'
      BY <2>1 DEF StageParameter, BackendTypeOK, backendVars, instances, taintVars
    <2> QED BY <2>1, <2>8, <2>9, MessageTypes DEF StageParameter, Command
  <1>7. CASE \E session \in Sessions : LoadSession(session)
    <2>1. PICK session \in Sessions : LoadSession(session)
      BY <1>7
    <2>2. PICK ids \in Injection(DOMAIN session, FreshIds) :
            rack' = [i \in DOMAIN session |->
                       NewSlot(ids[i], session[i].plugin, session[i].component_state)]
      BY <2>1 DEF LoadSession
    <2>3. /\ session \in Seq([plugin : Plugins, component_state : Listings])
          /\ Len(session) <= MaxSlots
      BY FilesAssumption
    <2>4. /\ Len(session) \in Nat
          /\ DOMAIN session = 1..Len(session)
          /\ \A i \in 1..Len(session) : session[i] \in [plugin : Plugins, component_state : Listings]
      BY <2>3, LenProperties, ElementOfSeq
    <2>5. \A i \in DOMAIN session : ids[i] \in SlotIds
      BY <2>2 DEF Injection, FreshIds
    <2>6. \A i \in 1..Len(session) :
            NewSlot(ids[i], session[i].plugin, session[i].component_state) \in Slots
      BY <2>4, <2>5, NewSlotType
    <2>7. rack' \in Seq(Slots) /\ Len(rack') = Len(session)
      BY <2>2, <2>4, <2>6
    <2>8. WorkerTypeOK'
      BY <1>1, <2>1, <2>3, <2>7 DEF LoadSession, WorkerTypeOK
    <2>9. BackendTypeOK'
      BY <2>1, DeactivateType DEF LoadSession
    <2> QED BY <2>1, <2>8, <2>9, MessageTypes DEF LoadSession, Command
  <1> QED BY <1>2, <1>3, <1>4, <1>5, <1>6, <1>7 DEF RackCommand

\* What every action may assume of the rack and the running plugin.
LEMMA StateFacts ==
  ASSUME TypeOK
  PROVE  /\ Len(rack) \in Nat /\ DOMAIN rack = 1..Len(rack)
         /\ \A i \in DOMAIN rack : rack[i] \in Slots /\ i \in Indices
         /\ active \in Instances \cup {None} /\ sandboxed \in Instances \cup {None}
BY LenProperties, ElementOfSeq, WorkerAssumption
DEF TypeOK, WorkerTypeOK, BackendTypeOK, Indices

\* Replacing one slot keeps the rack a rack.
LEMMA SlotReplaced ==
  ASSUME WorkerTypeOK, NEW i \in DOMAIN rack, NEW slot \in Slots
  PROVE  /\ [rack EXCEPT ![i] = slot] \in Seq(Slots)
         /\ Len([rack EXCEPT ![i] = slot]) = Len(rack)
BY LenProperties, ExceptSeq DEF WorkerTypeOK

\* ActivateSlot installs a well-typed instance of the slot's plugin.
LEMMA ActivateSlotType ==
  ASSUME TypeOK, NEW index \in Indices, ActivateSlot(index)
  PROVE  TypeOK'
PROOF
  <1> USE DEF TypeOK
  <1> DEFINE inst == Prepared(rack[index], index)
             listing == Listing(inst.plugin, inst.shown)
             slot == [rack[index] EXCEPT !.staged_changes = NoStaged, !.param_cache = listing]
  <1>1. index \in DOMAIN rack /\ rack[index] \in Slots
    BY StateFacts DEF ActivateSlot
  <1>2. inst \in Instances
    BY <1>1, PreparedType DEF BackendTypeOK
  <1>3. listing \in Listings
    BY <1>2, ListingType DEF Instances
  <1>4. /\ install(inst)
        /\ rack' = [rack EXCEPT ![index] = slot]
        /\ param_snapshots' = listing
        /\ selected_slot' = index
        /\ UNCHANGED <<plugin_modules, settings, process_isolation>>
        /\ RackUpdated
    BY <1>1 DEF ActivateSlot, Slots
  <1> HIDE DEF inst, listing
  <1>5. slot \in Slots
    BY <1>1, <1>3, NoStagedType DEF Slots
  <1> HIDE DEF slot
  <1>6. rack' \in Seq(Slots) /\ Len(rack') = Len(rack)
    BY <1>1, <1>4, <1>5, SlotReplaced
  <1>7. WorkerTypeOK'
    BY <1>3, <1>4, <1>6 DEF WorkerTypeOK
  <1>8. PICK unload \in Unloads : Tainting(unload)
    BY DEF ActivateSlot
  <1>9. tainted_paths' \subseteq Plugins /\ heap_corruption_detected' \in BOOLEAN
    BY <1>8, TaintingType
  <1>10. BackendTypeOK'
    BY <1>2, <1>4, <1>9 DEF install, activate_plugin_sandboxed, BackendTypeOK
  <1> QED BY <1>4, <1>7, <1>10, MessageTypes DEF ActivateSlot, Command

\* The commands that start, stop, change or read the running plugin.
LEMMA PluginCommandType == TypeOK /\ PluginCommand => TypeOK'
PROOF
  <1> SUFFICES ASSUME TypeOK, PluginCommand PROVE TypeOK'
    OBVIOUS
  <1> USE DEF TypeOK
  <1>1. /\ \A i \in DOMAIN rack : rack[i] \in Slots /\ i \in Indices
        /\ get_component_state \in Listings
        /\ is_active => Instance \in Instances
    BY StateFacts, GetterTypes
  <1>2. CASE \E index \in Indices : ActivateSlot(index)
    BY <1>2, ActivateSlotType
  <1>3. CASE \E index \in Indices : ActivateSlotFails(index)
    <2>1. PICK index \in Indices, unload \in Unloads :
            ActivateSlotFails(index) /\ deactivate_plugin(unload)
      BY <1>3 DEF ActivateSlotFails
    <2>2. BackendTypeOK'
      BY <2>1, DeactivateType DEF ActivateSlotFails
    <2> QED
      BY <2>1, <2>2
      DEF ActivateSlotFails, Command, WorkerTypeOK, ViewTypeOK, workerVars, viewVars
  <1>4. CASE DeactivateSlot
    <2> DEFINE i == active_slot_index
               slot == [rack[i] EXCEPT !.param_cache = param_snapshots]
    <2>1. PICK unload \in Unloads : deactivate_plugin(unload)
      BY <1>4 DEF DeactivateSlot
    <2>2. BackendTypeOK'
      BY <1>4, <2>1, DeactivateType DEF DeactivateSlot
    <2>3. rack' \in Seq(Slots) /\ Len(rack') = Len(rack)
      <3>1. CASE i \notin DOMAIN rack
        BY <1>4, <3>1 DEF DeactivateSlot, WorkerTypeOK
      <3>2. CASE i \in DOMAIN rack
        <4>1. rack' = [rack EXCEPT ![i] = slot]
          BY <1>1, <1>4, <3>2 DEF DeactivateSlot, Slots
        <4>2. slot \in Slots
          BY <1>1, <3>2 DEF Slots, WorkerTypeOK
        <4> HIDE DEF slot, i
        <4> QED BY <3>2, <4>1, <4>2, SlotReplaced
      <3> QED BY <3>1, <3>2
    <2>4. WorkerTypeOK'
      BY <1>4, <2>3 DEF DeactivateSlot, WorkerTypeOK
    <2>5. active_slot_index' \in Indices \cup {None}
      BY <2>1 DEF deactivate_plugin, active_slot_index
    <2>6. ViewTypeOK'
      BY <1>4, <2>2, <2>4, <2>5
      DEF DeactivateSlot, ViewTypeOK, WorkerTypeOK, BackendTypeOK
    <2> QED BY <1>4, <2>2, <2>4, <2>6 DEF DeactivateSlot, Command
  <1>5. CASE \E param \in Params, value \in Values : SetParameter(param, value)
    <2>1. PICK param \in Params, value \in Values : SetParameter(param, value)
      BY <1>5
    <2> DEFINE change == [x \in {param} |-> value]
    <2>2. change \in Staged
      <3>1. change \in [{param} -> Values] /\ {param} \in SUBSET Params
        OBVIOUS
      <3> QED BY <3>1 DEF Staged
    <2> HIDE DEF change
    <2>3. \A inst \in Instances, isolated \in BOOLEAN :
            WithParameters(inst, isolated, change) \in Instances
      BY <2>2, WithParametersType
    <2>4. \/ /\ sandboxed # None
             /\ sandboxed' = WithParameters(sandboxed, TRUE, change)
             /\ UNCHANGED active
          \/ /\ sandboxed = None
             /\ active' = WithParameters(active, FALSE, change)
             /\ UNCHANGED sandboxed
      BY <2>1 DEF SetParameter, change
    <2>5. active # None \/ sandboxed # None
      BY <2>1 DEF SetParameter, is_active
    <2>6. BackendTypeOK'
      BY <2>1, <2>3, <2>4, <2>5 DEF SetParameter, BackendTypeOK, taintVars
    <2> QED
      BY <2>1, <2>6
      DEF SetParameter, Command, WorkerTypeOK, ViewTypeOK, workerVars, viewVars
  <1>6. CASE \E preset \in Presets : LoadPreset(preset)
    <2>1. PICK preset \in Presets : LoadPreset(preset)
      BY <1>6
    <2>2. preset \in Listings
      BY FilesAssumption DEF Listings
    <2>3. \A inst \in Instances : WithState(inst, preset) \in Instances
      BY <2>2, WithStateType
    <2>4. BackendTypeOK'
      BY <2>1, <2>3 DEF LoadPreset, BackendTypeOK, taintVars
    <2>5. (active_param_snapshots \in Listings)'
      BY <2>4, ListingType
      DEF BackendTypeOK, active_param_snapshots, is_active, Instance, Instances, Listings
    <2>6. WorkerTypeOK'
      BY <2>1, <2>5 DEF LoadPreset, WorkerTypeOK
    <2> QED
      BY <2>1, <2>4, <2>6 DEF LoadPreset, Command, ViewTypeOK, viewVars
  <1>7. CASE SaveSession \/ \E index \in Indices : CapturePluginState(index)
    <2>1. PICK i \in DOMAIN rack :
            /\ rack' = [rack EXCEPT ![i].component_state = get_component_state]
            /\ Command
            /\ UNCHANGED <<plugin_modules, selected_slot, param_snapshots, settings,
                           backendVars, viewVars>>
      BY <1>7 DEF SaveSession, CapturePluginState
    <2> DEFINE slot == [rack[i] EXCEPT !.component_state = get_component_state]
    <2>2. rack' = [rack EXCEPT ![i] = slot]
      BY <1>1, <2>1 DEF Slots
    <2>3. slot \in Slots
      BY <1>1 DEF Slots
    <2> HIDE DEF slot
    <2>4. rack' \in Seq(Slots) /\ Len(rack') = Len(rack)
      BY <2>2, <2>3, SlotReplaced
    <2>5. WorkerTypeOK'
      BY <2>1, <2>4 DEF WorkerTypeOK
    <2> QED
      BY <2>1, <2>5
      DEF Command, BackendTypeOK, ViewTypeOK, backendVars, instances, taintVars, viewVars
  <1> QED BY <1>2, <1>3, <1>4, <1>5, <1>6, <1>7 DEF PluginCommand

\* The commands that touch neither, and those a handler rejects.
LEMMA OtherCommandType == TypeOK /\ OtherCommand => TypeOK'
PROOF
  <1> SUFFICES ASSUME TypeOK, OtherCommand PROVE TypeOK'
    OBVIOUS
  <1> USE DEF TypeOK
  <1>1. CASE NoCommand
    BY <1>1
    DEF NoCommand, Command, WorkerTypeOK, BackendTypeOK, ViewTypeOK,
        workerVars, backendVars, instances, taintVars, viewVars
  <1>2. CASE RequestFullState \/ ReportRack
    <2>1. WorkerTypeOK' /\ BackendTypeOK'
      BY <1>2
      DEF RequestFullState, ReportRack, WorkerTypeOK, BackendTypeOK,
          workerVars, backendVars, instances, taintVars
    <2> QED BY <1>2, <2>1, MessageTypes DEF RequestFullState, ReportRack, Command
  <1>3. CASE ScanPlugins
    <2>1. WorkerTypeOK' /\ BackendTypeOK'
      BY <1>3, WorkerAssumption
      DEF ScanPlugins, WorkerTypeOK, BackendTypeOK, backendVars, instances, taintVars
    <2> QED BY <1>3, <2>1, MessageTypes DEF ScanPlugins, Command
  <1>4. CASE \E new \in Settings : SetTransport(new)
    BY <1>4
    DEF SetTransport, Command, WorkerTypeOK, BackendTypeOK, ViewTypeOK,
        backendVars, instances, taintVars, viewVars
  <1>5. CASE \E enabled \in Isolation : SetProcessIsolation(enabled)
    BY <1>5, WorkerAssumption
    DEF SetProcessIsolation, Command, WorkerTypeOK, BackendTypeOK, ViewTypeOK,
        workerVars, instances, taintVars, viewVars
  <1> QED BY <1>1, <1>2, <1>3, <1>4, <1>5 DEF OtherCommand

LEMMA PollType == TypeOK /\ PollBackend => TypeOK'
PROOF
  <1> SUFFICES ASSUME TypeOK, PollBackend PROVE TypeOK'
    OBVIOUS
  <1> USE DEF TypeOK
  <1>1. CASE is_crashed
    <2>1. PICK unload \in Unloads : deactivate_plugin(unload)
      BY <1>1 DEF PollBackend
    <2>2. BackendTypeOK'
      BY <1>1, <2>1, DeactivateType DEF PollBackend
    <2>3. WorkerTypeOK'
      BY <1>1 DEF PollBackend, WorkerTypeOK, workerVars
    <2> QED BY <1>1, <2>2, <2>3, MessageTypes DEF PollBackend
  <1>2. CASE ~is_crashed
    <2>1. param_snapshots' \in Listings
      BY <1>2, GetterTypes DEF PollBackend, WorkerTypeOK
    <2> QED
      BY <1>2, <2>1
      DEF PollBackend, WorkerTypeOK, BackendTypeOK, ViewTypeOK,
          backendVars, instances, taintVars, viewVars
  <1> QED BY <1>1, <1>2

LEMMA CrashType == TypeOK /\ PluginCrashes => TypeOK'
PROOF
  <1> SUFFICES ASSUME TypeOK, PluginCrashes PROVE TypeOK'
    OBVIOUS
  <1>1. \A inst \in Instances : [inst EXCEPT !.crashed = TRUE] \in Instances
    BY DEF Instances
  <1>2. BackendTypeOK'
    BY <1>1 DEF PluginCrashes, TypeOK, BackendTypeOK, is_active, taintVars
  <1> QED
    BY <1>2 DEF PluginCrashes, TypeOK, WorkerTypeOK, ViewTypeOK, workerVars, viewVars

\* A restarted worker is well-typed because the shadow is.
LEMMA RestartType == TypeOK /\ Restart => TypeOK'
PROOF
  <1> SUFFICES ASSUME TypeOK, Restart PROVE TypeOK'
    OBVIOUS
  <1>1. WorkerTypeOK'
    BY DEF Restart, TypeOK, WorkerTypeOK, ViewTypeOK, Listings
  <1>2. BackendTypeOK'
    BY DEF Restart, BackendTypeOK
  <1> QED BY <1>1, <1>2, MessageTypes DEF Restart, TypeOK

LEMMA TypeStep == TypeOK /\ [Next]_vars => TypeOK'
PROOF
  <1> SUFFICES ASSUME TypeOK, [Next]_vars PROVE TypeOK'
    OBVIOUS
  <1>1. CASE UNCHANGED vars
    BY <1>1
    DEF vars, TypeOK, WorkerTypeOK, BackendTypeOK, ViewTypeOK,
        workerVars, backendVars, instances, taintVars, viewVars
  <1>2. CASE Next
    BY <1>2, RackCommandType, PluginCommandType, OtherCommandType, PollType,
       CrashType, RestartType
    DEF Next, WorkerLoop
  <1> QED BY <1>1, <1>2

\* Type correctness: whatever commands, crashes and restarts happen, the rack,
\* the backend, the shadow and the GUI's view hold values of their types; in
\* particular the rack never outgrows its bound and no index that is stored
\* (selected_slot, slot_index) leaves the range of indices.
THEOREM TypeCorrect == Spec => []TypeOK
PROOF
  <1>1. Init => TypeOK
    BY InitTypeOK
  <1>2. TypeOK /\ [Next]_vars => TypeOK'
    BY TypeStep
  <1> QED BY <1>1, <1>2, PTL DEF Spec

-----------------------------------------------------------------------------
(* What a step does to the running plugin *)

\* The step takes the running plugin down.
Stopped == active' = None /\ sandboxed' = None

\* The step starts a plugin, alone, in one of the two ways.
Started ==
  \/ active' = None /\ sandboxed' \in Instances
  \/ active' \in Instances /\ sandboxed' = None /\ active'.plugin \notin tainted_paths

\* The step keeps the running plugin, if any, and where it runs.
Kept ==
  \/ UNCHANGED instances
  \/ /\ sandboxed # None /\ sandboxed' # None /\ UNCHANGED active
     /\ sandboxed'.slot_index = sandboxed.slot_index
  \/ /\ sandboxed = None /\ UNCHANGED sandboxed
     /\ active # None /\ active' # None
     /\ active'.plugin = active.plugin /\ active'.slot_index = active.slot_index

LEMMA RackCommandInstances ==
  ASSUME RackCommand
  PROVE  Stopped \/ UNCHANGED instances
BY DEF RackCommand, AddToRack, RemoveFromRack, ReorderRack, SelectSlot, StageParameter,
       LoadSession, deactivate_plugin, backendVars, Stopped, instances

\* A plugin activated in this process was not tainted when it was checked.
LEMMA ActivationStarts ==
  ASSUME TypeOK, NEW index \in Indices, ActivateSlot(index)
  PROVE  Started
PROOF
  <1> DEFINE inst == Prepared(rack[index], index)
  <1>1. rack[index] \in Slots
    BY StateFacts DEF ActivateSlot
  <1>2. inst \in Instances /\ inst.plugin = rack[index].plugin
    BY <1>1, PreparedType DEF TypeOK, BackendTypeOK
  <1>3. install(inst) /\ ~Refused(rack[index].plugin)
    BY DEF ActivateSlot
  <1> HIDE DEF inst
  <1> QED BY <1>2, <1>3 DEF install, activate_plugin_sandboxed, Refused, Started

\* The commands that change or read the running plugin let it run on.
LEMMA KeepingCommands ==
  ASSUME TypeOK,
         \/ \E param \in Params, value \in Values : SetParameter(param, value)
         \/ \E preset \in Presets : LoadPreset(preset)
         \/ SaveSession
         \/ \E index \in Indices : CapturePluginState(index)
  PROVE  Kept
PROOF
  <1>1. CASE \E param \in Params, value \in Values : SetParameter(param, value)
    <2>1. PICK param \in Params, value \in Values : SetParameter(param, value)
      BY <1>1
    <2> DEFINE change == [x \in {param} |-> value]
    <2>2. change \in Staged
      <3>1. change \in [{param} -> Values] /\ {param} \in SUBSET Params
        OBVIOUS
      <3> QED BY <3>1 DEF Staged
    <2> HIDE DEF change
    <2>3. \A inst \in Instances, isolated \in BOOLEAN :
            /\ WithParameters(inst, isolated, change) \in Instances
            /\ WithParameters(inst, isolated, change).plugin = inst.plugin
            /\ WithParameters(inst, isolated, change).slot_index = inst.slot_index
      BY <2>2, WithParametersType
    <2>4. \/ /\ sandboxed # None
             /\ sandboxed' = WithParameters(sandboxed, TRUE, change)
             /\ UNCHANGED active
          \/ /\ sandboxed = None /\ active # None
             /\ active' = WithParameters(active, FALSE, change)
             /\ UNCHANGED sandboxed
      BY <2>1 DEF SetParameter, change, is_active
    <2> QED BY <2>3, <2>4, StateFacts, NoneAssumption DEF Kept
  <1>2. CASE \E preset \in Presets : LoadPreset(preset)
    <2>1. PICK preset \in Presets : LoadPreset(preset)
      BY <1>2
    <2>2. preset \in Listings
      BY FilesAssumption DEF Listings
    <2>3. \A inst \in Instances :
            /\ WithState(inst, preset) \in Instances
            /\ WithState(inst, preset).plugin = inst.plugin
            /\ WithState(inst, preset).slot_index = inst.slot_index
      BY <2>2, WithStateType
    <2> QED BY <2>1, <2>3, StateFacts, NoneAssumption DEF LoadPreset, Kept, instances
  <1>3. CASE SaveSession \/ \E index \in Indices : CapturePluginState(index)
    BY <1>3 DEF SaveSession, CapturePluginState, backendVars, Kept, instances
  <1> QED BY <1>1, <1>2, <1>3

LEMMA PluginCommandInstances ==
  ASSUME TypeOK, PluginCommand
  PROVE  Stopped \/ Started \/ Kept
PROOF
  <1>1. CASE \E index \in Indices : ActivateSlot(index)
    BY <1>1, ActivationStarts
  <1>2. CASE DeactivateSlot \/ \E index \in Indices : ActivateSlotFails(index)
    BY <1>2 DEF DeactivateSlot, ActivateSlotFails, deactivate_plugin, Stopped
  <1> QED BY <1>1, <1>2, KeepingCommands DEF PluginCommand

LEMMA OtherInstances ==
  ASSUME OtherCommand \/ PollBackend
  PROVE  Stopped \/ UNCHANGED instances
BY DEF OtherCommand, PollBackend, NoCommand, RequestFullState, ReportRack, ScanPlugins,
       SetTransport, SetProcessIsolation, deactivate_plugin, backendVars, Stopped, instances

LEMMA CrashInstances ==
  ASSUME TypeOK, PluginCrashes
  PROVE  Kept
PROOF
  <1>1. \A inst \in Instances : LET dead == [inst EXCEPT !.crashed = TRUE]
                                IN  /\ dead \in Instances
                                    /\ dead.plugin = inst.plugin
                                    /\ dead.slot_index = inst.slot_index
    BY DEF Instances
  <1> QED BY <1>1, StateFacts, NoneAssumption DEF PluginCrashes, is_active, Kept

LEMMA InstanceStep ==
  ASSUME TypeOK, [Next]_vars
  PROVE  Stopped \/ Started \/ Kept
PROOF
  <1>1. CASE UNCHANGED vars
    BY <1>1 DEF vars, backendVars, instances, Kept
  <1>2. CASE RackCommand
    BY <1>2, RackCommandInstances DEF Kept
  <1>3. CASE PluginCommand
    BY <1>3, PluginCommandInstances
  <1>4. CASE OtherCommand \/ PollBackend
    BY <1>4, OtherInstances DEF Kept
  <1>5. CASE PluginCrashes
    BY <1>5, CrashInstances
  <1>6. CASE Restart
    BY <1>6 DEF Restart, Stopped
  <1> QED BY <1>1, <1>2, <1>3, <1>4, <1>5, <1>6 DEF Next, WorkerLoop

\* The in-process and the isolated plugin exclude each other in every reachable
\* state, however activations, isolation switches, crashes, sessions and
\* restarts follow one another: activate_plugin deactivates what runs before
\* it installs, and nothing else installs.
THEOREM OnePlugin == Spec => []OnePluginAtATime
PROOF
  <1>1. Init => OnePluginAtATime
    BY DEF Init, OnePluginAtATime
  <1>2. TypeOK /\ OnePluginAtATime /\ [Next]_vars => OnePluginAtATime'
    BY InstanceStep DEF OnePluginAtATime, Stopped, Started, Kept, instances
  <1> QED BY <1>1, <1>2, TypeCorrect, PTL DEF Spec

\* No step loads a bundle into this process that was already tainted before
\* the step: every way an in-process instance appears goes through the check
\* of activate_plugin.
THEOREM TaintedNotReloaded == Spec => TaintedStaysDown
PROOF
  <1>1. TypeOK /\ [Next]_vars =>
          [\A p \in tainted_paths :
             active' # None /\ active'.plugin = p
               => active # None /\ active.plugin = p]_vars
    BY InstanceStep DEF Stopped, Started, Kept, instances
  <1> QED BY <1>1, TypeCorrect, PTL DEF Spec, TaintedStaysDown

-----------------------------------------------------------------------------
(* What the supervisor knows of the rack *)

\* The step left the shadow with the worker's rack and module list.
RackReported ==
  /\ shadow'.rack = rack'
  /\ shadow'.plugin_modules = plugin_modules'

\* The step changed nothing of the rack but one captured component state.
RackKept ==
  /\ shadow'.rack = shadow.rack
  /\ shadow'.plugin_modules = shadow.plugin_modules
  /\ plugin_modules' = plugin_modules
  /\ \/ rack' = rack
     \/ \E i \in DOMAIN rack, state \in Listings :
          rack' = [rack EXCEPT ![i].component_state = state]

LEMMA MessageReports ==
  ASSUME TypeOK, ShadowRackCurrent,
         \/ RackUpdated /\ UNCHANGED plugin_modules
         \/ FullState
  PROVE  RackReported
PROOF
  <1>1. CASE RackUpdated /\ UNCHANGED plugin_modules
    <2>1. /\ shadow'.rack = rack'
          /\ shadow'.plugin_modules = shadow.plugin_modules
      BY <1>1 DEF RackUpdated, TypeOK, ViewTypeOK
    <2> QED BY <1>1, <2>1 DEF RackReported, ShadowRackCurrent
  <1>2. CASE FullState
    BY <1>2 DEF FullState, RackReported
  <1> QED BY <1>1, <1>2

LEMMA ReportingSteps ==
  ASSUME TypeOK, ShadowRackCurrent, [Next]_vars
  PROVE  RackReported \/ RackKept \/ ScanPlugins
PROOF
  <1>1. CASE UNCHANGED vars
    BY <1>1 DEF vars, workerVars, viewVars, RackKept
  <1>2. CASE RackCommand
    BY <1>2, MessageReports
    DEF RackCommand, AddToRack, RemoveFromRack, ReorderRack, SelectSlot, StageParameter,
        LoadSession, viewVars, RackKept
  <1>3. CASE PluginCommand
    <2>1. get_component_state \in Listings
      BY GetterTypes DEF TypeOK
    <2>2. CASE \E index \in Indices : ActivateSlot(index)
      BY <2>2, MessageReports DEF ActivateSlot
    <2>3. CASE DeactivateSlot
      BY <2>3
      DEF DeactivateSlot, RackReported, ShadowRackCurrent, TypeOK, ViewTypeOK
    <2>4. CASE SaveSession \/ \E index \in Indices : CapturePluginState(index)
      BY <2>1, <2>4 DEF SaveSession, CapturePluginState, viewVars, RackKept
    <2>5. CASE \/ \E index \in Indices : ActivateSlotFails(index)
               \/ \E param \in Params, value \in Values : SetParameter(param, value)
               \/ \E preset \in Presets : LoadPreset(preset)
      BY <2>5
      DEF ActivateSlotFails, SetParameter, LoadPreset, workerVars, viewVars, RackKept
    <2> QED BY <1>3, <2>2, <2>3, <2>4, <2>5 DEF PluginCommand
  <1>4. CASE OtherCommand \/ PollBackend \/ PluginCrashes
    BY <1>4, MessageReports
    DEF OtherCommand, NoCommand, RequestFullState, ReportRack, SetTransport,
        SetProcessIsolation, PollBackend, PluginCrashes, workerVars, viewVars, RackKept
  <1>5. CASE Restart
    BY <1>5, MessageReports DEF Restart
  <1> QED BY <1>1, <1>2, <1>3, <1>4, <1>5 DEF Next, WorkerLoop

LEMMA ShadowStep ==
  ASSUME TypeOK, TypeOK', ShadowRackCurrent, [Next]_vars
  PROVE  ShadowRackCurrent'
PROOF
  <1>0. /\ DOMAIN rack = 1..Len(rack) /\ DOMAIN rack' = 1..Len(rack')
        /\ Len(rack) \in Nat
        /\ \A i \in DOMAIN rack : rack[i] \in Slots
        /\ \A i \in DOMAIN rack' : rack'[i] \in Slots
        /\ DOMAIN shadow.rack = 1..Len(shadow.rack)
        /\ \A i \in DOMAIN shadow.rack : shadow.rack[i] \in Slots
    BY LenProperties, ElementOfSeq DEF TypeOK, WorkerTypeOK, ViewTypeOK
  <1>1. CASE RackReported
    BY <1>0, <1>1 DEF RackReported, ShadowRackCurrent, Slots
  <1>2. CASE RackKept
    <2>1. CASE rack' = rack
      BY <1>2, <2>1 DEF RackKept, ShadowRackCurrent
    <2>2. CASE \E i \in DOMAIN rack, state \in Listings :
                 rack' = [rack EXCEPT ![i].component_state = state]
      <3>1. PICK i \in DOMAIN rack, state \in Listings :
              rack' = [rack EXCEPT ![i].component_state = state]
        BY <2>2
      <3>2. Len(rack') = Len(rack) /\ DOMAIN rack' = DOMAIN rack
        BY <1>0, <3>1, ExceptSeq DEF TypeOK, WorkerTypeOK
      <3>3. ASSUME NEW k \in DOMAIN rack
            PROVE  [shadow.rack[k] EXCEPT !.component_state = rack'[k].component_state]
                     = rack'[k]
        <4>1. /\ shadow.rack[k] \in Slots /\ rack[k] \in Slots
              /\ [shadow.rack[k] EXCEPT !.component_state = rack[k].component_state] = rack[k]
          BY <1>0 DEF ShadowRackCurrent
        <4>2. rack'[k] = IF k = i THEN [rack[k] EXCEPT !.component_state = state] ELSE rack[k]
          BY <3>1
        <4> QED BY <4>1, <4>2 DEF Slots
      <3> QED BY <1>2, <3>2, <3>3 DEF RackKept, ShadowRackCurrent
    <2> QED BY <1>2, <2>1, <2>2 DEF RackKept
  <1>3. CASE ScanPlugins
    <2>1. /\ shadow'.rack = shadow.rack /\ shadow'.plugin_modules = plugin_modules'
          /\ rack' = rack
      BY <1>3 DEF ScanPlugins, PluginModulesUpdated, TypeOK, ViewTypeOK
    <2> QED BY <2>1 DEF ShadowRackCurrent
  <1> QED BY <1>1, <1>2, <1>3, ReportingSteps

\* Losing the worker process never loses the rack: in every reachable state the
\* supervisor's shadow holds each slot with its staged changes and parameter
\* cache, and the module list, as the worker has them.  Only a captured
\* component state may be missing from it.
THEOREM ShadowFitToRestore == Spec => []ShadowRackCurrent
PROOF
  <1>1. Init => ShadowRackCurrent
    BY EmptySeq DEF Init, ShadowRackCurrent
  <1>2. TypeOK /\ TypeOK' /\ ShadowRackCurrent /\ [Next]_vars => ShadowRackCurrent'
    BY ShadowStep
  <1> QED BY <1>1, <1>2, TypeCorrect, PTL DEF Spec

-----------------------------------------------------------------------------
(* What the GUI knows of the running plugin *)

LEMMA MessageTellsActiveSlot ==
  ASSUME TypeOK, RackUpdated \/ FullState
  PROVE  gui'.active_slot = active_slot_index'
BY DEF RackUpdated, FullState, TypeOK, ViewTypeOK

\* A step that keeps the running plugin keeps the slot it runs in.
LEMMA KeptSlot ==
  ASSUME TypeOK, Kept
  PROVE  active_slot_index' = active_slot_index
BY DEF Kept, instances, active_slot_index

\* What happened to the running plugin is told to the GUI in the same step,
\* unless an activation failed.
THEOREM ActiveSlotTold == Spec => ActiveSlotReported
PROOF
  <1> DEFINE Told == \/ gui'.active_slot = active_slot_index'
                     \/ gui'.active_slot = gui.active_slot /\ active_slot_index' = active_slot_index
                     \/ \E index \in Indices : ActivateSlotFails(index)
  <1>1. ASSUME TypeOK, [Next]_vars PROVE Told
    <2>1. CASE UNCHANGED vars
      BY <2>1 DEF vars, backendVars, instances, viewVars, active_slot_index
    <2>2. CASE RackCommand
      BY <1>1, <2>2, MessageTellsActiveSlot
      DEF RackCommand, AddToRack, RemoveFromRack, ReorderRack, SelectSlot, StageParameter,
          LoadSession, backendVars, instances, viewVars, active_slot_index
    <2>3. CASE PluginCommand
      <3>1. CASE \E index \in Indices : ActivateSlot(index)
        BY <1>1, <3>1, MessageTellsActiveSlot DEF ActivateSlot
      <3>2. CASE DeactivateSlot
        BY <3>2 DEF DeactivateSlot
      <3>3. CASE \/ \E param \in Params, value \in Values : SetParameter(param, value)
                 \/ \E preset \in Presets : LoadPreset(preset)
                 \/ SaveSession
                 \/ \E index \in Indices : CapturePluginState(index)
        <4>1. gui' = gui
          BY <3>3 DEF SetParameter, LoadPreset, SaveSession, CapturePluginState, viewVars
        <4>2. Kept
          BY <1>1, <3>3, KeepingCommands
        <4> QED BY <1>1, <4>1, <4>2, KeptSlot
      <3> QED BY <2>3, <3>1, <3>2, <3>3 DEF PluginCommand
    <2>4. CASE OtherCommand \/ PollBackend
      BY <1>1, <2>4, MessageTellsActiveSlot
      DEF OtherCommand, NoCommand, RequestFullState, ReportRack, ScanPlugins,
          PluginModulesUpdated, SetTransport, SetProcessIsolation, PollBackend,
          backendVars, instances, viewVars, active_slot_index
    <2>5. CASE PluginCrashes
      <3>1. gui' = gui
        BY <2>5 DEF PluginCrashes, viewVars
      <3> QED BY <1>1, <2>5, <3>1, CrashInstances, KeptSlot
    <2>6. CASE Restart
      BY <1>1, <2>6, MessageTellsActiveSlot DEF Restart
    <2> QED BY <1>1, <2>1, <2>2, <2>3, <2>4, <2>5, <2>6 DEF Next, WorkerLoop
  <1>2. TypeOK /\ [Next]_vars =>
          [gui.active_slot = active_slot_index /\ gui'.active_slot # active_slot_index'
             => \E index \in Indices : ActivateSlotFails(index)]_vars
    BY <1>1
  <1> QED BY <1>2, TypeCorrect, PTL DEF Spec, ActiveSlotReported

-----------------------------------------------------------------------------
(* Which slot an index means before and after a step *)

\* What RemoveAt leaves at each position.
LEMMA RemoveAtElements ==
  ASSUME NEW S, NEW s \in Seq(S), NEW i \in 1..Len(s), NEW j \in 1..(Len(s) - 1)
  PROVE  RemoveAt(s, i)[j] = IF j < i THEN s[j] ELSE s[j + 1]
PROOF
  <1>1. PICK front, back : front = SubSeq(s, 1, i - 1) /\ back = SubSeq(s, i + 1, Len(s))
    OBVIOUS
  <1>2. Len(s) \in Nat
    OBVIOUS
  <1>3. /\ front \in Seq(S) /\ Len(front) = i - 1
        /\ \A k \in 1..(i - 1) : front[k] = s[k]
    BY <1>1, <1>2
  <1>4. /\ back \in Seq(S) /\ Len(back) = Len(s) - i
        /\ \A k \in 1..(Len(s) - i) : back[k] = s[k + i]
    BY <1>1, <1>2
  <1>5. RemoveAt(s, i) = front \o back
    BY <1>1 DEF RemoveAt
  <1>6. j < i => (front \o back)[j] = front[j]
    BY <1>2, <1>3, <1>4
  <1>7. ~(j < i) => (front \o back)[j] = back[j - (i - 1)]
    BY <1>2, <1>3, <1>4
  <1>8. ~(j < i) => j - (i - 1) \in 1..(Len(s) - i) /\ (j - (i - 1)) + i = j + 1
    BY <1>2
  <1> QED BY <1>3, <1>4, <1>5, <1>6, <1>7, <1>8

\* What InsertAt puts at each position.
LEMMA InsertAtElements ==
  ASSUME NEW S, NEW s \in Seq(S), NEW i \in 1..(Len(s) + 1), NEW e \in S,
         NEW j \in 1..(Len(s) + 1)
  PROVE  InsertAt(s, i, e)[j] = IF j < i THEN s[j] ELSE IF j = i THEN e ELSE s[j - 1]
PROOF
  <1>1. PICK front, back : front = SubSeq(s, 1, i - 1) /\ back = SubSeq(s, i, Len(s))
    OBVIOUS
  <1>2. Len(s) \in Nat
    OBVIOUS
  <1>3. /\ front \in Seq(S) /\ Len(front) = i - 1
        /\ \A k \in 1..(i - 1) : front[k] = s[k]
    BY <1>1, <1>2
  <1>4. /\ back \in Seq(S) /\ Len(back) = Len(s) - i + 1
        /\ \A k \in 1..(Len(s) - i + 1) : back[k] = s[k + i - 1]
    BY <1>1, <1>2
  <1>5. PICK begin : begin = front \o <<e>>
    OBVIOUS
  <1>6. /\ begin \in Seq(S) /\ Len(begin) = i
        /\ \A k \in 1..(i - 1) : begin[k] = s[k]
        /\ begin[i] = e
    BY <1>3, <1>5
  <1>7. InsertAt(s, i, e) = begin \o back
    BY <1>1, <1>5 DEF InsertAt
  <1>8. ~(j > i) => (begin \o back)[j] = begin[j]
    BY <1>2, <1>4, <1>6
  <1>9. j > i => (begin \o back)[j] = back[j - i]
    BY <1>2, <1>4, <1>6
  <1>10. j > i => j - i \in 1..(Len(s) - i + 1) /\ (j - i) + i - 1 = j - 1
    BY <1>2
  <1>11. ~(j > i) => j = i \/ (j < i /\ j \in 1..(i - 1))
    BY <1>2
  <1> QED BY <1>4, <1>6, <1>7, <1>8, <1>9, <1>10, <1>11

\* No two slots have the same identity.
Distinct(slots) == \A i, j \in DOMAIN slots : slots[i].id = slots[j].id => i = j

\* The slots of r are slots of s, each at most once.
Selection(r, s, f) ==
  /\ \A j \in DOMAIN r : f[j] \in DOMAIN s /\ r[j] = s[f[j]]
  /\ \A j, k \in DOMAIN r : f[j] = f[k] => j = k

\* A selection of distinct slots has distinct slots.
LEMMA SelectionDistinct ==
  ASSUME NEW r, NEW s, NEW f, Selection(r, s, f), Distinct(s)
  PROVE  Distinct(r)
BY DEF Selection, Distinct

\* RemoveFromRack: the slots behind the index move up by one.
BeforeRemoval(n, index) == [j \in 1..(n - 1) |-> IF j < index THEN j ELSE j + 1]

\* Removing an index selects the other slots.
LEMMA RemovalSelects ==
  ASSUME NEW s \in Seq(Slots), NEW index \in 1..Len(s)
  PROVE  /\ DOMAIN RemoveAt(s, index) = 1..(Len(s) - 1)
         /\ Selection(RemoveAt(s, index), s, BeforeRemoval(Len(s), index))
PROOF
  <1>1. PICK r : r = RemoveAt(s, index)
    OBVIOUS
  <1>2. Len(s) \in Nat /\ DOMAIN s = 1..Len(s)
    OBVIOUS
  <1>3. r \in Seq(Slots) /\ Len(r) = Len(s) - 1
    BY <1>1, RemoveAtSeq
  <1>4. DOMAIN r = 1..(Len(s) - 1)
    BY <1>3
  <1>5. \A j \in 1..(Len(s) - 1) : r[j] = IF j < index THEN s[j] ELSE s[j + 1]
    BY <1>1, RemoveAtElements
  <1>6. Selection(r, s, BeforeRemoval(Len(s), index))
    BY <1>2, <1>4, <1>5 DEF Selection, BeforeRemoval
  <1> QED BY <1>1, <1>4, <1>6

\* ReorderRack: one slot moves, those between move by one.
BeforeMove(n, from, to) ==
  [j \in 1..n |-> IF j = to THEN from
                  ELSE LET k == IF j < to THEN j ELSE j - 1
                       IN  IF k < from THEN k ELSE k + 1]

\* Moving a slot selects every slot once.
LEMMA MoveSelects ==
  ASSUME NEW s \in Seq(Slots), NEW from \in 1..Len(s), NEW to \in 1..Len(s)
  PROVE  LET r == InsertAt(RemoveAt(s, from), to, s[from])
         IN  /\ DOMAIN r = 1..Len(s)
             /\ Selection(r, s, BeforeMove(Len(s), from, to))
PROOF
  <1>1. PICK m : m = RemoveAt(s, from)
    OBVIOUS
  <1>2. PICK r : r = InsertAt(m, to, s[from])
    OBVIOUS
  <1>3. Len(s) \in Nat /\ DOMAIN s = 1..Len(s) /\ s[from] \in Slots
    BY ElementOfSeq
  <1>4. m \in Seq(Slots) /\ Len(m) = Len(s) - 1
    BY <1>1, RemoveAtSeq
  <1>5. to \in 1..(Len(m) + 1) /\ Len(m) + 1 = Len(s)
    BY <1>3, <1>4
  <1>6. r \in Seq(Slots) /\ Len(r) = Len(s)
    BY <1>2, <1>3, <1>4, <1>5, InsertAtSeq
  <1>7. DOMAIN r = 1..Len(s)
    BY <1>6
  <1>8. \A j \in 1..(Len(s) - 1) : m[j] = IF j < from THEN s[j] ELSE s[j + 1]
    BY <1>1, RemoveAtElements
  <1>9. \A j \in 1..(Len(m) + 1) : r[j] = IF j < to THEN m[j] ELSE IF j = to THEN s[from] ELSE m[j - 1]
    BY <1>2, <1>3, <1>4, <1>5, InsertAtElements
  <1>10. ASSUME NEW j \in 1..Len(s)
         PROVE  /\ BeforeMove(Len(s), from, to)[j] \in 1..Len(s)
                /\ r[j] = s[BeforeMove(Len(s), from, to)[j]]
    <2>1. CASE j = to
      BY <1>3, <1>5, <1>9, <2>1 DEF BeforeMove
    <2>2. CASE j < to
      <3>1. j \in 1..(Len(s) - 1) /\ r[j] = m[j]
        BY <1>3, <1>5, <1>9, <2>2
      <3> QED BY <1>3, <1>8, <2>2, <3>1 DEF BeforeMove
    <2>3. CASE j > to
      <3>1. PICK k \in 1..(Len(s) - 1) : k = j - 1
        BY <1>3, <2>3
      <3>2. r[j] = m[k]
        BY <1>3, <1>5, <1>9, <2>3, <3>1
      <3> QED BY <1>3, <1>8, <2>3, <3>1, <3>2 DEF BeforeMove
    <2> QED BY <2>1, <2>2, <2>3
  <1>11. \A j, k \in 1..Len(s) :
           BeforeMove(Len(s), from, to)[j] = BeforeMove(Len(s), from, to)[k] => j = k
    BY <1>3 DEF BeforeMove
  <1>12. Selection(r, s, BeforeMove(Len(s), from, to))
    BY <1>3, <1>7, <1>10, <1>11 DEF Selection
  <1> QED BY <1>1, <1>2, <1>7, <1>12

\* What a step other than an activation does to the rack: a slot that was there
\* keeps its identity and its staged changes, or more of them.
Carried(r, s) ==
  \A j \in DOMAIN r, i \in DOMAIN s :
    r[j].id = s[i].id => DOMAIN s[i].staged_changes \subseteq DOMAIN r[j].staged_changes

\* A selection keeps each slot's staged changes with the slot.
LEMMA SelectionCarried ==
  ASSUME NEW r, NEW s, NEW f, Selection(r, s, f), Distinct(s)
  PROVE  Carried(r, s)
PROOF
  <1> SUFFICES ASSUME NEW j \in DOMAIN r, NEW i \in DOMAIN s, r[j].id = s[i].id
               PROVE  DOMAIN s[i].staged_changes \subseteq DOMAIN r[j].staged_changes
    BY DEF Carried
  <1>1. f[j] \in DOMAIN s /\ r[j] = s[f[j]]
    BY DEF Selection
  <1>2. f[j] = i
    BY <1>1 DEF Distinct
  <1> QED BY <1>1, <1>2

\* The same slots in the same places, with at least their staged changes.
Alike(r, s) ==
  /\ DOMAIN r = DOMAIN s
  /\ \A i \in DOMAIN s :
       r[i].id = s[i].id /\ DOMAIN s[i].staged_changes \subseteq DOMAIN r[i].staged_changes

\* So do slots that stay where they are.
LEMMA AlikeCarried ==
  ASSUME NEW r, NEW s, Alike(r, s), Distinct(s)
  PROVE  Distinct(r) /\ Carried(r, s)
BY DEF Alike, Distinct, Carried

\* AddToRack: a new slot takes nothing from the others.
LEMMA AddedSlot ==
  ASSUME NEW s \in Seq(Slots), NEW slot \in Slots, Distinct(s),
         \A i \in DOMAIN s : s[i].id # slot.id
  PROVE  Distinct(Append(s, slot)) /\ Carried(Append(s, slot), s)
PROOF
  <1>1. PICK r : r = Append(s, slot)
    OBVIOUS
  <1>2. /\ Len(s) \in Nat /\ DOMAIN s = 1..Len(s) /\ DOMAIN r = 1..(Len(s) + 1)
        /\ r[Len(s) + 1] = slot /\ \A i \in 1..Len(s) : r[i] = s[i]
    BY <1>1
  <1>3. \A j \in DOMAIN r : j \in DOMAIN s \/ j = Len(s) + 1
    BY <1>2
  <1>4. Distinct(r)
    BY <1>2, <1>3 DEF Distinct
  <1>5. Carried(r, s)
    <2> SUFFICES ASSUME NEW j \in DOMAIN r, NEW i \in DOMAIN s, r[j].id = s[i].id
                 PROVE  DOMAIN s[i].staged_changes \subseteq DOMAIN r[j].staged_changes
      BY DEF Carried
    <2>1. j \in DOMAIN s /\ r[j] = s[j]
      BY <1>2, <1>3
    <2> QED BY <2>1 DEF Distinct
  <1> QED BY <1>1, <1>4, <1>5

\* The rack after each command that changes it.
LEMMA RackCommandRack ==
  ASSUME TypeOK, Distinct(rack), RackCommand
  PROVE  Distinct(rack') /\ Carried(rack', rack)
PROOF
  <1>1. /\ rack \in Seq(Slots) /\ Len(rack) \in Nat /\ DOMAIN rack = 1..Len(rack)
        /\ \A i \in DOMAIN rack : rack[i] \in Slots /\ i \in Indices
    BY StateFacts DEF TypeOK, WorkerTypeOK
  <1>2. CASE AddToRack
    <2>1. PICK plugin \in plugin_modules, id \in FreshIds :
            rack' = Append(rack, NewSlot(id, plugin, None))
      BY <1>2 DEF AddToRack
    <2>2. NewSlot(id, plugin, None) \in Slots /\ NewSlot(id, plugin, None).id = id
      BY NewSlotType DEF FreshIds, TypeOK, WorkerTypeOK, Listings, NewSlot
    <2>3. \A i \in DOMAIN rack : rack[i].id # id
      BY DEF FreshIds
    <2> QED BY <1>1, <2>1, <2>2, <2>3, AddedSlot
  <1>3. CASE \E index \in Indices : RemoveFromRack(index)
    <2>1. PICK index \in DOMAIN rack : rack' = RemoveAt(rack, index)
      BY <1>3 DEF RemoveFromRack
    <2>2. Selection(rack', rack, BeforeRemoval(Len(rack), index))
      BY <1>1, <2>1, RemovalSelects
    <2> QED BY <2>2, SelectionDistinct, SelectionCarried
  <1>4. CASE \E from, to \in 1..(MaxSlots + 1) : ReorderRack(from, to)
    <2>1. PICK from \in DOMAIN rack, to \in 1..(Len(rack) + 1) :
            rack' = InsertAt(RemoveAt(rack, from),
                             IF to = Len(rack) + 1 THEN Len(rack) ELSE to, rack[from])
      BY <1>4 DEF ReorderRack
    <2>2. PICK clamped \in 1..Len(rack) :
            clamped = IF to = Len(rack) + 1 THEN Len(rack) ELSE to
      <3>1. from \in 1..Len(rack) /\ Len(rack) >= 1
        BY <1>1
      <3>2. CASE to = Len(rack) + 1
        <4>1. Len(rack) \in 1..Len(rack)
          BY <1>1, <3>1
        <4> QED BY <3>2, <4>1
      <3>3. CASE to # Len(rack) + 1
        <4>1. to \in 1..Len(rack)
          BY <1>1, <3>3
        <4> QED BY <3>3, <4>1
      <3> QED BY <3>2, <3>3
    <2>3. Selection(rack', rack, BeforeMove(Len(rack), from, clamped))
      BY <1>1, <2>1, <2>2, MoveSelects
    <2> QED BY <2>3, SelectionDistinct, SelectionCarried
  <1>5. CASE \E index \in Indices \cup {None} : SelectSlot(index)
    <2>1. rack' = rack
      BY <1>5 DEF SelectSlot
    <2> QED BY <2>1, AlikeCarried DEF Alike
  <1>6. CASE \E index \in Indices, param \in Params, value \in Values :
               StageParameter(index, param, value)
    <2>1. PICK index \in Indices, param \in Params, value \in Values :
            StageParameter(index, param, value)
      BY <1>6
    <2> DEFINE staged == rack[index].staged_changes
               cache  == rack[index].param_cache
               staged2 == [x \in DOMAIN staged \cup {param} |->
                             IF x = param THEN value ELSE staged[x]]
               cache2 == IF cache = None THEN None ELSE [cache EXCEPT !.val[param] = value]
    <2>2. rack[index] \in Slots /\ index \in DOMAIN rack
      BY <1>1, <2>1 DEF StageParameter
    <2>3. rack' = [rack EXCEPT ![index] =
                     [rack[index] EXCEPT !.staged_changes = staged2, !.param_cache = cache2]]
      BY <2>1, <2>2 DEF StageParameter, Slots
    <2>4. DOMAIN staged \subseteq DOMAIN staged2
      OBVIOUS
    <2> HIDE DEF staged2, cache2
    <2>5. Alike(rack', rack)
      BY <1>1, <2>2, <2>3, <2>4 DEF Alike, Slots
    <2> QED BY <2>5, AlikeCarried
  <1>7. CASE \E session \in Sessions : LoadSession(session)
    <2>1. PICK session \in Sessions : LoadSession(session)
      BY <1>7
    <2>2. PICK ids \in Injection(DOMAIN session, FreshIds) :
            rack' = [i \in DOMAIN session |->
                       NewSlot(ids[i], session[i].plugin, session[i].component_state)]
      BY <2>1 DEF LoadSession
    <2>3. /\ \A i \in DOMAIN session : ids[i] \in FreshIds
          /\ \A i, j \in DOMAIN session : ids[i] = ids[j] => i = j
      BY <2>2 DEF Injection, IsInjective
    <2>4. DOMAIN rack' = DOMAIN session /\ \A i \in DOMAIN rack' : rack'[i].id = ids[i]
      BY <2>2 DEF NewSlot
    <2>5. Distinct(rack')
      BY <2>3, <2>4 DEF Distinct
    <2>6. \A j \in DOMAIN rack', i \in DOMAIN rack : rack'[j].id # rack[i].id
      BY <2>3, <2>4 DEF FreshIds
    <2> QED BY <2>5, <2>6 DEF Carried
  <1> QED BY <1>2, <1>3, <1>4, <1>5, <1>6, <1>7 DEF RackCommand

\* The rack after an activation: the slot's staged changes are gone.
LEMMA ActivationRack ==
  ASSUME TypeOK, NEW index \in Indices, ActivateSlot(index)
  PROVE  /\ index \in DOMAIN rack /\ DOMAIN rack' = DOMAIN rack
         /\ \A i \in DOMAIN rack : rack'[i].id = rack[i].id
         /\ \A i \in DOMAIN rack \ {index} : rack'[i] = rack[i]
PROOF
  <1> DEFINE listing == Listing(Prepared(rack[index], index).plugin, Prepared(rack[index], index).shown)
  <1>1. index \in DOMAIN rack /\ rack[index] \in Slots
    BY StateFacts DEF ActivateSlot
  <1>2. rack' = [rack EXCEPT ![index] =
                   [rack[index] EXCEPT !.staged_changes = NoStaged, !.param_cache = listing]]
    BY <1>1 DEF ActivateSlot, Slots
  <1> HIDE DEF listing
  <1>3. [rack[index] EXCEPT !.staged_changes = NoStaged, !.param_cache = listing].id = rack[index].id
    BY <1>1 DEF Slots
  <1> QED BY <1>1, <1>2, <1>3

\* Every step but an activation carries the staged changes along.
LEMMA RackStep ==
  ASSUME TypeOK, ShadowRackCurrent, Distinct(rack), [Next]_vars
  PROVE  /\ Distinct(rack')
         /\ Carried(rack', rack) \/ \E index \in Indices : ActivateSlot(index)
PROOF
  <1>1. /\ rack \in Seq(Slots) /\ Len(rack) \in Nat /\ DOMAIN rack = 1..Len(rack)
        /\ \A i \in DOMAIN rack : rack[i] \in Slots /\ i \in Indices
    BY StateFacts DEF TypeOK, WorkerTypeOK
  <1>2. CASE rack' = rack
    BY <1>2, AlikeCarried DEF Alike
  <1>3. CASE RackCommand
    BY <1>3, RackCommandRack
  <1>4. CASE PluginCommand
    <2>1. CASE \E index \in Indices : ActivateSlot(index)
      <3>1. PICK index \in Indices : ActivateSlot(index)
        BY <2>1
      <3> QED BY <2>1, <3>1, ActivationRack DEF Distinct
    <2>2. CASE DeactivateSlot
      <3>1. CASE active_slot_index \in DOMAIN rack
        <4>1. PICK index \in DOMAIN rack :
                rack' = [rack EXCEPT ![index].param_cache = param_snapshots]
          BY <2>2, <3>1 DEF DeactivateSlot
        <4>2. Alike(rack', rack)
          BY <1>1, <4>1 DEF Alike, Slots
        <4> QED BY <4>2, AlikeCarried
      <3>2. CASE active_slot_index \notin DOMAIN rack
        BY <1>2, <2>2, <3>2 DEF DeactivateSlot
      <3> QED BY <3>1, <3>2
    <2>3. CASE SaveSession \/ \E index \in Indices : CapturePluginState(index)
      <3>1. PICK index \in DOMAIN rack :
              rack' = [rack EXCEPT ![index] = [rack[index] EXCEPT !.component_state = get_component_state]]
        BY <2>3 DEF SaveSession, CapturePluginState
      <3>2. Alike(rack', rack)
        BY <1>1, <3>1 DEF Alike, Slots
      <3> QED BY <3>2, AlikeCarried
    <2>4. CASE \/ \E index \in Indices : ActivateSlotFails(index)
               \/ \E param \in Params, value \in Values : SetParameter(param, value)
               \/ \E preset \in Presets : LoadPreset(preset)
      BY <1>2, <2>4 DEF ActivateSlotFails, SetParameter, LoadPreset, workerVars
    <2> QED BY <1>4, <2>1, <2>2, <2>3, <2>4 DEF PluginCommand
  <1>5. CASE OtherCommand \/ PollBackend \/ PluginCrashes \/ UNCHANGED vars
    BY <1>2, <1>5
    DEF OtherCommand, NoCommand, RequestFullState, ReportRack, ScanPlugins, SetTransport,
        SetProcessIsolation, PollBackend, PluginCrashes, vars, workerVars
  <1>6. CASE Restart
    <2>1. /\ shadow.rack \in Seq(Slots) /\ Len(shadow.rack) = Len(rack)
          /\ DOMAIN shadow.rack = 1..Len(shadow.rack)
          /\ \A i \in DOMAIN shadow.rack : shadow.rack[i] \in Slots
      BY LenProperties, ElementOfSeq DEF TypeOK, ViewTypeOK, ShadowRackCurrent
    <2>2. \A i \in DOMAIN rack :
            /\ shadow.rack[i].id = rack[i].id
            /\ shadow.rack[i].staged_changes = rack[i].staged_changes
      BY <1>1, <2>1 DEF ShadowRackCurrent, Slots
    <2>3. Alike(rack', rack)
      BY <1>1, <1>6, <2>1, <2>2 DEF Restart, Alike
    <2> QED BY <2>3, AlikeCarried
  <1> QED BY <1>3, <1>4, <1>5, <1>6 DEF Next, WorkerLoop

-----------------------------------------------------------------------------
(* The selection and the staged changes *)

\* No two slots of the rack are the same slot, over all commands and restarts.
RackDistinct == Distinct(rack)

\* Every command that adds slots makes new ones, and none is ever doubled.
LEMMA SlotsDistinct == Spec => []RackDistinct
PROOF
  <1>1. Init => RackDistinct
    BY EmptySeq DEF Init, Distinct, RackDistinct
  <1>2. TypeOK /\ ShadowRackCurrent /\ RackDistinct /\ [Next]_vars => RackDistinct'
    BY RackStep DEF RackDistinct
  <1> QED BY <1>1, <1>2, TypeCorrect, ShadowFitToRestore, PTL DEF Spec

\* The two commands that may take a slot out of the rack.
ShrinkingCommand ==
  \/ \E index \in Indices : RemoveFromRack(index)
  \/ \E session \in Sessions : LoadSession(session)

\* No other step makes the rack shorter.
LEMMA ShrinkingSteps ==
  ASSUME TypeOK, ShadowRackCurrent, [Next]_vars, ~ShrinkingCommand
  PROVE  DOMAIN rack \subseteq DOMAIN rack'
PROOF
  <1>1. /\ rack \in Seq(Slots) /\ Len(rack) \in Nat /\ DOMAIN rack = 1..Len(rack)
        /\ \A i \in DOMAIN rack : rack[i] \in Slots /\ i \in Indices
    BY StateFacts DEF TypeOK, WorkerTypeOK
  <1>2. CASE rack' = rack
    BY <1>2
  <1>3. CASE AddToRack
    <2>1. PICK slot : rack' = Append(rack, slot)
      BY <1>3 DEF AddToRack
    <2>2. DOMAIN rack' = 1..(Len(rack) + 1)
      BY <1>1, <2>1
    <2> QED BY <1>1, <2>2
  <1>4. CASE \E from, to \in 1..(MaxSlots + 1) : ReorderRack(from, to)
    <2>1. PICK from \in DOMAIN rack, to \in 1..(Len(rack) + 1) :
            rack' = InsertAt(RemoveAt(rack, from),
                             IF to = Len(rack) + 1 THEN Len(rack) ELSE to, rack[from])
      BY <1>4 DEF ReorderRack
    <2>2. PICK clamped \in 1..Len(rack) :
            clamped = IF to = Len(rack) + 1 THEN Len(rack) ELSE to
      <3>1. from \in 1..Len(rack) /\ Len(rack) >= 1
        BY <1>1
      <3>2. CASE to = Len(rack) + 1
        <4>1. Len(rack) \in 1..Len(rack)
          BY <1>1, <3>1
        <4> QED BY <3>2, <4>1
      <3>3. CASE to # Len(rack) + 1
        <4>1. to \in 1..Len(rack)
          BY <1>1, <3>3
        <4> QED BY <3>3, <4>1
      <3> QED BY <3>2, <3>3
    <2> QED BY <1>1, <2>1, <2>2, MoveSelects
  <1>5. CASE \E index \in Indices, param \in Params, value \in Values :
               StageParameter(index, param, value)
    BY <1>5 DEF StageParameter
  <1>6. CASE PluginCommand
    BY <1>2, <1>6
    DEF PluginCommand, ActivateSlot, ActivateSlotFails, DeactivateSlot, SetParameter, LoadPreset,
        SaveSession, CapturePluginState, workerVars
  <1>7. CASE Restart
    <2>1. shadow.rack \in Seq(Slots) /\ Len(shadow.rack) = Len(rack)
      BY DEF TypeOK, ViewTypeOK, ShadowRackCurrent
    <2>2. DOMAIN shadow.rack = 1..Len(rack)
      BY <2>1, LenProperties
    <2> QED BY <1>1, <1>7, <2>2 DEF Restart
  <1>8. CASE \/ \E index \in Indices \cup {None} : SelectSlot(index)
             \/ OtherCommand \/ PollBackend \/ PluginCrashes \/ UNCHANGED vars
    BY <1>2, <1>8
    DEF SelectSlot, OtherCommand, NoCommand, RequestFullState, ReportRack, ScanPlugins,
        SetTransport, SetProcessIsolation, PollBackend, PluginCrashes, vars, workerVars
  <1> QED BY <1>3, <1>4, <1>5, <1>6, <1>7, <1>8 DEF ShrinkingCommand, Next, WorkerLoop, RackCommand

\* Where the selected slot is after RemoveFromRack.
LEMMA RemovalSelection ==
  ASSUME TypeOK, Distinct(rack), NEW index \in Indices, RemoveFromRack(index),
         selected_slot \in DOMAIN rack
  PROVE  \/ SlotAt(rack', rack[selected_slot].id) = {} /\ selected_slot' = None
         \/ SlotAt(rack', rack[selected_slot].id) = {selected_slot'}
PROOF
  <1> DEFINE f == BeforeRemoval(Len(rack), index)
  <1>1. /\ rack \in Seq(Slots) /\ Len(rack) \in Nat /\ DOMAIN rack = 1..Len(rack)
        /\ \A i \in DOMAIN rack : i \in Indices
    BY StateFacts DEF TypeOK, WorkerTypeOK
  <1>2. /\ index \in 1..Len(rack) /\ rack' = RemoveAt(rack, index)
        /\ selected_slot' = SelectionAfterRemove(index)
    BY <1>1 DEF RemoveFromRack
  <1>3. DOMAIN rack' = 1..(Len(rack) - 1) /\ Selection(rack', rack, f)
    BY <1>1, <1>2, RemovalSelects
  <1>4. PICK s \in 1..Len(rack) : s = selected_slot
    BY <1>1
  <1>5. s # None
    BY <1>1, <1>4, NoneAssumption
  <1>6. \A j \in DOMAIN rack' : rack'[j].id = rack[s].id <=> f[j] = s
    BY <1>1, <1>3, <1>4 DEF Selection, Distinct
  <1>7. \A j \in 1..(Len(rack) - 1) : f[j] = IF j < index THEN j ELSE j + 1
    BY DEF BeforeRemoval
  <1> HIDE DEF f
  <1>8. CASE s = index
    <2>1. \A j \in DOMAIN rack' : f[j] # s
      BY <1>1, <1>2, <1>3, <1>7, <1>8
    <2>2. SlotAt(rack', rack[selected_slot].id) = {}
      BY <1>4, <1>6, <2>1 DEF SlotAt
    <2>3. selected_slot' = None
      BY <1>2, <1>4, <1>8 DEF SelectionAfterRemove
    <2> QED BY <2>2, <2>3
  <1>9. CASE s > index
    <2>1. PICK k \in 1..(Len(rack) - 1) : k = s - 1
      BY <1>1, <1>2, <1>9
    <2>2. \A j \in DOMAIN rack' : f[j] = s <=> j = k
      BY <1>1, <1>2, <1>3, <1>7, <1>9, <2>1
    <2>3. SlotAt(rack', rack[selected_slot].id) = {k}
      BY <1>3, <1>4, <1>6, <2>1, <2>2 DEF SlotAt
    <2>4. selected_slot' = k
      BY <1>1, <1>2, <1>4, <1>5, <1>9, <2>1 DEF SelectionAfterRemove
    <2> QED BY <2>3, <2>4
  <1>10. CASE s < index
    <2>1. s \in 1..(Len(rack) - 1)
      BY <1>1, <1>2, <1>10
    <2>2. \A j \in DOMAIN rack' : f[j] = s <=> j = s
      BY <1>1, <1>2, <1>3, <1>7, <1>10
    <2>3. SlotAt(rack', rack[selected_slot].id) = {s}
      BY <1>3, <1>4, <1>6, <2>1, <2>2 DEF SlotAt
    <2>4. selected_slot' = s
      BY <1>1, <1>2, <1>4, <1>5, <1>10 DEF SelectionAfterRemove
    <2> QED BY <2>3, <2>4
  <1> QED BY <1>1, <1>2, <1>8, <1>9, <1>10

\* Where the selected slot is after LoadSession: nowhere, and nothing is selected.
LEMMA LoadingSelection ==
  ASSUME NEW session \in Sessions, LoadSession(session), selected_slot \in DOMAIN rack
  PROVE  SlotAt(rack', rack[selected_slot].id) = {} /\ selected_slot' = None
PROOF
  <1>1. PICK ids \in Injection(DOMAIN session, FreshIds) :
          rack' = [i \in DOMAIN session |->
                     NewSlot(ids[i], session[i].plugin, session[i].component_state)]
    BY DEF LoadSession
  <1>2. \A i \in DOMAIN session : ids[i] \in FreshIds
    BY <1>1 DEF Injection
  <1>3. \A i \in DOMAIN rack' : rack'[i].id \in FreshIds
    BY <1>1, <1>2 DEF NewSlot
  <1>4. rack[selected_slot].id \notin FreshIds
    BY DEF FreshIds
  <1> QED BY <1>3, <1>4 DEF SlotAt, LoadSession

\* The selection never lands on another slot than the user chose when slots go:
\* RemoveFromRack shifts it with its slot and clears it with its slot, however
\* stale the index it was sent with, and LoadSession clears it.
THEOREM SelectionKept == Spec => SelectionFollowsRemoval
PROOF
  <1> DEFINE A == Len(rack') < Len(rack) /\ selected_slot \in DOMAIN rack
                    => IF SlotAt(rack', rack[selected_slot].id) = {}
                       THEN selected_slot' = None
                       ELSE SlotAt(rack', rack[selected_slot].id) = {selected_slot'}
  <1>1. ASSUME TypeOK, TypeOK', ShadowRackCurrent, Distinct(rack), [Next]_vars
        PROVE  A
    <2> SUFFICES ASSUME Len(rack') < Len(rack), selected_slot \in DOMAIN rack
                 PROVE  \/ SlotAt(rack', rack[selected_slot].id) = {} /\ selected_slot' = None
                        \/ SlotAt(rack', rack[selected_slot].id) = {selected_slot'}
      OBVIOUS
    <2>1. /\ DOMAIN rack = 1..Len(rack) /\ DOMAIN rack' = 1..Len(rack')
          /\ Len(rack) \in Nat /\ Len(rack') \in Nat
      BY <1>1, LenProperties DEF TypeOK, WorkerTypeOK
    <2>2. ~(DOMAIN rack \subseteq DOMAIN rack')
      <3>1. Len(rack) \in DOMAIN rack /\ Len(rack) \notin DOMAIN rack'
        BY <2>1
      <3> QED BY <3>1
    <2>3. ShrinkingCommand
      BY <1>1, <2>2, ShrinkingSteps
    <2>4. CASE \E index \in Indices : RemoveFromRack(index)
      BY <1>1, <2>4, RemovalSelection
    <2>5. CASE \E session \in Sessions : LoadSession(session)
      BY <2>5, LoadingSelection
    <2> QED BY <2>3, <2>4, <2>5 DEF ShrinkingCommand
  <1>2. TypeOK /\ TypeOK' /\ ShadowRackCurrent /\ RackDistinct /\ [Next]_vars => [A]_vars
    BY <1>1 DEF RackDistinct
  <1> QED BY <1>2, TypeCorrect, ShadowFitToRestore, SlotsDistinct, PTL
          DEF Spec, SelectionFollowsRemoval

\* A prepared instance is the slot's own and computes with its staged changes,
\* whatever the slot's captured state says of those parameters.
LEMMA PreparedComputes ==
  ASSUME NEW slot \in Slots, NEW index \in Indices, process_isolation \in BOOLEAN
  PROVE  /\ Prepared(slot, index).id = slot.id
         /\ \A p \in DOMAIN slot.staged_changes :
              Prepared(slot, index).live[p] = slot.staged_changes[p]
PROOF
  <1> DEFINE inst == WithState(Fresh(slot, index), slot.component_state)
             Over(val) == [p \in Params |-> IF p \in DOMAIN slot.staged_changes
                                            THEN slot.staged_changes[p] ELSE val[p]]
  <1>1. Fresh(slot, index) \in Instances /\ Fresh(slot, index).id = slot.id
    BY DefaultsType DEF Fresh, Instances, Slots
  <1>2. slot.component_state \in Listings /\ slot.staged_changes \in Staged
    BY DEF Slots
  <1>3. inst \in Instances
    BY <1>1, <1>2, WithStateType
  <1>4. inst.id = slot.id
    BY <1>1 DEF WithState, Instances
  <1>5. DOMAIN slot.staged_changes \subseteq Params
    BY <1>2 DEF Staged
  <1>6. Prepared(slot, index)
          = [inst EXCEPT !.live = Over(inst.live),
                         !.shown = IF process_isolation THEN @ ELSE Over(inst.shown)]
    BY DEF Prepared, WithParameters
  <1>7. \A p \in DOMAIN slot.staged_changes : Over(inst.live)[p] = slot.staged_changes[p]
    BY <1>5
  <1> HIDE DEF inst, Over
  <1>8. Prepared(slot, index).id = inst.id /\ Prepared(slot, index).live = Over(inst.live)
    BY <1>3, <1>6 DEF Instances
  <1> QED BY <1>4, <1>7, <1>8

\* What the user staged on an inactive slot reaches the plugin: no sequence of
\* commands, crashes and restarts drops a staged change while its slot exists;
\* only the slot's own activation takes it, and the instance that then runs
\* computes with it.
THEOREM StagedChangesArrive == Spec => StagedChangesReachThePlugin
PROOF
  <1> DEFINE A == \A i \in DOMAIN rack : \A j \in SlotAt(rack', rack[i].id) :
                    \A p \in DOMAIN rack[i].staged_changes \ DOMAIN rack'[j].staged_changes :
                      /\ is_active'
                      /\ Instance'.id = rack[i].id
                      /\ Instance'.live[p] = rack[i].staged_changes[p]
  <1>1. ASSUME TypeOK, ShadowRackCurrent, Distinct(rack), [Next]_vars
        PROVE  A
    <2>1. CASE Carried(rack', rack)
      BY <2>1 DEF Carried, SlotAt
    <2>2. CASE \E index \in Indices : ActivateSlot(index)
      <3>1. PICK index \in Indices : ActivateSlot(index)
        BY <2>2
      <3>2. /\ index \in DOMAIN rack /\ DOMAIN rack' = DOMAIN rack
            /\ \A i \in DOMAIN rack : rack'[i].id = rack[i].id
            /\ \A i \in DOMAIN rack \ {index} : rack'[i] = rack[i]
        BY <1>1, <3>1, ActivationRack
      <3>3. rack[index] \in Slots
        BY <1>1, <3>2, StateFacts
      <3>4. PICK inst \in Instances : inst = Prepared(rack[index], index)
        BY <1>1, <3>3, PreparedType DEF TypeOK, BackendTypeOK
      <3>5. install(inst)
        BY <3>1, <3>4 DEF ActivateSlot
      <3>6. is_active' /\ Instance' = inst
        BY <3>5, NoneAssumption
        DEF install, activate_plugin_sandboxed, is_active, Instance
      <3>7. /\ inst.id = rack[index].id
            /\ \A p \in DOMAIN rack[index].staged_changes :
                 inst.live[p] = rack[index].staged_changes[p]
        BY <1>1, <3>3, <3>4, PreparedComputes DEF TypeOK, BackendTypeOK
      <3>8. ASSUME NEW i \in DOMAIN rack, NEW j \in SlotAt(rack', rack[i].id),
                   NEW p \in DOMAIN rack[i].staged_changes \ DOMAIN rack'[j].staged_changes
            PROVE  i = index
        <4>1. j \in DOMAIN rack /\ rack[j].id = rack[i].id
          BY <3>2 DEF SlotAt
        <4>2. j = i
          BY <1>1, <4>1 DEF Distinct
        <4> QED BY <3>2, <4>2
      <3> QED BY <3>6, <3>7, <3>8
    <2> QED BY <1>1, <2>1, <2>2, RackStep
  <1>2. TypeOK /\ ShadowRackCurrent /\ RackDistinct /\ [Next]_vars => [A]_vars
    BY <1>1 DEF RackDistinct
  <1> QED BY <1>2, TypeCorrect, ShadowFitToRestore, SlotsDistinct, PTL
          DEF Spec, StagedChangesReachThePlugin
=============================================================================
